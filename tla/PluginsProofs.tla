---------------------------- MODULE PluginsProofs ----------------------------
(****************************************************************************)
(* A theorem about the plugin manager, for every number of tasks, plugins   *)
(* and calls.  The invariant has a part for each part of the property: what *)
(* a call has done so far to its plugin (MapsInd), how many registrations   *)
(* are between check and insertion (LimitInd) and what a dispatch still     *)
(* owes a run (DueInd); OverLimitIsDisabled needs no strengthening.         *)
(****************************************************************************)
EXTENDS Plugins, DataLemmas

Kind  == ToSet(Kinds)
Place == Lifecycle \cup {"idle", "enable", "dispatch", "returned"}
Job   == [at : Place, name : Plugin \cup {""}, kind : Kind \cup {""}, list : Seq(Plugin), next : Nat]

PlugTypes ==
  /\ IsFiniteSet(registered) /\ crowded \in BOOLEAN
  /\ hooks \in [Kind -> Seq(Plugin)]
  /\ errors \in [Plugin -> [count : Nat, old : BOOLEAN]]
  /\ job \in [PlugTask -> Job]
  /\ live \in [PlugTask -> SUBSET Nat] /\ due \in [PlugTask -> SUBSET Nat]
  /\ ran \in [PlugTask -> SUBSET Nat]
  /\ pending \subseteq PlugTask \X Nat \X Plugin
  /\ \A t \in PlugTask :
       /\ job[t].at \in Lifecycle \cup {"enable"} => job[t].name \in Plugin
       /\ job[t].at = "dispatch" => job[t].next >= 1
       /\ live[t] \subseteq 1 .. Len(job[t].list) /\ (job[t].at # "dispatch" => live[t] = {})

(* A task's step: everything about its job but the kind.                    *)
Turns(t, place, name, list, next) ==
  /\ job' \in [PlugTask -> Job]
  /\ \A u \in PlugTask \ {t} : job'[u] = job[u]
  /\ job'[t].at = place /\ job'[t].name = name /\ job'[t].list = list /\ job'[t].next = next

LEMMA KindIs == Kind = {"OnCommit", "OnQuery", "OnSchedule"} /\ Len(Kinds) = 3
                /\ Kinds[1] = "OnCommit" /\ Kinds[2] = "OnQuery" /\ Kinds[3] = "OnSchedule"
<1>1. Len(Kinds) = 3 /\ Kinds[1] = "OnCommit" /\ Kinds[2] = "OnQuery" /\ Kinds[3] = "OnSchedule"
      /\ DOMAIN Kinds = 1 .. 3
  BY DEF Kinds
<1>2. Kind = {Kinds[i] : i \in DOMAIN Kinds}
  BY DEF Kind, ToSet
<1>3. 1 .. 3 = {1, 2, 3}
  OBVIOUS
<1> QED BY <1>1, <1>2, <1>3

LEMMA IdleType == Idle \in Job
BY DEF Idle, Job, Place

LEMMA SetJob ==
  ASSUME PlugTypes, NEW t \in PlugTask, NEW new \in Job, job' = [job EXCEPT ![t] = new]
  PROVE  Turns(t, new.at, new.name, new.list, new.next)
<1>1. job \in [PlugTask -> Job]
  BY DEF PlugTypes
<1> QED BY <1>1 DEF Turns

LEMMA ToTurns ==
  ASSUME PlugTypes, NEW t \in PlugTask, NEW place \in Place, To(t, place)
  PROVE  Turns(t, place, job[t].name, job[t].list, job[t].next)
<1>1. job[t] \in Job
  BY DEF PlugTypes
<1>2. PICK new : new = [job[t] EXCEPT !.at = place]
  OBVIOUS
<1>3. /\ new \in Job /\ new.at = place /\ new.name = job[t].name /\ new.list = job[t].list
      /\ new.next = job[t].next
  BY <1>1, <1>2 DEF Job
<1>4. job' = [job EXCEPT ![t] = new]
  BY <1>2 DEF To
<1>5. Turns(t, new.at, new.name, new.list, new.next)
  BY <1>3, <1>4, SetJob
<1> QED BY <1>3, <1>5

LEMMA EndsTurns ==
  ASSUME PlugTypes, NEW t \in PlugTask, Ends(t)
  PROVE  Turns(t, "idle", "", <<>>, 0)
<1>1. Turns(t, Idle.at, Idle.name, Idle.list, Idle.next)
  BY IdleType, SetJob DEF Ends
<1>2. Idle.at = "idle" /\ Idle.name = "" /\ Idle.list = <<>> /\ Idle.next = 0
  BY DEF Idle
<1> QED BY <1>1, <1>2

LEMMA StartsTurns ==
  ASSUME PlugTypes, NEW t \in PlugTask, NEW place \in Place, NEW p \in Plugin, Starts(t, place, p)
  PROVE  Turns(t, place, p, <<>>, 0)
<1>1. PICK new : new = [Idle EXCEPT !.at = place, !.name = p]
  OBVIOUS
<1>2. new = [at |-> place, name |-> p, kind |-> "", list |-> <<>>, next |-> 0]
  BY <1>1 DEF Idle
<1>3. new \in Job
  <2>1. p \in Plugin \cup {""} /\ "" \in Kind \cup {""}
    BY Zenon
  <2>2. <<>> \in Seq(Plugin) /\ 0 \in Nat
    OBVIOUS
  <2> QED BY <1>2, <2>1, <2>2 DEF Job
<1>4. Turns(t, new.at, new.name, new.list, new.next)
  BY <1>1, <1>3, SetJob DEF Starts
<1> QED BY <1>2, <1>4

LEMMA NextTurns ==
  ASSUME PlugTypes, NEW t \in PlugTask, NEW place \in Place, NEW n \in Nat,
         job' = [job EXCEPT ![t].at = place, ![t].next = n]
  PROVE  Turns(t, place, job[t].name, job[t].list, n)
<1>1. job[t] \in Job
  BY DEF PlugTypes
<1>2. PICK new : new = [job[t] EXCEPT !.at = place, !.next = n]
  OBVIOUS
<1>3. new = [at |-> place, name |-> job[t].name, kind |-> job[t].kind, list |-> job[t].list, next |-> n]
  BY <1>1, <1>2 DEF Job
<1>4. new \in Job
  BY <1>1, <1>3 DEF Job
<1>5. job' = [job EXCEPT ![t] = new]
  <2>1. job \in [PlugTask -> Job]
    BY DEF PlugTypes
  <2> QED BY <1>2, <2>1
<1>6. Turns(t, new.at, new.name, new.list, new.next)
  BY <1>4, <1>5, SetJob
<1> QED BY <1>3, <1>6

LEMMA StepTurns ==
  ASSUME PlugTypes, NEW t \in PlugTask, job' = [job EXCEPT ![t].next = @ + 1]
  PROVE  Turns(t, job[t].at, job[t].name, job[t].list, job[t].next + 1)
<1>1. job[t] \in Job /\ job[t].next \in Nat
  BY DEF PlugTypes, Job
<1>2. PICK new : new = [job[t] EXCEPT !.next = job[t].next + 1]
  OBVIOUS
<1>3. /\ new \in Job /\ new.at = job[t].at /\ new.name = job[t].name /\ new.list = job[t].list
      /\ new.next = job[t].next + 1
  <2>1. job[t].next + 1 \in Nat
    BY <1>1
  <2>2. new = [at |-> job[t].at, name |-> job[t].name, kind |-> job[t].kind, list |-> job[t].list,
               next |-> job[t].next + 1]
    BY <1>1, <1>2 DEF Job
  <2> QED BY <1>1, <2>1, <2>2 DEF Job
<1>4. job' = [job EXCEPT ![t] = new]
  BY <1>2
<1>5. Turns(t, new.at, new.name, new.list, new.next)
  BY <1>3, <1>4, SetJob
<1> QED BY <1>3, <1>5

(* The types after a step of a task that is not dispatching, nor after it.  *)
LEMMA QuietTypes ==
  ASSUME PlugTypes, NEW t \in PlugTask, NEW place, NEW name, NEW list, NEW next,
         Turns(t, place, name, list, next), place # "dispatch", live[t] = {}, live' = live,
         place \in Lifecycle \cup {"enable"} => name \in Plugin,
         IsFiniteSet(registered'), crowded' \in BOOLEAN, hooks' \in [Kind -> Seq(Plugin)],
         errors' \in [Plugin -> [count : Nat, old : BOOLEAN]],
         due' \in [PlugTask -> SUBSET Nat], ran' \in [PlugTask -> SUBSET Nat],
         pending' \subseteq PlugTask \X Nat \X Plugin
  PROVE  PlugTypes'
<1>1. job' \in [PlugTask -> Job] /\ live' \in [PlugTask -> SUBSET Nat]
  BY DEF PlugTypes, Turns
<1>2. ASSUME NEW u \in PlugTask
      PROVE  /\ job'[u].at \in Lifecycle \cup {"enable"} => job'[u].name \in Plugin
             /\ job'[u].at = "dispatch" => job'[u].next >= 1
             /\ live'[u] \subseteq 1 .. Len(job'[u].list) /\ (job'[u].at # "dispatch" => live'[u] = {})
  <2>1. CASE u = t
    BY <2>1 DEF Turns
  <2>2. CASE u # t
    BY <2>2 DEF Turns, PlugTypes
  <2> QED BY <2>1, <2>2
<1> QED BY <1>1, <1>2 DEF PlugTypes

LEMMA UndueType ==
  ASSUME PlugTypes, NEW p, Undue(p)
  PROVE  due' \in [PlugTask -> SUBSET Nat]
BY DEF PlugTypes, Undue

LEMMA TypeFacts ==
  ASSUME PlugTypes
  PROVE  /\ IsFiniteSet(registered) /\ crowded \in BOOLEAN /\ hooks \in [Kind -> Seq(Plugin)]
         /\ errors \in [Plugin -> [count : Nat, old : BOOLEAN]]
         /\ due \in [PlugTask -> SUBSET Nat] /\ ran \in [PlugTask -> SUBSET Nat]
         /\ live \in [PlugTask -> SUBSET Nat]
         /\ pending \subseteq PlugTask \X Nat \X Plugin
         /\ DOMAIN hooks = Kind
         /\ \A t \in PlugTask : /\ job[t] \in Job
                                /\ job[t].at \in Lifecycle \cup {"enable"} => job[t].name \in Plugin
                                /\ job[t].at # "dispatch" => live[t] = {}
BY DEF PlugTypes

LEMMA NoErrorsType == NoErrors \in [count : Nat, old : BOOLEAN]
BY DEF NoErrors

(* The steps of register, unregister, enable and disable.                   *)
LEMMA TypesRegister ==
  ASSUME PlugTypes, NEW t \in PlugTask, NEW p \in Plugin,
         RegisterBegin(t, p) \/ RegisterCheck(t) \/ RegisterDeps(t) \/ RegisterInsert(t)
           \/ RegisterList(t) \/ RegisterHook(t)
  PROVE  PlugTypes'
<1>1. live' = live /\ due' = due /\ ran' = ran /\ pending' = pending /\ errors' = errors
  BY DEF RegisterBegin, RegisterCheck, RegisterDeps, RegisterInsert, RegisterList, RegisterHook,
         dispatch, maps
<1>2. live[t] = {} /\ job[t].at # "dispatch"
  <2>1. job[t].at # "dispatch"
    BY DEF RegisterBegin, RegisterCheck, RegisterDeps, RegisterInsert, RegisterList, RegisterHook,
           At, Call
  <2> QED BY <2>1, TypeFacts
<1>3. IsFiniteSet(registered')
  <2>1. CASE RegisterInsert(t)
    <3>1. registered' = registered \cup {job[t].name}
      BY <2>1 DEF RegisterInsert
    <3>2. IsFiniteSet(registered \cup {job[t].name})
      <4>1. IsFiniteSet(registered)
        BY TypeFacts
      <4>2. PICK n : n = job[t].name
        OBVIOUS
      <4>3. IsFiniteSet(registered \cup {n})
        BY <4>1, FS_AddElement
      <4> QED BY <4>2, <4>3
    <3> QED BY <3>1, <3>2
  <2>2. CASE ~RegisterInsert(t)
    <3>1. registered' = registered
      BY <2>2 DEF RegisterBegin, RegisterCheck, RegisterDeps, RegisterList, RegisterHook, maps
    <3> QED BY <3>1, TypeFacts
  <2> QED BY <2>1, <2>2
<1>4. crowded' \in BOOLEAN
  <2>1. CASE RegisterBegin(t, p)
    <3>1. crowded' = crowded \/ crowded' = (crowded \/ \E u \in PlugTask : job[u].at \in Entering)
      BY <2>1 DEF RegisterBegin, met
    <3> QED BY <3>1, TypeFacts, Zenon
  <2>2. CASE ~RegisterBegin(t, p)
    <3>1. crowded' = crowded
      BY <2>2 DEF RegisterCheck, RegisterDeps, RegisterInsert, RegisterList, RegisterHook, met
    <3> QED BY <3>1, TypeFacts
  <2> QED BY <2>1, <2>2
<1>5. CASE RegisterHook(t)
  <2>1. job[t].at = "hook" /\ job[t].name \in Plugin /\ hooks \in [Kind -> Seq(Plugin)]
    BY <1>5, TypeFacts DEF RegisterHook, At, Lifecycle
  <2>2. hooks' = [hooks EXCEPT ![Kinds[job[t].next]] = Append(@, job[t].name)]
    BY <1>5 DEF RegisterHook
  <2>3. hooks' \in [Kind -> Seq(Plugin)]
    <3>1. PICK k : k = Kinds[job[t].next]
      OBVIOUS
    <3>2. PICK n \in Plugin : n = job[t].name
      BY <2>1
    <3>3. PICK s : s = Append(hooks[k], n)
      OBVIOUS
    <3>4. k \in Kind => s \in Seq(Plugin)
      BY <2>1, <3>2, <3>3
    <3>5. hooks' = [hooks EXCEPT ![k] = s]
      BY <2>2, <3>1, <3>2, <3>3
    <3> QED BY <2>1, <3>4, <3>5
  <2>4. CASE Ends(t)
    <3>1. Turns(t, "idle", "", <<>>, 0)
      BY <2>4, EndsTurns
    <3> QED BY <1>1, <1>2, <1>3, <1>4, <2>3, <3>1, QuietTypes, TypeFacts DEF Lifecycle
  <2>5. CASE job' = [job EXCEPT ![t].next = @ + 1]
    <3>1. Turns(t, job[t].at, job[t].name, job[t].list, job[t].next + 1)
      BY <2>5, StepTurns
    <3> QED BY <1>1, <1>2, <1>3, <1>4, <2>1, <2>3, <3>1, QuietTypes, TypeFacts
  <2> QED BY <1>5, <2>4, <2>5 DEF RegisterHook
<1>6. CASE ~RegisterHook(t)
  <2>1. hooks' = hooks
    BY <1>6 DEF RegisterBegin, RegisterCheck, RegisterDeps, RegisterInsert, RegisterList, maps
  <2>2. CASE RegisterBegin(t, p)
    <3>1. CASE job' = job
      BY <1>1, <1>3, <1>4, <2>1, <3>1 DEF PlugTypes
    <3>2. CASE Starts(t, "check", p)
      <4>1. Turns(t, "check", p, <<>>, 0)
        BY <3>2, StartsTurns DEF Place, Lifecycle
      <4> QED BY <1>1, <1>2, <1>3, <1>4, <2>1, <4>1, QuietTypes, TypeFacts
    <3> QED BY <2>2, <3>1, <3>2 DEF RegisterBegin
  <2>3. CASE RegisterCheck(t) \/ RegisterDeps(t) \/ RegisterInsert(t)
    <3>1. job[t].name \in Plugin
      BY <2>3, TypeFacts DEF RegisterCheck, RegisterDeps, RegisterInsert, At, Lifecycle
    <3>2. CASE Ends(t)
      <4>1. Turns(t, "idle", "", <<>>, 0)
        BY <3>2, EndsTurns
      <4> QED BY <1>1, <1>2, <1>3, <1>4, <2>1, <4>1, QuietTypes, TypeFacts DEF Lifecycle
    <3>3. ASSUME NEW place \in {"deps", "insert", "list"}, To(t, place) PROVE PlugTypes'
      <4>1. Turns(t, place, job[t].name, job[t].list, job[t].next)
        BY <3>3, ToTurns DEF Place, Lifecycle
      <4> QED BY <1>1, <1>2, <1>3, <1>4, <2>1, <3>1, <4>1, QuietTypes, TypeFacts
    <3> QED BY <2>3, <3>2, <3>3 DEF RegisterCheck, RegisterDeps, RegisterInsert
  <2>4. CASE RegisterList(t)
    <3>1. job[t].name \in Plugin
      BY <2>4, TypeFacts DEF RegisterList, At, Lifecycle
    <3>2. Turns(t, "hook", job[t].name, job[t].list, 1)
      BY <2>4, NextTurns DEF RegisterList, Place, Lifecycle
    <3> QED BY <1>1, <1>2, <1>3, <1>4, <2>1, <3>1, <3>2, QuietTypes, TypeFacts
  <2> QED BY <1>6, <2>2, <2>3, <2>4
<1> QED BY <1>5, <1>6

LEMMA TypesUnregister ==
  ASSUME PlugTypes, NEW t \in PlugTask, NEW p \in Plugin,
         Unhook(t, p) \/ Deregister(t) \/ Unlist(t) \/ Enable(t, p) \/ EnableReset(t) \/ Disable(t, p)
  PROVE  PlugTypes'
<1>1. live' = live /\ ran' = ran /\ pending' = pending /\ crowded' = crowded
  BY DEF Unhook, Deregister, Unlist, Enable, EnableReset, Disable, dispatch, met
<1>2. live[t] = {} /\ job[t].at # "dispatch"
  <2>1. job[t].at # "dispatch"
    BY DEF Unhook, Deregister, Unlist, Enable, EnableReset, Disable, At, Call
  <2> QED BY <2>1, TypeFacts
<1>3. due' \in [PlugTask -> SUBSET Nat]
  <2>1. due' = due \/ \E q : Undue(q)
    BY DEF Unhook, Deregister, Unlist, Enable, EnableReset, Disable, dispatch
  <2> QED BY <2>1, TypeFacts, UndueType
<1>4. IsFiniteSet(registered')
  <2>1. registered' \subseteq registered
    BY DEF Unhook, Deregister, Unlist, Enable, EnableReset, Disable
  <2> QED BY <2>1, TypeFacts, FS_Subset
<1>5. hooks' \in [Kind -> Seq(Plugin)]
  <2>1. CASE Unhook(t, p)
    <3>1. hooks' = [k \in Kind |-> Only(hooks[k], Plugin \ {p})]
      BY <2>1, TypeFacts DEF Unhook
    <3>2. \A k \in Kind : Only(hooks[k], Plugin \ {p}) \in Seq(Plugin)
      BY TypeFacts, OnlyType
    <3> QED BY <3>1, <3>2
  <2>2. CASE ~Unhook(t, p)
    <3>1. hooks' = hooks
      BY <2>2 DEF Deregister, Unlist, Enable, EnableReset, Disable
    <3> QED BY <3>1, TypeFacts
  <2> QED BY <2>1, <2>2
<1>6. errors' \in [Plugin -> [count : Nat, old : BOOLEAN]]
  <2>1. errors' = errors \/ \E q : errors' = [errors EXCEPT ![q] = NoErrors]
    BY DEF Unhook, Deregister, Unlist, Enable, EnableReset, Disable
  <2> QED BY <2>1, TypeFacts, NoErrorsType
<1>7. CASE Ends(t)
  <2>1. Turns(t, "idle", "", <<>>, 0)
    BY <1>7, EndsTurns
  <2> QED BY <1>1, <1>2, <1>3, <1>4, <1>5, <1>6, <2>1, QuietTypes, TypeFacts DEF Lifecycle
<1>8. CASE job' = job
  BY <1>1, <1>3, <1>4, <1>5, <1>6, <1>8 DEF PlugTypes
<1>9. ASSUME NEW place \in {"remove", "enable"}, Starts(t, place, p) PROVE PlugTypes'
  <2>1. Turns(t, place, p, <<>>, 0)
    BY <1>9, StartsTurns DEF Place, Lifecycle
  <2> QED BY <1>1, <1>2, <1>3, <1>4, <1>5, <1>6, <2>1, QuietTypes, TypeFacts
<1>10. CASE Deregister(t) /\ To(t, "unlist")
  <2>1. Turns(t, "unlist", job[t].name, job[t].list, job[t].next)
    BY <1>10, ToTurns DEF Place, Lifecycle
  <2>2. job[t].name \in Plugin
    BY <1>10, TypeFacts DEF Deregister, At, Lifecycle
  <2> QED BY <1>1, <1>2, <1>3, <1>4, <1>5, <1>6, <2>1, <2>2, QuietTypes, TypeFacts
<1> QED BY <1>7, <1>8, <1>9, <1>10 DEF Unhook, Deregister, Unlist, Enable, EnableReset, Disable

(* The types after a step of a dispatch: what it changes is the task's own, *)
(* the error counts and what is to be disabled.                             *)
LEMMA DispatchTypes ==
  ASSUME PlugTypes, NEW t \in PlugTask, NEW place \in {"idle", "dispatch", "returned"}, NEW name, NEW list,
         NEW next, Turns(t, place, name, list, next), place = "dispatch" => next >= 1,
         live' \in [PlugTask -> SUBSET Nat], \A u \in PlugTask \ {t} : live'[u] = live[u],
         live'[t] \subseteq 1 .. Len(list), place # "dispatch" => live'[t] = {},
         registered' = registered, crowded' = crowded, hooks' = hooks,
         errors' \in [Plugin -> [count : Nat, old : BOOLEAN]],
         due' \in [PlugTask -> SUBSET Nat], ran' \in [PlugTask -> SUBSET Nat],
         pending' \subseteq PlugTask \X Nat \X Plugin
  PROVE  PlugTypes'
<1>1. job' \in [PlugTask -> Job]
  BY DEF Turns
<1>2. ASSUME NEW u \in PlugTask
      PROVE  /\ job'[u].at \in Lifecycle \cup {"enable"} => job'[u].name \in Plugin
             /\ job'[u].at = "dispatch" => job'[u].next >= 1
             /\ live'[u] \subseteq 1 .. Len(job'[u].list) /\ (job'[u].at # "dispatch" => live'[u] = {})
  <2>1. CASE u = t
    BY <2>1 DEF Turns, Lifecycle
  <2>2. CASE u # t
    BY <2>2 DEF Turns, PlugTypes
  <2> QED BY <2>1, <2>2
<1> QED BY <1>1, <1>2 DEF PlugTypes

LEMMA BeginTurns ==
  ASSUME PlugTypes, NEW t \in PlugTask, NEW k \in Kind, Dispatch(t, k)
  PROVE  Turns(t, "dispatch", "", hooks[k], 1) /\ hooks[k] \in Seq(Plugin)
<1>1. hooks[k] \in Seq(Plugin)
  BY TypeFacts
<1>2. PICK new : new = [Idle EXCEPT !.at = "dispatch", !.kind = k, !.list = hooks[k], !.next = 1]
  OBVIOUS
<1>3. new = [at |-> "dispatch", name |-> "", kind |-> k, list |-> hooks[k], next |-> 1]
  BY <1>2 DEF Idle
<1>4. new \in Job
  <2>1. "dispatch" \in Place /\ "" \in Plugin \cup {""} /\ k \in Kind \cup {""}
    BY Zenon DEF Place
  <2>2. 1 \in Nat
    OBVIOUS
  <2> QED BY <1>1, <1>3, <2>1, <2>2 DEF Job
<1>5. Turns(t, new.at, new.name, new.list, new.next)
  BY <1>2, <1>4, SetJob DEF Dispatch
<1> QED BY <1>1, <1>3, <1>5

LEMMA TypesDispatch ==
  ASSUME PlugTypes, NEW t \in PlugTask,
         \/ \E k \in Kind : Dispatch(t, k)
         \/ RunHook(t) \/ DispatchEnds(t) \/ Returned(t)
  PROVE  PlugTypes'
<1>1. /\ registered' = registered /\ crowded' = crowded /\ hooks' = hooks /\ errors' = errors
      /\ pending' = pending
  BY DEF Dispatch, RunHook, DispatchEnds, Returned, maps, met, dispatch
<1>2. /\ errors' \in [Plugin -> [count : Nat, old : BOOLEAN]] /\ pending' \subseteq PlugTask \X Nat \X Plugin
      /\ live \in [PlugTask -> SUBSET Nat] /\ due \in [PlugTask -> SUBSET Nat]
      /\ ran \in [PlugTask -> SUBSET Nat]
  BY <1>1, TypeFacts
<1>3. ASSUME NEW k \in Kind, Dispatch(t, k) PROVE PlugTypes'
  <2>1. live' = live /\ live[t] = {}
    BY <1>3, TypeFacts DEF Dispatch, Call, At
  <2>2. due' \in [PlugTask -> SUBSET Nat] /\ ran' \in [PlugTask -> SUBSET Nat]
    <3>1. due' = [due EXCEPT ![t] = {i \in DOMAIN hooks[k] : Runnable(hooks[k][i])}]
          /\ ran' = [ran EXCEPT ![t] = {}]
      BY <1>3 DEF Dispatch
    <3>2. DOMAIN hooks[k] \subseteq Nat
      <4>1. PICK s \in Seq(Plugin) : s = hooks[k]
        BY TypeFacts
      <4>2. DOMAIN s = 1 .. Len(s) /\ Len(s) \in Nat
        BY <4>1
      <4> QED BY <4>1, <4>2
    <3> QED BY <1>2, <3>1, <3>2
  <2>3. Turns(t, "dispatch", "", hooks[k], 1)
    BY <1>3, BeginTurns
  <2>4. live' \in [PlugTask -> SUBSET Nat] /\ (\A u \in PlugTask \ {t} : live'[u] = live[u])
        /\ live'[t] \subseteq 1 .. Len(hooks[k])
    BY <1>2, <2>1
  <2>5. PICK s : s = hooks[k]
    OBVIOUS
  <2>6. Turns(t, "dispatch", "", s, 1) /\ live'[t] \subseteq 1 .. Len(s)
    BY <2>3, <2>4, <2>5
  <2>7. ("dispatch" = "dispatch" => 1 >= 1) /\ ("dispatch" # "dispatch" => live'[t] = {})
        /\ "dispatch" \in {"idle", "dispatch", "returned"}
    OBVIOUS
  <2> QED BY <1>1, <1>2, <2>2, <2>4, <2>6, <2>7, DispatchTypes
<1>4. CASE RunHook(t)
  <2>1. PICK n \in Nat : n = job[t].next
    BY TypeFacts DEF Job
  <2>2. /\ job[t].at = "dispatch" /\ n <= Len(job[t].list)
        /\ job' = [job EXCEPT ![t].next = @ + 1]
        /\ live' = [live EXCEPT ![t] = IF Runnable(job[t].list[n]) THEN @ \cup {n} ELSE @]
        /\ due' = due /\ ran' = ran
    BY <1>4, <2>1 DEF RunHook, At
  <2>3. Turns(t, job[t].at, job[t].name, job[t].list, job[t].next + 1)
    BY <2>2, StepTurns
  <2>4. live' \in [PlugTask -> SUBSET Nat] /\ (\A u \in PlugTask \ {t} : live'[u] = live[u])
        /\ live'[t] \subseteq live[t] \cup {n}
    BY <1>2, <2>2
  <2>5. live'[t] \subseteq 1 .. Len(job[t].list)
    <3>1. live[t] \subseteq 1 .. Len(job[t].list)
      BY DEF PlugTypes
    <3>2. n \in 1 .. Len(job[t].list)
      <4>1. n >= 1
        BY <2>1, <2>2 DEF PlugTypes
      <4>2. Len(job[t].list) \in Nat
        <5>1. PICK s \in Seq(Plugin) : s = job[t].list
          BY TypeFacts DEF Job
        <5> QED BY <5>1
      <4> QED BY <2>2, <4>1, <4>2
    <3> QED BY <2>4, <3>1, <3>2
  <2>6. job[t].next + 1 >= 1
    BY <2>1
  <2> QED BY <1>1, <1>2, <2>2, <2>3, <2>4, <2>5, <2>6, DispatchTypes
<1>5. CASE DispatchEnds(t)
  <2>1. live[t] = {} /\ live' = live /\ due' = due /\ ran' = ran /\ To(t, "returned")
    BY <1>5 DEF DispatchEnds, dispatch
  <2>2. Turns(t, "returned", job[t].name, job[t].list, job[t].next)
    BY <2>1, ToTurns DEF Place
  <2> QED BY <1>1, <1>2, <2>1, <2>2, DispatchTypes
<1>6. CASE Returned(t)
  <2>1. live[t] = {} /\ live' = live /\ Ends(t)
    BY <1>6, TypeFacts DEF Returned, At
  <2>2. Turns(t, "idle", "", <<>>, 0)
    BY <2>1, EndsTurns
  <2>3. due' \in [PlugTask -> SUBSET Nat] /\ ran' \in [PlugTask -> SUBSET Nat]
    BY <1>2, <1>6 DEF Returned
  <2> QED BY <1>1, <1>2, <2>1, <2>2, <2>3, DispatchTypes
<1> QED BY <1>3, <1>4, <1>5, <1>6


(* The types after a step that leaves every task where it is and starts no  *)
(* hook.                                                                    *)
LEMMA StillTypes ==
  ASSUME PlugTypes, job' = job, live' \in [PlugTask -> SUBSET Nat],
         \A u \in PlugTask : live'[u] \subseteq live[u],
         registered' = registered, crowded' = crowded, hooks' = hooks,
         errors' \in [Plugin -> [count : Nat, old : BOOLEAN]],
         due' \in [PlugTask -> SUBSET Nat], ran' \in [PlugTask -> SUBSET Nat],
         pending' \subseteq PlugTask \X Nat \X Plugin
  PROVE  PlugTypes'
<1>1. ASSUME NEW u \in PlugTask
      PROVE  /\ job'[u].at \in Lifecycle \cup {"enable"} => job'[u].name \in Plugin
             /\ job'[u].at = "dispatch" => job'[u].next >= 1
             /\ live'[u] \subseteq 1 .. Len(job'[u].list) /\ (job'[u].at # "dispatch" => live'[u] = {})
  <2>1. live[u] \subseteq 1 .. Len(job[u].list) /\ (job[u].at # "dispatch" => live[u] = {})
        /\ live'[u] \subseteq live[u]
    BY DEF PlugTypes
  <2> QED BY <2>1 DEF PlugTypes
<1> QED BY <1>1 DEF PlugTypes

LEMMA RanTypes ==
  ASSUME PlugTypes, NEW t \in PlugTask, NEW i, Ran(t, i)
  PROVE  /\ live' \in [PlugTask -> SUBSET Nat] /\ ran' \in [PlugTask -> SUBSET Nat]
         /\ \A u \in PlugTask : live'[u] \subseteq live[u]
<1>1. live \in [PlugTask -> SUBSET Nat] /\ ran \in [PlugTask -> SUBSET Nat]
      /\ due \in [PlugTask -> SUBSET Nat]
  BY TypeFacts
<1>2. live' = [live EXCEPT ![t] = live[t] \ {i}]
      /\ ran' = [ran EXCEPT ![t] = IF i \in due[t] THEN ran[t] \cup {i} ELSE ran[t]]
  BY DEF Ran
<1>3. (IF i \in due[t] THEN ran[t] \cup {i} ELSE ran[t]) \in SUBSET Nat /\ live[t] \ {i} \in SUBSET Nat
  BY <1>1
<1> QED BY <1>1, <1>2, <1>3

LEMMA TypesHooks ==
  ASSUME PlugTypes,
         \/ \E t \in PlugTask : \E i \in live[t] : HookOk(t, i) \/ HookFails(t, i)
         \/ \E q \in pending : AutoDisable(q)
         \/ \E p \in Plugin : WindowPasses(p)
  PROVE  PlugTypes'
<1>1. registered' = registered /\ crowded' = crowded /\ hooks' = hooks
  BY DEF HookOk, HookFails, AutoDisable, WindowPasses, maps, met
<1>2. /\ errors \in [Plugin -> [count : Nat, old : BOOLEAN]] /\ pending \subseteq PlugTask \X Nat \X Plugin
      /\ live \in [PlugTask -> SUBSET Nat] /\ due \in [PlugTask -> SUBSET Nat]
      /\ ran \in [PlugTask -> SUBSET Nat]
  BY TypeFacts
<1>3. ASSUME NEW t \in PlugTask, NEW i \in live[t], HookOk(t, i)
      PROVE  PlugTypes'
  <2>1. errors' = errors /\ pending' = pending
    BY <1>3 DEF HookOk, maps
  <2>2. CASE Ran(t, i) /\ UNCHANGED <<job, due>>
    BY <1>1, <1>2, <2>1, <2>2, RanTypes, StillTypes
  <2>3. CASE /\ Ends(t) /\ live' = [live EXCEPT ![t] = {}]
             /\ due' = [due EXCEPT ![t] = {}] /\ ran' = [ran EXCEPT ![t] = {}]
    <3>1. Turns(t, "idle", "", <<>>, 0)
      BY <2>3, EndsTurns
    <3>2. live' \in [PlugTask -> SUBSET Nat] /\ (\A u \in PlugTask \ {t} : live'[u] = live[u])
          /\ live'[t] = {} /\ due' \in [PlugTask -> SUBSET Nat] /\ ran' \in [PlugTask -> SUBSET Nat]
      BY <1>2, <2>3
    <3> QED BY <1>1, <1>2, <2>1, <3>1, <3>2, DispatchTypes
  <2> QED BY <1>3, <2>2, <2>3 DEF HookOk
<1>4. ASSUME NEW t \in PlugTask, NEW i \in live[t], HookFails(t, i)
      PROVE  PlugTypes'
  <2>1. Ran(t, i) /\ job' = job /\ due' = due
    BY <1>4 DEF HookFails
  <2>2. i \in Nat /\ job[t].list[i] \in Plugin
    <3>1. PICK s \in Seq(Plugin) : s = job[t].list
      BY TypeFacts DEF Job
    <3>2. i \in 1 .. Len(s)
      BY <3>1 DEF PlugTypes
    <3> QED BY <3>1, <3>2
  <2>3. PICK p \in Plugin, n \in Nat :
          /\ errors' = [errors EXCEPT ![p] = [count |-> n, old |-> FALSE]]
          /\ pending' \subseteq pending \cup {<<t, i, p>>}
    <3>1. PICK p \in Plugin : p = job[t].list[i]
      BY <2>2
    <3>2. PICK n : n = IF errors[p].old THEN 1 ELSE errors[p].count + 1
      OBVIOUS
    <3>3. n \in Nat
      BY <1>2, <3>2
    <3>4. errors' = [errors EXCEPT ![p] = [count |-> n, old |-> FALSE]]
          /\ pending' = IF n >= MaxErrors THEN pending \cup {<<t, i, p>>} ELSE pending
      BY <1>4, <3>1, <3>2 DEF HookFails
    <3> QED BY <3>3, <3>4
  <2>4. errors' \in [Plugin -> [count : Nat, old : BOOLEAN]]
    BY <1>2, <2>3
  <2>5. pending' \subseteq PlugTask \X Nat \X Plugin
    BY <1>2, <2>2, <2>3
  <2> QED BY <1>1, <1>2, <2>1, <2>4, <2>5, RanTypes, StillTypes
<1>5. ASSUME NEW q \in pending, AutoDisable(q) PROVE PlugTypes'
  <2>1. /\ errors' = errors /\ pending' \subseteq pending /\ live' = live /\ ran' = ran /\ job' = job
        /\ Undue(q[3])
    BY <1>5 DEF AutoDisable
  <2>2. due' \in [PlugTask -> SUBSET Nat]
    BY <2>1, UndueType
  <2> QED BY <1>1, <1>2, <2>1, <2>2, StillTypes
<1>6. ASSUME NEW p \in Plugin, WindowPasses(p) PROVE PlugTypes'
  <2>1. /\ pending' = pending /\ live' = live /\ ran' = ran /\ due' = due /\ job' = job
        /\ errors' = [errors EXCEPT ![p].old = TRUE]
    BY <1>6 DEF WindowPasses, dispatch
  <2>2. errors' \in [Plugin -> [count : Nat, old : BOOLEAN]]
    BY <1>2, <2>1
  <2> QED BY <1>1, <1>2, <2>1, <2>2, StillTypes
<1> QED BY <1>3, <1>4, <1>5, <1>6

LEMMA PlugTypesInit == PluginsInit => PlugTypes
<1> SUFFICES ASSUME PluginsInit PROVE PlugTypes
  OBVIOUS
<1>1. registered = {} /\ crowded = FALSE /\ hooks = [k \in Kind |-> <<>>] /\ pending = {}
      /\ errors = [p \in Plugin |-> NoErrors] /\ job = [t \in PlugTask |-> Idle]
      /\ live = [t \in PlugTask |-> {}] /\ due = [t \in PlugTask |-> {}] /\ ran = [t \in PlugTask |-> {}]
  BY DEF PluginsInit, Kind
<1>2. IsFiniteSet(registered)
  BY <1>1, FS_EmptySet
<1>3. hooks \in [Kind -> Seq(Plugin)]
  BY <1>1
<1>4. errors \in [Plugin -> [count : Nat, old : BOOLEAN]]
  BY <1>1, NoErrorsType
<1>5. job \in [PlugTask -> Job]
  BY <1>1, IdleType
<1>6. \A t \in PlugTask : job[t].at = "idle" /\ live[t] = {}
  BY <1>1 DEF Idle
<1> QED BY <1>1, <1>2, <1>3, <1>4, <1>5, <1>6 DEF PlugTypes, Lifecycle

(* The steps, by who takes them: a call that is under way, a call that      *)
(* begins with a plugin, a dispatch, and what comes of a hook.              *)
Alone(t) ==
  \/ RegisterCheck(t) \/ RegisterDeps(t) \/ RegisterInsert(t) \/ RegisterList(t)
  \/ RegisterHook(t) \/ Deregister(t) \/ Unlist(t) \/ EnableReset(t)
OnPlugin(t, p) == RegisterBegin(t, p) \/ Unhook(t, p) \/ Enable(t, p) \/ Disable(t, p)
Dispatching(t) == (\E k \in Kind : Dispatch(t, k)) \/ RunHook(t) \/ DispatchEnds(t) \/ Returned(t)
Outcome ==
  \/ \E t \in PlugTask : \E i \in live[t] : HookOk(t, i) \/ HookFails(t, i)
  \/ \E q \in pending : AutoDisable(q)
  \/ \E p \in Plugin : WindowPasses(p)

LEMMA StepsOf ==
  [PluginsNext]_plugVars <=>
    \/ UNCHANGED plugVars
    \/ \E t \in PlugTask : Alone(t)
    \/ \E t \in PlugTask, p \in Plugin : OnPlugin(t, p)
    \/ \E t \in PlugTask : Dispatching(t)
    \/ Outcome
BY Zenon DEF PluginsNext, Alone, OnPlugin, Dispatching, Outcome, Kind

LEMMA PlugTypesNext ==
  ASSUME PlugTypes, [PluginsNext]_plugVars
  PROVE  PlugTypes'
<1>1. CASE UNCHANGED plugVars
  BY <1>1 DEF plugVars, PlugTypes
<1>2. CASE \E t \in PlugTask : Alone(t)
  <2>1. PICK t \in PlugTask : Alone(t)
    BY <1>2
  <2>2. job[t].name \in Plugin
    BY <2>1, TypeFacts DEF Alone, RegisterCheck, RegisterDeps, RegisterInsert, RegisterList, RegisterHook,
       Deregister, Unlist, EnableReset, At, Lifecycle
  <2> QED BY <2>1, <2>2, TypesRegister, TypesUnregister DEF Alone
<1>3. CASE \E t \in PlugTask, p \in Plugin : OnPlugin(t, p)
  BY <1>3, TypesRegister, TypesUnregister DEF OnPlugin
<1>4. CASE \E t \in PlugTask : Dispatching(t)
  BY <1>4, TypesDispatch DEF Dispatching
<1>5. CASE Outcome
  BY <1>5, TypesHooks DEF Outcome
<1> QED BY <1>1, <1>2, <1>3, <1>4, <1>5, StepsOf

-------------------------------------------------------------------------------
(* A call of register, unregister, enable or disable moves its own task     *)
(* only, and no dispatch.                                                   *)
LEMMA CallTurns ==
  ASSUME PlugTypes, NEW t \in PlugTask, Alone(t) \/ \E p \in Plugin : OnPlugin(t, p)
  PROVE  /\ job[t].at \notin {"dispatch", "returned"} /\ job'[t].at \notin {"dispatch", "returned"}
         /\ \A u \in PlugTask \ {t} : job'[u] = job[u]
<1> DEFINE Moves == job'[t].at \notin {"dispatch", "returned"} /\ \A u \in PlugTask \ {t} : job'[u] = job[u]
<1>1. job[t].at \notin {"dispatch", "returned"}
  BY DEF Alone, OnPlugin, RegisterBegin, RegisterCheck, RegisterDeps, RegisterInsert, RegisterList,
     RegisterHook, Unhook, Deregister, Unlist, Enable, EnableReset, Disable, At, Call
<1>2. ASSUME job' = job PROVE Moves
  BY <1>1, <1>2
<1>3. ASSUME Ends(t) PROVE Moves
  BY <1>3, EndsTurns DEF Turns
<1>4. ASSUME NEW place \in Lifecycle, To(t, place) PROVE Moves
  BY <1>4, ToTurns DEF Turns, Lifecycle, Place
<1>5. ASSUME NEW place \in Lifecycle \cup {"enable"}, NEW p \in Plugin, Starts(t, place, p) PROVE Moves
  BY <1>5, StartsTurns DEF Turns, Lifecycle, Place
<1>6. ASSUME job' = [job EXCEPT ![t].at = "hook", ![t].next = 1] PROVE Moves
  <2>1. "hook" \in Place /\ 1 \in Nat
    BY DEF Place, Lifecycle
  <2>2. Turns(t, "hook", job[t].name, job[t].list, 1)
    BY <1>6, <2>1, NextTurns
  <2> QED BY <2>2 DEF Turns
<1>7. ASSUME job' = [job EXCEPT ![t].next = @ + 1] PROVE Moves
  BY <1>1, <1>7, StepTurns DEF Turns
<1>8. CASE Alone(t)
  <2>1. \/ job' = job \/ Ends(t) \/ To(t, "deps") \/ To(t, "insert") \/ To(t, "list") \/ To(t, "unlist")
        \/ job' = [job EXCEPT ![t].at = "hook", ![t].next = 1] \/ job' = [job EXCEPT ![t].next = @ + 1]
    BY <1>8 DEF Alone, RegisterCheck, RegisterDeps, RegisterInsert, RegisterList,
       RegisterHook, Deregister, Unlist, EnableReset
  <2>2. {"deps", "insert", "list", "unlist"} \subseteq Lifecycle
    BY DEF Lifecycle
  <2> QED BY <1>1, <2>1, <2>2, <1>2, <1>3, <1>4, <1>6, <1>7
<1>9. ASSUME NEW p \in Plugin, OnPlugin(t, p) PROVE Moves
  <2>1. job' = job \/ Starts(t, "check", p) \/ Starts(t, "remove", p) \/ Starts(t, "enable", p)
    BY <1>9 DEF OnPlugin, RegisterBegin, Unhook, Enable, Disable
  <2>2. {"check", "remove", "enable"} \subseteq Lifecycle \cup {"enable"}
    BY DEF Lifecycle
  <2> QED BY <2>1, <2>2, <1>2, <1>5
<1> QED BY <1>1, <1>8, <1>9

(* What a dispatch owes a run: of the positions of its list whose plugin    *)
(* has been in service since it began, those it has not run are running or  *)
(* still ahead.                                                             *)
DueOf(t) ==
  /\ At(t, "dispatch") =>
       \A i \in due[t] : /\ i \in 1 .. Len(job[t].list) /\ Runnable(job[t].list[i])
                         /\ i \in ran[t] \/ i \in live[t] \/ i >= job[t].next
  /\ At(t, "returned") => due[t] \subseteq ran[t]
  /\ ~At(t, "dispatch") /\ ~At(t, "returned") => due[t] = {}
DueInd == \A t \in PlugTask : DueOf(t)

(* No step takes a plugin out of service that a dispatch still owes a run.  *)
Spares == \A u \in PlugTask : /\ due'[u] \subseteq due[u]
                              /\ \A i \in due'[u] : \A p : p = job[u].list[i] /\ Runnable(p) => Runnable(p)'

LEMMA DueKept ==
  ASSUME NEW u \in PlugTask, DueOf(u), Spares, job'[u] = job[u], live'[u] = live[u], ran'[u] = ran[u]
  PROVE  DueOf(u)'
<1>1. /\ due'[u] \subseteq due[u]
      /\ \A i \in due'[u] : \A p : p = job[u].list[i] /\ Runnable(p) => Runnable(p)'
  BY DEF Spares
<1> QED BY <1>1 DEF DueOf, At, Runnable

LEMMA DueCalls ==
  ASSUME PlugTypes, DueInd, NEW t \in PlugTask, Spares, live' = live, ran' = ran,
         Alone(t) \/ \E p \in Plugin : OnPlugin(t, p)
  PROVE  DueInd'
<1> SUFFICES ASSUME NEW u \in PlugTask PROVE DueOf(u)'
  BY DEF DueInd
<1>1. DueOf(u)
  BY DEF DueInd
<1>2. CASE u = t
  BY <1>1, <1>2, CallTurns DEF DueOf, At, Spares
<1>3. CASE u # t
  BY <1>1, <1>3, CallTurns, DueKept
<1> QED BY <1>2, <1>3

(* A step of unregister or disable owes no run to the plugin it takes.      *)
LEMMA UndueSpares ==
  ASSUME PlugTypes, NEW p, Undue(p), \A q : Runnable(q) /\ q # p => Runnable(q)'
  PROVE  Spares
<1>1. due' = [t \in PlugTask |-> {i \in due[t] : job[t].list[i] # p}]
  BY DEF Undue
<1> SUFFICES ASSUME NEW u \in PlugTask
             PROVE  /\ due'[u] \subseteq due[u]
                    /\ \A i \in due'[u] : \A q : q = job[u].list[i] /\ Runnable(q) => Runnable(q)'
  BY DEF Spares
<1>2. due'[u] = {i \in due[u] : job[u].list[i] # p}
  BY <1>1
<1> QED BY <1>2

LEMMA SameSpares ==
  ASSUME PlugTypes, due' = due, \A q : Runnable(q) => Runnable(q)'
  PROVE  Spares
BY DEF Spares

LEMMA CallSpares ==
  ASSUME PlugTypes, NEW t \in PlugTask, Alone(t) \/ \E p \in Plugin : OnPlugin(t, p)
  PROVE  Spares /\ live' = live /\ ran' = ran
<1>1. live' = live /\ ran' = ran
  BY DEF Alone, OnPlugin, RegisterBegin, RegisterCheck, RegisterDeps, RegisterInsert, RegisterList,
     RegisterHook, Unhook, Deregister, Unlist, Enable, EnableReset, Disable, dispatch
<1>2. CASE Deregister(t)
  <2>1. registered' = registered \ {job[t].name} /\ disabled' = disabled /\ Undue(job[t].name)
    BY <1>2 DEF Deregister
  <2>2. \A q : Runnable(q) /\ q # job[t].name => Runnable(q)'
    BY <2>1 DEF Runnable
  <2> QED BY <1>1, <2>1, <2>2, UndueSpares
<1>3. ASSUME NEW p \in Plugin, Unhook(t, p) \/ Disable(t, p) PROVE Spares
  <2>1. registered' = registered /\ disabled' \subseteq disabled \cup {p} /\ Undue(p)
    BY <1>3 DEF Unhook, Disable
  <2>2. \A q : Runnable(q) /\ q # p => Runnable(q)'
    BY <2>1 DEF Runnable
  <2> QED BY <2>1, <2>2, UndueSpares
<1>4. CASE Alone(t) /\ ~Deregister(t)
  <2>1. due' = due /\ registered \subseteq registered' /\ disabled' = disabled
    BY <1>4 DEF Alone, RegisterCheck, RegisterDeps, RegisterInsert, RegisterList,
       RegisterHook, Unlist, EnableReset, dispatch, maps
  <2>2. \A q : Runnable(q) => Runnable(q)'
    BY <2>1 DEF Runnable
  <2> QED BY <1>1, <2>1, <2>2, SameSpares
<1>5. ASSUME NEW p \in Plugin, RegisterBegin(t, p) \/ Enable(t, p) PROVE Spares
  <2>1. due' = due /\ registered' = registered /\ disabled' \subseteq disabled
    BY <1>5 DEF RegisterBegin, Enable, dispatch, maps
  <2>2. \A q : Runnable(q) => Runnable(q)'
    BY <2>1 DEF Runnable
  <2> QED BY <2>1, <2>2, SameSpares
<1> QED BY <1>1, <1>2, <1>3, <1>4, <1>5 DEF OnPlugin

LEMMA DueDispatching ==
  ASSUME PlugTypes, DueInd, NEW t \in PlugTask, Dispatching(t)
  PROVE  DueInd'
<1>1. registered' = registered /\ disabled' = disabled
  BY DEF Dispatching, Dispatch, RunHook, DispatchEnds, Returned, maps
<1>2. \A q : Runnable(q) => Runnable(q)'
  BY <1>1 DEF Runnable
<1>3. DueOf(t)
  BY DEF DueInd
<1>4. /\ live \in [PlugTask -> SUBSET Nat] /\ due \in [PlugTask -> SUBSET Nat]
      /\ ran \in [PlugTask -> SUBSET Nat]
  BY TypeFacts
<1>5. ASSUME \A u \in PlugTask \ {t} : /\ job'[u] = job[u] /\ live'[u] = live[u] /\ ran'[u] = ran[u]
                                       /\ due'[u] = due[u],
             DueOf(t)'
      PROVE  DueInd'
  <2> SUFFICES ASSUME NEW u \in PlugTask \ {t} PROVE DueOf(u)'
    BY <1>5 DEF DueInd
  <2>1. DueOf(u)
    BY DEF DueInd
  <2> QED BY <1>2, <1>5, <2>1 DEF DueOf, At, Runnable
<1>6. ASSUME NEW k \in Kind, Dispatch(t, k) PROVE DueInd'
  <2>1. Turns(t, "dispatch", "", hooks[k], 1)
    BY <1>6, BeginTurns
  <2>2. live' = live /\ due' = [due EXCEPT ![t] = {i \in DOMAIN hooks[k] : Runnable(hooks[k][i])}]
        /\ ran' = [ran EXCEPT ![t] = {}]
    BY <1>6 DEF Dispatch
  <2>3. PICK s \in Seq(Plugin) : s = hooks[k]
    BY TypeFacts
  <2>4. DOMAIN s = 1 .. Len(s) /\ due'[t] = {i \in DOMAIN s : Runnable(s[i])}
    BY <1>4, <2>2, <2>3
  <2>5. \A i \in due'[t] : i \in 1 .. Len(s) /\ i >= 1 /\ Runnable(s[i])
    BY <2>3, <2>4
  <2>6. job'[t].at = "dispatch" /\ job'[t].list = s /\ job'[t].next = 1
    BY <2>1, <2>3 DEF Turns
  <2>7. DueOf(t)'
    BY <1>2, <2>5, <2>6 DEF DueOf, At
  <2>8. \A u \in PlugTask \ {t} : /\ job'[u] = job[u] /\ live'[u] = live[u] /\ ran'[u] = ran[u]
                                  /\ due'[u] = due[u]
    BY <1>4, <2>1, <2>2 DEF Turns
  <2> QED BY <1>5, <2>7, <2>8
<1>7. CASE RunHook(t)
  <2>1. PICK n \in Nat : n = job[t].next
    BY TypeFacts DEF Job
  <2>2. /\ job[t].at = "dispatch" /\ job' = [job EXCEPT ![t].next = @ + 1]
        /\ live' = [live EXCEPT ![t] = IF Runnable(job[t].list[n]) THEN @ \cup {n} ELSE @]
        /\ due' = due /\ ran' = ran
    BY <1>7, <2>1 DEF RunHook, At
  <2>3. Turns(t, job[t].at, job[t].name, job[t].list, n + 1)
    BY <2>1, <2>2, StepTurns
  <2>4. job'[t].at = "dispatch" /\ job'[t].list = job[t].list /\ job'[t].next = n + 1
    BY <2>2, <2>3 DEF Turns
  <2>5. live[t] \subseteq live'[t] /\ (Runnable(job[t].list[n]) => n \in live'[t])
    BY <1>4, <2>2
  <2>6. ASSUME NEW i \in due[t]
        PROVE  /\ i \in 1 .. Len(job[t].list) /\ \A p : p = job[t].list[i] => Runnable(p)'
               /\ i \in ran[t] \/ i \in live'[t] \/ i >= n + 1
    <3>1. /\ i \in 1 .. Len(job[t].list) /\ Runnable(job[t].list[i])
          /\ i \in ran[t] \/ i \in live[t] \/ i >= n
      BY <1>3, <2>1, <2>2 DEF DueOf, At
    <3>2. i >= n => i = n \/ i >= n + 1
      BY <2>1, <1>4
    <3> QED BY <1>2, <2>5, <3>1, <3>2
  <2>7. DueOf(t)'
    BY <2>2, <2>4, <2>6 DEF DueOf, At, Runnable
  <2>8. \A u \in PlugTask \ {t} : /\ job'[u] = job[u] /\ live'[u] = live[u] /\ ran'[u] = ran[u]
                                  /\ due'[u] = due[u]
    BY <1>4, <2>2, <2>3 DEF Turns
  <2> QED BY <1>5, <2>7, <2>8
<1>8. CASE DispatchEnds(t)
  <2>1. /\ live[t] = {} /\ live' = live /\ due' = due /\ ran' = ran /\ To(t, "returned")
        /\ job[t].at = "dispatch" /\ job[t].next > Len(job[t].list)
    BY <1>8 DEF DispatchEnds, dispatch, At
  <2>2. Turns(t, "returned", job[t].name, job[t].list, job[t].next)
    BY <2>1, ToTurns DEF Place
  <2>3. ASSUME NEW i \in due[t] PROVE i \in ran[t]
    <3>1. i \in 1 .. Len(job[t].list) /\ (i \in ran[t] \/ i >= job[t].next)
      BY <1>3, <2>1 DEF DueOf, At
    <3>2. PICK n \in Nat : n = job[t].next
      BY TypeFacts DEF Job
    <3>3. PICK s \in Seq(Plugin) : s = job[t].list
      BY TypeFacts DEF Job
    <3> QED BY <2>1, <3>1, <3>2, <3>3
  <2>4. DueOf(t)'
    BY <2>1, <2>2, <2>3 DEF DueOf, At, Turns
  <2> QED BY <1>5, <2>1, <2>2, <2>4 DEF Turns
<1>9. CASE Returned(t)
  <2>1. /\ live' = live /\ Ends(t)
        /\ due' = [due EXCEPT ![t] = {}] /\ ran' = [ran EXCEPT ![t] = {}]
    BY <1>9 DEF Returned
  <2>2. Turns(t, "idle", "", <<>>, 0)
    BY <2>1, EndsTurns
  <2>3. DueOf(t)'
    BY <1>4, <2>1, <2>2 DEF DueOf, At, Turns
  <2>4. \A u \in PlugTask \ {t} : /\ job'[u] = job[u] /\ live'[u] = live[u] /\ ran'[u] = ran[u]
                                  /\ due'[u] = due[u]
    BY <1>4, <2>1, <2>2 DEF Turns
  <2> QED BY <1>5, <2>3, <2>4
<1> QED BY <1>6, <1>7, <1>8, <1>9 DEF Dispatching

LEMMA DueOutcome ==
  ASSUME PlugTypes, DueInd, Outcome
  PROVE  DueInd'
<1>1. /\ live \in [PlugTask -> SUBSET Nat] /\ due \in [PlugTask -> SUBSET Nat]
      /\ ran \in [PlugTask -> SUBSET Nat]
  BY TypeFacts
<1>2. ASSUME NEW t \in PlugTask, NEW i \in live[t], Ran(t, i), job' = job, due' = due,
             registered' = registered, disabled' = disabled
      PROVE  DueInd'
  <2> SUFFICES ASSUME NEW u \in PlugTask PROVE DueOf(u)'
    BY DEF DueInd
  <2>1. DueOf(u)
    BY DEF DueInd
  <2>2. \A j \in due[u] : j \in ran[u] \/ j \in live[u] => j \in ran'[u] \/ j \in live'[u]
    BY <1>1, <1>2 DEF Ran
  <2>3. ran[u] \subseteq ran'[u]
    BY <1>1, <1>2 DEF Ran
  <2> QED BY <1>2, <2>1, <2>2, <2>3 DEF DueOf, At, Runnable
<1>3. ASSUME NEW t \in PlugTask, NEW i \in live[t], HookOk(t, i) PROVE DueInd'
  <2>1. registered' = registered /\ disabled' = disabled
    BY <1>3 DEF HookOk, maps
  <2>2. CASE Ran(t, i) /\ UNCHANGED <<job, due>>
    BY <1>2, <2>1, <2>2
  <2>3. CASE /\ Ends(t) /\ live' = [live EXCEPT ![t] = {}]
             /\ due' = [due EXCEPT ![t] = {}] /\ ran' = [ran EXCEPT ![t] = {}]
    <3>1. Turns(t, "idle", "", <<>>, 0)
      BY <2>3, EndsTurns
    <3> SUFFICES ASSUME NEW u \in PlugTask PROVE DueOf(u)'
      BY DEF DueInd
    <3>2. CASE u = t
      BY <1>1, <2>3, <3>1, <3>2 DEF DueOf, At, Turns
    <3>3. CASE u # t
      <4>1. job'[u] = job[u] /\ live'[u] = live[u] /\ ran'[u] = ran[u] /\ due'[u] = due[u]
        BY <1>1, <2>3, <3>1, <3>3 DEF Turns
      <4>2. DueOf(u)
        BY DEF DueInd
      <4> QED BY <2>1, <4>1, <4>2 DEF DueOf, At, Runnable
    <3> QED BY <3>2, <3>3
  <2> QED BY <1>3, <2>2, <2>3 DEF HookOk
<1>4. ASSUME NEW t \in PlugTask, NEW i \in live[t], HookFails(t, i) PROVE DueInd'
  BY <1>2, <1>4 DEF HookFails
<1>5. ASSUME NEW q \in pending, AutoDisable(q) PROVE DueInd'
  <2>1. /\ registered' = registered /\ disabled' = disabled \cup {q[3]} /\ Undue(q[3])
        /\ live' = live /\ ran' = ran /\ job' = job
    BY <1>5 DEF AutoDisable
  <2>2. \A p : Runnable(p) /\ p # q[3] => Runnable(p)'
    BY <2>1 DEF Runnable
  <2>3. Spares
    BY <2>1, <2>2, UndueSpares
  <2> QED BY <2>1, <2>3, DueKept DEF DueInd
<1>6. ASSUME NEW p \in Plugin, WindowPasses(p) PROVE DueInd'
  <2>1. /\ registered' = registered /\ disabled' = disabled
        /\ live' = live /\ ran' = ran /\ due' = due /\ job' = job
    BY <1>6 DEF WindowPasses, dispatch
  <2> QED BY <2>1 DEF DueInd, DueOf, At, Runnable
<1> QED BY <1>3, <1>4, <1>5, <1>6 DEF Outcome

LEMMA DueInit ==
  ASSUME PluginsInit
  PROVE  DueInd
<1>1. job = [t \in PlugTask |-> Idle] /\ due = [t \in PlugTask |-> {}]
  BY DEF PluginsInit
<1>2. \A t \in PlugTask : job[t].at = "idle" /\ due[t] = {}
  BY <1>1 DEF Idle
<1> QED BY <1>2 DEF DueInd, DueOf, At

LEMMA DueNext ==
  ASSUME PlugTypes, DueInd, [PluginsNext]_plugVars
  PROVE  DueInd'
<1>1. CASE UNCHANGED plugVars
  BY <1>1 DEF plugVars, DueInd, DueOf, At, Runnable
<1>2. CASE Outcome
  BY <1>2, DueOutcome
<1>3. CASE \E t \in PlugTask : Dispatching(t)
  BY <1>3, DueDispatching
<1>4. ASSUME NEW t \in PlugTask, Alone(t) \/ \E p \in Plugin : OnPlugin(t, p) PROVE DueInd'
  BY <1>4, CallSpares, DueCalls
<1> QED BY <1>1, <1>2, <1>3, <1>4, StepsOf

-------------------------------------------------------------------------------
(* A plugin over the limit of errors is out of service or about to be.      *)
Covered(p) == \/ p \in disabled
              \/ \E q \in pending : q[3] = p
              \/ \E t \in PlugTask : At(t, "enable") /\ job[t].name = p

LEMMA OverLimitNext ==
  ASSUME PlugTypes, OverLimitIsDisabled, [PluginsNext]_plugVars
  PROVE  OverLimitIsDisabled'
<1>0. /\ errors \in [Plugin -> [count : Nat, old : BOOLEAN]]
  BY TypeFacts
<1>1. SUFFICES ASSUME NEW p \in Plugin, errors'[p].count >= MaxErrors PROVE Covered(p)'
  BY DEF OverLimitIsDisabled, Covered, At
<1>2. errors[p].count >= MaxErrors => Covered(p)
  BY DEF OverLimitIsDisabled, Covered
<1>3. ~(NoErrors.count >= MaxErrors)
  BY PluginsAssumption DEF NoErrors
<1>4. CASE UNCHANGED plugVars
  BY <1>1, <1>2, <1>4 DEF plugVars, Covered, At
<1>5. ASSUME NEW t \in PlugTask, Alone(t) PROVE Covered(p)'
  <2>1. disabled' = disabled /\ pending' = pending
    BY <1>5 DEF Alone, RegisterCheck, RegisterDeps, RegisterInsert, RegisterList,
       RegisterHook, Deregister, Unlist, EnableReset, maps, dispatch
  <2>2. \A u \in PlugTask \ {t} : job'[u] = job[u]
    BY <1>5, CallTurns
  <2>3. CASE EnableReset(t)
    <3>1. errors' = [errors EXCEPT ![job[t].name] = NoErrors]
      BY <2>3 DEF EnableReset
    <3>2. p # job[t].name /\ errors'[p] = errors[p]
      BY <1>0, <1>1, <1>3, <3>1
    <3> QED BY <1>1, <1>2, <2>1, <2>2, <3>2 DEF Covered, At
  <2>4. CASE ~EnableReset(t)
    <3>1. errors' = errors /\ job[t].at # "enable"
      BY <1>5, <2>4 DEF Alone, RegisterCheck, RegisterDeps, RegisterInsert, RegisterList,
         RegisterHook, Deregister, Unlist, At, maps
    <3> QED BY <1>1, <1>2, <2>1, <2>2, <3>1 DEF Covered, At
  <2> QED BY <2>3, <2>4
<1>6. ASSUME NEW t \in PlugTask, NEW n \in Plugin, OnPlugin(t, n) PROVE Covered(p)'
  <2>1. pending' = pending /\ job[t].at = "idle"
    BY <1>6 DEF OnPlugin, RegisterBegin, Unhook, Enable, Disable, dispatch, Call, At
  <2>2. \A u \in PlugTask \ {t} : job'[u] = job[u]
    BY <1>6, CallTurns
  <2>3. CASE Unhook(t, n)
    <3>1. errors' = [errors EXCEPT ![n] = NoErrors] /\ disabled' = disabled \ {n}
      BY <2>3 DEF Unhook
    <3>2. p # n /\ errors'[p] = errors[p]
      BY <1>0, <1>1, <1>3, <3>1
    <3> QED BY <1>1, <1>2, <2>1, <2>2, <3>1, <3>2 DEF Covered, At
  <2>4. CASE Enable(t, n)
    <3>1. errors' = errors /\ disabled' = disabled \ {n} /\ Starts(t, "enable", n)
      BY <2>4 DEF Enable
    <3>2. job'[t].at = "enable" /\ job'[t].name = n
      BY <3>1, StartsTurns DEF Turns, Place
    <3>3. CASE p = n
      BY <3>2, <3>3 DEF Covered, At
    <3>4. CASE p # n
      BY <1>1, <1>2, <2>1, <2>2, <3>1, <3>4 DEF Covered, At
    <3> QED BY <3>3, <3>4
  <2>5. CASE RegisterBegin(t, n) \/ Disable(t, n)
    <3>1. errors' = errors /\ disabled \subseteq disabled'
      BY <2>5 DEF RegisterBegin, Disable, maps
    <3> QED BY <1>1, <1>2, <2>1, <2>2, <3>1 DEF Covered, At
  <2> QED BY <1>6, <2>3, <2>4, <2>5 DEF OnPlugin
<1>7. ASSUME NEW t \in PlugTask, Dispatching(t) PROVE Covered(p)'
  <2>1. errors' = errors /\ disabled' = disabled /\ pending' = pending /\ job[t].at # "enable"
    BY <1>7 DEF Dispatching, Dispatch, RunHook, DispatchEnds, Returned, Call, At, maps, dispatch
  <2>2. \A u \in PlugTask \ {t} : job'[u] = job[u]
    <3>1. job \in [PlugTask -> Job]
      BY DEF PlugTypes
    <3> QED BY <1>7, <3>1 DEF Dispatching, Dispatch, RunHook, DispatchEnds, Returned, To, Ends
  <2> QED BY <1>1, <1>2, <2>1, <2>2 DEF Covered, At
<1>8. ASSUME NEW t \in PlugTask, NEW i \in live[t], HookOk(t, i) PROVE Covered(p)'
  <2>1. errors' = errors /\ disabled' = disabled /\ pending' = pending /\ job[t].at # "enable"
    BY <1>8 DEF HookOk, maps, At
  <2>2. \A u \in PlugTask \ {t} : job'[u] = job[u]
    <3>1. job \in [PlugTask -> Job]
      BY DEF PlugTypes
    <3> QED BY <1>8, <3>1 DEF HookOk, Ends
  <2> QED BY <1>1, <1>2, <2>1, <2>2 DEF Covered, At
<1>9. ASSUME NEW t \in PlugTask, NEW i \in live[t], HookFails(t, i) PROVE Covered(p)'
  <2>1. disabled' = disabled /\ job' = job
    BY <1>9 DEF HookFails
  <2>2. PICK n, q : q = job[t].list[i]
           /\ errors' = [errors EXCEPT ![q] = [count |-> n, old |-> FALSE]]
           /\ pending' = IF n >= MaxErrors THEN pending \cup {<<t, i, q>>} ELSE pending
    BY <1>9 DEF HookFails
  <2>3. CASE p = q
    <3>1. errors'[p].count = n
      BY <1>0, <2>2, <2>3
    <3>2. <<t, i, q>> \in pending' /\ <<t, i, q>>[3] = p
      BY <1>1, <2>2, <2>3, <3>1
    <3> QED BY <3>2 DEF Covered
  <2>4. CASE p # q
    <3>1. errors'[p] = errors[p] /\ pending \subseteq pending'
      BY <1>0, <2>2, <2>4
    <3> QED BY <1>1, <1>2, <2>1, <3>1 DEF Covered, At
  <2> QED BY <2>3, <2>4
<1>10. ASSUME NEW q \in pending, AutoDisable(q) PROVE Covered(p)'
  <2>1. /\ errors' = errors /\ pending' = pending \ {q} /\ disabled' = disabled \cup {q[3]}
        /\ job' = job
    BY <1>10 DEF AutoDisable
  <2> QED BY <1>1, <1>2, <2>1 DEF Covered, At
<1>11. ASSUME NEW q \in Plugin, WindowPasses(q) PROVE Covered(p)'
  <2>1. /\ pending' = pending /\ disabled' = disabled /\ job' = job
        /\ errors' = [errors EXCEPT ![q].old = TRUE]
    BY <1>11 DEF WindowPasses, dispatch
  <2>2. errors'[p].count = errors[p].count
    BY <1>0, <2>1
  <2> QED BY <1>1, <1>2, <2>1, <2>2 DEF Covered, At
<1> QED BY <1>4, <1>5, <1>6, <1>7, <1>8, <1>9, <1>10, <1>11, StepsOf DEF Outcome

-------------------------------------------------------------------------------
(* The limit: as long as no two registrations have overlapped, at most one  *)
(* is between its check and its insertion, and what it checked still holds. *)
LimitInd ==
  crowded = FALSE =>
    /\ Cardinality(registered) <= MaxPlugins
    /\ \A t \in PlugTask : job[t].at \in {"deps", "insert"} => Cardinality(registered) < MaxPlugins
    /\ \A t, u \in PlugTask : job[t].at \in Entering /\ job[u].at \in Entering => t = u

LEMMA FewerHold ==
  ASSUME PlugTypes, registered' \subseteq registered
  PROVE  /\ Cardinality(registered) \in Nat /\ Cardinality(registered') \in Nat
         /\ Cardinality(registered') <= Cardinality(registered)
<1>1. PICK R, S : R = registered /\ S = registered'
  OBVIOUS
<1>2. IsFiniteSet(R) /\ S \subseteq R
  BY <1>1, TypeFacts
<1>3. IsFiniteSet(S) /\ Cardinality(S) <= Cardinality(R)
  BY <1>2, FS_Subset
<1>4. Cardinality(S) \in Nat /\ Cardinality(R) \in Nat
  BY <1>2, <1>3, FS_CardinalityType
<1> QED BY <1>1, <1>3, <1>4

(* A step that lets nobody enter and inserts nothing. *)
LEMMA LimitQuiet ==
  ASSUME PlugTypes, LimitInd, registered' \subseteq registered, crowded' = crowded, NEW t \in PlugTask,
         \A u \in PlugTask \ {t} : job'[u] = job[u],
         job'[t].at \notin Entering \/ job'[t].at = job[t].at
  PROVE  LimitInd'
<1> SUFFICES ASSUME crowded = FALSE PROVE LimitInd'
  BY DEF LimitInd
<1>1. /\ Cardinality(registered) \in Nat /\ Cardinality(registered') \in Nat /\ MaxPlugins \in Nat
      /\ Cardinality(registered') <= Cardinality(registered)
  BY FewerHold, PluginsAssumption
<1>2. Cardinality(registered) <= MaxPlugins
  BY DEF LimitInd
<1>3. ASSUME NEW u \in PlugTask, job'[u].at \in {"deps", "insert"} PROVE Cardinality(registered') < MaxPlugins
  <2>1. job[u].at \in {"deps", "insert"}
    BY <1>3 DEF Entering
  <2>2. Cardinality(registered) < MaxPlugins
    BY <2>1 DEF LimitInd
  <2> QED BY <1>1, <2>2
<1>4. \A u \in PlugTask : job'[u].at \in Entering => job[u].at \in Entering
  OBVIOUS
<1>5. \A u, v \in PlugTask : job'[u].at \in Entering /\ job'[v].at \in Entering => u = v
  BY <1>4 DEF LimitInd
<1>6. Cardinality(registered') <= MaxPlugins
  BY <1>1, <1>2
<1> QED BY <1>3, <1>5, <1>6 DEF LimitInd

LEMMA LimitAlone ==
  ASSUME PlugTypes, LimitInd, NEW t \in PlugTask, Alone(t)
  PROVE  LimitInd'
<1>1. crowded' = crowded
  BY DEF Alone, RegisterCheck, RegisterDeps, RegisterInsert, RegisterList,
     RegisterHook, Deregister, Unlist, EnableReset, met
<1>2. \A u \in PlugTask \ {t} : job'[u] = job[u]
  BY CallTurns
<1>3. CASE Ends(t) /\ registered' = registered
  <2>1. job'[t].at \notin Entering
    BY <1>3, EndsTurns DEF Turns, Entering
  <2> QED BY <1>1, <1>2, <1>3, <2>1, LimitQuiet
<1>4. CASE RegisterCheck(t) /\ ~Ends(t)
  <2>1. To(t, "deps") /\ registered' = registered /\ ~(Cardinality(registered) >= MaxPlugins)
        /\ job[t].at = "check"
    BY <1>4 DEF RegisterCheck, maps, At
  <2>2. job'[t].at = "deps"
    BY <2>1, ToTurns DEF Turns, Place, Lifecycle
  <2>3. Cardinality(registered') < MaxPlugins
    BY <2>1, FewerHold, PluginsAssumption
  <2>4. \A u \in PlugTask : job'[u].at \in Entering => job[u].at \in Entering
    BY <1>2, <2>1 DEF Entering
  <2> QED BY <1>1, <2>1, <2>3, <2>4 DEF LimitInd
<1>5. CASE RegisterDeps(t) /\ ~Ends(t)
  <2>1. To(t, "insert") /\ registered' = registered /\ job[t].at = "deps"
    BY <1>5 DEF RegisterDeps, maps, At
  <2>2. job'[t].at = "insert"
    BY <2>1, ToTurns DEF Turns, Place, Lifecycle
  <2>3. \A u \in PlugTask : /\ job'[u].at \in Entering => job[u].at \in Entering
                            /\ job'[u].at \in {"deps", "insert"} => job[u].at \in {"deps", "insert"}
    BY <1>2, <2>1 DEF Entering
  <2> QED BY <1>1, <2>1, <2>3 DEF LimitInd
<1>6. CASE RegisterInsert(t)
  <2>1. To(t, "list") /\ registered' = registered \cup {job[t].name} /\ job[t].at = "insert"
    BY <1>6 DEF RegisterInsert, At
  <2>2. job'[t].at = "list"
    BY <2>1, ToTurns DEF Turns, Place, Lifecycle
  <2> SUFFICES ASSUME crowded = FALSE PROVE LimitInd'
    BY <1>1 DEF LimitInd
  <2>3. Cardinality(registered) < MaxPlugins
    BY <2>1 DEF LimitInd
  <2>4. \A u \in PlugTask : job'[u].at \notin Entering
    <3>1. ASSUME NEW u \in PlugTask, job'[u].at \in Entering PROVE FALSE
      <4>1. u # t
        BY <2>2, <3>1 DEF Entering
      <4>2. job[u].at \in Entering /\ job[t].at \in Entering
        BY <1>2, <2>1, <3>1, <4>1 DEF Entering
      <4> QED BY <4>1, <4>2 DEF LimitInd
    <3> QED BY <3>1
  <2>5. Cardinality(registered') <= MaxPlugins
    <3>1. PICK R, x : R = registered /\ x = job[t].name
      OBVIOUS
    <3>2. IsFiniteSet(R)
      BY <3>1, TypeFacts
    <3>3. /\ Cardinality(R \cup {x}) = IF x \in R THEN Cardinality(R) ELSE Cardinality(R) + 1
          /\ Cardinality(R) \in Nat
      BY <3>2, FS_AddElement, FS_CardinalityType
    <3>4. Cardinality(R) < MaxPlugins /\ registered' = R \cup {x}
      BY <2>1, <2>3, <3>1
    <3> QED BY <3>3, <3>4, PluginsAssumption
  <2>6. \A u \in PlugTask : job'[u].at \notin {"deps", "insert"}
    BY <2>4 DEF Entering
  <2> QED BY <2>4, <2>5, <2>6 DEF LimitInd
<1>7. CASE RegisterList(t) \/ RegisterHook(t) \/ Deregister(t) \/ Unlist(t) \/ EnableReset(t)
  <2>1. registered' \subseteq registered
    BY <1>7 DEF RegisterList, RegisterHook, Deregister, Unlist, EnableReset
  <2>2. job'[t].at \notin Entering
    <3>1. CASE Ends(t)
      BY <3>1, EndsTurns DEF Turns, Entering
    <3>2. CASE RegisterList(t)
      <4>1. "hook" \in Place /\ 1 \in Nat
        BY DEF Place, Lifecycle
      <4>2. job' = [job EXCEPT ![t].at = "hook", ![t].next = 1]
        BY <3>2 DEF RegisterList
      <4>3. Turns(t, "hook", job[t].name, job[t].list, 1)
        BY <4>1, <4>2, NextTurns
      <4> QED BY <4>3 DEF Turns, Entering
    <3>3. CASE RegisterHook(t) /\ ~Ends(t)
      <4>1. job' = [job EXCEPT ![t].next = @ + 1] /\ job[t].at = "hook"
        BY <3>3 DEF RegisterHook, At
      <4>2. Turns(t, job[t].at, job[t].name, job[t].list, job[t].next + 1)
        BY <4>1, StepTurns
      <4> QED BY <4>1, <4>2 DEF Turns, Entering
    <3>4. CASE Deregister(t) /\ ~Ends(t)
      <4>1. To(t, "unlist")
        BY <3>4 DEF Deregister
      <4> QED BY <4>1, ToTurns DEF Turns, Entering, Place, Lifecycle
    <3> QED BY <1>7, <3>1, <3>2, <3>3, <3>4 DEF Unlist, EnableReset
  <2> QED BY <1>1, <1>2, <2>1, <2>2, LimitQuiet
<1>8. RegisterCheck(t) \/ RegisterDeps(t) => registered' = registered
  BY DEF RegisterCheck, RegisterDeps, maps
<1> QED BY <1>3, <1>4, <1>5, <1>6, <1>7, <1>8 DEF Alone

LEMMA LimitOnPlugin ==
  ASSUME PlugTypes, LimitInd, NEW t \in PlugTask, NEW p \in Plugin, OnPlugin(t, p)
  PROVE  LimitInd'
<1>1. registered' = registered
  BY DEF OnPlugin, RegisterBegin, Unhook, Enable, Disable, maps
<1>2. \A u \in PlugTask \ {t} : job'[u] = job[u]
  BY CallTurns
<1>3. CASE RegisterBegin(t, p) /\ job' # job
  <2>1. Starts(t, "check", p) /\ crowded' = (crowded \/ \E u \in PlugTask : job[u].at \in Entering)
    BY <1>3 DEF RegisterBegin
  <2>2. job'[t].at = "check"
    BY <2>1, StartsTurns DEF Turns, Place, Lifecycle
  <2> SUFFICES ASSUME crowded' = FALSE PROVE LimitInd'
    BY DEF LimitInd
  <2>3. crowded = FALSE /\ \A u \in PlugTask : job[u].at \notin Entering
    <3>1. crowded \in BOOLEAN
      BY TypeFacts
    <3> QED BY <2>1, <3>1, Zenon
  <2>4. Cardinality(registered') <= MaxPlugins
    BY <1>1, <2>3 DEF LimitInd
  <2>5. \A u \in PlugTask \ {t} : job'[u].at \notin Entering
    BY <1>2, <2>3
  <2>6. \A u \in PlugTask : job'[u].at \notin {"deps", "insert"}
    BY <2>2, <2>5 DEF Entering
  <2> QED BY <2>4, <2>5, <2>6 DEF LimitInd
<1>4. CASE ~(RegisterBegin(t, p) /\ job' # job)
  <2>1. job' = job \/ Starts(t, "remove", p) \/ Starts(t, "enable", p)
    BY <1>4 DEF OnPlugin, RegisterBegin, Unhook, Enable, Disable
  <2>2. job'[t].at \notin Entering \/ job'[t].at = job[t].at
    BY <2>1, StartsTurns DEF Turns, Entering, Place, Lifecycle
  <2>3. crowded' = crowded
    <3>1. job' = [job EXCEPT ![t] = [Idle EXCEPT !.at = "check", !.name = p]] => job' # job
      <4>1. ASSUME Starts(t, "check", p) PROVE job' # job
        <5>1. job'[t].at = "check"
          BY <4>1, StartsTurns DEF Turns, Place, Lifecycle
        <5>2. job[t].at # "check"
          BY DEF OnPlugin, RegisterBegin, Unhook, Enable, Disable, Call, At
        <5> QED BY <5>1, <5>2
      <4> QED BY <4>1 DEF Starts
    <3> QED BY <1>4, <3>1 DEF OnPlugin, RegisterBegin, Unhook, Enable, Disable, Starts, met
  <2> QED BY <1>1, <1>2, <2>2, <2>3, LimitQuiet
<1> QED BY <1>3, <1>4

(* A dispatch moves its own task only, and no lifecycle call.               *)
LEMMA DispatchMoves ==
  ASSUME PlugTypes, NEW t \in PlugTask,
         Dispatching(t) \/ \E i \in live[t] : HookOk(t, i) \/ HookFails(t, i)
  PROVE  /\ \A u \in PlugTask \ {t} : job'[u] = job[u]
         /\ job[t].at \notin Lifecycle /\ job'[t].at \notin Lifecycle
         /\ registered' = registered /\ listed' = listed /\ hooks' = hooks
         /\ raced' = raced /\ crowded' = crowded
<1>1. registered' = registered /\ listed' = listed /\ hooks' = hooks /\ raced' = raced /\ crowded' = crowded
  BY DEF Dispatching, Dispatch, RunHook, DispatchEnds, Returned, HookOk, HookFails, maps, met
<1>2. \A u \in PlugTask \ {t} : job'[u] = job[u]
  <2>1. job \in [PlugTask -> Job]
    BY DEF PlugTypes
  <2> QED BY <2>1 DEF Dispatching, Dispatch, RunHook, DispatchEnds, Returned, HookOk, HookFails, To, Ends
<1>3. job[t].at \notin Lifecycle
  BY DEF Dispatching, Dispatch, RunHook, DispatchEnds, Returned, HookOk, HookFails, Call, At, Lifecycle
<1>4. job'[t].at \notin Lifecycle
  <2>1. ASSUME NEW k \in Kind, Dispatch(t, k) PROVE job'[t].at \notin Lifecycle
    BY <2>1, BeginTurns DEF Turns, Lifecycle
  <2>2. ASSUME Ends(t) PROVE job'[t].at \notin Lifecycle
    BY <2>2, EndsTurns DEF Turns, Lifecycle
  <2>3. ASSUME To(t, "returned") PROVE job'[t].at \notin Lifecycle
    BY <2>3, ToTurns DEF Turns, Lifecycle, Place
  <2>4. ASSUME job' = [job EXCEPT ![t].next = @ + 1] PROVE job'[t].at \notin Lifecycle
    BY <1>3, <2>4, StepTurns DEF Turns
  <2>5. ASSUME job' = job PROVE job'[t].at \notin Lifecycle
    BY <1>3, <2>5
  <2>6. \/ \E k \in Kind : Dispatch(t, k)
        \/ Ends(t) \/ To(t, "returned") \/ job' = [job EXCEPT ![t].next = @ + 1] \/ job' = job
    BY DEF Dispatching, RunHook, DispatchEnds, Returned, HookOk, HookFails
  <2> QED BY <2>1, <2>2, <2>3, <2>4, <2>5, <2>6
<1> QED BY <1>1, <1>2, <1>3, <1>4

LEMMA LimitNext ==
  ASSUME PlugTypes, LimitInd, [PluginsNext]_plugVars
  PROVE  LimitInd'
<1>1. CASE UNCHANGED plugVars
  BY <1>1 DEF plugVars, LimitInd
<1>2. CASE job' = job /\ registered' = registered /\ crowded' = crowded
  BY <1>2 DEF LimitInd
<1>3. ASSUME NEW t \in PlugTask, Dispatching(t) \/ \E i \in live[t] : HookOk(t, i) \/ HookFails(t, i)
      PROVE  LimitInd'
  <2>1. job'[t].at \notin Entering
    BY <1>3, DispatchMoves DEF Entering, Lifecycle
  <2> QED BY <1>3, <2>1, DispatchMoves, LimitQuiet
<1>4. ASSUME NEW q, AutoDisable(q) \/ WindowPasses(q) PROVE LimitInd'
  BY <1>2, <1>4 DEF AutoDisable, WindowPasses, met
<1> QED BY <1>1, <1>3, <1>4, LimitAlone, LimitOnPlugin, StepsOf DEF Outcome

-------------------------------------------------------------------------------
(* The maps: what a call that is under way has done so far to the plugin it *)
(* is about, when it has that plugin to itself.                             *)
Busy(t, p)  == job[t].at \in Lifecycle /\ job[t].name = p
Hooks(k, p) == Len(Only(hooks[k], {p}))
Unhooked(p) == \A k \in Kind : Hooks(k, p) = 0
Agree(p)    == /\ p \in listed <=> p \in registered
               /\ \A k \in Kind : Hooks(k, p) = IF p \in registered THEN 1 ELSE 0
Phase(t, p) ==
  /\ job[t].at \in Entering => Agree(p)
  /\ job[t].at \in {"deps", "insert"} => p \notin registered
  /\ job[t].at = "list" => p \in registered /\ p \notin listed /\ Unhooked(p)
  /\ job[t].at = "hook" =>
       /\ p \in registered /\ p \in listed /\ job[t].next \in 1 .. 3
       /\ \A j \in 1 .. 3 : Hooks(Kinds[j], p) = IF j < job[t].next THEN 1 ELSE 0
  /\ job[t].at = "remove" => (p \in listed <=> p \in registered) /\ Unhooked(p)
  /\ job[t].at = "unlist" => p \notin registered /\ p \in listed /\ Unhooked(p)
MapsFor(p) ==
  /\ \A t, u \in PlugTask : Busy(t, p) /\ Busy(u, p) => t = u
  /\ \A t \in PlugTask : Busy(t, p) => Phase(t, p)
  /\ (\A t \in PlugTask : ~Busy(t, p)) => Agree(p)
MapsInd == \A p \in Plugin \ raced : MapsFor(p)

(* A step that is not about p. *)
Apart(p) == /\ p \in registered' <=> p \in registered
            /\ p \in listed' <=> p \in listed
            /\ \A k \in Kind : Hooks(k, p)' = Hooks(k, p)

LEMMA MapsApart ==
  ASSUME NEW p, MapsFor(p), Apart(p), NEW t \in PlugTask, \A u \in PlugTask \ {t} : job'[u] = job[u],
         job'[t] = job[t] \/ (~Busy(t, p) /\ ~Busy(t, p)')
  PROVE  MapsFor(p)'
<1>1. \A u \in PlugTask : Busy(u, p)' => Busy(u, p) /\ job'[u] = job[u]
  BY DEF Busy
<1>2. \A u \in PlugTask : Busy(u, p) => Busy(u, p)'
  BY DEF Busy
<1>3. Agree(p) => Agree(p)'
  BY DEF Agree, Apart
<1>4. Unhooked(p) => Unhooked(p)'
  BY DEF Unhooked, Apart
<1>5. ASSUME NEW u \in PlugTask, Busy(u, p)' PROVE Phase(u, p)'
  <2>1. Phase(u, p) /\ job'[u] = job[u]
    BY <1>1, <1>5 DEF MapsFor
  <2>2. \A j \in 1 .. 3 : Hooks(Kinds[j], p)' = Hooks(Kinds[j], p)
    <3>1. ASSUME NEW j \in 1 .. 3 PROVE Kinds[j] \in Kind
      BY KindIs
    <3> QED BY <3>1 DEF Apart
  <2> QED BY <1>3, <1>4, <2>1, <2>2 DEF Phase, Apart
<1>6. \A u, v \in PlugTask : Busy(u, p)' /\ Busy(v, p)' => u = v
  BY <1>1 DEF MapsFor
<1>7. (\A u \in PlugTask : ~Busy(u, p)') => Agree(p)'
  BY <1>2, <1>3 DEF MapsFor
<1> QED BY <1>5, <1>6, <1>7 DEF MapsFor

(* A step of the one task that is busy with p, or becomes it. *)
LEMMA MapsMine ==
  ASSUME NEW p, NEW t \in PlugTask, \A u \in PlugTask \ {t} : job'[u] = job[u] /\ ~Busy(u, p),
         (Busy(t, p)' /\ Phase(t, p)') \/ (~Busy(t, p)' /\ Agree(p)')
  PROVE  MapsFor(p)'
<1>1. \A u \in PlugTask \ {t} : ~Busy(u, p)'
  BY DEF Busy
<1> QED BY <1>1 DEF MapsFor

LEMMA SameApart ==
  ASSUME NEW p, registered' = registered, listed' = listed, hooks' = hooks
  PROVE  Apart(p)
BY DEF Apart, Hooks

LEMMA MapsOutcome ==
  ASSUME PlugTypes, MapsInd,
         (\E t \in PlugTask : Dispatching(t)) \/ Outcome \/ UNCHANGED plugVars
  PROVE  MapsInd'
<1>1. ASSUME NEW t \in PlugTask, Dispatching(t) \/ \E i \in live[t] : HookOk(t, i) \/ HookFails(t, i)
      PROVE  MapsInd'
  <2>1. raced' = raced
    BY <1>1, DispatchMoves
  <2> SUFFICES ASSUME NEW p \in Plugin \ raced PROVE MapsFor(p)'
    BY <2>1 DEF MapsInd
  <2>2. Apart(p)
    BY <1>1, DispatchMoves, SameApart
  <2>3. \A u \in PlugTask \ {t} : job'[u] = job[u]
    BY <1>1, DispatchMoves
  <2>4. ~Busy(t, p) /\ ~Busy(t, p)'
    BY <1>1, DispatchMoves DEF Busy
  <2>5. MapsFor(p)
    BY DEF MapsInd
  <2> QED BY <2>2, <2>3, <2>4, <2>5, MapsApart
<1>2. CASE job' = job /\ registered' = registered /\ listed' = listed /\ hooks' = hooks /\ raced' = raced
  <2> SUFFICES ASSUME NEW p \in Plugin \ raced PROVE MapsFor(p)'
    BY <1>2 DEF MapsInd
  <2>1. MapsFor(p)
    BY DEF MapsInd
  <2> QED BY <1>2, <2>1 DEF MapsFor, Busy, Phase, Agree, Unhooked, Hooks
<1>3. ASSUME NEW q, AutoDisable(q) \/ WindowPasses(q) PROVE MapsInd'
  BY <1>2, <1>3 DEF AutoDisable, WindowPasses, met
<1>4. CASE UNCHANGED plugVars
  BY <1>2, <1>4 DEF plugVars
<1> QED BY <1>1, <1>3, <1>4 DEF Outcome

LEMMA HookAppended ==
  ASSUME PlugTypes, NEW c \in Kind, NEW n \in Plugin, hooks' = [hooks EXCEPT ![c] = Append(@, n)]
  PROVE  \A k \in Kind, p \in Plugin :
           Hooks(k, p)' = IF k = c /\ p = n THEN Hooks(k, p) + 1 ELSE Hooks(k, p)
<1> SUFFICES ASSUME NEW k \in Kind, NEW p \in Plugin
             PROVE  Hooks(k, p)' = IF k = c /\ p = n THEN Hooks(k, p) + 1 ELSE Hooks(k, p)
  OBVIOUS
<1>1. hooks \in [Kind -> Seq(Plugin)]
  BY TypeFacts
<1>2. hooks'[k] = IF k = c THEN Append(hooks[k], n) ELSE hooks[k]
  BY <1>1
<1>3. PICK s \in Seq(Plugin) : s = hooks[k]
  BY <1>1
<1>4. PICK K : K = {p}
  OBVIOUS
<1>5. Only(Append(s, n), K) = IF n \in K THEN Append(Only(s, K), n) ELSE Only(s, K)
  BY OnlyAppend
<1>6. Only(s, K) \in Seq(Plugin)
  BY OnlyType
<1>7. Len(Append(Only(s, K), n)) = Len(Only(s, K)) + 1
  BY <1>6
<1>8. Hooks(k, p)' = Len(Only(hooks'[k], K)) /\ Hooks(k, p) = Len(Only(s, K))
  BY <1>3, <1>4, Zenon DEF Hooks
<1>9. CASE k = c
  <2>1. hooks'[k] = Append(s, n)
    BY <1>2, <1>3, <1>9
  <2>2. n \in K <=> p = n
    BY <1>4
  <2> QED BY <1>5, <1>7, <1>8, <1>9, <2>1, <2>2
<1>10. CASE k # c
  BY <1>2, <1>3, <1>8, <1>10
<1> QED BY <1>9, <1>10

LEMMA HooksGone ==
  ASSUME PlugTypes, NEW n \in Plugin,
         hooks' = [k \in DOMAIN hooks |-> Only(hooks[k], Plugin \ {n})]
  PROVE  \A k \in Kind, p \in Plugin : Hooks(k, p)' = IF p = n THEN 0 ELSE Hooks(k, p)
<1> SUFFICES ASSUME NEW k \in Kind, NEW p \in Plugin
             PROVE  Hooks(k, p)' = IF p = n THEN 0 ELSE Hooks(k, p)
  OBVIOUS
<1>1. hooks \in [Kind -> Seq(Plugin)]
  BY TypeFacts
<1>2. PICK s \in Seq(Plugin) : s = hooks[k]
  BY <1>1
<1>3. PICK K, L : K = Plugin \ {n} /\ L = {p}
  OBVIOUS
<1>4. hooks'[k] = Only(s, K)
  BY <1>1, <1>2, <1>3
<1>5. Only(Only(s, K), L) = Only(s, K \cap L)
  BY OnlyOnly
<1>6. K \cap L = IF p = n THEN {} ELSE {p}
  BY <1>3
<1>7. Only(s, {}) = <<>>
  BY OnlyNone
<1>8. Hooks(k, p)' = Len(Only(hooks'[k], L)) /\ Hooks(k, p) = Len(Only(s, L))
  BY <1>2, <1>3, Zenon DEF Hooks
<1>9. Only(hooks'[k], L) = IF p = n THEN <<>> ELSE Only(s, L)
  BY <1>3, <1>4, <1>5, <1>6, <1>7
<1> QED BY <1>8, <1>9

LEMMA MapsOnPlugin ==
  ASSUME PlugTypes, MapsInd, NEW t \in PlugTask, NEW n \in Plugin, OnPlugin(t, n)
  PROVE  MapsInd'
<1>1. \A u \in PlugTask \ {t} : job'[u] = job[u]
  BY CallTurns
<1>2. \A p : ~Busy(t, p)
  BY DEF OnPlugin, RegisterBegin, Unhook, Enable, Disable, Call, At, Busy, Lifecycle
<1>3. registered' = registered /\ listed' = listed
  BY DEF OnPlugin, RegisterBegin, Unhook, Enable, Disable, maps
<1>4. CASE job' = job /\ hooks' = hooks /\ raced' = raced
  <2> SUFFICES ASSUME NEW p \in Plugin \ raced PROVE MapsFor(p)'
    BY <1>4 DEF MapsInd
  <2>1. MapsFor(p)
    BY DEF MapsInd
  <2> QED BY <1>3, <1>4, <2>1 DEF MapsFor, Busy, Phase, Agree, Unhooked, Hooks
<1>5. CASE Enable(t, n)
  <2>1. raced' = raced /\ hooks' = hooks /\ Starts(t, "enable", n)
    BY <1>5 DEF Enable, met
  <2>2. job'[t].at = "enable"
    BY <2>1, StartsTurns DEF Turns, Place
  <2> SUFFICES ASSUME NEW p \in Plugin \ raced PROVE MapsFor(p)'
    BY <2>1 DEF MapsInd
  <2>3. ~Busy(t, p)' /\ MapsFor(p) /\ Apart(p)
    BY <1>3, <2>1, <2>2, SameApart DEF Busy, Lifecycle, MapsInd
  <2> QED BY <1>1, <1>2, <2>3, MapsApart
<1>6. ASSUME NEW place \in {"check", "remove"}, Starts(t, place, n), Meets(t, n),
             \A p \in Plugin \ {n} : Apart(p),
             place = "check" => hooks' = hooks,
             place = "remove" => Unhooked(n)'
      PROVE  MapsInd'
  <2>1. /\ raced \subseteq raced'
        /\ n \notin raced' => \A u \in PlugTask \ {t} : ~Busy(u, n)
    BY <1>6 DEF Meets, Busy
  <2>2. job'[t].at = place /\ job'[t].name = n
    BY <1>6, StartsTurns DEF Turns, Place, Lifecycle
  <2> SUFFICES ASSUME NEW p \in Plugin \ raced' PROVE MapsFor(p)'
    BY DEF MapsInd
  <2>3. MapsFor(p)
    BY <2>1 DEF MapsInd
  <2>4. CASE p # n
    <3>1. ~Busy(t, p)'
      BY <2>2, <2>4 DEF Busy
    <3> QED BY <1>1, <1>2, <1>6, <2>3, <2>4, <3>1, MapsApart
  <2>5. CASE p = n
    <3>1. \A u \in PlugTask \ {t} : job'[u] = job[u] /\ ~Busy(u, n)
      BY <1>1, <2>1, <2>5
    <3>2. Agree(n)
      BY <1>2, <2>3, <2>5, <3>1 DEF MapsFor
    <3>3. Busy(t, n)'
      BY <1>6, <2>2 DEF Busy, Lifecycle
    <3>4. Phase(t, n)'
      <4>1. CASE place = "check"
        <5>1. Agree(n)'
          BY <1>3, <1>6, <3>2, <4>1 DEF Agree, Hooks
        <5> QED BY <2>2, <4>1, <5>1 DEF Phase
      <4>2. CASE place = "remove"
        <5>1. (n \in listed' <=> n \in registered') /\ Unhooked(n)'
          BY <1>3, <1>6, <3>2, <4>2 DEF Agree
        <5> QED BY <2>2, <4>2, <5>1 DEF Phase, Entering
      <4> QED BY <4>1, <4>2
    <3> QED BY <2>5, <3>1, <3>3, <3>4, MapsMine
  <2> QED BY <2>4, <2>5
<1>7. CASE RegisterBegin(t, n)
  <2>1. hooks' = hooks
    BY <1>7 DEF RegisterBegin, maps
  <2>2. \/ job' = job /\ raced' = raced
        \/ Starts(t, "check", n) /\ Meets(t, n)
    BY <1>7 DEF RegisterBegin, met
  <2>3. \A p \in Plugin \ {n} : Apart(p)
    BY <1>3, <2>1, SameApart
  <2> QED BY <1>4, <1>6, <2>1, <2>2, <2>3
<1>8. CASE Unhook(t, n)
  <2>1. Starts(t, "remove", n) /\ Meets(t, n)
        /\ hooks' = [k \in DOMAIN hooks |-> Only(hooks[k], Plugin \ {n})]
    BY <1>8 DEF Unhook
  <2>2. \A k \in Kind, p \in Plugin : Hooks(k, p)' = IF p = n THEN 0 ELSE Hooks(k, p)
    BY <2>1, HooksGone
  <2>3. Unhooked(n)'
    BY <2>2 DEF Unhooked
  <2>4. \A p \in Plugin \ {n} : Apart(p)
    BY <1>3, <2>2 DEF Apart
  <2> QED BY <1>6, <2>1, <2>3, <2>4
<1>9. CASE Disable(t, n)
  BY <1>4, <1>9 DEF Disable, met
<1> QED BY <1>5, <1>7, <1>8, <1>9 DEF OnPlugin

(* The place a registration has reached in the kinds of hooks. *)
HookNext == \A t \in PlugTask : job[t].at = "hook" => job[t].next \in 1 .. 3

LEMMA HookNextKept ==
  ASSUME PlugTypes, HookNext, [PluginsNext]_plugVars
  PROVE  HookNext'
<1>1. CASE job' = job
  BY <1>1 DEF HookNext
<1>2. ASSUME NEW t \in PlugTask, \A u \in PlugTask \ {t} : job'[u] = job[u],
             job'[t].at = "hook" => job'[t].next \in 1 .. 3
      PROVE  HookNext'
  BY <1>2 DEF HookNext
<1>3. ASSUME NEW t \in PlugTask, Dispatching(t) \/ \E i \in live[t] : HookOk(t, i) \/ HookFails(t, i)
      PROVE  HookNext'
  <2>1. job'[t].at # "hook"
    BY <1>3, DispatchMoves DEF Lifecycle
  <2> QED BY <1>2, <1>3, <2>1, DispatchMoves
<1>4. ASSUME NEW q, AutoDisable(q) \/ WindowPasses(q) \/ UNCHANGED plugVars PROVE HookNext'
  BY <1>1, <1>4 DEF AutoDisable, WindowPasses, plugVars
<1>5. ASSUME NEW t \in PlugTask, NEW p \in Plugin, OnPlugin(t, p) PROVE HookNext'
  <2>1. job' = job \/ Starts(t, "check", p) \/ Starts(t, "remove", p) \/ Starts(t, "enable", p)
    BY <1>5 DEF OnPlugin, RegisterBegin, Unhook, Enable, Disable
  <2>2. job' = job \/ job'[t].at # "hook"
    BY <2>1, StartsTurns DEF Turns, Place, Lifecycle
  <2>3. \A u \in PlugTask \ {t} : job'[u] = job[u]
    BY <1>5, CallTurns
  <2> QED BY <1>1, <1>2, <2>2, <2>3
<1>6. ASSUME NEW t \in PlugTask, Alone(t) PROVE HookNext'
  <2>1. \A u \in PlugTask \ {t} : job'[u] = job[u]
    BY <1>6, CallTurns
  <2>2. CASE RegisterList(t)
    <3>1. "hook" \in Place /\ 1 \in Nat /\ 1 \in 1 .. 3
      BY DEF Place, Lifecycle
    <3>2. job' = [job EXCEPT ![t].at = "hook", ![t].next = 1]
      BY <2>2 DEF RegisterList
    <3>3. Turns(t, "hook", job[t].name, job[t].list, 1)
      BY <3>1, <3>2, NextTurns
    <3> QED BY <1>2, <2>1, <3>1, <3>3 DEF Turns
  <2>3. CASE RegisterHook(t) /\ ~Ends(t)
    <3>1. job[t].at = "hook" /\ job[t].next # 3 /\ job' = [job EXCEPT ![t].next = @ + 1]
      BY <2>3, KindIs DEF RegisterHook, At
    <3>2. PICK j \in 1 .. 3 : j = job[t].next
      BY <3>1 DEF HookNext
    <3>3. j + 1 \in 1 .. 3
      BY <3>1, <3>2
    <3>4. job'[t].next = j + 1
      BY <3>1, <3>2, StepTurns DEF Turns
    <3> QED BY <1>2, <2>1, <3>3, <3>4
  <2>4. CASE Ends(t)
    BY <1>2, <2>1, <2>4, EndsTurns DEF Turns
  <2>5. ASSUME NEW place \in {"deps", "insert", "list", "unlist"}, To(t, place) PROVE HookNext'
    <3>1. job'[t].at = place
      BY <2>5, ToTurns DEF Turns, Place, Lifecycle
    <3> QED BY <1>2, <2>1, <3>1
  <2> QED BY <1>6, <2>2, <2>3, <2>4, <2>5 DEF Alone, RegisterCheck, RegisterDeps, RegisterInsert,
          RegisterHook, Deregister, Unlist, EnableReset
<1> QED BY <1>3, <1>4, <1>5, <1>6, StepsOf DEF Outcome

LEMMA MapsAlone ==
  ASSUME PlugTypes, HookNext, MapsInd, NEW t \in PlugTask, Alone(t)
  PROVE  MapsInd'
<1>1. \A u \in PlugTask \ {t} : job'[u] = job[u]
  BY CallTurns
<1>2. raced' = raced
  BY DEF Alone, RegisterCheck, RegisterDeps, RegisterInsert, RegisterList, RegisterHook, Deregister,
     Unlist, EnableReset, met
<1>3. PICK n \in Plugin : n = job[t].name
  BY TypeFacts DEF Alone, RegisterCheck, RegisterDeps, RegisterInsert, RegisterList, RegisterHook,
     Deregister, Unlist, EnableReset, At, Lifecycle
<1>4. Ends(t) => job'[t].at = "idle"
  BY EndsTurns DEF Turns
<1>5. \A place \in Lifecycle : To(t, place) => job'[t].at = place /\ job'[t].name = n
  BY <1>3, ToTurns DEF Turns, Place
<1>6. {"deps", "insert", "list", "hook", "unlist", "check", "remove"} \subseteq Lifecycle /\ "idle" \notin Lifecycle
      /\ "enable" \notin Lifecycle
  BY DEF Lifecycle
<1>7. ASSUME \A p \in Plugin \ {n} : Apart(p), job'[t].at \notin Lifecycle \/ job'[t].name = n,
             n \notin raced => MapsFor(n)'
      PROVE  MapsInd'
  <2> SUFFICES ASSUME NEW p \in Plugin \ raced, p # n PROVE MapsFor(p)'
    BY <1>2, <1>7 DEF MapsInd
  <2>1. MapsFor(p)
    BY DEF MapsInd
  <2>2. ~Busy(t, p) /\ ~Busy(t, p)'
    BY <1>3, <1>7 DEF Busy
  <2> QED BY <1>1, <1>7, <2>1, <2>2, MapsApart
<1>8. CASE EnableReset(t)
  <2>1. registered' = registered /\ listed' = listed /\ hooks' = hooks /\ Ends(t) /\ job[t].at = "enable"
    BY <1>8 DEF EnableReset, At
  <2>2. \A p : ~Busy(t, p) /\ ~Busy(t, p)'
    BY <1>4, <1>6, <2>1 DEF Busy
  <2>3. \A p : Apart(p)
    BY <2>1, SameApart
  <2>4. n \notin raced => MapsFor(n)
    BY DEF MapsInd
  <2> QED BY <1>1, <1>4, <1>6, <1>7, <2>1, <2>2, <2>3, <2>4, MapsApart
<1>9. CASE ~EnableReset(t)
  <2>1. job[t].at \in Lifecycle
    BY <1>9 DEF Alone, RegisterCheck, RegisterDeps, RegisterInsert, RegisterList, RegisterHook,
     Deregister, Unlist, At, Lifecycle
  <2>2. Busy(t, n)
    BY <1>3, <2>1 DEF Busy
  <2>3. n \notin raced => Phase(t, n) /\ \A u \in PlugTask \ {t} : job'[u] = job[u] /\ ~Busy(u, n)
    BY <1>1, <2>2 DEF MapsInd, MapsFor
  <2>4. ASSUME \A p \in Plugin \ {n} : Apart(p), job'[t].at \notin Lifecycle,
               Phase(t, n) => Agree(n)'
        PROVE  MapsInd'
    <3>1. ~Busy(t, n)'
      BY <2>4 DEF Busy
    <3> QED BY <1>7, <2>3, <2>4, <3>1, MapsMine
  <2>5. ASSUME \A p \in Plugin \ {n} : Apart(p), job'[t].at \in Lifecycle, job'[t].name = n,
               Phase(t, n) => Phase(t, n)'
        PROVE  MapsInd'
    <3>1. Busy(t, n)'
      BY <2>5 DEF Busy
    <3> QED BY <1>7, <2>3, <2>5, <3>1, MapsMine
  <2>6. CASE RegisterCheck(t) \/ RegisterDeps(t)
    <3>1. registered' = registered /\ listed' = listed /\ hooks' = hooks
          /\ job[t].at \in {"check", "deps"}
      BY <2>6 DEF RegisterCheck, RegisterDeps, maps, At
    <3>2. \A p : Apart(p)
      BY <3>1, SameApart
    <3>3. Agree(n) => Agree(n)'
      BY <3>2 DEF Agree, Apart
    <3>4. Phase(t, n) => Agree(n)
      BY <3>1 DEF Phase, Entering
    <3>5. CASE Ends(t)
      BY <1>4, <1>6, <2>4, <3>2, <3>3, <3>4, <3>5
    <3>6. CASE ~Ends(t)
      <4>1. \/ job[t].at = "check" /\ To(t, "deps") /\ n \notin registered
            \/ job[t].at = "deps" /\ To(t, "insert")
        BY <1>3, <2>6, <3>6 DEF RegisterCheck, RegisterDeps, At
      <4>2. job'[t].at \in {"deps", "insert"} /\ job'[t].name = n
        BY <1>5, <1>6, <4>1
      <4>3. Phase(t, n) => n \notin registered'
        BY <3>1, <4>1 DEF Phase
      <4>4. Phase(t, n) => Phase(t, n)'
        BY <3>3, <3>4, <4>2, <4>3 DEF Phase
      <4> QED BY <1>6, <2>5, <3>2, <4>2, <4>4
    <3> QED BY <3>5, <3>6
  <2>7. CASE RegisterInsert(t)
    <3>1. /\ registered' = registered \cup {n} /\ listed' = listed /\ hooks' = hooks
          /\ job[t].at = "insert" /\ To(t, "list")
      BY <1>3, <2>7 DEF RegisterInsert, At
    <3>2. job'[t].at = "list" /\ job'[t].name = n
      BY <1>5, <1>6, <3>1
    <3>3. \A p \in Plugin \ {n} : Apart(p)
      BY <3>1 DEF Apart, Hooks
    <3>4. Phase(t, n) => Phase(t, n)'
      <4>1. Phase(t, n) => n \notin registered /\ Agree(n)
        BY <3>1 DEF Phase, Entering
      <4>2. Phase(t, n) => n \notin listed' /\ Unhooked(n)'
        BY <3>1, <4>1 DEF Agree, Unhooked, Hooks
      <4> QED BY <3>1, <3>2, <4>2 DEF Phase, Entering
    <3> QED BY <1>6, <2>5, <3>2, <3>3, <3>4
  <2>8. CASE RegisterList(t)
    <3>1. /\ registered' = registered /\ listed' = listed \cup {n} /\ hooks' = hooks
          /\ job[t].at = "list" /\ job' = [job EXCEPT ![t].at = "hook", ![t].next = 1]
      BY <1>3, <2>8 DEF RegisterList, At
    <3>2. job'[t].at = "hook" /\ job'[t].name = n /\ job'[t].next = 1
      <4>1. "hook" \in Place /\ 1 \in Nat
        BY DEF Place, Lifecycle
      <4>2. Turns(t, "hook", job[t].name, job[t].list, 1)
        BY <3>1, <4>1, NextTurns
      <4> QED BY <1>3, <4>2 DEF Turns
    <3>3. \A p \in Plugin \ {n} : Apart(p)
      BY <3>1 DEF Apart, Hooks
    <3>4. Phase(t, n) => Phase(t, n)'
      <4>1. Phase(t, n) => n \in registered /\ Unhooked(n)
        BY <3>1 DEF Phase
      <4>2. Unhooked(n) => \A j \in 1 .. 3 : Hooks(Kinds[j], n)' = 0
        <5>1. \A j \in 1 .. 3 : Kinds[j] \in Kind
          BY KindIs
        <5> QED BY <3>1, <5>1 DEF Unhooked, Hooks
      <4>3. \A j \in 1 .. 3 : ~(j < 1)
        OBVIOUS
      <4>4. 1 \in 1 .. 3
        OBVIOUS
      <4> QED BY <3>1, <3>2, <4>1, <4>2, <4>3, <4>4 DEF Phase, Entering
    <3> QED BY <1>6, <2>5, <3>2, <3>3, <3>4
  <2>9. CASE RegisterHook(t)
    <3>1. /\ registered' = registered /\ listed' = listed /\ job[t].at = "hook"
          /\ hooks' = [hooks EXCEPT ![Kinds[job[t].next]] = Append(@, n)]
          /\ IF job[t].next = 3 THEN Ends(t) ELSE job' = [job EXCEPT ![t].next = @ + 1]
      BY <1>3, <2>9, KindIs DEF RegisterHook, At
    <3>2. PICK j \in Nat : j = job[t].next
      BY TypeFacts DEF Job
    <3>3. CASE j \in 1 .. 3
      <4>1. PICK c \in Kind : c = Kinds[j]
        BY <3>3, KindIs
      <4>2. hooks' = [hooks EXCEPT ![c] = Append(@, n)]
        BY <3>1, <3>2, <4>1
      <4>3. \A k \in Kind, p \in Plugin :
              Hooks(k, p)' = IF k = c /\ p = n THEN Hooks(k, p) + 1 ELSE Hooks(k, p)
        BY <4>2, HookAppended
      <4>4. \A p \in Plugin \ {n} : Apart(p)
        BY <3>1, <4>3 DEF Apart
      <4>5. \A i \in 1 .. 3 : Kinds[i] \in Kind /\ (Kinds[i] = c <=> i = j)
        <5>1. 1 .. 3 = {1, 2, 3}
          OBVIOUS
        <5> QED BY <3>3, <4>1, <5>1, KindIs
      <4>6. ASSUME Phase(t, n)
            PROVE  /\ n \in registered /\ n \in listed
                   /\ \A i \in 1 .. 3 : Hooks(Kinds[i], n)' = IF i < j + 1 THEN 1 ELSE 0
        <5>1. /\ n \in registered /\ n \in listed
              /\ \A i \in 1 .. 3 : Hooks(Kinds[i], n) = IF i < j THEN 1 ELSE 0
          BY <3>1, <3>2, <4>6 DEF Phase
        <5>2. ASSUME NEW i \in 1 .. 3 PROVE Hooks(Kinds[i], n)' = IF i < j + 1 THEN 1 ELSE 0
          <6>1. PICK k \in Kind : k = Kinds[i] /\ (k = c <=> i = j)
            BY <4>5
          <6>2. Hooks(k, n)' = (IF k = c THEN Hooks(k, n) + 1 ELSE Hooks(k, n))
                /\ Hooks(k, n) = IF i < j THEN 1 ELSE 0
            BY <4>3, <5>1, <6>1
          <6>3. Hooks(k, n)' = IF i < j + 1 THEN 1 ELSE 0
            BY <3>3, <6>1, <6>2
          <6> QED BY <6>1, <6>3
        <5> QED BY <5>1, <5>2
      <4>7. CASE j = 3
        <5>1. Ends(t)
          BY <3>1, <3>2, <4>7
        <5>2. ASSUME Phase(t, n) PROVE Agree(n)'
          <6>1. \A i \in 1 .. 3 : Hooks(Kinds[i], n)' = 1
            BY <4>6, <4>7, <5>2
          <6>2. \A k \in Kind : \E i \in 1 .. 3 : k = Kinds[i]
            BY KindIs
          <6>3. \A k \in Kind : Hooks(k, n)' = 1
            BY <6>1, <6>2
          <6> QED BY <3>1, <4>6, <5>2, <6>3 DEF Agree
        <5> QED BY <1>4, <1>6, <2>4, <4>4, <5>1, <5>2
      <4>8. CASE j # 3
        <5>1. job'[t].at = "hook" /\ job'[t].name = n /\ job'[t].next = j + 1
          <6>1. Turns(t, job[t].at, job[t].name, job[t].list, job[t].next + 1)
            BY <3>1, <3>2, <4>8, StepTurns
          <6> QED BY <1>3, <3>1, <3>2, <6>1 DEF Turns
        <5>2. j + 1 \in 1 .. 3
          BY <3>3, <4>8
        <5>3. Phase(t, n) => Phase(t, n)'
          BY <3>1, <4>6, <5>1, <5>2 DEF Phase, Entering
        <5> QED BY <1>6, <2>5, <4>4, <5>1, <5>3
      <4> QED BY <4>7, <4>8
    <3>4. j \in 1 .. 3
      BY <3>1, <3>2 DEF HookNext
    <3> QED BY <3>3, <3>4
  <2>10. CASE Deregister(t)
    <3>1. /\ registered' = registered \ {n} /\ listed' = listed /\ hooks' = hooks
          /\ job[t].at = "remove" /\ IF n \in registered THEN To(t, "unlist") ELSE Ends(t)
      BY <1>3, <2>10 DEF Deregister, At
    <3>2. \A p \in Plugin \ {n} : Apart(p)
      BY <3>1 DEF Apart, Hooks
    <3>3. Phase(t, n) => (n \in listed <=> n \in registered) /\ Unhooked(n)'
      BY <3>1 DEF Phase, Unhooked, Hooks
    <3>4. CASE n \in registered
      <4>1. job'[t].at = "unlist" /\ job'[t].name = n
        BY <1>5, <1>6, <3>1, <3>4
      <4>2. Phase(t, n) => Phase(t, n)'
        BY <3>1, <3>3, <3>4, <4>1 DEF Phase, Entering
      <4> QED BY <1>6, <2>5, <3>2, <4>1, <4>2
    <3>5. CASE n \notin registered
      <4>1. Phase(t, n) => Agree(n)'
        BY <3>1, <3>3, <3>5 DEF Agree, Unhooked
      <4> QED BY <1>4, <1>6, <2>4, <3>1, <3>2, <3>5, <4>1
    <3> QED BY <3>4, <3>5
  <2>11. CASE Unlist(t)
    <3>1. /\ registered' = registered /\ listed' = listed \ {n} /\ hooks' = hooks
          /\ job[t].at = "unlist" /\ Ends(t)
      BY <1>3, <2>11 DEF Unlist, At
    <3>2. \A p \in Plugin \ {n} : Apart(p)
      BY <3>1 DEF Apart, Hooks
    <3>3. Phase(t, n) => Agree(n)'
      <4>1. Phase(t, n) => n \notin registered' /\ n \notin listed' /\ Unhooked(n)'
        BY <3>1 DEF Phase, Unhooked, Hooks
      <4> QED BY <4>1 DEF Agree, Unhooked
    <3> QED BY <1>4, <1>6, <2>4, <3>1, <3>2, <3>3
  <2> QED BY <1>9, <2>6, <2>7, <2>8, <2>9, <2>10, <2>11 DEF Alone
<1> QED BY <1>8, <1>9

-------------------------------------------------------------------------------
PlugInd == PlugTypes /\ HookNext /\ MapsInd /\ LimitInd /\ OverLimitIsDisabled /\ DueInd

LEMMA PlugIndInit ==
  ASSUME PluginsInit
  PROVE  PlugInd
<1>1. /\ registered = {} /\ listed = {} /\ crowded = FALSE /\ hooks = [k \in Kind |-> <<>>]
      /\ errors = [p \in Plugin |-> NoErrors] /\ job = [t \in PlugTask |-> Idle]
  BY DEF PluginsInit, Kind
<1>2. \A t \in PlugTask : job[t].at = "idle"
  BY <1>1 DEF Idle
<1>3. MapsInd
  <2> SUFFICES ASSUME NEW p \in Plugin PROVE MapsFor(p)
    BY DEF MapsInd
  <2>1. \A t \in PlugTask : ~Busy(t, p)
    BY <1>2 DEF Busy, Lifecycle
  <2>2. ASSUME NEW k \in Kind PROVE Hooks(k, p) = 0
    <3>1. hooks[k] = <<>>
      BY <1>1
    <3>2. Only(<<>>, {p}) = <<>>
      BY OnlyEmpty
    <3> QED BY <3>1, <3>2 DEF Hooks
  <2>3. Agree(p)
    BY <1>1, <2>2 DEF Agree
  <2> QED BY <2>1, <2>3 DEF MapsFor
<1>4. LimitInd
  <2>1. Cardinality(registered) = 0
    BY <1>1, FS_EmptySet
  <2>2. 0 <= MaxPlugins
    BY PluginsAssumption
  <2> QED BY <1>2, <2>1, <2>2 DEF LimitInd, Entering
<1>5. OverLimitIsDisabled
  <2>1. ~(NoErrors.count >= MaxErrors)
    BY PluginsAssumption DEF NoErrors
  <2> QED BY <1>1, <2>1 DEF OverLimitIsDisabled
<1>6. HookNext
  BY <1>2 DEF HookNext
<1> QED BY <1>3, <1>4, <1>5, <1>6, PlugTypesInit, DueInit DEF PlugInd

LEMMA PlugIndNext ==
  ASSUME PlugInd, [PluginsNext]_plugVars
  PROVE  PlugInd'
<1>1. MapsInd'
  BY StepsOf, MapsAlone, MapsOnPlugin, MapsOutcome DEF PlugInd
<1> QED BY <1>1, PlugTypesNext, HookNextKept, LimitNext, OverLimitNext, DueNext DEF PlugInd

LEMMA PlugIndImplies ==
  ASSUME PlugInd
  PROVE  PluginsConsistent
<1>1. MapsAgree
  <2> SUFFICES ASSUME NEW p \in Plugin \ raced,
                      \A t \in PlugTask : job[t].name = p => job[t].at \notin Lifecycle
               PROVE  /\ p \in listed <=> p \in registered
                      /\ \A k \in DOMAIN hooks :
                           Len(Only(hooks[k], {p})) = IF p \in registered THEN 1 ELSE 0
    BY DEF MapsAgree
  <2>1. MapsFor(p)
    BY DEF PlugInd, MapsInd
  <2>2. Agree(p)
    BY <2>1 DEF MapsFor, Busy
  <2>3. DOMAIN hooks = Kind
    BY TypeFacts DEF PlugInd
  <2> QED BY <2>2, <2>3 DEF Agree, Hooks
<1>2. LimitKept
  <2>1. crowded \in BOOLEAN /\ IsFiniteSet(registered)
    BY TypeFacts DEF PlugInd
  <2>2. Cardinality(registered) \in Nat
    BY <2>1, FS_CardinalityType
  <2>3. crowded = FALSE => ~(Cardinality(registered) > MaxPlugins)
    BY <2>2, PluginsAssumption DEF PlugInd, LimitInd
  <2> QED BY <2>1, <2>3 DEF LimitKept
<1>3. EveryHookRuns
  BY DEF PlugInd, DueInd, DueOf, EveryHookRuns
<1> QED BY <1>1, <1>2, <1>3 DEF PluginsConsistent, PlugInd

(* The maps of the plugin manager agree wherever no two lifecycle calls met *)
(* on a plugin, its limits hold, and every dispatch runs what it owes a     *)
(* run, for any number of tasks, plugins and calls (plugins/registry.rs,    *)
(* hook.rs, manager.rs).                                                    *)
THEOREM PluginsAreConsistent == PluginsSpec => []PluginsConsistent
<1>1. PluginsInit => PlugInd
  BY PlugIndInit
<1>2. PlugInd /\ [PluginsNext]_plugVars => PlugInd'
  BY PlugIndNext
<1>3. PlugInd => PluginsConsistent
  BY PlugIndImplies
<1> QED BY <1>1, <1>2, <1>3, PTL DEF PluginsSpec
=============================================================================

------------------------------- MODULE Plugins -------------------------------
(****************************************************************************)
(* The plugin system (plugins/registry.rs, hook.rs, manager.rs): tasks that *)
(* register, unregister, enable and disable plugins while others dispatch   *)
(* commit, query and schedule events to them.                               *)
(*                                                                          *)
(* Every map has its own RwLock, taken for one access at a time, so each    *)
(* operation is a series of steps; unregister_hooks alone holds the hooks   *)
(* lock while it takes the other two and is one step.  A hook that fails    *)
(* and one that times out are treated alike.  The hooks of a plugin all     *)
(* have priority 0, so a list keeps the order of registration; the lists of *)
(* OnInit and OnShutdown, which nothing dispatches, are left out.  Usage    *)
(* statistics (ResourceTracker) decide nothing and are left out.           *)
(****************************************************************************)
EXTENDS Integers, Sequences, SequencesExt, FiniteSets, Filters

CONSTANTS
  PlugTask,       \* tasks of the application
  Plugin,         \* plugin names
  Needs,          \* dependencies: a set of pairs <<plugin, needed>>
  MaxPlugins,     \* config.max_plugins
  MaxErrors,      \* 5: errors in a window that disable a plugin
  MaxCalls        \* bound: calls of the manager

ASSUME PluginsAssumption ==
  /\ Needs \subseteq Plugin \X Plugin
  /\ MaxPlugins \in Nat \ {0} /\ MaxErrors \in Nat \ {0} /\ MaxCalls \in Nat

VARIABLES
  registered,   \* PluginRegistry.plugins
  listed,       \* PluginRegistry.metadata
  hooks,        \* HookSystem.hooks: kind -> sequence of plugins
  disabled,     \* HookSystem.disabled_plugins
  errors,       \* HookSystem.error_counts: plugin -> [count, old]
  parallel,     \* config.enable_parallel_hooks
  job,          \* task -> [at, name, kind, list, next]
  live,         \* task -> positions of its list whose hook is executing
  pending,      \* plugins some record_error has yet to disable, with its task
  calls,        \* calls so far
  \* history: positions of the list the dispatch owes a run, and those run;
  \* plugins two lifecycle calls have met on; two registrations have met
  due, ran, raced, crowded

plugVars == <<registered, listed, hooks, disabled, errors, parallel, job, live, pending, calls,
              due, ran, raced, crowded>>
maps     == <<registered, listed, hooks, disabled, errors>>
dispatch == <<live, pending, due, ran>>
met      == <<raced, crowded>>

Kinds    == <<"OnCommit", "OnQuery", "OnSchedule">>
NoErrors == [count |-> 0, old |-> FALSE]
Idle     == [at |-> "idle", name |-> "", kind |-> "", list |-> <<>>, next |-> 0]
Entering == {"check", "deps", "insert"}
Lifecycle == {"check", "deps", "insert", "list", "hook", "remove", "unlist"}

PluginsInit ==
  /\ registered = {} /\ listed = {} /\ disabled = {}
  /\ hooks = [k \in ToSet(Kinds) |-> <<>>]
  /\ errors = [p \in Plugin |-> NoErrors]
  /\ parallel \in BOOLEAN
  /\ job = [t \in PlugTask |-> Idle] /\ live = [t \in PlugTask |-> {}] /\ pending = {}
  /\ calls = 0
  /\ due = [t \in PlugTask |-> {}] /\ ran = [t \in PlugTask |-> {}]
  /\ raced = {} /\ crowded = FALSE

At(t, place) == job[t].at = place
To(t, place) == job' = [job EXCEPT ![t].at = place]
Ends(t)      == job' = [job EXCEPT ![t] = Idle]
Starts(t, place, p) == job' = [job EXCEPT ![t] = [Idle EXCEPT !.at = place, !.name = p]]
Meets(t, p)  == raced' = IF \E u \in PlugTask \ {t} : job[u].at \in Lifecycle /\ job[u].name = p
                         THEN raced \cup {p} ELSE raced
Call(t)      == At(t, "idle") /\ calls < MaxCalls /\ calls' = calls + 1

(* What has been unregistered or disabled is owed no run any more. *)
Undue(p) == due' = [t \in PlugTask |-> {i \in due[t] : job[t].list[i] # p}]

------------------------------------------------------------------------------
(* PluginManager::register.  on_init runs before any check; it may fail. *)
RegisterBegin(t, p) ==
  /\ Call(t)
  /\ \/ UNCHANGED <<job, met>>
     \/ /\ Starts(t, "check", p) /\ Meets(t, p)
        /\ crowded' = (crowded \/ \E u \in PlugTask : job[u].at \in Entering)
  /\ UNCHANGED <<maps, parallel, dispatch>>

RegisterCheck(t) ==
  /\ At(t, "check")
  /\ IF job[t].name \in registered \/ Cardinality(registered) >= MaxPlugins
     THEN Ends(t) ELSE To(t, "deps")
  /\ UNCHANGED <<maps, parallel, dispatch, calls, met>>

RegisterDeps(t) ==
  /\ At(t, "deps")
  /\ IF \E d \in Plugin \ registered : <<job[t].name, d>> \in Needs
     THEN Ends(t) ELSE To(t, "insert")
  /\ UNCHANGED <<maps, parallel, dispatch, calls, met>>

RegisterInsert(t) ==
  /\ At(t, "insert") /\ To(t, "list")
  /\ registered' = registered \cup {job[t].name}
  /\ UNCHANGED <<listed, hooks, disabled, errors, parallel, dispatch, calls, met>>

RegisterList(t) ==
  /\ At(t, "list")
  /\ job' = [job EXCEPT ![t].at = "hook", ![t].next = 1]
  /\ listed' = listed \cup {job[t].name}
  /\ UNCHANGED <<registered, hooks, disabled, errors, parallel, dispatch, calls, met>>

RegisterHook(t) ==
  /\ At(t, "hook")
  /\ hooks' = [hooks EXCEPT ![Kinds[job[t].next]] = Append(@, job[t].name)]
  /\ IF job[t].next = Len(Kinds) THEN Ends(t) ELSE job' = [job EXCEPT ![t].next = @ + 1]
  /\ UNCHANGED <<registered, listed, disabled, errors, parallel, dispatch, calls, met>>

------------------------------------------------------------------------------
(* PluginManager::unregister: the hooks go first, whether or not the plugin *)
(* is registered.                                                           *)
Unhook(t, p) ==
  /\ Call(t) /\ Starts(t, "remove", p) /\ Meets(t, p)
  /\ hooks' = [k \in DOMAIN hooks |-> Only(hooks[k], Plugin \ {p})]
  /\ disabled' = disabled \ {p}
  /\ errors' = [errors EXCEPT ![p] = NoErrors]
  /\ Undue(p)
  /\ UNCHANGED <<registered, listed, parallel, live, pending, ran, crowded>>

Deregister(t) ==
  /\ At(t, "remove")
  /\ IF job[t].name \in registered THEN To(t, "unlist") ELSE Ends(t)
  /\ registered' = registered \ {job[t].name}
  /\ Undue(job[t].name)
  /\ UNCHANGED <<listed, hooks, disabled, errors, parallel, live, pending, ran, calls, met>>

Unlist(t) ==
  /\ At(t, "unlist") /\ Ends(t)
  /\ listed' = listed \ {job[t].name}
  /\ UNCHANGED <<registered, hooks, disabled, errors, parallel, dispatch, calls, met>>

(* PluginManager::enable_plugin and disable_plugin. *)
Enable(t, p) ==
  /\ Call(t)
  /\ p \in listed /\ Starts(t, "enable", p)
  /\ disabled' = disabled \ {p}
  /\ UNCHANGED <<registered, listed, hooks, errors, parallel, dispatch, met>>

EnableReset(t) ==
  /\ At(t, "enable") /\ Ends(t)
  /\ errors' = [errors EXCEPT ![job[t].name] = NoErrors]
  /\ UNCHANGED <<registered, listed, hooks, disabled, parallel, dispatch, calls, met>>

Disable(t, p) ==
  /\ Call(t)
  /\ p \in listed
  /\ disabled' = disabled \cup {p} /\ Undue(p)
  /\ UNCHANGED <<registered, listed, hooks, errors, parallel, job, live, pending, ran, met>>

------------------------------------------------------------------------------
(* on_commit, on_query and on_schedule: a copy of the list is taken, then   *)
(* each plugin in turn is looked up and run; in parallel, the turn goes on  *)
(* while it runs.                                                           *)
Together(t) == job[t].kind = "OnSchedule" \/ (job[t].kind = "OnCommit" /\ parallel)
Runnable(p) == p \in registered /\ p \notin disabled

Dispatch(t, k) ==
  /\ Call(t)
  /\ hooks[k] # <<>>
  /\ job' = [job EXCEPT ![t] =
               [Idle EXCEPT !.at = "dispatch", !.kind = k, !.list = hooks[k], !.next = 1]]
  /\ due' = [due EXCEPT ![t] = {i \in DOMAIN hooks[k] : Runnable(hooks[k][i])}]
  /\ ran' = [ran EXCEPT ![t] = {}]
  /\ UNCHANGED <<maps, parallel, live, pending, met>>

RunHook(t) ==
  /\ At(t, "dispatch") /\ job[t].next <= Len(job[t].list)
  /\ Together(t) \/ (live[t] = {} /\ \A q \in pending : q[1] # t)
  /\ job' = [job EXCEPT ![t].next = @ + 1]
  /\ live' = [live EXCEPT ![t] =
                IF Runnable(job[t].list[job[t].next]) THEN @ \cup {job[t].next} ELSE @]
  /\ UNCHANGED <<maps, parallel, pending, calls, due, ran, met>>

Ran(t, i) == /\ live' = [live EXCEPT ![t] = @ \ {i}]
             /\ ran' = [ran EXCEPT ![t] = IF i \in due[t] THEN @ \cup {i} ELSE @]

(* A query is answered by the first plugin that does not pass it on. *)
HookOk(t, i) ==
  /\ At(t, "dispatch") /\ i \in live[t]
  /\ \/ Ran(t, i) /\ UNCHANGED <<job, due>>
     \/ /\ job[t].kind = "OnQuery" /\ Ends(t)
        /\ live' = [live EXCEPT ![t] = {}]
        /\ due' = [due EXCEPT ![t] = {}] /\ ran' = [ran EXCEPT ![t] = {}]
  /\ UNCHANGED <<maps, parallel, pending, calls, met>>

(* Mutant: the first error ends the loop. *)
HookFails_Stop(t, i) ==
  /\ At(t, "dispatch") /\ i \in live[t] /\ Ran(t, i)
  /\ job' = [job EXCEPT ![t].next = Len(job[t].list) + 1]
  /\ UNCHANGED <<maps, parallel, pending, calls, due, met>>

(* record_error: counted under one lock, disabled under another. *)
HookFails(t, i) ==
  /\ At(t, "dispatch") /\ i \in live[t] /\ Ran(t, i)
  /\ LET p == job[t].list[i]
         n == IF errors[p].old THEN 1 ELSE errors[p].count + 1
     IN  /\ errors' = [errors EXCEPT ![p] = [count |-> n, old |-> FALSE]]
         /\ pending' = IF n >= MaxErrors THEN pending \cup {<<t, i, p>>} ELSE pending
  /\ UNCHANGED <<registered, listed, hooks, disabled, parallel, job, calls, due, met>>

AutoDisable(q) ==
  /\ q \in pending /\ pending' = pending \ {q}
  /\ disabled' = disabled \cup {q[3]} /\ Undue(q[3])
  /\ UNCHANGED <<registered, listed, hooks, errors, parallel, job, live, ran, calls, met>>

DispatchEnds(t) ==
  /\ At(t, "dispatch") /\ job[t].next > Len(job[t].list)
  /\ live[t] = {} /\ \A q \in pending : q[1] # t
  /\ To(t, "returned")
  /\ UNCHANGED <<maps, parallel, dispatch, calls, met>>

Returned(t) ==
  /\ At(t, "returned") /\ Ends(t)
  /\ due' = [due EXCEPT ![t] = {}] /\ ran' = [ran EXCEPT ![t] = {}]
  /\ UNCHANGED <<maps, parallel, live, pending, calls, met>>

(* The window of the first counted error passes. *)
WindowPasses(p) ==
  /\ errors[p].count > 0 /\ ~errors[p].old
  /\ errors' = [errors EXCEPT ![p].old = TRUE]
  /\ UNCHANGED <<registered, listed, hooks, disabled, parallel, job, dispatch, calls, met>>

PluginsNext ==
  \/ \E t \in PlugTask :
       \/ RegisterCheck(t) \/ RegisterDeps(t) \/ RegisterInsert(t) \/ RegisterList(t)
       \/ RegisterHook(t) \/ Deregister(t) \/ Unlist(t) \/ EnableReset(t)
       \/ RunHook(t) \/ DispatchEnds(t) \/ Returned(t)
       \/ \E p \in Plugin : RegisterBegin(t, p) \/ Unhook(t, p) \/ Enable(t, p) \/ Disable(t, p)
       \/ \E k \in ToSet(Kinds) : Dispatch(t, k)
       \/ \E i \in live[t] : HookOk(t, i) \/ HookFails(t, i)
  \/ \E q \in pending : AutoDisable(q)
  \/ \E p \in Plugin : WindowPasses(p)

PluginsSpec == PluginsInit /\ [][PluginsNext]_plugVars

------------------------------------------------------------------------------
PluginsTypeOK ==
  /\ registered \subseteq Plugin /\ listed \subseteq Plugin /\ disabled \subseteq Plugin
  /\ \A k \in DOMAIN hooks : hooks[k] \in Seq(Plugin)
  /\ \A p \in Plugin : errors[p].count \in 0 .. MaxCalls * MaxCalls
  /\ \A t \in PlugTask :
       /\ ran[t] \cup due[t] \subseteq DOMAIN job[t].list
       /\ live[t] \subseteq 1 .. (job[t].next - 1) /\ (live[t] # {} => At(t, "dispatch"))

(* Of the plugins that no two lifecycle calls have met on, the four maps    *)
(* agree whenever no call is under way: registered, listed in the metadata  *)
(* and once in every hook list, or in none of them, whatever dispatches,    *)
(* failures and refused registrations came between.                         *)
MapsAgree ==
  \A p \in Plugin \ raced :
    (\A t \in PlugTask : job[t].name = p => job[t].at \notin Lifecycle) =>
      /\ p \in listed <=> p \in registered
      /\ \A k \in DOMAIN hooks :
           Len(Only(hooks[k], {p})) = IF p \in registered THEN 1 ELSE 0

(* The limit is checked in one critical section and the plugin inserted in  *)
(* another, so registrations that overlap may exceed it; without an overlap *)
(* it is kept through any unregistering, failed and repeated registration.  *)
LimitKept == Cardinality(registered) > MaxPlugins => crowded

(* A plugin whose counted errors have reached the limit is disabled, or     *)
(* about to be: no interleaving of failures, re-enabling and unregistering  *)
(* leaves it both over the limit and in service.                            *)
OverLimitIsDisabled ==
  \A p \in Plugin :
    errors[p].count >= MaxErrors =>
      \/ p \in disabled
      \/ \E q \in pending : q[3] = p
      \/ \E t \in PlugTask : At(t, "enable") /\ job[t].name = p

(* A plugin that is registered and enabled from the start of a commit or    *)
(* schedule event to its end is run by it, whichever other plugins fail or  *)
(* come and go meanwhile; and so by a query nobody answers.                 *)
EveryHookRuns == \A t \in PlugTask : At(t, "returned") => due[t] \subseteq ran[t]

(* The maps, limits and dispatches of the plugin manager, in any           *)
(* interleaving of its calls: see the four parts.                          *)
PluginsConsistent == MapsAgree /\ LimitKept /\ OverLimitIsDisabled /\ EveryHookRuns
==============================================================================

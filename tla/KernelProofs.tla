---------------------------- MODULE KernelProofs ----------------------------
(***************************************************************************)
(* Theorems about the transaction kernel, for every set of keys, values    *)
(* and slots and every bound.                                              *)
(***************************************************************************)
EXTENDS Kernel, TLAPS

(* Applying mutations to part of a leaf gives a leaf.                      *)
LEMMA OverlayType ==
  ASSUME NEW page \in Leaf, NEW b \in [Key -> Change], NEW t \in Txn, NEW S
  PROVE  Overlay(page, b, t, S) \in Leaf
<1>1. NoEntry \in Entry
  BY BoundsAssumption DEF NoEntry, Entry, Txn
<1>2. \A k \in Key : b[k] # Untouched => [val |-> b[k], lsn |-> t] \in Entry
  BY DEF Change, Entry
<1> QED BY <1>1, <1>2 DEF Overlay, Leaf

(* Database contents stay contents under a set of mutations.               *)
LEMMA EffectType ==
  ASSUME NEW c \in [Key -> Value \cup {Absent}], NEW b \in [Key -> Change]
  PROVE  Effect(c, b) \in [Key -> Value \cup {Absent}]
BY DEF Effect, Change

(* choose_best_meta returns one of its arguments, an intact one if there   *)
(* is one and then the higher.                                             *)
LEMMA BestMetaChoice ==
  ASSUME NEW a \in Meta, NEW b \in Meta
  PROVE  /\ BestMeta(a, b) \in {a, b}
         /\ BestMeta(a, b) # Torn => BestMeta(a, b) \in Txn
         /\ BestMeta(a, b) = Torn => a = Torn /\ b = Torn
BY BoundsAssumption DEF BestMeta, Meta, Txn, Torn

-----------------------------------------------------------------------------
LEMMA InitType == Init => TypeOK
<1> SUFFICES ASSUME Init PROVE TypeOK
  OBVIOUS
<1>1. 0 \in Txn /\ 0 \in Meta /\ NoEntry \in Entry
  BY BoundsAssumption DEF Txn, Meta, NoEntry, Entry
<1>2. Empty \in [Key -> Change]
  BY DEF Empty, Change
<1>3. leaf \in Leaf /\ survLeaf \in SUBSET Leaf
  BY <1>1 DEF Init, Leaf
<1>4. hist \in [Txn -> [Key -> Value \cup {Absent}]]
  BY DEF Init
<1>5. refs \in [Txn -> 0 .. MaxRefs] /\ ops \in [Writer -> 0 .. MaxOps]
      /\ crashes \in 0 .. MaxCrashes
  BY BoundsAssumption DEF Init
<1>6. /\ id \in [Writer -> Txn] /\ state \in [Writer -> TxnState]
      /\ pc \in [Writer -> Pc] /\ buf \in [Writer -> [Key -> Change]]
      /\ snap \in [Reader -> Txn \cup {NoOne}]
  BY <1>1, <1>2 DEF Init, TxnState, Pc
<1> QED BY <1>1, <1>3, <1>4, <1>5, <1>6 DEF Init, TypeOK

(* Every step keeps every variable in its type.                            *)
LEMMA StepType == TypeOK /\ [Next]_vars => TypeOK'
<1> SUFFICES ASSUME TypeOK, [Next]_vars PROVE TypeOK'
  OBVIOUS
<1> USE DEF vars, dbVars, txnVars, fileVars
<1>a. Empty \in [Key -> Change]
  BY DEF Empty, Change
<1>b. 0 \in Txn /\ Torn \in Meta /\ Txn \subseteq Meta
  BY BoundsAssumption DEF Txn, Meta
<1>1. ASSUME NEW w \in Writer, BeginWrite(w) PROVE TypeOK'
  <2>1. counter + 1 \in Txn
    BY <1>1, BoundsAssumption DEF TypeOK, BeginWrite, Txn
  <2> QED BY <1>1, <1>a, <2>1, BoundsAssumption DEF TypeOK, BeginWrite, TxnState, Pc
<1>2. ASSUME NEW w \in Writer, NEW k \in Key, NEW c \in Value \cup {Absent},
             Mutate(w, k, c)
      PROVE  TypeOK'
  <2>1. buf' \in [Writer -> [Key -> Change]]
    BY <1>2 DEF TypeOK, Mutate, Change
  <2>2. ops' \in [Writer -> 0 .. MaxOps]
    BY <1>2, BoundsAssumption DEF TypeOK, Mutate
  <2> QED BY <1>2, <2>1, <2>2 DEF TypeOK, Mutate
<1>3. ASSUME NEW w \in Writer, NEW next \in {"client", "apply"},
             Prepare(w, next) \/ PrepareFails(w, next)
      PROVE  TypeOK'
  <2>1. [txn |-> id[w], buf |-> buf[w]] \in Record
    BY DEF TypeOK, Record
  <2>2. wal' \in SUBSET Record
    BY <1>3, <2>1 DEF TypeOK, Prepare, PrepareFails
  <2> QED BY <1>3, <2>2 DEF TypeOK, Prepare, PrepareFails, TxnState, Pc
<1>4. ASSUME NEW w \in Writer, CommitEmpty(w) PROVE TypeOK'
  BY <1>4 DEF TypeOK, CommitEmpty, Pc
<1>5. ASSUME NEW w \in Writer, Apply(w) \/ ApplyFails(w) PROVE TypeOK'
  <2>1. \A S : Overlay(leaf, buf[w], id[w], S) \in Leaf
    BY OverlayType DEF TypeOK
  <2>2. leaf' \in Leaf /\ survLeaf' \in SUBSET Leaf
    BY <1>5, <2>1 DEF TypeOK, Apply, ApplyFails
  <2> QED BY <1>5, <2>2 DEF TypeOK, Apply, ApplyFails, Pc
<1>6. ASSUME NEW w \in Writer, Register(w) \/ RegisterFails(w) PROVE TypeOK'
  <2>1. Effect(hist[current], buf[w]) \in [Key -> Value \cup {Absent}]
    BY EffectType DEF TypeOK
  <2>2. /\ snapshots' \in SUBSET Txn /\ current' \in Txn
        /\ refs' \in [Txn -> 0 .. MaxRefs]
        /\ hist' \in [Txn -> [Key -> Value \cup {Absent}]]
    <3>1. Advance(w)
      BY <1>6 DEF Register, RegisterFails
    <3>2. hist' \in [Txn -> [Key -> Value \cup {Absent}]]
      BY <2>1, <3>1 DEF TypeOK, Advance
    <3>3. refs' \in [Txn -> 0 .. MaxRefs]
      BY <3>1, BoundsAssumption DEF TypeOK, Advance
    <3> QED BY <3>1, <3>2, <3>3 DEF TypeOK, Advance
  <2>3. /\ metaA' \in Meta /\ survA' \in SUBSET Meta
        /\ metaB' \in Meta /\ survB' \in SUBSET Meta
    BY <1>6, <1>b DEF TypeOK, Register, RegisterFails
  <2> QED BY <1>6, <2>2, <2>3 DEF TypeOK, Register, RegisterFails, Pc
<1>7. ASSUME NEW w \in Writer, RegisterRefused(w) PROVE TypeOK'
  BY <1>7 DEF TypeOK, RegisterRefused, Pc
<1>8. ASSUME NEW w \in Writer, SyncMeta(w) \/ SyncFails(w) PROVE TypeOK'
  BY <1>8 DEF TypeOK, SyncMeta, SyncFails, Synced, TxnState, Pc
<1>9. ASSUME NEW w \in Writer, Abort(w) PROVE TypeOK'
  BY <1>9, <1>a, BoundsAssumption DEF TypeOK, Abort, TxnState, Pc
<1>10. ASSUME NEW r \in Reader, NEW t \in Txn, TakeSnapshot(r, t) PROVE TypeOK'
  <2>1. refs' \in [Txn -> 0 .. MaxRefs]
    BY <1>10, BoundsAssumption DEF TypeOK, TakeSnapshot
  <2> QED BY <1>10, <2>1 DEF TypeOK, TakeSnapshot
<1>11. ASSUME NEW r \in Reader, ReleaseSnapshot(r) PROVE TypeOK'
  BY <1>11 DEF TypeOK, ReleaseSnapshot
<1>12. ASSUME Close \/ CloseFails \/ Sync PROVE TypeOK'
  BY <1>12 DEF TypeOK, Close, CloseFails, Sync, Synced
<1>13. ASSUME Kill \/ PowerLoss \/ Drop PROVE TypeOK'
  <2>1. crashes' \in 0 .. MaxCrashes
    BY <1>13, BoundsAssumption DEF TypeOK, Kill, PowerLoss, Drop
  <2> QED BY <1>13, <2>1 DEF TypeOK, Kill, PowerLoss, Drop, LoseProcess, Synced, Pc
<1>14. ASSUME Open PROVE TypeOK'
  <2>1. BestMeta(metaA, metaB) \in Txn
    BY <1>14, BestMetaChoice DEF TypeOK, Open
  <2>2. refs' \in [Txn -> 0 .. MaxRefs]
    BY <1>14, BoundsAssumption DEF Open
  <2> QED BY <1>14, <2>1, <2>2 DEF TypeOK, Open
<1>15. ASSUME UNCHANGED vars PROVE TypeOK'
  BY <1>15 DEF TypeOK
<1> QED BY <1>1, <1>2, <1>3, <1>4, <1>5, <1>6, <1>7, <1>8, <1>9, <1>10, <1>11,
           <1>12, <1>13, <1>14, <1>15
        DEF Next, WriterStep, ReaderStep, Put, Delete

(* Type correctness of the kernel: through every interleaving of writers,  *)
(* readers, failures, crashes and reopenings, in particular a reopened     *)
(* database has an id some transaction had and an opened one never a torn  *)
(* one.                                                                    *)
THEOREM TypeCorrect == Spec => []TypeOK
BY InitType, StepType, PTL DEF Spec

-----------------------------------------------------------------------------
LEMMA InitRegistry == Init => RegistryInv
BY DEF Init, RegistryInv, IdsOrdered, SyncHoldsLock, MetasNotOlder, DownIsIdle, Live

(* The registry and the two meta pages stay in order through every step.   *)
LEMMA StepRegistry == TypeOK /\ RegistryInv /\ [Next]_vars => RegistryInv'
<1> SUFFICES ASSUME TypeOK, RegistryInv, [Next]_vars PROVE RegistryInv'
  OBVIOUS
<1> USE DEF vars, dbVars, txnVars, fileVars
<1>a. /\ counter \in Int /\ current \in Int /\ acked \in Int
      /\ snapshots \subseteq Int /\ id \in [Writer -> Int]
      /\ pc \in [Writer -> Pc] /\ lock \in Writer \cup {NoOne}
      /\ Torn \in Int
      /\ survA \subseteq Int /\ survB \subseteq Int
  BY BoundsAssumption DEF TypeOK, Txn, Meta, Torn
<1>1. ASSUME NEW w \in Writer, BeginWrite(w) PROVE RegistryInv'
  BY <1>a, <1>1 DEF RegistryInv, IdsOrdered, SyncHoldsLock, MetasNotOlder, DownIsIdle,
       Live, BeginWrite, Free
<1>2. ASSUME NEW w \in Writer, NEW k \in Key, NEW c \in Value \cup {Absent},
             Mutate(w, k, c)
      PROVE  RegistryInv'
  BY <1>2 DEF RegistryInv, IdsOrdered, SyncHoldsLock, MetasNotOlder, DownIsIdle, Live, Mutate
<1>3. ASSUME NEW w \in Writer, NEW next \in {"client", "apply"},
             Prepare(w, next) \/ PrepareFails(w, next)
      PROVE  RegistryInv'
  BY <1>a, <1>3 DEF RegistryInv, IdsOrdered, SyncHoldsLock, MetasNotOlder, DownIsIdle,
       Live, Prepare, PrepareFails, Free
<1>4. ASSUME NEW w \in Writer, CommitEmpty(w) PROVE RegistryInv'
  BY <1>a, <1>4 DEF RegistryInv, IdsOrdered, SyncHoldsLock, MetasNotOlder, DownIsIdle,
       Live, CommitEmpty
<1>5. ASSUME NEW w \in Writer, Apply(w) \/ ApplyFails(w) PROVE RegistryInv'
  BY <1>a, <1>5 DEF RegistryInv, IdsOrdered, SyncHoldsLock, MetasNotOlder, DownIsIdle,
       Live, Apply, ApplyFails, Free, ToApply
<1>6. ASSUME NEW w \in Writer, Register(w) \/ RegisterFails(w) PROVE RegistryInv'
  <2>1. up /\ lock = NoOne /\ pc[w] = "register" /\ Advance(w) /\ Live(w)
    BY <1>6 DEF Register, RegisterFails, Free, Live
  <2>2. IdsOrdered'
    BY <1>a, <1>6, <2>1 DEF RegistryInv, IdsOrdered, Live, Register, RegisterFails, Advance
  <2>3. SyncHoldsLock'
    <3>1. \A x \in Writer : pc[x] # "sync"
      BY <2>1, NamesAssumption DEF RegistryInv, SyncHoldsLock
    <3> QED BY <1>a, <1>6, <2>1, <3>1 DEF SyncHoldsLock, Register, RegisterFails, Advance
  <2>4. MetasNotOlder'
    <3>1. acked <= id[w]
      BY <1>a, <2>1 DEF RegistryInv, IdsOrdered, Advance
    <3> QED BY <1>a, <1>6, <2>1, <3>1
              DEF RegistryInv, MetasNotOlder, Register, RegisterFails
  <2>5. DownIsIdle'
    BY <1>6, <2>1 DEF DownIsIdle, Register, RegisterFails
  <2> QED BY <2>2, <2>3, <2>4, <2>5 DEF RegistryInv
<1>7. ASSUME NEW w \in Writer, RegisterRefused(w) PROVE RegistryInv'
  BY <1>a, <1>7 DEF RegistryInv, IdsOrdered, SyncHoldsLock, MetasNotOlder, DownIsIdle,
       Live, RegisterRefused, Free
<1>8. ASSUME NEW w \in Writer, SyncMeta(w) \/ SyncFails(w) PROVE RegistryInv'
  <2>1. /\ up /\ lock = w /\ current = id[w] /\ metaA = id[w] /\ metaB = id[w]
        /\ \A x \in Writer : pc[x] = "sync" => x = w
    BY <1>8 DEF RegistryInv, SyncHoldsLock, SyncMeta, SyncFails
  <2>2. IdsOrdered'
    BY <1>a, <1>8, <2>1 DEF RegistryInv, IdsOrdered, Live, SyncMeta, SyncFails
  <2>3. SyncHoldsLock'
    BY <1>a, <1>8, <2>1 DEF SyncHoldsLock, SyncMeta, SyncFails
  <2>4. MetasNotOlder'
    <3>1. CASE SyncMeta(w)
      BY <1>a, <2>1, <3>1 DEF MetasNotOlder, SyncMeta, Synced
    <3>2. CASE SyncFails(w)
      BY <3>2 DEF RegistryInv, MetasNotOlder, SyncFails
    <3> QED BY <1>8, <3>1, <3>2
  <2>5. DownIsIdle'
    BY <1>8, <2>1 DEF DownIsIdle, SyncMeta, SyncFails
  <2> QED BY <2>2, <2>3, <2>4, <2>5 DEF RegistryInv
<1>9. ASSUME NEW w \in Writer, Abort(w) PROVE RegistryInv'
  BY <1>a, <1>9 DEF RegistryInv, IdsOrdered, SyncHoldsLock, MetasNotOlder, DownIsIdle,
       Live, Abort
<1>10. ASSUME NEW r \in Reader,
              ReleaseSnapshot(r) \/ \E t \in Txn : TakeSnapshot(r, t)
       PROVE  RegistryInv'
  BY <1>10 DEF RegistryInv, IdsOrdered, SyncHoldsLock, MetasNotOlder, DownIsIdle, Live,
       TakeSnapshot, ReleaseSnapshot
<1>11. ASSUME Close \/ CloseFails \/ Sync PROVE RegistryInv'
  BY <1>11 DEF RegistryInv, IdsOrdered, SyncHoldsLock, MetasNotOlder, DownIsIdle, Live,
       Close, CloseFails, Sync, Synced
<1>12. ASSUME Kill \/ PowerLoss \/ Drop PROVE RegistryInv'
  <2>1. LoseProcess
    BY <1>12 DEF Kill, PowerLoss, Drop
  <2>2. IdsOrdered' /\ SyncHoldsLock' /\ DownIsIdle'
    BY <2>1 DEF IdsOrdered, SyncHoldsLock, DownIsIdle, LoseProcess
  <2>3. MetasNotOlder'
    BY <1>12, <2>1 DEF RegistryInv, MetasNotOlder, Kill, PowerLoss, Drop, LoseProcess, Synced
  <2> QED BY <2>2, <2>3 DEF RegistryInv
<1>13. ASSUME Open PROVE RegistryInv'
  <2>1. BestMeta(metaA, metaB) \in {metaA, metaB} /\ BestMeta(metaA, metaB) \in Int
    BY <1>13, BestMetaChoice, BoundsAssumption DEF TypeOK, Open, Txn
  <2>2. acked <= BestMeta(metaA, metaB)
    <3>1. BestMeta(metaA, metaB) \in survA \cup survB
      BY <2>1 DEF RegistryInv, MetasNotOlder
    <3> QED BY <1>13, <3>1 DEF RegistryInv, MetasNotOlder, Open
  <2>3. IdsOrdered'
    BY <1>13, <2>1, <2>2 DEF RegistryInv, IdsOrdered, DownIsIdle, Live, Open
  <2> QED BY <1>13, <2>3 DEF RegistryInv, SyncHoldsLock, MetasNotOlder, DownIsIdle, Open
<1>14. ASSUME UNCHANGED vars PROVE RegistryInv'
  BY <1>14 DEF RegistryInv, IdsOrdered, SyncHoldsLock, MetasNotOlder, DownIsIdle, Live
<1> QED BY <1>1, <1>2, <1>3, <1>4, <1>5, <1>6, <1>7, <1>8, <1>9, <1>10, <1>11,
           <1>12, <1>13, <1>14
        DEF Next, WriterStep, ReaderStep, Put, Delete

(* Together the two invariants hold of every behaviour.                    *)
LEMMA KernelInvariant == Spec => [](TypeOK /\ RegistryInv)
<1>1. Init => TypeOK /\ RegistryInv
  BY InitType, InitRegistry
<1>2. (TypeOK /\ RegistryInv) /\ [Next]_vars => (TypeOK /\ RegistryInv)'
  BY StepType, StepRegistry
<1> QED BY <1>1, <1>2, PTL DEF Spec

(* Durability of acknowledged commits: whatever power loss leaves of the   *)
(* meta pages that Pager::commit_transaction overwrites both at once, a    *)
(* database that opens is at or above every commit that returned Ok.       *)
THEOREM AcknowledgedIsDurable == Spec => []AckedSurvives
<1>1. TypeOK /\ RegistryInv => AckedSurvives
  <2> SUFFICES ASSUME TypeOK, RegistryInv, NEW a \in survA, NEW b \in survB,
                      BestMeta(a, b) # Torn
               PROVE  BestMeta(a, b) >= acked
    BY DEF AckedSurvives
  <2>1. BestMeta(a, b) \in {a, b} /\ BestMeta(a, b) \in Int /\ acked \in Int
    BY BestMetaChoice, BoundsAssumption DEF TypeOK, Txn
  <2>2. BestMeta(a, b) \in survA \cup survB
    BY <2>1
  <2>3. acked <= BestMeta(a, b)
    BY <2>2 DEF RegistryInv, MetasNotOlder
  <2> QED BY <2>1, <2>3
<1> QED BY <1>1, KernelInvariant, PTL

(* The registry's current id is its newest snapshot and was handed out by  *)
(* begin_write, in every reachable state.                                  *)
THEOREM RegistryIsCurrent == Spec => []CurrentIsNewest
<1>1. TypeOK /\ RegistryInv => CurrentIsNewest
  BY DEF RegistryInv, IdsOrdered, CurrentIsNewest
<1> QED BY <1>1, KernelInvariant, PTL

(* While a process has the database open the current id never goes back    *)
(* and no registered snapshot is lost, whichever order commits arrive in.  *)
THEOREM RegistryNeverGoesBack == Spec => RegistryMonotone
<1>1. TypeOK /\ RegistryInv /\ [Next]_vars =>
        [up /\ up' => current <= current' /\ snapshots \subseteq snapshots']_vars
  <2> SUFFICES ASSUME TypeOK, RegistryInv, Next, up, up'
               PROVE  current <= current' /\ snapshots \subseteq snapshots'
    BY DEF vars
  <2> USE DEF dbVars
  <2>a. current \in Int /\ id \in [Writer -> Int]
    BY BoundsAssumption DEF TypeOK, Txn
  <2>1. ASSUME NEW w \in Writer, WriterStep(w)
        PROVE  current <= current' /\ snapshots \subseteq snapshots'
    <3>1. CASE Advance(w)
      BY <2>a, <3>1 DEF Advance
    <3>2. CASE UNCHANGED <<current, snapshots>>
      BY <2>a, <3>2
    <3> QED BY <2>1, <3>1, <3>2
          DEF WriterStep, BeginWrite, Put, Delete, Mutate, Prepare, PrepareFails, CommitEmpty,
              Apply, ApplyFails, Register, RegisterFails, RegisterRefused, SyncMeta, SyncFails,
              Abort
  <2>2. ASSUME NEW r \in Reader, ReaderStep(r) PROVE UNCHANGED <<current, snapshots>>
    BY <2>2 DEF ReaderStep, TakeSnapshot, ReleaseSnapshot
  <2>3. ASSUME Close \/ CloseFails \/ Sync PROVE UNCHANGED <<current, snapshots>>
    BY <2>3 DEF Close, CloseFails, Sync
  <2>4. ~(Kill \/ PowerLoss \/ Drop \/ Open)
    BY DEF Kill, PowerLoss, Drop, LoseProcess, Open
  <2> QED BY <2>a, <2>1, <2>2, <2>3, <2>4 DEF Next
<1> QED BY <1>1, KernelInvariant, PTL DEF Spec, RegistryMonotone

(* begin_write never repeats an id: a new transaction's is above that of   *)
(* every acknowledged commit, registered snapshot and live transaction,    *)
(* also after a crash lost all but the meta pages.                         *)
THEOREM IdsAreFresh == Spec => FreshIds
<1> DEFINE Fresh(w) == /\ id'[w] > acked
                       /\ \A s \in snapshots : id'[w] > s
                       /\ \A x \in Writer : Live(x) => id'[w] > id[x]
<1>1. TypeOK /\ RegistryInv /\ [Next]_vars =>
        [\A w \in Writer : ~Live(w) /\ Live(w)' => Fresh(w)]_vars
  <2> SUFFICES ASSUME TypeOK, RegistryInv, Next, NEW w \in Writer, ~Live(w), Live(w)'
               PROVE  Fresh(w)
    BY DEF vars
  <2> USE DEF txnVars
  <2>a. /\ counter \in Int /\ current \in Int /\ acked \in Int
        /\ snapshots \subseteq Int /\ id \in [Writer -> Int] /\ pc \in [Writer -> Pc]
    BY BoundsAssumption DEF TypeOK, Txn
  <2>1. BeginWrite(w)
    <3>1. ASSUME NEW x \in Writer, WriterStep(x) PROVE BeginWrite(w)
      <4>1. x = w
        BY <2>a, <3>1 DEF WriterStep, Live, BeginWrite, Put, Delete, Mutate, Prepare,
             PrepareFails, CommitEmpty, Apply, ApplyFails, Register, RegisterFails,
             RegisterRefused, SyncMeta, SyncFails, Abort
      <4> QED BY <2>a, <3>1, <4>1 DEF WriterStep, Live, Put, Delete, Mutate, Prepare,
             PrepareFails, CommitEmpty, Apply, ApplyFails, ToApply, Register, RegisterFails,
             RegisterRefused, SyncMeta, SyncFails, Abort
    <3>2. ASSUME NEW r \in Reader, ReaderStep(r) PROVE FALSE
      BY <3>2 DEF ReaderStep, TakeSnapshot, ReleaseSnapshot, Live
    <3>3. ~(Close \/ CloseFails \/ Sync \/ Open)
      BY DEF Close, CloseFails, Sync, Open, Live
    <3>4. ~(Kill \/ PowerLoss \/ Drop)
      BY DEF Kill, PowerLoss, Drop, LoseProcess, Live
    <3> QED BY <3>1, <3>2, <3>3, <3>4 DEF Next
  <2>2. up /\ id'[w] = counter + 1
    BY <2>a, <2>1 DEF BeginWrite, Free
  <2> QED BY <2>a, <2>2 DEF RegistryInv, IdsOrdered
<1> QED BY <1>1, KernelInvariant, PTL DEF Spec, FreshIds

-----------------------------------------------------------------------------
LEMMA InitLog == Init => LogInv
BY DEF Init, LogInv, PreparedLogged, WalBeforeData

(* A step keeps the log ahead of the pages when the log never refuses.     *)
LEMMA StepLog ==
  ASSUME ~IoFaults, ~CloseCalls
  PROVE  TypeOK /\ LogInv /\ [Next]_vars => LogInv'
<1> SUFFICES ASSUME TypeOK, LogInv, [Next]_vars PROVE LogInv'
  OBVIOUS
<1> USE DEF vars, dbVars, txnVars, fileVars
<1>a. /\ pc \in [Writer -> Pc] /\ state \in [Writer -> TxnState]
      /\ id \in [Writer -> Txn] /\ buf \in [Writer -> [Key -> Change]]
  BY DEF TypeOK
<1>b. ASSUME UNCHANGED <<leaf, survLeaf>>, wal \subseteq wal' PROVE WalBeforeData'
  BY <1>b DEF LogInv, WalBeforeData
<1>1. ASSUME NEW w \in Writer, BeginWrite(w) PROVE LogInv'
  BY <1>a, <1>b, <1>1 DEF LogInv, PreparedLogged, BeginWrite
<1>2. ASSUME NEW w \in Writer, NEW k \in Key, NEW c, Mutate(w, k, c) PROVE LogInv'
  BY <1>a, <1>b, <1>2 DEF LogInv, PreparedLogged, Mutate
<1>3. ASSUME NEW w \in Writer, NEW next \in {"client", "apply"},
             Prepare(w, next) \/ PrepareFails(w, next)
      PROVE  LogInv'
  <2>1. Prepare(w, next)
    BY <1>3 DEF LogInv, PrepareFails
  <2> QED BY <1>a, <1>b, <2>1 DEF LogInv, PreparedLogged, Prepare
<1>4. ASSUME NEW w \in Writer, Apply(w) \/ ApplyFails(w) PROVE LogInv'
  <2>1. Apply(w) /\ ToApply(w)
    BY <1>4 DEF Apply, ApplyFails
  <2>2. [txn |-> id[w], buf |-> buf[w]] \in wal
    BY <2>1 DEF ToApply, LogInv, PreparedLogged
  <2>3. ASSUME NEW S, NEW k \in Key, Overlay(leaf, buf[w], id[w], S)[k] # NoEntry
        PROVE  \E r \in wal : /\ r.txn = Overlay(leaf, buf[w], id[w], S)[k].lsn
                              /\ r.buf[k] = Overlay(leaf, buf[w], id[w], S)[k].val
    <3>1. CASE Overlay(leaf, buf[w], id[w], S)[k] = leaf[k]
      BY <2>3, <3>1 DEF LogInv, WalBeforeData
    <3>2. CASE Overlay(leaf, buf[w], id[w], S)[k] = [val |-> buf[w][k], lsn |-> id[w]]
      BY <2>2, <3>2
    <3> QED BY <2>3, <3>1, <3>2 DEF Overlay
  <2>4. WalBeforeData'
    <3> SUFFICES ASSUME NEW page \in survLeaf' \cup {leaf'}, NEW k \in Key,
                        page[k] # NoEntry
                 PROVE  \E r \in wal : r.txn = page[k].lsn /\ r.buf[k] = page[k].val
      BY <2>1 DEF WalBeforeData, Apply
    <3>1. CASE page \in survLeaf
      BY <3>1 DEF LogInv, WalBeforeData
    <3>2. CASE \E S \in SUBSET Key : page = Overlay(leaf, buf[w], id[w], S)
      BY <2>3, <3>2
    <3> QED BY <2>1, <3>1, <3>2 DEF Apply
  <2> QED BY <1>a, <2>1, <2>4 DEF LogInv, PreparedLogged, Apply
<1>5. ASSUME NEW w \in Writer, CommitEmpty(w) \/ Abort(w) PROVE LogInv'
  BY <1>a, <1>b, <1>5 DEF LogInv, PreparedLogged, CommitEmpty, Abort
<1>6. ASSUME NEW w \in Writer, Register(w) \/ RegisterFails(w) \/ RegisterRefused(w)
      PROVE  LogInv'
  BY <1>a, <1>b, <1>6 DEF LogInv, PreparedLogged, Register, RegisterFails, RegisterRefused
<1>7. ASSUME NEW w \in Writer, SyncMeta(w) \/ SyncFails(w) PROVE LogInv'
  <2>1. WalBeforeData'
    BY <1>7 DEF LogInv, WalBeforeData, SyncMeta, SyncFails, Synced
  <2> QED BY <1>a, <1>7, <2>1 DEF LogInv, PreparedLogged, SyncMeta, SyncFails
<1>8. ASSUME NEW r \in Reader, ReaderStep(r) PROVE LogInv'
  BY <1>b, <1>8 DEF LogInv, PreparedLogged, ReaderStep, TakeSnapshot, ReleaseSnapshot
<1>9. ASSUME Sync \/ Open PROVE LogInv'
  <2>1. WalBeforeData'
    BY <1>9 DEF LogInv, WalBeforeData, Sync, Open, Synced
  <2> QED BY <1>9, <2>1 DEF LogInv, PreparedLogged, Sync, Open
<1>10. ASSUME Kill \/ PowerLoss PROVE LogInv'
  <2>1. WalBeforeData'
    BY <1>10 DEF LogInv, WalBeforeData, Kill, PowerLoss, LoseProcess, Synced
  <2> QED BY <1>10, <2>1 DEF LogInv, PreparedLogged, Kill, PowerLoss, LoseProcess
<1>11. ~Close /\ ~CloseFails /\ ~Drop
  BY DEF LogInv, Close, CloseFails, Drop
<1>12. ASSUME UNCHANGED vars PROVE LogInv'
  BY <1>b, <1>12 DEF LogInv, PreparedLogged
<1> QED BY <1>1, <1>2, <1>3, <1>4, <1>5, <1>6, <1>7, <1>8, <1>9, <1>10, <1>11, <1>12
        DEF Next, WriterStep, Put, Delete

(* Write-ahead logging: as long as the log accepts every record, no value  *)
(* is in a page version, volatile or left by a power loss, that the log    *)
(* does not durably hold, with any number of writers.                      *)
THEOREM LogComesFirst ==
  ASSUME ~IoFaults, ~CloseCalls
  PROVE  Spec => []WalBeforeData
<1>1. Init => TypeOK /\ LogInv
  BY InitType, InitLog
<1>2. (TypeOK /\ LogInv) /\ [Next]_vars => (TypeOK /\ LogInv)'
  BY StepType, StepLog
<1>3. TypeOK /\ LogInv => WalBeforeData
  BY DEF LogInv
<1> QED BY <1>1, <1>2, <1>3, PTL DEF Spec

-----------------------------------------------------------------------------
LEMMA InitSerial == Init => SerialInv
BY BoundsAssumption DEF Init, SerialInv, OneAbove, LeafExplained, LeafApplied,
     SnapshotNeverWrong, View, Live, NoEntry, Txn

(* With one writer at a time every step but a crash keeps the leaf         *)
(* readable by every snapshot.                                             *)
LEMMA StepSerial ==
  ASSUME Exclusive, ~IoFaults, ~CloseCalls
  PROVE  TypeOK /\ RegistryInv /\ SerialInv /\ crashes = 0 /\ crashes' = 0 /\ [Next]_vars
           => SerialInv'
<1> SUFFICES ASSUME TypeOK, RegistryInv, SerialInv, crashes = 0, crashes' = 0, [Next]_vars
             PROVE  SerialInv'
  OBVIOUS
<1> USE DEF vars, dbVars, txnVars, fileVars
<1>a. /\ counter \in Int /\ current \in Int /\ snapshots \subseteq Txn /\ Txn \subseteq Int
      /\ id \in [Writer -> Txn] /\ pc \in [Writer -> Pc] /\ current \in Txn
      /\ buf \in [Writer -> [Key -> Change]] /\ leaf \in [Key -> Entry]
      /\ hist \in [Txn -> [Key -> Value \cup {Absent}]]
      /\ \A k \in Key : leaf[k].lsn \in Int
      /\ \A w \in Writer : id[w] \in Int
      /\ \A s \in snapshots : s \in Int
  BY BoundsAssumption DEF TypeOK, Txn, Leaf, Entry
<1>c. ASSUME UNCHANGED <<up, closed, walClosed, current, snapshots, leaf, hist, buf, id>>,
             \A w \in Writer : /\ Live(w)' => Live(w)
                               /\ pc'[w] = "register" <=> pc[w] = "register"
                               /\ pc'[w] \in {"client", "apply"} =>
                                    pc[w] \in {"client", "apply"}
      PROVE  SerialInv'
  BY <1>c DEF SerialInv, OneAbove, LeafExplained, LeafApplied, SnapshotNeverWrong, View
<1>1. ASSUME NEW w \in Writer, BeginWrite(w) PROVE SerialInv'
  <2>1. \A x \in Writer : ~Live(x)
    BY <1>1 DEF BeginWrite
  <2>2. \A x \in Writer : pc[x] # "register" /\ pc'[x] # "register"
    BY <1>a, <1>1, <2>1 DEF BeginWrite, Live
  <2>3. OneAbove'
    BY <1>a, <1>1, <2>1 DEF OneAbove, Live, BeginWrite, RegistryInv, IdsOrdered, Free
  <2> QED BY <1>1, <2>2, <2>3
        DEF SerialInv, LeafExplained, LeafApplied, SnapshotNeverWrong, View, BeginWrite
<1>2. ASSUME NEW w \in Writer, NEW k \in Key, NEW c, Mutate(w, k, c) PROVE SerialInv'
  <2>1. \A x \in Writer : pc[x] = "register" => x # w /\ buf'[x] = buf[x]
    BY <1>a, <1>2 DEF Mutate
  <2> QED BY <1>a, <1>2, <2>1
        DEF SerialInv, OneAbove, LeafExplained, LeafApplied, SnapshotNeverWrong, View, Live,
            Mutate
<1>3. ASSUME NEW w \in Writer, NEW next \in {"client", "apply"},
             Prepare(w, next) \/ PrepareFails(w, next)
      PROVE  SerialInv'
  <2>1. Prepare(w, next)
    BY <1>3 DEF SerialInv, PrepareFails
  <2> QED BY <1>a, <1>c, <2>1 DEF Prepare, Live
<1>4. ASSUME NEW w \in Writer, CommitEmpty(w) PROVE SerialInv'
  BY <1>a, <1>c, <1>4 DEF CommitEmpty, Live
<1>5. ASSUME NEW w \in Writer, Apply(w) \/ ApplyFails(w) PROVE SerialInv'
  <2>1. Apply(w) /\ Live(w) /\ pc[w] \in {"client", "apply"} /\ current < id[w]
    BY <1>5 DEF Apply, ApplyFails, ToApply, Live, SerialInv, OneAbove
  <2>2. \A x \in Writer : pc[x] # "register"
    BY <2>1 DEF SerialInv, OneAbove, Live
  <2>3. \A x \in Writer : pc'[x] = "register" => x = w
    BY <1>a, <2>1, <2>2 DEF Apply
  <2>4. OneAbove'
    BY <1>a, <2>1 DEF SerialInv, OneAbove, Live, Apply
  <2>5. \A k \in Key : leaf'[k] = IF buf[w][k] = Untouched THEN leaf[k]
                                  ELSE IF buf[w][k] = Absent THEN NoEntry
                                  ELSE [val |-> buf[w][k], lsn |-> id[w]]
    BY <2>1 DEF Apply, Overlay
  <2>6. LeafApplied'
    BY <2>1, <2>3, <2>5 DEF LeafApplied, Apply
  <2>7. LeafExplained'
    BY <1>a, <2>1, <2>2, <2>5 DEF SerialInv, LeafExplained, Apply
  <2>8. SnapshotNeverWrong'
    <3> SUFFICES ASSUME NEW s \in snapshots, NEW k \in Key, leaf'[k].lsn <= s
                 PROVE  leaf'[k].val \in {hist[s][k], Absent}
      BY <2>1 DEF SnapshotNeverWrong, View, Apply
    <3>1. s <= current /\ s \in Int /\ id[w] \in Int
      BY <1>a DEF RegistryInv, IdsOrdered, SerialInv
    <3>2. CASE buf[w][k] = Untouched
      BY <2>5, <3>2 DEF SerialInv, SnapshotNeverWrong, View
    <3>3. CASE buf[w][k] = Absent
      <4>1. leaf'[k] = NoEntry
        BY <2>5, <3>3, NamesAssumption
      <4> QED BY <4>1 DEF NoEntry
    <3>4. CASE buf[w][k] # Untouched /\ buf[w][k] # Absent
      <4>1. leaf'[k] = [val |-> buf[w][k], lsn |-> id[w]]
        BY <2>5, <3>4
      <4>2. id[w] <= s
        BY <4>1
      <4> QED BY <1>a, <2>1, <3>1, <4>2
    <3> QED BY <3>2, <3>3, <3>4
  <2> QED BY <2>1, <2>4, <2>6, <2>7, <2>8 DEF SerialInv, Apply
<1>6. ASSUME NEW w \in Writer, Register(w) \/ RegisterFails(w) \/ RegisterRefused(w)
      PROVE  SerialInv'
  <2>1. pc[w] = "register" /\ Live(w) /\ current < id[w]
    BY <1>6 DEF Register, RegisterFails, RegisterRefused, Live, SerialInv, OneAbove
  <2>2. id[w] \notin snapshots /\ \A s \in snapshots : s <= current
    <3>1. \A s \in snapshots : s <= current
      BY DEF RegistryInv, IdsOrdered, SerialInv
    <3> QED BY <1>a, <2>1, <3>1
  <2>3. Register(w)
    <3>1. ~RegisterFails(w)
      BY DEF RegisterFails
    <3>2. ~RegisterRefused(w)
      BY <1>a, <2>1, <2>2 DEF RegisterRefused
    <3> QED BY <1>6, <3>1, <3>2
  <2>4. \A x \in Writer : x # w => ~Live(x) /\ pc[x] # "register"
    BY <2>1 DEF SerialInv, OneAbove, Live
  <2>5. \A x \in Writer : pc'[x] \notin {"client", "apply", "register"}
    BY <1>a, <2>3, <2>4 DEF Register, Live
  <2>6. OneAbove'
    BY <1>a, <2>3, <2>4, <2>5 DEF OneAbove, Live, Register
  <2>7. ASSUME NEW k \in Key
        PROVE  leaf[k].lsn <= id[w] /\ leaf[k].val = Effect(hist[current], buf[w])[k]
    <3>1. CASE buf[w][k] = Untouched
      <4>1. leaf[k].lsn <= current /\ leaf[k].val = hist[current][k]
        BY <2>4, <3>1 DEF SerialInv, LeafExplained
      <4>2. Effect(hist[current], buf[w])[k] = hist[current][k]
        BY <3>1 DEF Effect
      <4>3. leaf[k].lsn <= id[w]
        BY <1>a, <2>1, <4>1
      <4> QED BY <4>1, <4>2, <4>3
    <3>2. CASE buf[w][k] = Absent
      <4>1. leaf[k] = NoEntry
        BY <2>1, <3>2, NamesAssumption DEF SerialInv, LeafApplied
      <4> QED BY <1>a, <3>2, <4>1, NamesAssumption, BoundsAssumption DEF Effect, NoEntry, Txn
    <3>3. CASE buf[w][k] # Untouched /\ buf[w][k] # Absent
      <4>1. leaf[k] = [val |-> buf[w][k], lsn |-> id[w]]
        BY <2>1, <3>3 DEF SerialInv, LeafApplied
      <4> QED BY <1>a, <3>3, <4>1 DEF Effect
    <3> QED BY <3>1, <3>2, <3>3
  <2>8. /\ current' = id[w] /\ snapshots' = snapshots \cup {id[w]} /\ UNCHANGED leaf
        /\ hist'[id[w]] = Effect(hist[current], buf[w])
        /\ \A s \in snapshots : hist'[s] = hist[s]
    BY <1>a, <2>2, <2>3 DEF Register, Advance
  <2>9. LeafExplained'
    BY <2>7, <2>8 DEF LeafExplained
  <2>10. LeafApplied'
    BY <2>5 DEF LeafApplied
  <2>11. SnapshotNeverWrong'
    <3> SUFFICES ASSUME NEW s \in snapshots', NEW k \in Key, leaf[k].lsn <= s
                 PROVE  leaf[k].val \in {hist'[s][k], Absent}
      BY <2>8 DEF SnapshotNeverWrong, View
    <3>1. CASE s = id[w]
      BY <2>7, <2>8, <3>1
    <3>2. CASE s \in snapshots
      BY <2>8, <3>2 DEF SerialInv, SnapshotNeverWrong, View
    <3> QED BY <2>8, <3>1, <3>2
  <2> QED BY <2>3, <2>6, <2>9, <2>10, <2>11 DEF SerialInv, Register
<1>7. ASSUME NEW w \in Writer, SyncMeta(w) \/ SyncFails(w) PROVE SerialInv'
  BY <1>a, <1>c, <1>7 DEF SyncMeta, SyncFails, Live
<1>8. ASSUME NEW w \in Writer, Abort(w) PROVE SerialInv'
  <2>1. \A x \in Writer : pc[x] = "register" => x # w /\ buf'[x] = buf[x] /\ pc'[x] = pc[x]
    BY <1>a, <1>8 DEF Abort
  <2>2. \A x \in Writer : pc'[x] = "register" => x # w /\ buf'[x] = buf[x] /\ pc'[x] = pc[x]
    BY <1>a, <1>8 DEF Abort
  <2>3. OneAbove'
    BY <1>a, <1>8 DEF SerialInv, OneAbove, Live, Abort
  <2> QED BY <1>8, <2>1, <2>2, <2>3
        DEF SerialInv, LeafExplained, LeafApplied, SnapshotNeverWrong, View, Abort
<1>9. ASSUME NEW r \in Reader, ReaderStep(r) PROVE SerialInv'
  BY <1>c, <1>9 DEF ReaderStep, TakeSnapshot, ReleaseSnapshot, Live
<1>10. ASSUME Sync PROVE SerialInv'
  BY <1>c, <1>10 DEF Sync, Live
<1>11. ~Kill /\ ~PowerLoss /\ ~Open /\ ~Close /\ ~CloseFails
  <2>1. ~Kill /\ ~PowerLoss
    BY DEF Kill, PowerLoss
  <2>2. ~Open /\ ~Close /\ ~CloseFails
    BY DEF Open, Close, CloseFails, SerialInv
  <2> QED BY <2>1, <2>2
<1>12. ~Drop
  BY DEF Drop, SerialInv
<1>13. ASSUME UNCHANGED vars PROVE SerialInv'
  BY <1>c, <1>13 DEF Live
<1> QED BY <1>1, <1>2, <1>3, <1>4, <1>5, <1>6, <1>7, <1>8, <1>9, <1>10, <1>11, <1>12, <1>13
        DEF Next, WriterStep, Put, Delete

(* The number of crashes never goes down.                                  *)
LEMMA CrashesGrow == TypeOK /\ [Next]_vars => crashes <= crashes'
<1> SUFFICES ASSUME TypeOK, [Next]_vars PROVE crashes <= crashes'
  OBVIOUS
<1>1. crashes \in Int
  BY BoundsAssumption DEF TypeOK
<1>2. CASE Kill \/ PowerLoss
  BY <1>1, <1>2 DEF Kill, PowerLoss
<1>3. CASE UNCHANGED crashes
  BY <1>1, <1>3
<1> QED BY <1>2, <1>3
      DEF Next, vars, WriterStep, ReaderStep, BeginWrite, Put, Delete, Mutate, Prepare,
          PrepareFails, CommitEmpty, Apply, ApplyFails, Register, RegisterFails,
          RegisterRefused, SyncMeta, SyncFails, Abort, TakeSnapshot, ReleaseSnapshot,
          Close, CloseFails, Sync, Drop, Open

(* Both promises to readers come from the same induction.                  *)
LEMMA SerialInvariant ==
  ASSUME Exclusive, ~IoFaults, ~CloseCalls
  PROVE  Spec => [](LatestSnapshotExact /\ SnapshotNeverWrong)
<1> DEFINE Inv == TypeOK /\ RegistryInv /\ (crashes = 0 => SerialInv)
<1>1. Init => Inv
  BY InitType, InitRegistry, InitSerial
<1>2. Inv /\ [Next]_vars => Inv'
  <2> SUFFICES ASSUME Inv, [Next]_vars PROVE Inv'
    OBVIOUS
  <2>1. TypeOK' /\ RegistryInv'
    BY StepType, StepRegistry
  <2>2. crashes' = 0 => crashes = 0
    BY <2>1, CrashesGrow, BoundsAssumption DEF TypeOK
  <2> QED BY <2>1, <2>2, StepSerial
<1>3. Inv => LatestSnapshotExact /\ SnapshotNeverWrong
  <2> SUFFICES ASSUME TypeOK, SerialInv, Quiescent PROVE View(current) = hist[current]
    BY DEF SerialInv, LatestSnapshotExact, SnapshotNeverWrong
  <2>1. hist[current] \in [Key -> Value \cup {Absent}]
    BY DEF TypeOK
  <2>2. \A k \in Key : View(current)[k] = hist[current][k]
    BY DEF SerialInv, LeafExplained, Quiescent, View
  <2> QED BY <2>1, <2>2 DEF View
<1> QED BY <1>1, <1>2, <1>3, PTL DEF Spec

(* With one writer at a time, until a crash: between commits the newest    *)
(* snapshot reads exactly the committed data.                              *)
THEOREM SerialReads ==
  ASSUME Exclusive, ~IoFaults, ~CloseCalls
  PROVE  Spec => []LatestSnapshotExact
BY SerialInvariant, PTL

(* With one writer at a time, until a crash: a snapshot of any age reads a *)
(* value of its own time or nothing, although apply_mutations overwrites   *)
(* the leaf in place.                                                      *)
THEOREM OlderReads ==
  ASSUME Exclusive, ~IoFaults, ~CloseCalls
  PROVE  Spec => []SnapshotNeverWrong
BY SerialInvariant, PTL
=============================================================================

-------------------------- MODULE ReplicationProofs --------------------------
(***************************************************************************)
(* Theorems about replication, for every number of callers, attempts,      *)
(* loops, connections and records: the publisher, the replica's            *)
(* subscriber, the server and client with the connections between them,    *)
(* and the three side by side.                                             *)
(***************************************************************************)
EXTENDS MCReplication, DataLemmas, SequenceTheorems

(***************************************************************************)
(* The publisher keeps its buffer, its backpressure and its two maps in    *)
(* agreement, and gives every replica a stream without gaps.               *)
(***************************************************************************)

(***************************************************************************)
(* What the size of a buffer is.                                           *)
(***************************************************************************)
Rec == [seq : Nat, size : Nat]
SumBy(f, b) == f = [i \in 0..Len(b) |-> IF i = 0 THEN 0 ELSE f[i - 1] + b[i].size]

LEMMA SumExists ==
  ASSUME NEW b \in Seq(Rec)
  PROVE  \E f \in [0..Len(b) -> Nat] : SumBy(f, b)
<1> DEFINE n == Len(b)
           g == [i \in 1..n |-> [x \in Nat |-> x + b[i].size]]
<1>1. n \in Nat /\ \A i \in 1..n : b[i] \in Rec
  OBVIOUS
<1>2. \A i \in 1..n : b[i].size \in Nat
  BY <1>1 DEF Rec
<1>3. g \in [1..n -> [Nat -> Nat]]
  BY <1>2
<1>4. \A i \in 1..n, x \in Nat : g[i][x] = x + b[i].size
  OBVIOUS
<1> HIDE DEF n, g
<1>5. 0 \in Nat
  OBVIOUS
<1>6. PICK f \in [0..n -> Nat] : f[0] = 0 /\ \A i \in 1..n : f[i] = g[i][f[i - 1]]
  <2>1. PICK V, z : V = Nat /\ z = 0 /\ z \in V
    BY <1>5, Zenon
  <2>2. g \in [1..n -> [V -> V]]
    BY <1>3, <2>1, Zenon
  <2>3. \E f \in [0..n -> V] : f[0] = z /\ \A i \in 1..n : f[i] = g[i][f[i - 1]]
    <3>1. z \in V /\ n \in Nat
      BY <1>1, <2>1
    <3> QED BY <2>2, <3>1, IterationExists
  <2> QED BY <2>1, <2>3, Zenon
<1>7. ASSUME NEW i \in 0..n PROVE f[i] = IF i = 0 THEN 0 ELSE f[i - 1] + b[i].size
  <2>1. CASE i = 0
    BY <1>6, <2>1
  <2>2. CASE i # 0
    <3>1. i \in 1..n /\ i - 1 \in 0..n
      BY <1>1, <2>2
    <3>2. f[i - 1] \in Nat
      BY <1>6, <3>1
    <3> QED BY <1>4, <1>6, <2>2, <3>1, <3>2
  <2> QED BY <2>1, <2>2
<1>8. SumBy(f, b)
  BY <1>6, <1>7 DEF SumBy, n
<1> QED BY <1>6, <1>8 DEF n

LEMMA SumStep ==
  ASSUME NEW f, NEW b, SumBy(f, b), Len(b) \in Nat, NEW m \in Nat, m + 1 <= Len(b)
  PROVE  f[m + 1] = f[m] + b[m + 1].size
<1>1. m + 1 \in 0..Len(b) /\ m + 1 # 0 /\ (m + 1) - 1 = m
  OBVIOUS
<1>2. \A i \in 0..Len(b) : f[i] = IF i = 0 THEN 0 ELSE f[i - 1] + b[i].size
  BY Zenon DEF SumBy
<1> QED BY <1>1, <1>2, Zenon

LEMMA SumAgree ==
  ASSUME NEW b, NEW d, NEW f, NEW g, NEW n \in Nat, Len(b) \in Nat, Len(d) \in Nat,
         n <= Len(b), n <= Len(d), \A i \in 1..n : b[i] = d[i], SumBy(f, b), SumBy(g, d)
  PROVE  f[n] = g[n]
<1> DEFINE N == {m \in Nat : m <= n => f[m] = g[m]}
<1>1. 0 \in N
  BY DEF SumBy
<1>2. ASSUME NEW m \in Nat, m \in N PROVE m + 1 \in N
  <2> SUFFICES ASSUME m + 1 <= n PROVE f[m + 1] = g[m + 1]
    OBVIOUS
  <2>1. f[m] = g[m] /\ b[m + 1] = d[m + 1]
    BY <1>2
  <2>2. f[m + 1] = f[m] + b[m + 1].size
    BY SumStep
  <2>3. g[m + 1] = g[m] + d[m + 1].size
    BY SumStep
  <2> QED BY <2>1, <2>2, <2>3
<1> HIDE DEF N
<1>3. n \in N
  BY <1>1, <1>2, SetInduction
<1> QED BY <1>3 DEF N

LEMMA SizeIs ==
  ASSUME NEW b \in Seq(Rec), NEW f, SumBy(f, b)
  PROVE  SizeOf(b) = f[Len(b)]
<1> DEFINE sum == CHOOSE g : SumBy(g, b)
<1>1. SumBy(sum, b)
  BY SumExists
<1>2. SizeOf(b) = sum[Len(b)]
  BY DEF SizeOf, SumBy
<1> HIDE DEF sum
<1>3. Len(b) \in Nat
  OBVIOUS
<1>4. sum[Len(b)] = f[Len(b)]
  BY <1>1, <1>3, SumAgree
<1> QED BY <1>2, <1>4

LEMMA SizeNat ==
  ASSUME NEW b \in Seq(Rec) PROVE SizeOf(b) \in Nat
<1>1. PICK f \in [0..Len(b) -> Nat] : SumBy(f, b)
  BY SumExists
<1>2. SizeOf(b) = f[Len(b)] /\ Len(b) \in Nat
  BY <1>1, SizeIs
<1> QED BY <1>1, <1>2

LEMMA SizeEmpty == SizeOf(<<>>) = 0
<1>1. <<>> \in Seq(Rec) /\ Len(<<>>) = 0
  OBVIOUS
<1>2. PICK f \in [0..Len(<<>>) -> Nat] : SumBy(f, <<>>)
  BY <1>1, SumExists
<1>3. SizeOf(<<>>) = f[0]
  BY <1>1, <1>2, SizeIs
<1> QED BY <1>1, <1>2, <1>3 DEF SumBy

LEMMA SizeAppend ==
  ASSUME NEW b \in Seq(Rec), NEW e \in Rec
  PROVE  SizeOf(Append(b, e)) = SizeOf(b) + e.size
<1>1. PICK d : d = Append(b, e)
  OBVIOUS
<1>2. /\ d \in Seq(Rec) /\ Len(d) = Len(b) + 1 /\ d[Len(b) + 1] = e /\ Len(b) \in Nat
      /\ \A i \in 1..Len(b) : b[i] = d[i]
  BY <1>1
<1>3. PICK n \in Nat : n = Len(b)
  BY <1>2
<1>4. PICK f : SumBy(f, b)
  BY SumExists
<1>5. PICK g : SumBy(g, d)
  BY <1>2, SumExists
<1>6. f[n] = g[n]
  BY <1>2, <1>3, <1>4, <1>5, SumAgree
<1>7. g[n + 1] = g[n] + d[n + 1].size
  BY <1>2, <1>3, <1>5, SumStep
<1>8. SizeOf(b) = f[n] /\ SizeOf(d) = g[n + 1]
  BY <1>2, <1>3, <1>4, <1>5, SizeIs
<1> QED BY <1>1, <1>2, <1>3, <1>6, <1>7, <1>8

LEMMA SizeConcat ==
  ASSUME NEW b \in Seq(Rec), NEW d \in Seq(Rec)
  PROVE  SizeOf(b \o d) = SizeOf(b) + SizeOf(d)
<1> DEFINE Q == {s \in Seq(Rec) : SizeOf(b \o s) = SizeOf(b) + SizeOf(s)}
<1>1. <<>> \in Q
  <2>1. b \o <<>> = b /\ <<>> \in Seq(Rec)
    OBVIOUS
  <2>2. SizeOf(b) \in Nat
    BY SizeNat
  <2> QED BY <2>1, <2>2, SizeEmpty
<1>2. ASSUME NEW s \in Seq(Rec), NEW e \in Rec, s \in Q PROVE Append(s, e) \in Q
  <2>1. PICK t \in Seq(Rec) : t = b \o s
    BY ConcatProperties
  <2>2. b \o Append(s, e) = Append(t, e)
    <3>1. Append(s, e) = s \o <<e>> /\ Append(t, e) = t \o <<e>>
      BY AppendIsConcat
    <3>3. <<e>> \in Seq(Rec)
      OBVIOUS
    <3>2. (b \o s) \o <<e>> = b \o (s \o <<e>>)
      BY <3>3, ConcatAssociative
    <3> QED BY <2>1, <3>1, <3>2
  <2>3. SizeOf(Append(t, e)) = SizeOf(t) + e.size /\ SizeOf(Append(s, e)) = SizeOf(s) + e.size
    BY SizeAppend
  <2>4. SizeOf(t) = SizeOf(b) + SizeOf(s)
    BY <1>2, <2>1
  <2>5. SizeOf(b) \in Nat /\ SizeOf(s) \in Nat /\ e.size \in Nat
    BY SizeNat DEF Rec
  <2>6. SizeOf(b \o Append(s, e)) = SizeOf(b) + SizeOf(Append(s, e))
    BY <2>2, <2>3, <2>4, <2>5
  <2>7. Append(s, e) \in Seq(Rec)
    OBVIOUS
  <2> QED BY <2>6, <2>7
<1> HIDE DEF Q
<1>3. d \in Q
  BY <1>1, <1>2, SequenceInduction
<1> QED BY <1>3 DEF Q

(* What is dropped from the front and what is left add up.                 *)
LEMMA SizeSplit ==
  ASSUME NEW b \in Seq(Rec), NEW n \in 0..Len(b)
  PROVE  /\ SubSeq(b, n + 1, Len(b)) \in Seq(Rec)
         /\ SizeOf(SubSeq(b, 1, n)) \in Nat /\ SizeOf(SubSeq(b, n + 1, Len(b))) \in Nat
         /\ SizeOf(b) = SizeOf(SubSeq(b, 1, n)) + SizeOf(SubSeq(b, n + 1, Len(b)))
<1>1. PICK s, t : s = SubSeq(b, 1, n) /\ t = SubSeq(b, n + 1, Len(b))
  OBVIOUS
<1>2. s \in Seq(Rec) /\ t \in Seq(Rec)
  BY <1>1
<1>3. b = s \o t
  <2>1. Len(b) \in Nat /\ 1 \in 1..Len(b) + 1 /\ n \in (1 - 1)..Len(b) /\ Len(b) \in n..Len(b)
    OBVIOUS
  <2>2. SubSeq(b, 1, n) \o SubSeq(b, n + 1, Len(b)) = SubSeq(b, 1, Len(b))
    BY <2>1, ConcatAdjacentSubSeq
  <2>3. SubSeq(b, 1, Len(b)) = b
    OBVIOUS
  <2> QED BY <1>1, <2>2, <2>3
<1> QED BY <1>1, <1>2, <1>3, SizeConcat, SizeNat

-----------------------------------------------------------------------------
(* Types, and what a step of a task leaves alone.                          *)
Link == [up : BOOLEAN, sendSeq : Nat, queue : Seq(Nat)]
Arg  == [seq : Nat, todo : SUBSET Replica]
Spot == {"none", "idle", "loop", "refuse", "number", "push", "apply", "enter", "send",
         "read", "ended", "ack", "min", "release", "relieve", "drain"}

PubTypes ==
  /\ pc \in [Task -> Spot] /\ arg \in [Task -> Arg]
  /\ conn \in [DOMAIN conn -> Link] /\ DOMAIN conn \subseteq Replica
  /\ \A r \in DOMAIN conn : r < nextId
  /\ \A r \in Replica : pc[r] # "none" => r \in DOMAIN conn
  /\ acks \in [DOMAIN acks -> Nat] /\ (acks = <<>> \/ DOMAIN acks # {})
  /\ counter \in Nat /\ nextId \in Nat \ {0}
  /\ buffer \in Seq(Rec) /\ log \in Seq(Nat) /\ wire \in [Replica -> Seq(Nat)]

(* Task t is now at p and carries a; the others have not moved.            *)
Turned(t, p, a) ==
  /\ pc' \in [Task -> Spot] /\ arg' \in [Task -> Arg]
  /\ pc'[t] = p /\ arg'[t] = a
  /\ \A u \in Task \ {t} : pc'[u] = pc[u] /\ arg'[u] = arg[u]

LEMMA TaskFacts == Replica \subseteq Task /\ Caller \subseteq Task /\ Committer \subseteq Task
                   /\ Caller \cap Replica = {} /\ Replica \subseteq Nat
BY PublisherAssumption DEF Task, Replica

LEMMA MoveTurns ==
  ASSUME PubTypes, NEW t \in Task, NEW p \in Spot, NEW a \in Arg, Move(t, p, a)
  PROVE  Turned(t, p, a)
<1>1. pc \in [Task -> Spot] /\ arg \in [Task -> Arg]
  BY DEF PubTypes
<1> QED BY <1>1 DEF Move, Turned

LEMMA ArgIs == \A n \in Nat, R \in SUBSET Replica : [seq |-> n, todo |-> R] \in Arg
BY DEF Arg

LEMMA GotoTurns ==
  ASSUME PubTypes, NEW t \in Task, NEW p \in Spot, NEW n \in Nat, Goto(t, p, n)
  PROVE  Turned(t, p, [seq |-> n, todo |-> {}])
<1>1. [seq |-> n, todo |-> {}] \in Arg
  BY DEF Arg
<1> QED BY <1>1, MoveTurns DEF Goto

(* The maps of the connections and of the acknowledgements.                *)
Maps ==
  /\ conn \in [DOMAIN conn -> Link] /\ DOMAIN conn \subseteq Replica
  /\ \A r \in DOMAIN conn : r < nextId
  /\ acks \in [DOMAIN acks -> Nat] /\ (acks = <<>> \/ DOMAIN acks # {})
  /\ counter \in Nat /\ nextId \in Nat \ {0}
Data == buffer \in Seq(Rec) /\ log \in Seq(Nat) /\ wire \in [Replica -> Seq(Nat)]

LEMMA TypesParts == PubTypes <=> /\ pc \in [Task -> Spot] /\ arg \in [Task -> Arg]
                                 /\ \A r \in Replica : pc[r] # "none" => r \in DOMAIN conn
                                 /\ Maps /\ Data
BY DEF PubTypes, Maps, Data

LEMMA TypesTurn ==
  ASSUME PubTypes, NEW t \in Task, NEW p, NEW a, Turned(t, p, a), Maps', Data',
         DOMAIN conn \subseteq DOMAIN conn', t \in Replica => t \in DOMAIN conn'
  PROVE  PubTypes'
<1>1. \A r \in Replica : pc'[r] # "none" => r \in DOMAIN conn'
  BY TaskFacts DEF Turned, PubTypes
<1> QED BY <1>1 DEF Turned, PubTypes, Maps, Data

LEMMA TypesStill ==
  ASSUME PubTypes, pc' = pc, arg' = arg, Maps', Data', DOMAIN conn \subseteq DOMAIN conn'
  PROVE  PubTypes'
BY DEF PubTypes, Maps, Data

LEMMA MapsSame ==
  ASSUME PubTypes, conn' = conn, acks' = acks, counter' \in Nat, nextId' = nextId
  PROVE  Maps' /\ DOMAIN conn \subseteq DOMAIN conn'
BY DEF PubTypes, Maps

LEMMA DataSame ==
  ASSUME PubTypes, UNCHANGED <<bufVars, wire>>
  PROVE  Data'
BY DEF PubTypes, Data, bufVars

(* A connection that goes down or is given something to send.              *)
LEMMA MapsLink ==
  ASSUME PubTypes, NEW r \in DOMAIN conn, NEW k \in Link, conn' = [conn EXCEPT ![r] = k],
         acks' = acks, counter' \in Nat, nextId' = nextId
  PROVE  Maps' /\ DOMAIN conn' = DOMAIN conn
BY DEF PubTypes, Maps

LEMMA LinkDown ==
  ASSUME PubTypes, NEW r \in DOMAIN conn, conn' = [conn EXCEPT ![r].up = FALSE]
  PROVE  \E k \in Link : conn' = [conn EXCEPT ![r] = k] /\ k = [conn[r] EXCEPT !.up = FALSE]
<1>1. conn[r] \in Link
  BY DEF PubTypes
<1>2. PICK k : k = [conn[r] EXCEPT !.up = FALSE]
  OBVIOUS
<1>3. k \in Link
  BY <1>1, <1>2 DEF Link
<1> QED BY <1>2, <1>3

LEMMA MapsAcked ==
  ASSUME PubTypes, NEW r, NEW s \in Nat, Acked(r, s), conn' = conn, counter' = counter, nextId' = nextId
  PROVE  Maps' /\ DOMAIN conn \subseteq DOMAIN conn' /\ DOMAIN acks' = DOMAIN acks \cup {r}
<1>1. acks' = [k \in DOMAIN acks \cup {r} |-> IF k = r THEN s ELSE acks[k]]
  BY DEF Acked
<1>2. acks' \in [DOMAIN acks \cup {r} -> Nat] /\ DOMAIN acks' = DOMAIN acks \cup {r}
  BY <1>1 DEF PubTypes
<1> QED BY <1>2 DEF PubTypes, Maps

(* The least of some naturals is one of them.                              *)
LEMMA MinOf ==
  ASSUME NEW S, S \subseteq Nat, S # {}
  PROVE  Min(S) \in S
<1>1. \E n \in S : \A m \in S : n <= m
  BY Least
<1> QED BY <1>1 DEF Min

LEMMA MaxOf ==
  ASSUME NEW n \in Nat, NEW S, S \subseteq 0..n, S # {}
  PROVE  Max(S) \in S
<1> DEFINE T == {n - i : i \in S}
<1>1. T \subseteq Nat /\ T # {}
  OBVIOUS
<1>2. PICK m \in T : \A k \in T : m <= k
  BY <1>1, Least
<1>3. PICK x \in S : m = n - x
  OBVIOUS
<1>4. ASSUME NEW y \in S PROVE x >= y
  <2>1. n - y \in T
    OBVIOUS
  <2>3. m <= n - y
    BY <1>2, <2>1
  <2>2. n - x <= n - y /\ x \in Int /\ y \in Int
    <3> HIDE DEF T
    <3> QED BY <1>3, <2>3
  <2> QED BY <2>2
<1>5. \E z \in S : \A y \in S : z >= y
  BY <1>4
<1> QED BY <1>5 DEF Max

-----------------------------------------------------------------------------
(***************************************************************************)
(* The invariant: at most one task holds the buffer's lock, and the one    *)
(* that holds it to apply backpressure has seen the high watermark, which  *)
(* nobody can lower before it is done.                                     *)
(***************************************************************************)
Holding == {"apply", "relieve"}
OneHolder == \A t, u \in Task : pc[t] \in Holding /\ pc[u] \in Holding => t = u
ApplyFull == \A t \in Task : pc[t] = "apply" => size >= High
BufInd == BufferAccounting /\ OneHolder /\ ApplyFull /\ ApplyingMeansFull
PubInd == PubTypes /\ BufInd /\ EveryReplicaCounts

LEMMA BufTurn ==
  ASSUME BufInd, NEW t \in Task, NEW p, NEW a, Turned(t, p, a), pc[t] \notin Holding,
         p \notin Holding, UNCHANGED <<buffer, size, state, cleared>>
  PROVE  BufInd'
<1>1. BufferAccounting'
  BY DEF BufInd, BufferAccounting
<1>2. \A u \in Task : pc'[u] \in Holding <=> pc[u] \in Holding
  BY DEF Turned
<1>3. \A u \in Task : pc'[u] \in Holding => pc'[u] = pc[u]
  BY DEF Turned
<1>4. \A u \in Task : pc[u] \in Holding => pc'[u] = pc[u]
  BY DEF Turned
<1>5. OneHolder'
  BY <1>2 DEF BufInd, OneHolder
<1>6. ApplyFull'
  BY <1>3 DEF BufInd, ApplyFull, Holding
<1>7. ApplyingMeansFull'
  BY <1>4 DEF BufInd, ApplyingMeansFull, Holding
<1> QED BY <1>1, <1>5, <1>6, <1>7 DEF BufInd

LEMMA BufStill ==
  ASSUME BufInd, pc' = pc, UNCHANGED <<buffer, size, state, cleared>>
  PROVE  BufInd'
BY DEF BufInd, BufferAccounting, OneHolder, ApplyFull, ApplyingMeansFull

LEMMA CountsKept ==
  ASSUME EveryReplicaCounts, DOMAIN conn' = DOMAIN conn, DOMAIN acks \subseteq DOMAIN acks'
  PROVE  EveryReplicaCounts'
BY DEF EveryReplicaCounts

LEMMA IndTurn ==
  ASSUME PubInd, NEW t \in Task, NEW p, NEW a, Turned(t, p, a), Maps', Data',
         pc[t] \notin Holding, pc[t] # "none", p \notin Holding, DOMAIN conn' = DOMAIN conn,
         DOMAIN acks \subseteq DOMAIN acks', UNCHANGED <<buffer, size, state, cleared>>
  PROVE  PubInd'
<1>1. PubTypes /\ BufInd /\ EveryReplicaCounts
  BY DEF PubInd
<1>2. t \in Replica => t \in DOMAIN conn'
  BY <1>1 DEF PubTypes
<1>3. PubTypes'
  BY <1>1, <1>2, TypesTurn
<1>4. BufInd'
  BY <1>1, BufTurn
<1>5. EveryReplicaCounts'
  BY <1>1, CountsKept
<1> QED BY <1>3, <1>4, <1>5 DEF PubInd

LEMMA IndStill ==
  ASSUME PubInd, UNCHANGED taskVars, Maps', Data', DOMAIN conn' = DOMAIN conn,
         DOMAIN acks \subseteq DOMAIN acks', UNCHANGED <<buffer, size, state, cleared>>
  PROVE  PubInd'
<1>1. PubTypes /\ BufInd /\ EveryReplicaCounts
  BY DEF PubInd
<1>2. pc' = pc /\ arg' = arg
  BY DEF taskVars
<1>3. PubTypes'
  BY <1>1, <1>2, TypesStill
<1>4. BufInd'
  BY <1>1, <1>2, BufStill
<1>5. EveryReplicaCounts'
  BY <1>1, CountsKept
<1> QED BY <1>3, <1>4, <1>5 DEF PubInd

(* A task goes from one place where it holds nothing to another.           *)
LEMMA Walks ==
  ASSUME PubInd, NEW t \in Task, NEW p, p \in Spot \ Holding, NEW n \in Nat, Goto(t, p, n),
         pc[t] \notin Holding, pc[t] # "none", Maps', DOMAIN conn' = DOMAIN conn,
         DOMAIN acks \subseteq DOMAIN acks', wire' \in [Replica -> Seq(Nat)],
         UNCHANGED <<bufVars, state, cleared>>
  PROVE  PubInd'
<1>1. PubTypes
  BY DEF PubInd
<1>2. Turned(t, p, [seq |-> n, todo |-> {}])
  BY <1>1, GotoTurns
<1>3. Data'
  BY <1>1 DEF PubTypes, Data, bufVars
<1>4. UNCHANGED <<buffer, size, state, cleared>>
  BY DEF bufVars
<1>5. p \notin Holding
  OBVIOUS
<1> QED BY <1>2, <1>3, <1>4, <1>5, IndTurn

-----------------------------------------------------------------------------
(* The steps that hold no lock and leave the two maps alone.               *)
LEMMA WalksOnly ==
  ASSUME PubInd, NEW t \in Task, NEW p, p \in Spot \ Holding, NEW n \in Nat, Goto(t, p, n),
         pc[t] \notin Holding, pc[t] # "none", counter' \in Nat,
         UNCHANGED <<netVars, conn, acks, wire, bufVars, state, cleared>>
  PROVE  PubInd'
<1>1. PubTypes
  BY DEF PubInd
<1>2. conn' = conn /\ acks' = acks /\ wire' = wire /\ nextId' = nextId
  BY DEF netVars
<1>3. Maps'
  BY <1>1, <1>2, MapsSame
<1>4. wire' \in [Replica -> Seq(Nat)]
  BY <1>1, <1>2 DEF PubTypes
<1>5. UNCHANGED <<bufVars, state, cleared>>
  OBVIOUS
<1> QED BY <1>2, <1>3, <1>4, <1>5, Walks

LEMMA CheckKeeps ==
  ASSUME PubInd, NEW c \in Committer, PublishCheck(c) PROVE PubInd'
<1> USE DEF PublishCheck
<1>1. c \in Task /\ counter' \in Nat /\ 0 \in Nat
  BY TaskFacts DEF PubInd, PubTypes
<1>2. PICK p : p = IF state = "Applying" THEN "refuse" ELSE "number"
  OBVIOUS
<1>3. p \in Spot \ Holding /\ Goto(c, p, 0)
  BY <1>2 DEF Spot, Holding
<1>4. pc[c] \notin Holding /\ pc[c] # "none"
  BY DEF Holding
<1>5. UNCHANGED <<netVars, conn, acks, wire, bufVars, state, cleared>>
  OBVIOUS
<1> QED BY <1>1, <1>3, <1>4, <1>5, WalksOnly

LEMMA RefusedKeeps ==
  ASSUME PubInd, NEW c \in Committer, PublishRefused(c) PROVE PubInd'
<1> USE DEF PublishRefused
<1>1. c \in Task /\ counter' \in Nat /\ 0 \in Nat
  BY TaskFacts DEF PubInd, PubTypes
<1>3. "idle" \in Spot \ Holding /\ Goto(c, "idle", 0)
  BY DEF Spot, Holding
<1>4. pc[c] \notin Holding /\ pc[c] # "none"
  BY DEF Holding
<1>5. UNCHANGED <<netVars, conn, acks, wire, bufVars, state, cleared>>
  OBVIOUS
<1> QED BY <1>1, <1>3, <1>4, <1>5, WalksOnly

LEMMA NumberKeeps ==
  ASSUME PubInd, NEW c \in Committer, PublishNumber(c) PROVE PubInd'
<1> USE DEF PublishNumber
<1>1. c \in Task /\ counter' \in Nat /\ counter \in Nat
  BY TaskFacts DEF PubInd, PubTypes
<1>3. "push" \in Spot \ Holding /\ Goto(c, "push", counter)
  BY DEF Spot, Holding
<1>4. pc[c] \notin Holding /\ pc[c] # "none"
  BY DEF Holding
<1>5. UNCHANGED <<netVars, conn, acks, wire, bufVars, state, cleared>>
  OBVIOUS
<1> QED BY <1>1, <1>3, <1>4, <1>5, WalksOnly

LEMMA EnterKeeps ==
  ASSUME PubInd, NEW c \in Committer, PublishEnter(c) PROVE PubInd'
<1> USE DEF PublishEnter
<1>1. c \in Task /\ PubTypes /\ conn' = conn /\ acks' = acks /\ nextId' = nextId
  BY TaskFacts DEF PubInd, netVars
<1>2. PICK a : a = [seq |-> arg[c].seq, todo |-> DOMAIN conn]
  OBVIOUS
<1>3. a \in Arg /\ "send" \in Spot
  <2>1. arg[c] \in Arg /\ DOMAIN conn \in SUBSET Replica
    BY <1>1 DEF PubTypes
  <2>2. arg[c].seq \in Nat
    BY <2>1 DEF Arg
  <2> QED BY <1>2, <2>1, <2>2, ArgIs DEF Spot
<1>4. Turned(c, "send", a)
  BY <1>1, <1>2, <1>3, MoveTurns
<1>5. Maps' /\ Data'
  <2>1. counter' \in Nat /\ UNCHANGED <<bufVars, wire>>
    BY <1>1 DEF PubTypes
  <2> QED BY <1>1, <2>1, MapsSame, DataSame
<1>6. pc[c] \notin Holding /\ pc[c] # "none" /\ "send" \notin Holding
  BY DEF Holding
<1>7. UNCHANGED <<buffer, size, state, cleared>>
  BY DEF bufVars
<1>8. DOMAIN conn' = DOMAIN conn /\ DOMAIN acks \subseteq DOMAIN acks'
  BY <1>1
<1> QED BY <1>1, <1>4, <1>5, <1>6, <1>7, <1>8, IndTurn

LEMMA QueuedIs ==
  ASSUME NEW k \in Link, NEW s \in Nat PROVE Queued(k, s) \in Link
<1>1. Append(k.queue, s) \in Seq(Nat) /\ s + 1 \in Nat
  BY DEF Link
<1> QED BY <1>1 DEF Queued, Link

LEMMA SendKeeps ==
  ASSUME PubInd, NEW c \in Committer, PublishSend(c) PROVE PubInd'
<1> USE DEF PublishSend
<1>1. c \in Task /\ PubTypes /\ acks' = acks /\ nextId' = nextId /\ counter' \in Nat
  BY TaskFacts DEF PubInd, PubTypes, netVars
<1>2. pc[c] \notin Holding /\ pc[c] # "none" /\ "send" \notin Holding /\ "send" \in Spot
  BY DEF Holding, Spot
<1>3. CASE arg[c].todo = {}
  <2>1. "idle" \in Spot \ Holding /\ Goto(c, "idle", 0) /\ 0 \in Nat
    BY <1>3 DEF Spot, Holding
  <2>2. UNCHANGED <<netVars, conn, acks, wire, bufVars, state, cleared>>
    BY <1>3
  <2> QED BY <1>1, <1>2, <2>1, <2>2, WalksOnly
<1>4. CASE arg[c].todo # {}
  <2>1. PICK r \in arg[c].todo : /\ conn' = IF CanSend(r)
                                           THEN [conn EXCEPT ![r] = Queued(@, arg[c].seq)]
                                           ELSE conn
                                 /\ Move(c, "send", [arg[c] EXCEPT !.todo = @ \ {r}])
    BY <1>4
  <2>2. arg[c] \in Arg
    BY <1>1 DEF PubTypes
  <2>3. PICK a : a = [arg[c] EXCEPT !.todo = @ \ {r}]
    OBVIOUS
  <2>4. a \in Arg /\ arg[c].seq \in Nat
    BY <2>2, <2>3 DEF Arg
  <2>5. Turned(c, "send", a)
    BY <1>1, <1>2, <2>1, <2>3, <2>4, MoveTurns
  <2>6. Maps' /\ DOMAIN conn' = DOMAIN conn
    <3>1. CASE CanSend(r)
      <4>1. r \in DOMAIN conn /\ conn[r] \in Link
        BY <1>1, <3>1 DEF CanSend, PubTypes
      <4>2. PICK k \in Link : k = Queued(conn[r], arg[c].seq)
        BY <2>4, <4>1, QueuedIs
      <4>3. conn' = [conn EXCEPT ![r] = k]
        BY <2>1, <3>1, <4>2
      <4> QED BY <1>1, <4>1, <4>3, MapsLink
    <3>2. CASE ~ CanSend(r)
      <4>1. conn' = conn
        BY <2>1, <3>2
      <4> QED BY <1>1, <4>1, MapsSame
    <3> QED BY <3>1, <3>2
  <2>7. Data'
    BY <1>1, DataSame
  <2>8. UNCHANGED <<buffer, size, state, cleared>>
    BY DEF bufVars
  <2>9. DOMAIN acks \subseteq DOMAIN acks'
    BY <1>1
  <2> QED BY <1>1, <1>2, <2>5, <2>6, <2>7, <2>8, <2>9, IndTurn
<1> QED BY <1>3, <1>4

(* The handlers, the heartbeat and the acknowledgements.                   *)
LEMMA FlushKeeps ==
  ASSUME PubInd, NEW r \in Replica, HandlerFlush(r) PROVE PubInd'
<1> USE DEF HandlerFlush
<1>1. r \in Task /\ PubTypes /\ acks' = acks /\ nextId' = nextId /\ counter' \in Nat
  BY TaskFacts DEF PubInd, PubTypes, netVars
<1>2. pc[r] \notin Holding /\ pc[r] # "none" /\ "read" \in Spot \ Holding /\ 0 \in Nat /\ Goto(r, "read", 0)
  BY DEF Holding, Spot
<1>3. r \in DOMAIN conn /\ conn[r] \in Link
  BY <1>1 DEF CanSend, PubTypes
<1>4. Maps' /\ DOMAIN conn' = DOMAIN conn
  <2>1. PICK k \in Link : conn' = [conn EXCEPT ![r] = k]
    <3>1. CASE conn' = [conn EXCEPT ![r].queue = <<>>]
      <4>1. PICK k : k = [conn[r] EXCEPT !.queue = <<>>]
        OBVIOUS
      <4>2. k \in Link
        <5>1. <<>> \in Seq(Nat) /\ conn[r].up \in BOOLEAN /\ conn[r].sendSeq \in Nat
          BY <1>3 DEF Link
        <5>2. k = [up |-> conn[r].up, sendSeq |-> conn[r].sendSeq, queue |-> <<>>]
          BY <1>3, <4>1 DEF Link
        <5> QED BY <5>1, <5>2 DEF Link
      <4> QED BY <3>1, <4>1, <4>2
    <3>2. CASE conn' = [conn EXCEPT ![r].up = FALSE]
      BY <1>1, <1>3, <3>2, LinkDown
    <3> QED BY <3>1, <3>2
  <2> QED BY <1>1, <1>3, <2>1, MapsLink
<1>5. wire' \in [Replica -> Seq(Nat)]
  <2>1. wire \in [Replica -> Seq(Nat)] /\ conn[r].queue \in Seq(Nat)
    BY <1>1, <1>3 DEF PubTypes, Link
  <2>2. wire[r] \o conn[r].queue \in Seq(Nat)
    BY <2>1, ConcatProperties
  <2> QED BY <2>1, <2>2
<1>6. UNCHANGED <<bufVars, state, cleared>> /\ DOMAIN acks \subseteq DOMAIN acks'
  BY <1>1
<1> QED BY <1>1, <1>2, <1>4, <1>5, <1>6, Walks

LEMMA ReadKeeps ==
  ASSUME PubInd, NEW r \in Replica, HandlerRead(r) PROVE PubInd'
<1> USE DEF HandlerRead
<1>1. r \in Task /\ PubTypes /\ acks' = acks /\ nextId' = nextId /\ counter' \in Nat /\ wire' = wire
  BY TaskFacts DEF PubInd, PubTypes, netVars
<1>2. pc[r] \notin Holding /\ pc[r] # "none"
  BY DEF Holding
<1>3. r \in DOMAIN conn /\ conn[r] \in Link
  BY <1>1, <1>2 DEF PubTypes
<1>4. conn[r].sendSeq \in Nat
  BY <1>3 DEF Link
<1>5. PICK p \in {"ack", "ended", "loop"}, n \in Nat : Goto(r, p, n)
  BY <1>4
<1>6. p \in Spot \ Holding
  BY <1>5 DEF Spot, Holding
<1>7. Maps' /\ DOMAIN conn' = DOMAIN conn
  <2>1. CASE conn' = conn
    BY <1>1, <2>1, MapsSame
  <2>2. CASE conn' = [conn EXCEPT ![r].up = FALSE]
    <3>1. PICK k \in Link : conn' = [conn EXCEPT ![r] = k]
      BY <1>1, <1>3, <2>2, LinkDown
    <3> QED BY <1>1, <1>3, <3>1, MapsLink
  <2> QED BY <2>1, <2>2
<1>8. UNCHANGED <<bufVars, state, cleared>> /\ DOMAIN acks \subseteq DOMAIN acks'
  BY <1>1
<1>9. wire' \in [Replica -> Seq(Nat)]
  BY <1>1 DEF PubTypes
<1> QED BY <1>1, <1>2, <1>5, <1>6, <1>7, <1>8, <1>9, Walks

LEMMA StopKeeps ==
  ASSUME PubInd, NEW r \in Replica, HandlerStop(r) PROVE PubInd'
<1> USE DEF HandlerStop
<1>1. r \in Task /\ counter' \in Nat /\ 0 \in Nat
  BY TaskFacts DEF PubInd, PubTypes
<1>3. "ended" \in Spot \ Holding /\ Goto(r, "ended", 0)
  BY DEF Spot, Holding
<1>4. pc[r] \notin Holding /\ pc[r] # "none"
  BY DEF Holding
<1>5. UNCHANGED <<netVars, conn, acks, wire, bufVars, state, cleared>>
  OBVIOUS
<1> QED BY <1>1, <1>3, <1>4, <1>5, WalksOnly

LEMMA HeartbeatKeeps ==
  ASSUME PubInd, NEW r \in Replica, Heartbeat(r) PROVE PubInd'
<1> USE DEF Heartbeat
<1>1. PubTypes /\ acks' = acks /\ nextId' = nextId /\ counter' \in Nat
  BY DEF PubInd, PubTypes, netVars
<1>2. r \in DOMAIN conn
  BY DEF CanSend
<1>3. Maps' /\ DOMAIN conn' = DOMAIN conn
  <2>1. CASE conn' = conn
    BY <1>1, <2>1, MapsSame
  <2>2. CASE conn' = [conn EXCEPT ![r].up = FALSE]
    <3>1. PICK k \in Link : conn' = [conn EXCEPT ![r] = k]
      BY <1>1, <1>2, <2>2, LinkDown
    <3> QED BY <1>1, <1>2, <3>1, MapsLink
  <2> QED BY <2>1, <2>2
<1>4. Data'
  BY <1>1, DataSame
<1>5. UNCHANGED <<buffer, size, state, cleared>> /\ UNCHANGED taskVars
  BY DEF bufVars
<1> QED BY <1>1, <1>3, <1>4, <1>5, IndStill

LEMMA AckKeeps ==
  ASSUME PubInd, NEW r \in Replica, HandlerAck(r) PROVE PubInd'
<1> USE DEF HandlerAck
<1>1. r \in Task /\ PubTypes /\ nextId' = nextId /\ counter' = counter /\ conn' = conn /\ wire' = wire
  BY TaskFacts DEF PubInd, netVars
<1>2. pc[r] \notin Holding /\ pc[r] # "none" /\ "min" \in Spot \ Holding /\ 0 \in Nat /\ Goto(r, "min", 0)
  BY DEF Holding, Spot
<1>3. PICK s \in Nat : Acked(r, s)
  <2>1. arg[r] \in Arg
    BY <1>1 DEF PubTypes
  <2> QED BY <2>1 DEF Arg
<1>4. Maps' /\ DOMAIN acks \subseteq DOMAIN acks'
  BY <1>1, <1>3, MapsAcked
<1>5. wire' \in [Replica -> Seq(Nat)] /\ UNCHANGED <<bufVars, state, cleared>>
  BY <1>1 DEF PubTypes
<1> QED BY <1>1, <1>2, <1>4, <1>5, Walks

LEMMA TrackKeeps ==
  ASSUME PubInd, NEW c \in Caller, NEW r \in Replica, TrackPosition(c, r) PROVE PubInd'
<1> USE DEF TrackPosition
<1>1. c \in Task /\ PubTypes /\ nextId' = nextId /\ counter' = counter /\ conn' = conn /\ wire' = wire
  BY TaskFacts DEF PubInd, netVars
<1>2. pc[c] \notin Holding /\ pc[c] # "none" /\ "min" \in Spot \ Holding /\ 0 \in Nat /\ Goto(c, "min", 0)
  BY DEF Holding, Spot
<1>3. PICK s \in Nat : Acked(r, s)
  <2>1. wire[r] \in Seq(Nat)
    BY <1>1 DEF PubTypes
  <2>2. ToSet(wire[r]) \subseteq Nat
    BY <2>1 DEF ToSet
  <2> QED BY <2>2
<1>4. Maps' /\ DOMAIN acks \subseteq DOMAIN acks'
  BY <1>1, <1>3, MapsAcked
<1>5. wire' \in [Replica -> Seq(Nat)] /\ UNCHANGED <<bufVars, state, cleared>>
  BY <1>1 DEF PubTypes
<1> QED BY <1>1, <1>2, <1>4, <1>5, Walks

LEMMA RestIs == \A t \in Task : Rest(t) \in Spot \ Holding
BY DEF Rest, Spot, Holding

LEMMA MinKeeps ==
  ASSUME PubInd, NEW t \in Task, ReleaseMin(t) PROVE PubInd'
<1> USE DEF ReleaseMin
<1>1. counter' \in Nat /\ 0 \in Nat /\ PubTypes
  BY DEF PubInd, PubTypes
<1>2. pc[t] \notin Holding /\ pc[t] # "none"
  BY DEF Holding
<1>3. UNCHANGED <<netVars, conn, acks, wire, bufVars, state, cleared>>
  OBVIOUS
<1>4. PICK p, n : p \in Spot \ Holding /\ n \in Nat /\ Goto(t, p, n)
  <2>1. CASE acks = <<>>
    BY <1>1, <2>1, RestIs
  <2>2. CASE acks # <<>>
    <3>1. Range(acks) \subseteq Nat /\ Range(acks) # {}
      BY <1>1, <2>2 DEF PubTypes, Range
    <3>2. Min(Range(acks)) \in Nat
      BY <3>1, MinOf
    <3>3. "release" \in Spot \ Holding
      BY DEF Spot, Holding
    <3> QED BY <2>2, <3>2, <3>3
  <2> QED BY <2>1, <2>2
<1> QED BY <1>1, <1>2, <1>3, <1>4, WalksOnly

LEMMA MarkKeeps ==
  ASSUME PubInd, NEW c \in Caller, ShutdownMark(c) PROVE PubInd'
<1> USE DEF ShutdownMark
<1>1. /\ c \in Task /\ PubTypes /\ nextId' = nextId /\ counter' = counter /\ acks' = acks /\ wire' = wire
      /\ DOMAIN acks \subseteq DOMAIN acks'
  BY TaskFacts DEF PubInd, netVars
<1>2. pc[c] \notin Holding /\ pc[c] # "none" /\ "drain" \in Spot \ Holding /\ 0 \in Nat /\ Goto(c, "drain", 0)
  BY DEF Holding, Spot
<1>3. DOMAIN conn' = DOMAIN conn /\ conn' \in [DOMAIN conn -> Link]
  <2>1. conn \in [DOMAIN conn -> Link]
    BY <1>1 DEF PubTypes
  <2>2. \A r \in DOMAIN conn : [conn[r] EXCEPT !.up = FALSE] \in Link
    BY <2>1 DEF Link
  <2> QED BY <2>2
<1>4. Maps'
  BY <1>1, <1>3 DEF Maps, PubTypes
<1>5. wire' \in [Replica -> Seq(Nat)] /\ UNCHANGED <<bufVars, state, cleared>>
  BY <1>1 DEF PubTypes
<1> QED BY <1>1, <1>2, <1>3, <1>4, <1>5, Walks

LEMMA PortKeeps ==
  ASSUME PubInd, StartReturns \/ AcceptBind \/ Run PROVE PubInd'
<1>1. /\ PubTypes /\ UNCHANGED <<taskVars, conn, acks, nextId, counter, bufVars, wire, state, cleared>>
  BY DEF PubInd, StartReturns, AcceptBind, Run
<1>2. counter' \in Nat
  BY <1>1 DEF PubTypes
<1>3. Maps' /\ Data'
  BY <1>1, <1>2, MapsSame, DataSame
<1>4. UNCHANGED <<buffer, size, state, cleared>>
  BY <1>1 DEF bufVars
<1> QED BY <1>1, <1>3, <1>4, IndStill

(* A connection is taken: the map of connections is not yet full.          *)
LEMMA AcceptKeeps ==
  ASSUME PubInd, AcceptReplica PROVE PubInd'
<1> USE DEF AcceptReplica
<1>1. /\ PubTypes /\ BufInd /\ EveryReplicaCounts /\ counter' \in Nat /\ nextId \in Nat \ {0}
      /\ nextId' = nextId + 1 /\ UNCHANGED <<bufVars, wire>>
      /\ UNCHANGED <<buffer, size, state, cleared>>
  BY DEF PubInd, PubTypes, bufVars
<1>2. Data'
  BY <1>1, DataSame
<1>3. CASE Cardinality(DOMAIN conn) >= MaxReplicas
  <2>1. UNCHANGED <<conn, acks, taskVars>>
    BY <1>3
  <2>2. Maps'
    BY <1>1, <2>1, TaskFacts DEF PubTypes, Maps
  <2> QED BY <1>1, <1>2, <2>1, <2>2, IndStill
<1>4. CASE ~ (Cardinality(DOMAIN conn) >= MaxReplicas)
  <2>1. /\ conn' = [r \in DOMAIN conn \cup {nextId} |-> IF r = nextId THEN NewConn ELSE conn[r]]
        /\ acks' = [r \in DOMAIN acks \cup {nextId} |-> IF r = nextId THEN 0 ELSE acks[r]]
        /\ Goto(nextId, "loop", 0)
    BY <1>4
  <2>2. nextId \in Replica /\ nextId \in Task
    <3>1. nextId <= MaxConn
      OBVIOUS
    <3> QED BY <1>1, <3>1, TaskFacts, PublisherAssumption DEF Replica
  <2>3. "loop" \in Spot /\ "loop" \notin Holding /\ 0 \in Nat
    BY DEF Spot, Holding
  <2>4. PICK a : Turned(nextId, "loop", a)
    BY <1>1, <2>1, <2>2, <2>3, GotoTurns
  <2>5. NewConn \in Link
    BY DEF NewConn, Link
  <2>6. conn' \in [DOMAIN conn \cup {nextId} -> Link]
    BY <1>1, <2>1, <2>5 DEF PubTypes
  <2>7. acks' \in [DOMAIN acks \cup {nextId} -> Nat]
    BY <1>1, <2>1, <2>3 DEF PubTypes
  <2>8. DOMAIN conn' = DOMAIN conn \cup {nextId} /\ DOMAIN acks' = DOMAIN acks \cup {nextId}
    BY <2>1
  <2>9. \A r \in DOMAIN conn' : r < nextId'
    BY <1>1, <2>8, TaskFacts DEF PubTypes
  <2>10. Maps'
    <3>1. DOMAIN conn' \subseteq Replica /\ DOMAIN acks' # {}
      BY <1>1, <2>2, <2>8 DEF PubTypes
    <3>2. nextId' \in Nat \ {0}
      BY <1>1
    <3> QED BY <1>1, <2>6, <2>7, <2>8, <2>9, <3>1, <3>2 DEF Maps
  <2>11. PubTypes'
    BY <1>1, <1>2, <2>2, <2>4, <2>8, <2>10, TypesTurn
  <2>12. nextId \notin DOMAIN conn
    BY <1>1, TaskFacts DEF PubTypes
  <2>13. BufInd'
    <3>1. CASE pc[nextId] \notin Holding
      BY <1>1, <2>2, <2>3, <2>4, <3>1, BufTurn
    <3>2. CASE pc[nextId] \in Holding
      <4>1. pc[nextId] # "none"
        BY <3>2 DEF Holding
      <4> QED BY <1>1, <2>2, <2>12, <4>1 DEF PubTypes
    <3> QED BY <3>1, <3>2
  <2>14. EveryReplicaCounts'
    <3>1. IsFiniteSet(DOMAIN conn)
      <4>1. IsFiniteSet(Replica)
        <5>1. 1 \in Int /\ MaxConn \in Int
          BY PublisherAssumption
        <5> QED BY <5>1, FS_Interval DEF Replica
      <4>2. DOMAIN conn \subseteq Replica
        BY <1>1 DEF PubTypes
      <4> QED BY <4>1, <4>2, FS_Subset
    <3>2. Cardinality(DOMAIN conn') = Cardinality(DOMAIN conn) + 1
      BY <2>8, <2>12, <3>1, FS_AddElement
    <3>3. Cardinality(DOMAIN conn) \in Nat /\ MaxReplicas \in Nat
      BY <3>1, FS_CardinalityType, PublisherAssumption
    <3>4. Cardinality(DOMAIN conn') <= MaxReplicas
      BY <1>4, <3>2, <3>3
    <3>5. DOMAIN conn' \subseteq DOMAIN acks'
      BY <1>1, <2>8 DEF EveryReplicaCounts
    <3> QED BY <3>4, <3>5 DEF EveryReplicaCounts
  <2> QED BY <2>11, <2>13, <2>14 DEF PubInd
<1> QED BY <1>3, <1>4

-----------------------------------------------------------------------------
(* The steps with the buffer's lock.                                       *)
LEMMA PushKeeps ==
  ASSUME PubInd, NEW c \in Committer, NEW n \in Size, Push(c, n) PROVE PubInd'
<1> USE DEF Push
<1>1. /\ c \in Task /\ PubTypes /\ BufInd /\ EveryReplicaCounts /\ acks' = acks /\ conn' = conn
      /\ nextId' = nextId /\ counter' \in Nat
  BY TaskFacts DEF PubInd, PubTypes, netVars
<1>2. pc[c] \notin Holding /\ pc[c] # "none" /\ "idle" \in Spot \ Holding /\ 0 \in Nat
  BY DEF Holding, Spot
<1>3. CASE size + n > MaxSize
  <2>1. Goto(c, "idle", 0) /\ UNCHANGED <<netVars, conn, acks, wire, bufVars, state, cleared>>
    BY <1>3
  <2> QED BY <1>1, <1>2, <2>1, WalksOnly
<1>4. CASE ~ (size + n > MaxSize)
  <2>1. /\ buffer' = Append(buffer, [seq |-> arg[c].seq, size |-> n]) /\ size' = size + n
        /\ log' = Append(log, arg[c].seq) /\ UNCHANGED <<state, wire, cleared>>
        /\ Goto(c, IF size + n >= High THEN "apply" ELSE "enter", arg[c].seq)
    BY <1>4
  <2>2. arg[c].seq \in Nat
    <3>1. arg[c] \in Arg
      BY <1>1 DEF PubTypes
    <3> QED BY <3>1 DEF Arg
  <2>3. n \in Nat /\ High \in Nat /\ Low \in Nat /\ MaxSize \in Nat /\ Low < High
    BY PublisherAssumption
  <2>4. PICK e \in Rec : e = [seq |-> arg[c].seq, size |-> n] /\ e.size = n
    BY <2>2, <2>3 DEF Rec
  <2>5. buffer \in Seq(Rec) /\ size = SizeOf(buffer) /\ size \in Nat
    BY <1>1, SizeNat DEF PubTypes, BufInd, BufferAccounting
  <2>6. BufferAccounting'
    <3>1. SizeOf(buffer') = SizeOf(buffer) + n
      BY <2>1, <2>4, <2>5, SizeAppend
    <3> QED BY <1>4, <2>1, <2>3, <2>5, <3>1 DEF BufferAccounting
  <2>7. PICK p, a : /\ p = (IF size + n >= High THEN "apply" ELSE "enter")
                    /\ p \in Spot /\ Turned(c, p, a)
    <3>1. PICK p : p = IF size + n >= High THEN "apply" ELSE "enter"
      OBVIOUS
    <3>2. p \in Spot /\ Goto(c, p, arg[c].seq)
      BY <2>1, <3>1 DEF Spot
    <3> QED BY <1>1, <2>2, <3>1, <3>2, GotoTurns
  <2>8. \A u \in Task \ {c} : pc'[u] \notin Holding
    BY <2>7 DEF Turned, BufferFree, Holding
  <2>9. OneHolder'
    BY <2>8 DEF OneHolder
  <2>10. ApplyFull'
    <3> SUFFICES ASSUME NEW u \in Task, pc'[u] = "apply" PROVE size' >= High
      BY DEF ApplyFull
    <3>1. u = c
      BY <2>8 DEF Holding
    <3>2. p = "apply"
      BY <2>7, <3>1 DEF Turned
    <3> QED BY <2>1, <2>7, <3>2
  <2>11. ApplyingMeansFull'
    <3> SUFFICES ASSUME state' = "Applying", ~cleared' PROVE size' >= Low
      BY DEF ApplyingMeansFull
    <3>2. state = "Applying" /\ ~cleared
      BY <2>1
    <3>1. size >= Low
      BY <1>1, <1>2, <3>2 DEF BufInd, ApplyingMeansFull, BufferFree
    <3> QED BY <2>1, <2>3, <2>5, <3>1
  <2>12. Maps' /\ Data'
    <3>1. Maps'
      BY <1>1, MapsSame
    <3>2. buffer' \in Seq(Rec)
      BY <2>1, <2>4, <2>5
    <3>3. log' \in Seq(Nat) /\ wire' \in [Replica -> Seq(Nat)]
      BY <1>1, <2>1, <2>2 DEF PubTypes
    <3> QED BY <3>1, <3>2, <3>3 DEF Data
  <2>13. PubTypes'
    <3>1. DOMAIN conn \subseteq DOMAIN conn' /\ (c \in Replica => c \in DOMAIN conn')
      BY <1>1, <1>2 DEF PubTypes
    <3> QED BY <1>1, <2>7, <2>12, <3>1, TypesTurn
  <2>14. EveryReplicaCounts'
    BY <1>1, CountsKept
  <2> QED BY <2>6, <2>9, <2>10, <2>11, <2>13, <2>14 DEF PubInd, BufInd
<1> QED BY <1>3, <1>4

(* The task that holds the buffer's lock lets it go.                       *)
LEMMA LetsGo ==
  ASSUME PubInd, NEW t \in Task, NEW p, NEW a, Turned(t, p, a), pc[t] \in Holding, p \notin Holding,
         UNCHANGED <<netVars, conn, acks, counter, bufVars, wire>>,
         state' = "Applying" => size >= Low
  PROVE  PubInd'
<1>1. /\ PubTypes /\ BufInd /\ EveryReplicaCounts /\ counter' \in Nat /\ nextId' = nextId
      /\ buffer' = buffer /\ size' = size
  BY DEF PubInd, PubTypes, netVars, bufVars
<1>2. Maps' /\ Data' /\ EveryReplicaCounts'
  BY <1>1, MapsSame, DataSame, CountsKept
<1>3. t \in Replica => t \in DOMAIN conn'
  BY <1>1 DEF PubTypes, Holding
<1>4. PubTypes'
  BY <1>1, <1>2, <1>3, TypesTurn
<1>5. \A u \in Task : pc'[u] \notin Holding
  BY <1>1 DEF Turned, BufInd, OneHolder
<1>6. BufferAccounting'
  BY <1>1 DEF BufInd, BufferAccounting
<1>7. OneHolder' /\ ApplyFull'
  BY <1>5 DEF OneHolder, ApplyFull, Holding
<1>8. ApplyingMeansFull'
  BY <1>1 DEF ApplyingMeansFull
<1> QED BY <1>2, <1>4, <1>6, <1>7, <1>8 DEF PubInd, BufInd

LEMMA ApplyKeeps ==
  ASSUME PubInd, NEW c \in Committer, PublishApply(c) PROVE PubInd'
<1> USE DEF PublishApply
<1>1. c \in Task /\ PubTypes /\ BufInd
  BY TaskFacts DEF PubInd
<1>2. pc[c] \in Holding /\ "enter" \in Spot /\ "enter" \notin Holding
  BY DEF Holding, Spot
<1>3. arg[c].seq \in Nat
  <2>1. arg[c] \in Arg
    BY <1>1 DEF PubTypes
  <2> QED BY <2>1 DEF Arg
<1>4. PICK a : Turned(c, "enter", a)
  BY <1>1, <1>2, <1>3, GotoTurns
<1>5. size >= Low
  <2>1. size >= High /\ size \in Nat
    BY <1>1, SizeNat DEF BufInd, ApplyFull, BufferAccounting, PubTypes
  <2> QED BY <2>1, PublisherAssumption
<1>6. UNCHANGED <<netVars, conn, acks, counter, bufVars, wire>>
  OBVIOUS
<1> QED BY <1>1, <1>2, <1>4, <1>5, <1>6, LetsGo

LEMMA RelieveKeeps ==
  ASSUME PubInd, NEW t \in Task, ReleaseRelieve(t) PROVE PubInd'
<1> USE DEF ReleaseRelieve
<1>1. PubTypes /\ 0 \in Nat
  BY DEF PubInd
<1>2. PICK p : p = Rest(t)
  OBVIOUS
<1>3. pc[t] \in Holding /\ p \in Spot /\ p \notin Holding
  BY <1>2, RestIs DEF Holding
<1>4. PICK a : Turned(t, p, a)
  BY <1>1, <1>2, <1>3, GotoTurns
<1>5. state' # "Applying"
  OBVIOUS
<1>6. UNCHANGED <<netVars, conn, acks, counter, bufVars, wire>>
  OBVIOUS
<1> QED BY <1>3, <1>4, <1>5, <1>6, LetsGo

(* The buffer is made smaller by a task that found its lock free.          *)
LEMMA Shrinks ==
  ASSUME PubInd, NEW t \in Task, NEW p \in Spot, NEW a, Turned(t, p, a), BufferFree,
         pc[t] # "none", p # "apply", buffer' \in Seq(Rec), size' = SizeOf(buffer'), size' <= MaxSize,
         UNCHANGED <<netVars, conn, acks, counter, log, wire>>,
         state' = "Applying" /\ ~cleared' => size' >= Low \/ p = "relieve"
  PROVE  PubInd'
<1>1. PubTypes /\ BufInd /\ EveryReplicaCounts /\ counter' \in Nat /\ nextId' = nextId
  BY DEF PubInd, PubTypes, netVars
<1>2. Maps' /\ EveryReplicaCounts'
  BY <1>1, MapsSame, CountsKept
<1>3. Data'
  BY <1>1 DEF PubTypes, Data
<1>4. t \in Replica => t \in DOMAIN conn'
  BY <1>1 DEF PubTypes
<1>5. PubTypes'
  BY <1>1, <1>2, <1>3, <1>4, TypesTurn
<1>6. \A u \in Task \ {t} : pc'[u] \notin Holding
  BY DEF Turned, BufferFree, Holding
<1>7. BufferAccounting'
  BY DEF BufferAccounting
<1>8. OneHolder'
  BY <1>6 DEF OneHolder
<1>9. ApplyFull'
  BY <1>6 DEF ApplyFull, Holding, Turned
<1>10. ApplyingMeansFull'
  BY DEF ApplyingMeansFull, Turned
<1> QED BY <1>2, <1>5, <1>7, <1>8, <1>9, <1>10 DEF PubInd, BufInd

LEMMA ClearKeeps ==
  ASSUME PubInd, NEW c \in Caller, ShutdownClear(c) PROVE PubInd'
<1> USE DEF ShutdownClear
<1>1. c \in Task /\ PubTypes /\ "idle" \in Spot /\ 0 \in Nat
  BY TaskFacts DEF PubInd, Spot
<1>2. PICK a : Turned(c, "idle", a)
  BY <1>1, GotoTurns
<1>3. buffer' \in Seq(Rec) /\ size' = SizeOf(buffer')
  BY SizeEmpty
<1>4. size' <= MaxSize
  BY PublisherAssumption
<1>5. UNCHANGED <<netVars, conn, acks, counter, log, wire>> /\ cleared' /\ BufferFree
  OBVIOUS
<1>6. pc[c] # "none" /\ "idle" # "apply"
  OBVIOUS
<1> QED BY <1>1, <1>2, <1>3, <1>4, <1>5, <1>6, Shrinks

LEMMA ReleaseKeeps ==
  ASSUME PubInd, NEW t \in Task, Release(t) PROVE PubInd'
<1>1. PubTypes /\ BufInd /\ 0 \in Nat
  BY DEF PubInd
<1>2. buffer \in Seq(Rec) /\ size = SizeOf(buffer) /\ size <= MaxSize /\ MaxSize \in Nat /\ Len(buffer) \in Nat
  BY <1>1, PublisherAssumption DEF PubTypes, BufInd, BufferAccounting
<1>3. PICK n : n = Max(Covered(arg[t].seq))
  OBVIOUS
<1>4. n \in 0..Len(buffer)
  <2>1. Covered(arg[t].seq) \subseteq 0..Len(buffer) /\ 0 \in Covered(arg[t].seq)
    BY <1>2 DEF Covered
  <2>2. PICK C : C = Covered(arg[t].seq)
    OBVIOUS
  <2>3. PICK m \in Nat : m = Len(buffer)
    BY <1>2
  <2>4. Max(C) \in C
    BY <2>1, <2>2, <2>3, MaxOf
  <2> QED BY <1>3, <2>1, <2>2, <2>4
<1>5. PICK gone : gone = SizeOf(SubSeq(buffer, 1, n))
  OBVIOUS
<1>6. /\ buffer' = SubSeq(buffer, n + 1, Len(buffer)) /\ size' = size - gone /\ BufferFree
      /\ Goto(t, IF size - gone < Low THEN "relieve" ELSE Rest(t), 0) /\ pc[t] = "release"
      /\ UNCHANGED <<netVars, conn, acks, counter, log, wire>>
  BY <1>3, <1>5 DEF Release
<1>7. /\ buffer' \in Seq(Rec) /\ gone \in Nat /\ SizeOf(buffer') \in Nat
      /\ SizeOf(buffer) = gone + SizeOf(buffer')
  BY <1>2, <1>4, <1>5, <1>6, SizeSplit
<1>8. size' = SizeOf(buffer') /\ size' <= MaxSize
  BY <1>2, <1>6, <1>7
<1>9. PICK p : p = IF size - gone < Low THEN "relieve" ELSE Rest(t)
  OBVIOUS
<1>10. p \in Spot /\ p # "apply"
  <2>1. Rest(t) \in Spot \ Holding /\ "relieve" \in Spot
    BY RestIs DEF Spot
  <2> QED BY <1>9, <2>1 DEF Holding
<1>11. PICK a : Turned(t, p, a)
  <2>1. Goto(t, p, 0)
    BY <1>6, <1>9
  <2> QED BY <1>1, <1>10, <2>1, GotoTurns
<1>12. size' >= Low \/ p = "relieve"
  <2>1. size' \in Nat /\ Low \in Nat
    BY <1>7, <1>8, PublisherAssumption
  <2> QED BY <1>6, <1>9, <2>1
<1>13. pc[t] # "none"
  BY <1>6
<1> QED BY <1>6, <1>7, <1>8, <1>10, <1>11, <1>12, <1>13, Shrinks

-----------------------------------------------------------------------------
LEMMA PubInitial == PubInit => PubInd
<1> SUFFICES ASSUME PubInit PROVE PubInd
  OBVIOUS
<1> USE DEF PubInit
<1>1. pc \in [Task -> Spot] /\ \A t \in Task : pc[t] \in {"none", "idle"}
  BY DEF Spot
<1>2. arg \in [Task -> Arg]
  <2>1. [seq |-> 0, todo |-> {}] \in Arg
    BY DEF Arg
  <2> QED BY <2>1
<1>3. \A r \in Replica : pc[r] = "none"
  BY TaskFacts
<1>4. DOMAIN conn = {} /\ conn \in [DOMAIN conn -> Link] /\ acks \in [DOMAIN acks -> Nat] /\ DOMAIN acks = {}
  OBVIOUS
<1>5. buffer \in Seq(Rec) /\ log \in Seq(Nat) /\ wire \in [Replica -> Seq(Nat)]
  OBVIOUS
<1>6. PubTypes
  BY <1>1, <1>2, <1>3, <1>4, <1>5 DEF PubTypes
<1>7. BufInd
  BY <1>1, SizeEmpty, PublisherAssumption DEF BufInd, BufferAccounting, OneHolder, ApplyFull, Holding,
     ApplyingMeansFull
<1>8. EveryReplicaCounts
  <2>1. Cardinality(DOMAIN conn) = 0
    BY <1>4, FS_EmptySet
  <2> QED BY <1>4, <2>1, PublisherAssumption DEF EveryReplicaCounts
<1> QED BY <1>6, <1>7, <1>8 DEF PubInd

LEMMA PubIdle == ASSUME PubInd, UNCHANGED pubVars PROVE PubInd'
<1>1. /\ PubTypes /\ conn' = conn /\ acks' = acks /\ nextId' = nextId /\ counter' = counter
      /\ UNCHANGED <<taskVars, bufVars, wire>> /\ UNCHANGED <<buffer, size, state, cleared>>
  BY DEF PubInd, pubVars, netVars, bufVars
<1>2. counter' \in Nat
  BY <1>1 DEF PubTypes
<1>3. Maps' /\ Data'
  BY <1>1, <1>2, MapsSame, DataSame
<1> QED BY <1>1, <1>3, IndStill

LEMMA PubStep == ASSUME PubInd, [PubNext]_pubVars PROVE PubInd'
<1>1. CASE StartReturns \/ AcceptBind \/ AcceptReplica \/ Run
  BY <1>1, PortKeeps, AcceptKeeps
<1>2. ASSUME NEW c \in Committer, \/ PublishCheck(c) \/ PublishRefused(c) \/ PublishNumber(c)
                                  \/ PublishApply(c) \/ PublishEnter(c) \/ PublishSend(c)
                                  \/ \E n \in Size : Push(c, n)
      PROVE PubInd'
  BY <1>2, CheckKeeps, RefusedKeeps, NumberKeeps, ApplyKeeps, EnterKeeps, SendKeeps, PushKeeps
<1>3. ASSUME NEW r \in Replica, \/ HandlerFlush(r) \/ HandlerRead(r) \/ HandlerStop(r)
                                \/ Heartbeat(r) \/ HandlerAck(r)
      PROVE PubInd'
  BY <1>3, FlushKeeps, ReadKeeps, StopKeeps, HeartbeatKeeps, AckKeeps
<1>4. ASSUME NEW c \in Caller, \/ ShutdownMark(c) \/ ShutdownClear(c)
                               \/ \E r \in Replica : TrackPosition(c, r)
      PROVE PubInd'
  BY <1>4, MarkKeeps, ClearKeeps, TrackKeeps
<1>5. ASSUME NEW t \in Task, ReleaseMin(t) \/ Release(t) \/ ReleaseRelieve(t) PROVE PubInd'
  BY <1>5, MinKeeps, ReleaseKeeps, RelieveKeeps
<1>6. CASE UNCHANGED pubVars
  BY <1>6, PubIdle
<1> QED BY <1>1, <1>2, <1>3, <1>4, <1>5, <1>6 DEF PubNext

(* For any numbers of callers, committing tasks and replicas and any sizes *)
(* of records: the publisher's running total is the size of the buffer and *)
(* within its limit, backpressure is never left applied to a buffer below  *)
(* the low watermark (publish, release_up_to), and no connection is        *)
(* without an acknowledgement entry.                                       *)
THEOREM PublisherIsConsistent == PubSpec => []PublisherConsistent
<1>1. PubInit => PubInd
  BY PubInitial
<1>2. PubInd /\ [PubNext]_pubVars => PubInd'
  BY PubStep
<1>3. PubInd => PublisherConsistent
  BY DEF PubInd, BufInd, PublisherConsistent
<1> QED BY <1>1, <1>2, <1>3, PTL DEF PubSpec

-----------------------------------------------------------------------------
(***************************************************************************)
(* The streams, with one committing task c.  Along: what a replica was     *)
(* given is a piece of the log that, while the replica is up, ends m short *)
(* of the log's end.                                                       *)
(***************************************************************************)
Along(S, L, up, m) ==
  \E d \in Nat : /\ d + Len(S) <= Len(L) /\ \A x \in 1..Len(S) : S[x] = L[d + x]
                 /\ up => d + Len(S) = Len(L) - m

LEMMA AlongEmpty ==
  ASSUME NEW L \in Seq(Nat), NEW up, NEW m \in {0, 1}, m = 1 => L # <<>>
  PROVE  Along(<<>>, L, up, m)
<1>1. PICK n \in Nat : n = Len(L) /\ (m = 1 => n # 0)
  <2>1. m = 1 => Len(L) # 0
    OBVIOUS
  <2> QED BY <2>1
<1>2. PICK d \in Nat : d = n - m
  <2>1. m = 0 \/ m = 1
    OBVIOUS
  <2>2. n - m \in Nat
    BY <1>1, <2>1
  <2> QED BY <2>2
<1>3. Len(<<>>) = 0 /\ d + 0 <= n /\ d + 0 = n - m
  BY <1>1, <1>2
<1>4. d + Len(<<>>) <= Len(L) /\ d + Len(<<>>) = Len(L) - m
  BY <1>1, <1>3
<1>5. \A x \in 1..Len(<<>>) : <<>>[x] = L[d + x]
  BY <1>3
<1> QED BY <1>4, <1>5 DEF Along

LEMMA AlongPush ==
  ASSUME NEW L \in Seq(Nat), NEW S \in Seq(Nat), NEW e \in Nat, NEW up, Along(S, L, up, 0)
  PROVE  Along(S, Append(L, e), up, 1)
<1>1. PICK d \in Nat : /\ d + Len(S) <= Len(L) /\ \A x \in 1..Len(S) : S[x] = L[d + x]
                       /\ up => d + Len(S) = Len(L) - 0
  BY DEF Along
<1>2. PICK M : M = Append(L, e)
  OBVIOUS
<1>3. /\ Len(M) = Len(L) + 1 /\ Len(L) \in Nat /\ Len(S) \in Nat
      /\ \A y \in 1..Len(L) : M[y] = L[y]
  BY <1>2
<1>4. \A x \in 1..Len(S) : d + x \in 1..Len(L)
  BY <1>1, <1>3
<1>5. \A x \in 1..Len(S) : S[x] = M[d + x]
  BY <1>1, <1>3, <1>4
<1>6. d + Len(S) <= Len(M) /\ (up => d + Len(S) = Len(M) - 1)
  BY <1>1, <1>3
<1>7. Along(S, M, up, 1)
  BY <1>5, <1>6 DEF Along
<1> QED BY <1>2, <1>7

LEMMA AlongSend ==
  ASSUME NEW L \in Seq(Nat), NEW S \in Seq(Nat), L # <<>>, Along(S, L, TRUE, 1), NEW up
  PROVE  Along(Append(S, L[Len(L)]), L, up, 0)
<1>1. PICK d \in Nat : (\A x \in 1..Len(S) : S[x] = L[d + x]) /\ d + Len(S) = Len(L) - 1
  BY DEF Along
<1>2. Len(L) \in 1..Len(L) /\ L[Len(L)] \in Nat
  OBVIOUS
<1>3. PICK T, e : T = Append(S, e) /\ e = L[Len(L)] /\ e \in Nat
  BY <1>2
<1>4. Len(T) = Len(S) + 1 /\ T[Len(S) + 1] = e /\ (\A x \in 1..Len(S) : T[x] = S[x]) /\ Len(S) \in Nat
      /\ Len(L) \in Nat
  BY <1>3
<1>5. d + (Len(S) + 1) = Len(L)
  BY <1>1, <1>4
<1>6. ASSUME NEW x \in 1..Len(T) PROVE T[x] = L[d + x]
  <2>1. CASE x = Len(S) + 1
    BY <1>3, <1>4, <1>5, <2>1
  <2>2. CASE x # Len(S) + 1
    <3>1. x \in 1..Len(S)
      BY <1>4, <2>2
    <3> QED BY <1>1, <1>4, <3>1
  <2> QED BY <2>1, <2>2
<1>7. d + Len(T) <= Len(L) /\ d + Len(T) = Len(L) - 0
  BY <1>4, <1>5
<1>8. Along(T, L, up, 0)
  BY <1>6, <1>7 DEF Along
<1> QED BY <1>3, <1>8

LEMMA AlongDown ==
  ASSUME NEW L, NEW S, NEW up, NEW up2, up2 => up, NEW m, Along(S, L, up, m)
  PROVE  Along(S, L, up2, m)
BY DEF Along

LEMMA AlongGone ==
  ASSUME NEW L, NEW S, NEW up, NEW m, NEW k, Along(S, L, up, m)
  PROVE  Along(S, L, FALSE, k)
BY DEF Along

Piece(S, L, up, m) == \E i, j \in 1..Len(L) : S = SubSeq(L, i, j) /\ (up => j = Len(L) - m)

LEMMA AlongPiece ==
  ASSUME NEW L \in Seq(Nat), NEW S \in Seq(Nat), S # <<>>, NEW up, NEW m \in {0, 1}, Along(S, L, up, m)
  PROVE  Piece(S, L, up, m)
<1>1. PICK d \in Nat : /\ d + Len(S) <= Len(L) /\ \A x \in 1..Len(S) : S[x] = L[d + x]
                       /\ up => d + Len(S) = Len(L) - m
  BY DEF Along
<1>2. Len(L) \in Nat /\ Len(S) \in Nat /\ Len(S) # 0
  OBVIOUS
<1>3. PICK i, j : i = d + 1 /\ j = d + Len(S)
  OBVIOUS
<1>4. i \in 1..Len(L) /\ j \in 1..Len(L) /\ j - i + 1 = Len(S) /\ i <= j
  BY <1>1, <1>2, <1>3
<1>5. PICK T \in Seq(Nat) : T = SubSeq(L, i, j)
  <2>1. i \in Int /\ j \in Int /\ \A y \in i..j : L[y] \in Nat
    BY <1>2, <1>4
  <2>2. SubSeq(L, i, j) \in Seq(Nat)
    BY <2>1, SubSeqProperties
  <2> QED BY <2>2
<1>6. Len(T) = Len(S) /\ \A x \in 1..Len(S) : T[x] = L[i + x - 1]
  BY <1>4, <1>5, SubSeqProperties
<1>7. \A x \in 1..Len(S) : T[x] = S[x]
  <2> SUFFICES ASSUME NEW x \in 1..Len(S) PROVE T[x] = S[x]
    OBVIOUS
  <2>1. i + x - 1 = d + x
    BY <1>2, <1>3
  <2> QED BY <1>1, <1>6, <2>1
<1>8. S = T
  BY <1>6, <1>7, SameSequence
<1> QED BY <1>1, <1>3, <1>4, <1>5, <1>8 DEF Piece

Sending == {"apply", "enter", "send"}
Missing(r, c) ==
  IF pc[c] \in {"apply", "enter"} \/ (pc[c] = "send" /\ r \in arg[c].todo) THEN 1 ELSE 0
Fresh == \A r \in Replica : r \notin DOMAIN conn => wire[r] = <<>>
Carried(c) == pc[c] \in Sending => log # <<>> /\ arg[c].seq = log[Len(log)]
OnTrack(c) == \A r \in DOMAIN conn : Along(Stream(r), log, conn[r].up, Missing(r, c))
StreamInd(c) == Fresh /\ Carried(c) /\ OnTrack(c)

(* Nothing changes for what c is sending.                                  *)
Calm(c) == \/ pc'[c] = pc[c] /\ arg'[c] = arg[c]
           \/ pc[c] \notin Sending /\ pc'[c] \notin Sending

LEMMA CalmMissing ==
  ASSUME NEW c, Calm(c), NEW r PROVE Missing(r, c)' = Missing(r, c)
BY DEF Calm, Missing, Sending

Strolls(t) == \E p, n : Goto(t, p, n) /\ pc[t] \notin Sending /\ p \notin Sending

LEMMA CalmGoto ==
  ASSUME PubTypes, NEW c \in Task, NEW t \in Task, NEW p, NEW n, Goto(t, p, n), pc[t] \notin Sending,
         p \notin Sending
  PROVE  Calm(c)
<1>1. pc \in [Task -> Spot] /\ arg \in [Task -> Arg]
  BY DEF PubTypes
<1>2. CASE t = c
  BY <1>1, <1>2 DEF Goto, Move, Calm
<1>3. CASE t # c
  BY <1>1, <1>3 DEF Goto, Move, Calm
<1> QED BY <1>2, <1>3

LEMMA Sails ==
  ASSUME NEW c, StreamInd(c), Calm(c), log' = log, DOMAIN conn' = DOMAIN conn,
         \A r \in DOMAIN conn : wire'[r] \o conn'[r].queue = Stream(r) /\ (conn'[r].up => conn[r].up),
         \A r \in Replica : r \notin DOMAIN conn => wire'[r] = wire[r]
  PROVE  StreamInd(c)'
<1>1. Fresh'
  BY DEF StreamInd, Fresh
<1>2. Carried(c)'
  BY DEF StreamInd, Carried, Calm
<1>3. ASSUME NEW r \in DOMAIN conn'
      PROVE  Along(wire'[r] \o conn'[r].queue, log', conn'[r].up, Missing(r, c)')
  <2>1. r \in DOMAIN conn
    OBVIOUS
  <2>2. Along(Stream(r), log, conn[r].up, Missing(r, c))
    BY <2>1 DEF StreamInd, OnTrack
  <2>3. Missing(r, c)' = Missing(r, c)
    BY CalmMissing
  <2>4. conn'[r].up => conn[r].up
    BY <2>1
  <2>5. Along(Stream(r), log, conn'[r].up, Missing(r, c))
    BY <2>2, <2>4, AlongDown
  <2> QED BY <2>1, <2>3, <2>5
<1>4. OnTrack(c)'
  BY <1>3 DEF OnTrack, Stream
<1> QED BY <1>1, <1>2, <1>4 DEF StreamInd

LEMMA SailsOn ==
  ASSUME NEW c, StreamInd(c), Calm(c), log' = log, conn' = conn, wire' = wire
  PROVE  StreamInd(c)'
<1>1. DOMAIN conn' = DOMAIN conn
  OBVIOUS
<1>2. \A r \in DOMAIN conn : wire'[r] \o conn'[r].queue = Stream(r) /\ (conn'[r].up => conn[r].up)
  BY DEF Stream
<1>3. \A r \in Replica : r \notin DOMAIN conn => wire'[r] = wire[r]
  OBVIOUS
<1> QED BY <1>1, <1>2, <1>3, Sails

(* The steps that leave the connections, the sockets and the log alone.    *)
LEMMA QuietSails ==
  ASSUME NEW c \in Caller, Committer = {c}, PubTypes, StreamInd(c),
         \/ StartReturns \/ AcceptBind \/ Run \/ PublishCheck(c) \/ PublishRefused(c) \/ PublishNumber(c)
         \/ \E r \in Replica : HandlerStop(r) \/ HandlerAck(r) \/ (\E u \in Caller : TrackPosition(u, r))
         \/ \E u \in Caller : ShutdownClear(u)
         \/ \E t \in Task : ReleaseMin(t) \/ Release(t) \/ ReleaseRelieve(t)
         \/ UNCHANGED pubVars
  PROVE  StreamInd(c)'
<1>1. log' = log /\ conn' = conn /\ wire' = wire
  BY DEF StartReturns, AcceptBind, Run, PublishCheck, PublishRefused, PublishNumber, HandlerStop, HandlerAck,
     TrackPosition, ShutdownClear, ReleaseMin, Release, ReleaseRelieve, pubVars, bufVars
<1>2. Calm(c)
  <2>1. CASE UNCHANGED taskVars
    BY <2>1 DEF taskVars, Calm
  <2>2. CASE ~ UNCHANGED taskVars
    <3>1. PICK t \in Task : Strolls(t)
      <4>1. CASE PublishCheck(c)
        BY <4>1, TaskFacts DEF PublishCheck, Sending, Strolls
      <4>2. CASE PublishRefused(c)
        BY <4>2, TaskFacts DEF PublishRefused, Sending, Strolls
      <4>3. CASE PublishNumber(c)
        BY <4>3, TaskFacts DEF PublishNumber, Sending, Strolls
      <4>4. ASSUME NEW r \in Replica, HandlerStop(r)
            PROVE  \E t \in Task : Strolls(t)
        BY <4>4, TaskFacts DEF HandlerStop, Sending, Strolls
      <4>5. ASSUME NEW r \in Replica, HandlerAck(r)
            PROVE  \E t \in Task : Strolls(t)
        BY <4>5, TaskFacts DEF HandlerAck, Sending, Strolls
      <4>6. ASSUME NEW r \in Replica, NEW u \in Caller, TrackPosition(u, r)
            PROVE  \E t \in Task : Strolls(t)
        <5>1. Goto(u, "min", 0) /\ pc[u] = "idle" /\ u \in Task
          BY <4>6, TaskFacts DEF TrackPosition
        <5> QED BY <5>1 DEF Sending, Strolls
      <4>7. ASSUME NEW u \in Caller, ShutdownClear(u)
            PROVE  \E t \in Task : Strolls(t)
        BY <4>7, TaskFacts DEF ShutdownClear, Sending, Strolls
      <4>8. ASSUME NEW t \in Task, ReleaseMin(t)
            PROVE  Strolls(t)
        BY <4>8 DEF ReleaseMin, Sending, Strolls, Rest
      <4>9. ASSUME NEW t \in Task, Release(t)
            PROVE  Strolls(t)
        <5>1. PICK k : Goto(t, IF k < Low THEN "relieve" ELSE Rest(t), 0) /\ pc[t] = "release"
          BY <4>9 DEF Release
        <5>2. (IF k < Low THEN "relieve" ELSE Rest(t)) \notin Sending /\ pc[t] \notin Sending
          BY <5>1 DEF Sending, Strolls, Rest
        <5> QED BY <5>1, <5>2 DEF Strolls
      <4>10. ASSUME NEW t \in Task, ReleaseRelieve(t)
             PROVE  Strolls(t)
        BY <4>10 DEF ReleaseRelieve, Sending, Strolls, Rest
      <4>11. ~ (StartReturns \/ AcceptBind \/ Run \/ UNCHANGED pubVars)
        BY <2>2 DEF StartReturns, AcceptBind, Run, pubVars
      <4> QED BY <4>1, <4>2, <4>3, <4>4, <4>5, <4>6, <4>7, <4>8, <4>9, <4>10, <4>11
    <3> QED BY <3>1, CalmGoto, TaskFacts DEF Strolls
  <2> QED BY <2>1, <2>2
<1> QED BY <1>1, <1>2, SailsOn

(* A connection's link is replaced by one with the same stream to send, or *)
(* by one that is down.                                                    *)
LEMMA FlushSails ==
  ASSUME NEW c \in Caller, PubTypes, StreamInd(c), NEW r \in Replica, HandlerFlush(r)
  PROVE  StreamInd(c)'
<1> USE DEF HandlerFlush
<1>1. log' = log /\ r \in DOMAIN conn /\ conn[r] \in Link /\ conn \in [DOMAIN conn -> Link]
      /\ wire \in [Replica -> Seq(Nat)] /\ DOMAIN conn \subseteq Replica
  BY DEF bufVars, CanSend, PubTypes
<1>2. Calm(c)
  <2>1. pc[r] \notin Sending /\ "read" \notin Sending /\ Goto(r, "read", 0)
    BY DEF Sending
  <2> QED BY <2>1, TaskFacts, CalmGoto
<1>3. DOMAIN conn' = DOMAIN conn /\ \A q \in DOMAIN conn : q # r => conn'[q] = conn[q] /\ wire'[q] = wire[q]
  BY <1>1
<1>4. \A q \in Replica : q \notin DOMAIN conn => wire'[q] = wire[q]
  BY <1>1
<1>5. wire'[r] \o conn'[r].queue = wire[r] \o conn[r].queue
  <2>1. CASE wire' = [wire EXCEPT ![r] = @ \o conn[r].queue] /\ conn' = [conn EXCEPT ![r].queue = <<>>]
    <3>1. wire'[r] = wire[r] \o conn[r].queue /\ conn'[r].queue = <<>>
      BY <1>1, <2>1 DEF Link
    <3>2. wire[r] \in Seq(Nat) /\ conn[r].queue \in Seq(Nat)
      BY <1>1 DEF Link
    <3>3. PICK x \in Seq(Nat) : x = wire[r] \o conn[r].queue
      BY <3>2, ConcatProperties
    <3>4. x \o <<>> = x
      OBVIOUS
    <3> QED BY <3>1, <3>3, <3>4
  <2>2. CASE conn' = [conn EXCEPT ![r].up = FALSE] /\ wire' = wire
    BY <1>1, <2>2 DEF Link
  <2> QED BY <2>1, <2>2
<1>6. conn'[r].up => conn[r].up
  BY DEF CanSend
<1>7. \A q \in DOMAIN conn : wire'[q] \o conn'[q].queue = Stream(q) /\ (conn'[q].up => conn[q].up)
  BY <1>3, <1>5, <1>6 DEF Stream
<1> QED BY <1>1, <1>2, <1>3, <1>4, <1>7, Sails

(* Connections go down, with the streams as they are.                      *)
LEMMA DownSails ==
  ASSUME NEW c \in Caller, PubTypes, StreamInd(c), Calm(c), log' = log, wire' = wire,
         DOMAIN conn' = DOMAIN conn,
         \A q \in DOMAIN conn : \/ conn'[q] = conn[q] \/ conn'[q] = [conn[q] EXCEPT !.up = FALSE]
  PROVE  StreamInd(c)'
<1>1. ASSUME NEW q \in DOMAIN conn
      PROVE  conn'[q].queue = conn[q].queue /\ (conn'[q].up => conn[q].up)
  <2>1. conn[q] \in Link
    BY DEF PubTypes
  <2>2. CASE conn'[q] = conn[q]
    BY <2>2
  <2>3. CASE conn'[q] = [conn[q] EXCEPT !.up = FALSE]
    BY <2>1, <2>3 DEF Link
  <2> QED BY <2>2, <2>3
<1>2. \A r \in DOMAIN conn : wire'[r] \o conn'[r].queue = Stream(r) /\ (conn'[r].up => conn[r].up)
  BY <1>1 DEF Stream
<1>3. \A r \in Replica : r \notin DOMAIN conn => wire'[r] = wire[r]
  OBVIOUS
<1> QED BY <1>2, <1>3, Sails

LEMMA ReadSails ==
  ASSUME NEW c \in Caller, PubTypes, StreamInd(c), NEW r \in Replica, HandlerRead(r)
  PROVE  StreamInd(c)'
<1> USE DEF HandlerRead
<1>1. log' = log /\ wire' = wire /\ conn \in [DOMAIN conn -> Link]
  BY DEF bufVars, PubTypes
<1>2. PICK p, n : Goto(r, p, n) /\ p \notin Sending
  BY DEF Sending
<1>3. Calm(c)
  <2>1. pc[r] \notin Sending
    BY DEF Sending
  <2> QED BY <1>2, <2>1, TaskFacts, CalmGoto
<1>4. DOMAIN conn' = DOMAIN conn
      /\ \A q \in DOMAIN conn : \/ conn'[q] = conn[q] \/ conn'[q] = [conn[q] EXCEPT !.up = FALSE]
  BY <1>1
<1> QED BY <1>1, <1>3, <1>4, DownSails

LEMMA HeartbeatSails ==
  ASSUME NEW c \in Caller, PubTypes, StreamInd(c), NEW r \in Replica, Heartbeat(r)
  PROVE  StreamInd(c)'
<1> USE DEF Heartbeat
<1>1. log' = log /\ wire' = wire /\ conn \in [DOMAIN conn -> Link]
  BY DEF bufVars, PubTypes
<1>2. Calm(c)
  BY DEF Calm, taskVars
<1>3. DOMAIN conn' = DOMAIN conn
      /\ \A q \in DOMAIN conn : \/ conn'[q] = conn[q] \/ conn'[q] = [conn[q] EXCEPT !.up = FALSE]
  BY <1>1
<1> QED BY <1>1, <1>2, <1>3, DownSails

LEMMA MarkSails ==
  ASSUME NEW c \in Caller, PubTypes, StreamInd(c), NEW u \in Caller, ShutdownMark(u)
  PROVE  StreamInd(c)'
<1> USE DEF ShutdownMark
<1>1. log' = log /\ wire' = wire
  BY DEF bufVars
<1>2. Calm(c)
  <2>1. pc[u] \notin Sending /\ "drain" \notin Sending /\ Goto(u, "drain", 0)
    BY DEF Sending
  <2> QED BY <2>1, TaskFacts, CalmGoto
<1>3. DOMAIN conn' = DOMAIN conn
      /\ \A q \in DOMAIN conn : \/ conn'[q] = conn[q] \/ conn'[q] = [conn[q] EXCEPT !.up = FALSE]
  OBVIOUS
<1> QED BY <1>1, <1>2, <1>3, DownSails

LEMMA StreamType ==
  ASSUME PubTypes, NEW r \in DOMAIN conn
  PROVE  Stream(r) \in Seq(Nat) /\ conn[r] \in Link /\ wire[r] \in Seq(Nat) /\ conn[r].queue \in Seq(Nat)
<1>1. conn[r] \in Link /\ wire[r] \in Seq(Nat)
  BY DEF PubTypes
<1>2. conn[r].queue \in Seq(Nat)
  BY <1>1 DEF Link
<1> QED BY <1>1, <1>2, ConcatProperties DEF Stream

(* A connection begins with nothing: it lacks at most the commit c is      *)
(* about to send, and nobody accepts while c walks through the map.        *)
LEMMA AcceptSails ==
  ASSUME NEW c \in Caller, PubTypes, StreamInd(c), AcceptReplica
  PROVE  StreamInd(c)'
<1> USE DEF AcceptReplica
<1>1. log' = log /\ wire' = wire /\ log \in Seq(Nat) /\ pc[c] # "send" /\ c \in Task
  BY TaskFacts DEF bufVars, PubTypes, Unread
<1>2. CASE Cardinality(DOMAIN conn) >= MaxReplicas
  <2>1. conn' = conn /\ Calm(c)
    BY <1>2 DEF taskVars, Calm
  <2> QED BY <1>1, <2>1, SailsOn
<1>3. CASE ~ (Cardinality(DOMAIN conn) >= MaxReplicas)
  <2>1. /\ conn' = [r \in DOMAIN conn \cup {nextId} |-> IF r = nextId THEN NewConn ELSE conn[r]]
        /\ Goto(nextId, "loop", 0)
    BY <1>3
  <2>2. nextId \in Replica /\ nextId # c /\ nextId \notin DOMAIN conn
    <3>1. nextId \in Nat \ {0} /\ nextId <= MaxConn /\ MaxConn \in Nat
      BY PublisherAssumption DEF PubTypes
    <3>2. nextId \in Replica
      BY <3>1 DEF Replica
    <3>3. \A r \in DOMAIN conn : r < nextId /\ r \in Nat
      BY TaskFacts DEF PubTypes
    <3>4. nextId \notin DOMAIN conn
      BY <3>1, <3>3
    <3> QED BY <3>2, <3>4, TaskFacts
  <2>3. pc'[c] = pc[c] /\ arg'[c] = arg[c]
    BY <1>1, <2>1, <2>2 DEF Goto, Move, PubTypes
  <2>4. Calm(c)
    BY <2>3 DEF Calm
  <2>5. Fresh'
    BY <1>1, <2>1 DEF StreamInd, Fresh
  <2>6. Carried(c)'
    BY <1>1, <2>3 DEF StreamInd, Carried
  <2>7. ASSUME NEW r \in DOMAIN conn'
        PROVE  Along(wire'[r] \o conn'[r].queue, log', conn'[r].up, Missing(r, c)')
    <3>1. Missing(r, c)' = Missing(r, c)
      BY <2>4, CalmMissing
    <3>2. CASE r = nextId
      <4>1. wire'[r] = <<>> /\ conn'[r].queue = <<>>
        BY <1>1, <2>1, <2>2, <3>2 DEF StreamInd, Fresh, NewConn
      <4>2. wire'[r] \o conn'[r].queue = <<>>
        BY <4>1
      <4>3. Missing(r, c) \in {0, 1} /\ (Missing(r, c) = 1 => log # <<>>)
        BY <1>1 DEF Missing, StreamInd, Carried, Sending
      <4>4. PICK m \in {0, 1} : m = Missing(r, c)
        BY <4>3
      <4>5. Along(<<>>, log, conn'[r].up, m)
        BY <1>1, <4>3, <4>4, AlongEmpty
      <4> QED BY <1>1, <3>1, <4>2, <4>4, <4>5
    <3>3. CASE r # nextId
      <4>1. r \in DOMAIN conn /\ conn'[r] = conn[r]
        BY <2>1, <3>3
      <4>2. Along(Stream(r), log, conn[r].up, Missing(r, c))
        BY <4>1 DEF StreamInd, OnTrack
      <4> QED BY <1>1, <3>1, <4>1, <4>2 DEF Stream
    <3> QED BY <3>2, <3>3
  <2>8. OnTrack(c)'
    BY <2>7 DEF OnTrack, Stream
  <2> QED BY <2>5, <2>6, <2>8 DEF StreamInd
<1> QED BY <1>2, <1>3

(* A commit is pushed: every connection now lacks one.                     *)
LEMMA PushSails ==
  ASSUME NEW c \in Caller, PubTypes, StreamInd(c), NEW n \in Size, Push(c, n)
  PROVE  StreamInd(c)'
<1> USE DEF Push
<1>1. /\ conn' = conn /\ wire' = wire /\ log \in Seq(Nat) /\ c \in Task /\ pc \in [Task -> Spot]
      /\ arg \in [Task -> Arg]
  BY TaskFacts DEF PubTypes
<1>2. CASE size + n > MaxSize
  <2>1. Goto(c, "idle", 0) /\ log' = log
    BY <1>2 DEF bufVars
  <2>2. pc[c] \notin Sending /\ "idle" \notin Sending
    BY DEF Sending
  <2>3. Calm(c)
    BY <1>1, <2>1, <2>2, CalmGoto
  <2> QED BY <1>1, <2>1, <2>3, SailsOn
<1>3. CASE ~ (size + n > MaxSize)
  <2>1. PICK p, e : p \in {"apply", "enter"} /\ e = arg[c].seq /\ Goto(c, p, e) /\ log' = Append(log, e)
    BY <1>3
  <2>2. e \in Nat
    <3>1. arg[c] \in Arg
      BY <1>1
    <3> QED BY <2>1, <3>1 DEF Arg
  <2>3. pc'[c] \in {"apply", "enter"} /\ arg'[c].seq = e
    BY <1>1, <2>1 DEF Goto, Move
  <2>4. Fresh'
    BY <1>1 DEF StreamInd, Fresh
  <2>5. Carried(c)'
    <3>1. log' # <<>> /\ log'[Len(log')] = e
      <4>1. Len(log') = Len(log) + 1 /\ log'[Len(log) + 1] = e /\ Len(log) \in Nat /\ log' \in Seq(Nat)
        BY <1>1, <2>1, <2>2
      <4> QED BY <4>1
    <3> QED BY <2>3, <3>1 DEF Carried
  <2>6. ASSUME NEW r \in DOMAIN conn'
        PROVE  Along(wire'[r] \o conn'[r].queue, log', conn'[r].up, Missing(r, c)')
    <3>1. Missing(r, c)' = 1
      BY <2>3 DEF Missing
    <3>2. Missing(r, c) = 0
      BY DEF Missing
    <3>3. r \in DOMAIN conn
      BY <1>1
    <3>4. Along(Stream(r), log, conn[r].up, 0)
      BY <3>2, <3>3 DEF StreamInd, OnTrack
    <3>5. PICK S \in Seq(Nat) : S = Stream(r)
      BY <3>3, StreamType
    <3>6. Along(S, Append(log, e), conn[r].up, 1)
      BY <1>1, <2>2, <3>4, <3>5, AlongPush
    <3> QED BY <1>1, <2>1, <3>1, <3>5, <3>6 DEF Stream
  <2>7. OnTrack(c)'
    BY <2>6 DEF OnTrack, Stream
  <2> QED BY <2>4, <2>5, <2>7 DEF StreamInd
<1> QED BY <1>2, <1>3

(* On its way to the connections c carries the last commit of the log.     *)
LEMMA CarrySails ==
  ASSUME NEW c \in Caller, PubTypes, StreamInd(c), PublishApply(c) \/ PublishEnter(c)
  PROVE  StreamInd(c)'
<1>1. /\ conn' = conn /\ wire' = wire /\ log' = log /\ c \in Task /\ pc \in [Task -> Spot]
      /\ arg \in [Task -> Arg] /\ pc[c] \in {"apply", "enter"}
  BY TaskFacts DEF PubTypes, PublishApply, PublishEnter, bufVars
<1>2. /\ arg'[c].seq = arg[c].seq
      /\ pc'[c] = "enter" \/ (pc'[c] = "send" /\ arg'[c].todo = DOMAIN conn)
  BY <1>1 DEF PublishApply, PublishEnter, Goto, Move
<1>3. \A r \in DOMAIN conn : Missing(r, c) = 1 /\ Missing(r, c)' = 1
  BY <1>1, <1>2 DEF Missing
<1>4. Fresh'
  BY <1>1 DEF StreamInd, Fresh
<1>5. Carried(c)'
  BY <1>1, <1>2 DEF StreamInd, Carried, Sending
<1>6. ASSUME NEW r \in DOMAIN conn'
      PROVE  Along(wire'[r] \o conn'[r].queue, log', conn'[r].up, Missing(r, c)')
  <2>1. r \in DOMAIN conn
    BY <1>1
  <2>2. Along(Stream(r), log, conn[r].up, Missing(r, c))
    BY <2>1 DEF StreamInd, OnTrack
  <2> QED BY <1>1, <1>3, <2>1, <2>2 DEF Stream
<1>7. OnTrack(c)'
  BY <1>6 DEF OnTrack, Stream
<1> QED BY <1>4, <1>5, <1>7 DEF StreamInd

LEMMA SendSails ==
  ASSUME NEW c \in Caller, PubTypes, StreamInd(c), PublishSend(c)
  PROVE  StreamInd(c)'
<1> USE DEF PublishSend
<1>1. /\ wire' = wire /\ log' = log /\ c \in Task /\ pc \in [Task -> Spot] /\ log \in Seq(Nat)
      /\ arg \in [Task -> Arg] /\ pc[c] = "send" /\ conn \in [DOMAIN conn -> Link]
  BY TaskFacts DEF PubTypes, bufVars
<1>2. log # <<>> /\ arg[c].seq = log[Len(log)] /\ arg[c] \in Arg
  BY <1>1 DEF StreamInd, Carried, Sending
<1>3. CASE arg[c].todo = {}
  <2>1. conn' = conn /\ pc'[c] = "idle"
    BY <1>1, <1>3 DEF Goto, Move
  <2>2. \A r : Missing(r, c) = 0 /\ Missing(r, c)' = 0
    BY <1>1, <1>3, <2>1 DEF Missing
  <2>3. Fresh' /\ Carried(c)'
    BY <1>1, <2>1 DEF StreamInd, Fresh, Carried, Sending
  <2>4. ASSUME NEW r \in DOMAIN conn'
        PROVE  Along(wire'[r] \o conn'[r].queue, log', conn'[r].up, Missing(r, c)')
    <3>1. r \in DOMAIN conn
      BY <2>1
    <3>2. Along(Stream(r), log, conn[r].up, Missing(r, c))
      BY <3>1 DEF StreamInd, OnTrack
    <3> QED BY <1>1, <2>1, <2>2, <3>2 DEF Stream
  <2>5. OnTrack(c)'
    BY <2>4 DEF OnTrack, Stream
  <2> QED BY <2>3, <2>5 DEF StreamInd
<1>4. CASE arg[c].todo # {}
  <2>1. PICK r \in arg[c].todo : /\ conn' = IF CanSend(r)
                                           THEN [conn EXCEPT ![r] = Queued(@, arg[c].seq)]
                                           ELSE conn
                                 /\ Move(c, "send", [arg[c] EXCEPT !.todo = @ \ {r}])
    BY <1>4
  <2>2. pc'[c] = "send" /\ arg'[c].seq = arg[c].seq /\ arg'[c].todo = arg[c].todo \ {r}
    BY <1>1, <1>2, <2>1 DEF Move, Arg
  <2>3. DOMAIN conn' = DOMAIN conn /\ \A q \in DOMAIN conn : q # r => conn'[q] = conn[q]
    BY <1>1, <2>1
  <2>4. Missing(r, c) = 1 /\ Missing(r, c)' = 0 /\ \A q : q # r => Missing(q, c)' = Missing(q, c)
    BY <1>1, <2>2 DEF Missing
  <2>5. Fresh' /\ Carried(c)'
    BY <1>1, <1>2, <2>2, <2>3 DEF StreamInd, Fresh, Carried
  <2>6. ASSUME NEW q \in DOMAIN conn'
        PROVE  Along(wire'[q] \o conn'[q].queue, log', conn'[q].up, Missing(q, c)')
    <3>1. q \in DOMAIN conn
      BY <2>3
    <3>2. Along(Stream(q), log, conn[q].up, Missing(q, c))
      BY <3>1 DEF StreamInd, OnTrack
    <3>3. CASE q # r
      BY <1>1, <2>3, <2>4, <3>1, <3>2, <3>3 DEF Stream
    <3>4. CASE q = r /\ ~ conn[r].up
      <4>1. conn' = conn
        BY <2>1, <3>4 DEF CanSend
      <4>2. conn[q].up = FALSE
        <5>1. conn[q].up \in BOOLEAN
          BY <1>1, <3>1 DEF Link
        <5> QED BY <3>4, <5>1
      <4>3. Along(Stream(q), log, FALSE, 0)
        BY <3>2, AlongGone
      <4> QED BY <1>1, <2>4, <3>4, <4>1, <4>2, <4>3 DEF Stream
    <3>5. CASE q = r /\ conn[r].up
      <4>1. conn' = [conn EXCEPT ![r] = Queued(conn[r], arg[c].seq)]
        BY <2>1, <3>1, <3>5 DEF CanSend
      <4>2. conn'[r] = Queued(conn[r], arg[c].seq)
        BY <1>1, <3>1, <3>5, <4>1
      <4>3. conn'[r].queue = Append(conn[r].queue, arg[c].seq)
        BY <1>1, <3>1, <3>5, <4>2 DEF Queued, Link
      <4>4. PICK e \in Nat : e = arg[c].seq
        BY <1>2 DEF Arg
      <4>5. PICK w \in Seq(Nat), k \in Seq(Nat) : w = wire[r] /\ k = conn[r].queue
        BY <3>1, <3>5, StreamType
      <4>6. w \o Append(k, e) = Append(w \o k, e)
        <5>1. PICK x \in Seq(Nat) : x = w \o k
          BY ConcatProperties
        <5>2. Append(k, e) = k \o <<e>> /\ Append(x, e) = x \o <<e>>
          BY AppendIsConcat
        <5>3. <<e>> \in Seq(Nat)
          OBVIOUS
        <5>4. (w \o k) \o <<e>> = w \o (k \o <<e>>)
          BY <5>3, ConcatAssociative
        <5> QED BY <5>1, <5>2, <5>4
      <4>7. wire'[r] \o conn'[r].queue = Append(Stream(r), log[Len(log)])
        BY <1>1, <1>2, <4>3, <4>4, <4>5, <4>6 DEF Stream
      <4>8. PICK S \in Seq(Nat) : S = Stream(r)
        BY <3>1, <3>5, StreamType
      <4>9. Along(S, log, TRUE, 1)
        <5>1. Along(S, log, conn[r].up, 1)
          BY <2>4, <3>2, <3>5, <4>8
        <5> QED BY <3>5, <5>1, AlongDown
      <4>10. Along(Append(S, log[Len(log)]), log, conn'[r].up, 0)
        BY <1>1, <1>2, <4>9, AlongSend
      <4> QED BY <1>1, <2>4, <3>5, <4>7, <4>8, <4>10
    <3> QED BY <3>3, <3>4, <3>5
  <2>7. OnTrack(c)'
    BY <2>6 DEF OnTrack, Stream
  <2> QED BY <2>5, <2>7 DEF StreamInd
<1> QED BY <1>3, <1>4

LEMMA StreamStep ==
  ASSUME NEW c \in Caller, Committer = {c}, PubTypes, StreamInd(c), [PubNext]_pubVars
  PROVE  StreamInd(c)'
<1>1. CASE AcceptReplica
  BY <1>1, AcceptSails
<1>2. CASE \E n \in Size : Push(c, n)
  BY <1>2, PushSails
<1>3. CASE PublishApply(c) \/ PublishEnter(c) \/ PublishSend(c)
  BY <1>3, CarrySails, SendSails
<1>4. CASE \E r \in Replica : HandlerFlush(r) \/ HandlerRead(r) \/ Heartbeat(r)
  BY <1>4, FlushSails, ReadSails, HeartbeatSails
<1>5. CASE \E u \in Caller : ShutdownMark(u)
  BY <1>5, MarkSails
<1>6. CASE \/ StartReturns \/ AcceptBind \/ Run \/ PublishCheck(c) \/ PublishRefused(c) \/ PublishNumber(c)
           \/ \E r \in Replica : HandlerStop(r) \/ HandlerAck(r) \/ (\E u \in Caller : TrackPosition(u, r))
           \/ \E u \in Caller : ShutdownClear(u)
           \/ \E t \in Task : ReleaseMin(t) \/ Release(t) \/ ReleaseRelieve(t)
           \/ UNCHANGED pubVars
  BY <1>6, QuietSails
<1> QED BY <1>1, <1>2, <1>3, <1>4, <1>5, <1>6, Zenon DEF PubNext

LEMMA StreamHolds ==
  ASSUME NEW c \in Caller, Committer = {c}, PubTypes, StreamInd(c)
  PROVE  Streams
<1> SUFFICES ASSUME NEW r \in DOMAIN conn, Stream(r) # <<>>
             PROVE  \E i, j \in 1..Len(log) :
                      /\ Stream(r) = SubSeq(log, i, j)
                      /\ CanSend(r) => \/ j = Len(log)
                                       \/ j = Len(log) - 1 /\ \E u \in Committer : Pending(u)
  BY DEF Streams
<1>1. Along(Stream(r), log, conn[r].up, Missing(r, c)) /\ log \in Seq(Nat)
  BY DEF StreamInd, OnTrack, PubTypes
<1>2. PICK S \in Seq(Nat), m \in {0, 1} : S = Stream(r) /\ m = Missing(r, c)
  <2>1. Missing(r, c) \in {0, 1} /\ Stream(r) \in Seq(Nat)
    BY StreamType DEF Missing
  <2> QED BY <2>1
<1>3. PICK i, j \in 1..Len(log) : S = SubSeq(log, i, j) /\ (conn[r].up => j = Len(log) - m)
  <2>1. PICK L, u : L \in Seq(Nat) /\ L = log /\ u = conn[r].up
    BY <1>1
  <2>2. L \in Seq(Nat) /\ S \in Seq(Nat) /\ m \in {0, 1} /\ Along(S, L, u, m) /\ S # <<>>
    BY <1>1, <1>2, <2>1
  <2>3. Piece(S, L, u, m)
    BY <2>2, AlongPiece
  <2> QED BY <2>1, <2>3 DEF Piece
<1>4. m = 1 => Pending(c)
  BY <1>2 DEF Missing, Pending
<1>5. m = 0 => Len(log) - m = Len(log)
  BY <1>1
<1>6. conn[r].up => \/ j = Len(log)
                    \/ j = Len(log) - 1 /\ \E u \in Committer : Pending(u)
  BY <1>2, <1>3, <1>4, <1>5
<1> QED BY <1>2, <1>3, <1>6 DEF CanSend

(* With one committing task, and for any numbers of other callers and      *)
(* replicas: what a replica was given is a piece of the log without a gap, *)
(* and a replica that can still be sent to lacks none but the commit being *)
(* published, whatever the handlers, the heartbeat, the acknowledgements,  *)
(* shutdown and run do in between (publish, handle_replica).               *)
THEOREM StreamsAreWhole ==
  ASSUME NEW c, Committer = {c}
  PROVE  PubSpec => []Streams
<1>0. c \in Caller
  BY PublisherAssumption
<1>1. PubInit => PubInd /\ StreamInd(c)
  <2> SUFFICES ASSUME PubInit PROVE StreamInd(c)
    BY PubInitial
  <2>1. DOMAIN conn = {} /\ wire = [r \in Replica |-> <<>>] /\ c \in Task /\ pc[c] \in {"none", "idle"}
    BY <1>0, TaskFacts DEF PubInit
  <2> QED BY <2>1 DEF StreamInd, Fresh, Carried, OnTrack, Sending
<1>2. PubInd /\ StreamInd(c) /\ [PubNext]_pubVars => PubInd' /\ StreamInd(c)'
  BY <1>0, PubStep, StreamStep DEF PubInd
<1>3. PubInd /\ StreamInd(c) => Streams
  BY <1>0, StreamHolds DEF PubInd
<1> QED BY <1>1, <1>2, <1>3, PTL DEF PubSpec

-----------------------------------------------------------------------------
(***************************************************************************)
(* The subscriber.                                                         *)
(***************************************************************************)

(* Before start nothing has happened: start finds no connection that some  *)
(* earlier task would have to listen to.                                   *)
Untouched ==
  hpc = "unborn" =>
    /\ ~live /\ cstate = "Disconnected"
    /\ cpc = [k \in Connector |-> "idle"] /\ rpc = [l \in Loop |-> "none"]

(* Which places a task of each kind can be at, and that the reconnect loop *)
(* has attempts left until it gives up.                                    *)
Connecting == {"begin", "dial", "store", "mark", "spawn"}
Tasks ==
  /\ cpc["start"] \in Connecting \cup {"idle"}
  /\ cpc["reconnect"] \in Connecting \cup {"idle", "sleep", "delay", "giveup", "ended"}
  /\ cpc["reconnect"] \notin {"giveup", "ended"} => attempt < MaxAttempts
  /\ boots = 0 /\ live => cpc["user"] = "idle"

(* Why nobody overwrites Error.  If start connected while the reconnect    *)
(* loop was in its delay, the attempts began anew, so this delay is not    *)
(* the last; if the reconnect loop is about to give up or has given up, no *)
(* other task is busy with a connection, and nothing is connected.         *)
Surrender ==
  boots = 0 /\ live =>
    /\ cpc["reconnect"] = "delay" /\ cpc["start"] # "spawn" /\ cstate = "Connected"
         => attempt = 0
    /\ cpc["reconnect"] = "giveup" => OthersSettled /\ cstate # "Connected"
    /\ cstate = "Error" => OthersSettled /\ cpc["reconnect"] = "ended"

SubInd == SubTypeOK /\ Untouched /\ Tasks /\ Surrender /\ SomebodyListens

LEMMA SubInitInd == SubInit => SubInd
<1> SUFFICES ASSUME SubInit PROVE SubInd
  OBVIOUS
<1>1. SubTypeOK
  <2>1. live \in BOOLEAN
    BY DEF SubInit
  <2>2. attempt \in 0 .. MaxAttempts /\ boots \in 0 .. MaxBoot
    BY SubscriberAssumption DEF SubInit
  <2> QED BY <2>1, <2>2 DEF SubInit, SubTypeOK, ConnState
<1>2. cpc["start"] = "idle" /\ cpc["reconnect"] = "idle" /\ cpc["user"] = "idle"
  BY DEF SubInit, Connector
<1>3. Untouched /\ SomebodyListens
  BY DEF SubInit, Untouched, SomebodyListens
<1>4. Tasks /\ Surrender
  BY <1>2, SubscriberAssumption DEF SubInit, Tasks, Surrender, Connecting
<1> QED BY <1>1, <1>3, <1>4 DEF SubInd

(* Every step of the subscriber keeps the types.                           *)
LEMMA SubStepType == SubTypeOK /\ Tasks /\ [SubNext]_subVars => SubTypeOK'
<1> SUFFICES ASSUME SubTypeOK, Tasks, [SubNext]_subVars PROVE SubTypeOK'
  OBVIOUS
<1> USE SubscriberAssumption DEF SubTypeOK, At, LoopAt, Connector, Loop, ConnState
<1>1. CASE Start \/ SocketBreaks
  BY <1>1 DEF Start, SocketBreaks
<1>2. CASE ReconnectStep
  BY <1>2 DEF ReconnectStep, ReconnectWake, ReconnectTry, ReconnectGiveUp, Tasks
<1>3. CASE HeartbeatStep
  BY <1>3 DEF HeartbeatStep, HeartbeatWake, HeartbeatLook, HeartbeatExpire
<1>4. CASE UserStep
  <2>1. CASE Bootstrap
    BY <2>1 DEF Bootstrap
  <2>2. CASE BootstrapClose \/ Shutdown \/ ShutdownDrop \/ ShutdownOff
    BY <2>2 DEF BootstrapClose, Shutdown, ShutdownDrop, ShutdownOff
  <2> QED BY <1>4, <2>1, <2>2 DEF UserStep
<1>5. ASSUME NEW k \in Connector, ConnectStep(k) PROVE SubTypeOK'
  BY <1>5 DEF ConnectStep, ConnectBegin, Dial, AfterConnect, ConnectStore, ConnectMark,
              ConnectSpawn
<1>6. ASSUME NEW l \in Loop, RecvStep(l) PROVE SubTypeOK'
  BY <1>6 DEF RecvStep, RecvCheck, RecvLock, RecvRead, RecvFail
<1>7. CASE UNCHANGED subVars
  BY <1>7 DEF subVars
<1> QED BY <1>1, <1>2, <1>3, <1>4, <1>5, <1>6, <1>7 DEF SubNext

LEMMA SubStepInd == SubInd /\ [SubNext]_subVars => SubInd'
<1> SUFFICES ASSUME SubInd, [SubNext]_subVars PROVE SubInd'
  OBVIOUS
<1>0. SubTypeOK'
  BY SubStepType DEF SubInd
<1> USE SubscriberAssumption
    DEF SubInd, SubTypeOK, Untouched, Tasks, Surrender, SomebodyListens, At, LoopAt,
        Connector, Loop, Connecting, OthersSettled
<1>1. CASE Start
  BY <1>0, <1>1 DEF Start
<1>2. CASE SocketBreaks
  BY <1>0, <1>2 DEF SocketBreaks
<1>3. CASE ReconnectWake
  BY <1>0, <1>3 DEF ReconnectWake, IsConnected
<1>4. CASE ReconnectTry
  BY <1>0, <1>4 DEF ReconnectTry
<1>5. CASE ReconnectGiveUp
  BY <1>0, <1>5 DEF ReconnectGiveUp
<1>6. CASE HeartbeatStep
  BY <1>0, <1>6 DEF HeartbeatStep, HeartbeatWake, HeartbeatLook, HeartbeatExpire, IsConnected
<1>7. CASE UserStep
  BY <1>0, <1>7 DEF UserStep, Bootstrap, BootstrapClose, Shutdown, ShutdownDrop, ShutdownOff
<1>8. ASSUME NEW k \in Connector, ConnectStep(k) PROVE SubInd'
  <2>1. CASE ConnectBegin(k)
    BY <1>0, <2>1 DEF ConnectBegin
  <2>2. CASE Dial(k)
    <3>1. CASE At(k, "store")
      BY <1>0, <2>2, <3>1 DEF Dial
    <3>2. CASE k = "reconnect" /\ At(k, "sleep")
      BY <1>0, <2>2, <3>2 DEF Dial
    <3>3. CASE k = "start" /\ At(k, "idle")
      BY <1>0, <2>2, <3>3 DEF Dial
    <3>4. CASE k = "user" /\ At(k, "idle")
      BY <1>0, <2>2, <3>4 DEF Dial
    <3> QED BY <2>2, <3>1, <3>2, <3>3, <3>4 DEF Dial, AfterConnect
  <2>3. CASE ConnectStore(k)
    BY <1>0, <2>3 DEF ConnectStore
  <2>4. CASE ConnectMark(k)
    BY <1>0, <2>4 DEF ConnectMark
  <2>5. CASE ConnectSpawn(k)
    BY <1>0, <2>5 DEF ConnectSpawn, AfterConnect
  <2> QED BY <1>8, <2>1, <2>2, <2>3, <2>4, <2>5 DEF ConnectStep
<1>9. ASSUME NEW l \in Loop, RecvStep(l) PROVE SubInd'
  BY <1>0, <1>9 DEF RecvStep, RecvCheck, RecvLock, RecvRead, RecvFail, IsConnected
<1>10. CASE UNCHANGED subVars
  BY <1>0, <1>10 DEF subVars
<1> QED BY <1>1, <1>2, <1>3, <1>4, <1>5, <1>6, <1>7, <1>8, <1>9, <1>10
        DEF SubNext, ReconnectStep

(* However start, reconnect, bootstrap, the receive loops and the heartbeat *)
(* interleave on the state they all overwrite: a running subscriber that    *)
(* says Connected has somebody who listens or is about to be spawned.       *)
THEOREM SubscriberListens == SubSpec => [](SubTypeOK /\ SomebodyListens)
<1>1. SubInd => SubTypeOK /\ SomebodyListens
  BY DEF SubInd
<1> QED BY <1>1, SubInitInd, SubStepInd, PTL DEF SubSpec

(* Once the reconnect loop has given up, only bootstrap or shutdown takes   *)
(* the subscriber out of Error: no task that was still under way with an    *)
(* older connection writes over it.                                         *)
THEOREM ErrorIsKept == SubSpec => ErrorNeedsIntervention
<1>1. SubInd /\ [SubNext]_subVars
        => [cstate = "Error" /\ cstate' # "Error" => boots' > 0 \/ ~live]_subVars
  <2>a. ASSUME SubInd, SubNext PROVE boots \in Nat /\ boots' \in Nat /\ boots' >= boots
    <3>1. boots \in Nat
      BY <2>a, SubscriberAssumption DEF SubInd, SubTypeOK
    <3> QED BY <2>a, <3>1 DEF SubNext, Start, SocketBreaks, ReconnectStep, HeartbeatStep,
        UserStep, ConnectStep, RecvStep, ReconnectWake, ReconnectTry, ReconnectGiveUp,
        HeartbeatWake, HeartbeatLook, HeartbeatExpire, Bootstrap, BootstrapClose,
        Shutdown, ShutdownDrop, ShutdownOff, ConnectBegin, Dial, ConnectStore,
        ConnectMark, ConnectSpawn, RecvCheck, RecvLock, RecvRead, RecvFail
  <2> SUFFICES ASSUME SubInd, SubNext, cstate = "Error", cstate' # "Error",
                      boots = 0, live
               PROVE  boots' > 0
    BY <2>a
  <2>1. /\ \A l \in Loop : rpc[l] \notin {"lock", "read", "failed"}
        /\ hpc = "sleep" /\ cpc["start"] = "idle"
        /\ cpc["reconnect"] = "ended" /\ cpc["user"] = "idle"
    BY DEF SubInd, Surrender, Tasks, OthersSettled
  <2>2. ASSUME NEW k \in Connector, ConnectStep(k) PROVE FALSE
    BY <2>1, <2>2 DEF ConnectStep, Connector, ConnectBegin, Dial, ConnectStore, ConnectMark,
                     ConnectSpawn
  <2>3. ASSUME NEW l \in Loop, RecvStep(l) PROVE cstate' = cstate
    BY <2>1, <2>3 DEF RecvStep, RecvCheck, RecvLock, RecvRead, RecvFail
  <2>4. CASE Start \/ SocketBreaks \/ ReconnectStep \/ HeartbeatStep
    BY <2>1, <2>4 DEF Start, SocketBreaks, ReconnectStep, ReconnectWake, ReconnectTry,
      ReconnectGiveUp, HeartbeatStep, HeartbeatWake, HeartbeatLook, HeartbeatExpire
  <2>5. CASE UserStep
    <3>1. Bootstrap => boots' = boots + 1
      BY DEF Bootstrap
    <3>2. ~Bootstrap => cstate' = cstate
      BY <2>1, <2>5 DEF UserStep, BootstrapClose, Shutdown, ShutdownDrop, ShutdownOff
    <3> QED BY <3>1, <3>2
  <2> QED BY <2>2, <2>3, <2>4, <2>5 DEF SubNext
<1> QED BY <1>1, SubInitInd, SubStepInd, PTL DEF SubSpec, ErrorNeedsIntervention
-----------------------------------------------------------------------------
(* The server and the client. *)

(* What an entry of the buffer that is numbered from 0 gives to a handler  *)
(* which has sent up to k: k + 1, k + 2, ... up to the newest.             *)
Numbered(s) == \A i \in 1 .. Len(s) : s[i] = i - 1

LEMMA AfterNumbered ==
  ASSUME NEW s \in Seq(Nat), Numbered(s), NEW k \in Nat
  PROVE  /\ After(s, k) \in Seq(Nat)
         /\ \A i \in 1 .. Len(After(s, k)) : After(s, k)[i] = k + i
<1> DEFINE K == {q \in Nat : q > k}
           Later(t) == /\ Len(Only(t, K)) = IF Len(t) > k + 1 THEN Len(t) - (k + 1) ELSE 0
                       /\ \A i \in 1 .. Len(Only(t, K)) : Only(t, K)[i] = k + i
           Q == {t \in Seq(Nat) : Numbered(t) => Later(t)}
<1>1. <<>> \in Q
  BY OnlyEmpty
<1>2. ASSUME NEW t \in Seq(Nat), NEW e \in Nat, t \in Q PROVE Append(t, e) \in Q
  <2> SUFFICES ASSUME Numbered(Append(t, e)) PROVE Later(Append(t, e))
    OBVIOUS
  <2>1. /\ Len(Append(t, e)) = Len(t) + 1 /\ Append(t, e)[Len(t) + 1] = e /\ Len(t) \in Nat
        /\ \A i \in 1 .. Len(t) : Append(t, e)[i] = t[i]
    OBVIOUS
  <2>2. e = Len(t) /\ Numbered(t)
    <3> DEFINE u == Append(t, e)
    <3> HIDE DEF u
    <3>1. /\ Len(u) = Len(t) + 1 /\ u[Len(t) + 1] = e /\ Len(t) \in Nat
          /\ \A i \in 1 .. Len(t) : u[i] = t[i]
      BY <2>1 DEF u
    <3>2. \A i \in 1 .. Len(u) : u[i] = i - 1
      BY DEF Numbered, u
    <3>3. Len(t) + 1 \in 1 .. Len(u) /\ \A i \in 1 .. Len(t) : i \in 1 .. Len(u)
      BY <3>1
    <3>4. e = (Len(t) + 1) - 1
      BY <3>1, <3>2, <3>3
    <3>5. \A i \in 1 .. Len(t) : t[i] = i - 1
      BY <3>1, <3>2, <3>3
    <3> QED BY <3>1, <3>4, <3>5 DEF Numbered
  <2>3. Later(t)
    BY <1>2, <2>2
  <2>4. Only(t, K) \in Seq(Nat)
    BY OnlyType
  <2>5. Only(Append(t, e), K) = IF e \in K THEN Append(Only(t, K), e) ELSE Only(t, K)
    BY OnlyAppend
  <2>6. e \in K <=> Len(t) > k
    BY <2>2
  <2> HIDE DEF K
  <2>7. CASE e \in K
    <3>1. Only(Append(t, e), K) = Append(Only(t, K), e)
      BY <2>5, <2>7
    <3>2. /\ Len(Append(Only(t, K), e)) = Len(Only(t, K)) + 1
          /\ \A i \in 1 .. Len(Only(t, K)) : Append(Only(t, K), e)[i] = Only(t, K)[i]
          /\ Append(Only(t, K), e)[Len(Only(t, K)) + 1] = e /\ Len(Only(t, K)) \in Nat
      BY <2>4
    <3>3. Len(Only(t, K)) = Len(t) - (k + 1)
      BY <2>1, <2>3, <2>6, <2>7
    <3>4. Len(Only(Append(t, e), K)) = Len(Append(t, e)) - (k + 1) /\ Len(Append(t, e)) > k + 1
      BY <2>1, <2>6, <2>7, <3>1, <3>2, <3>3
    <3>5. ASSUME NEW i \in 1 .. Len(Only(Append(t, e), K))
          PROVE  Only(Append(t, e), K)[i] = k + i
      <4>1. CASE i = Len(Only(t, K)) + 1
        BY <2>1, <2>2, <3>1, <3>2, <3>3, <4>1
      <4>2. CASE i # Len(Only(t, K)) + 1
        <5>1. i \in 1 .. Len(Only(t, K))
          BY <3>1, <3>2, <4>2
        <5> QED BY <2>3, <3>1, <3>2, <5>1
      <4> QED BY <4>1, <4>2
    <3> QED BY <3>4, <3>5
  <2>8. CASE e \notin K
    BY <2>1, <2>3, <2>5, <2>6, <2>8
  <2> QED BY <2>7, <2>8
<1> HIDE DEF Q
<1>3. s \in Q
  BY <1>1, <1>2, SequenceInduction
<1>4. After(s, k) = Only(s, K)
  BY DEF After
<1>5. Only(s, K) \in Seq(Nat)
  BY OnlyType
<1> QED BY <1>3, <1>4, <1>5 DEF Q

(* The records are numbered in the order they came, which the restart      *)
(* after an abort gives up; and the counts stay within the commits made.   *)
FeedInd ==
  /\ Len(records) + commitQ <= submitted
  /\ nextSeq <= Len(records) /\ (proc = "account" => nextSeq < Len(records))
  /\ ~aborted => Numbered(records) /\ nextSeq = IF proc = "account" THEN Len(records) - 1
                                                                   ELSE Len(records)
  /\ serving \/ aborted

(* A connection is untouched until the client dials it, is listed only     *)
(* once its handler has added it, and carries messages only after its      *)
(* handshake.                                                              *)
WireInd ==
  /\ \A h \in Conn : h > dials => handler[h] = "none"
  /\ \A h \in listed : handler[h] \in {"shake", "loop", "remove", "ended"}
  /\ \A h \in Conn : inbox[h] # <<>> => handler[h] \in {"loop", "remove", "ended"}
  /\ where = "await" => dials # 0
  /\ where = "run" => client = "Replicating"

ReplInd == ReplTypeOK /\ FeedInd /\ WireInd /\ SentInOrder /\ ConnectionsConsistent

LEMMA ReplInitInd == ReplInit => ReplInd
<1> SUFFICES ASSUME ReplInit PROVE ReplInd
  OBVIOUS
<1>1. Cardinality({}) = 0
  BY FS_EmptySet
<1>2. ReplTypeOK
  <2>1. serving \in BOOLEAN
    BY DEF ReplInit
  <2>2. /\ submitted \in 0..MaxCommits /\ commitQ \in 0..MaxCommits /\ nextSeq \in 0..MaxCommits
        /\ active \in 0..MaxDials /\ link \in 0..MaxDials /\ dials \in 0..MaxDials
        /\ Len(records) <= BufferCap
    BY ReplicationAssumption DEF ReplInit
  <2>3. <<>> \in Seq(Nat) /\ <<>> \in Seq({"accept", "heartbeat", "commit"})
    OBVIOUS
  <2> QED BY <2>1, <2>2, <2>3 DEF ReplInit, ReplTypeOK, HandlerPlace, ClientPlace
<1>3. FeedInd /\ WireInd
  BY DEF ReplInit, FeedInd, WireInd, Numbered
<1>4. SentInOrder
  BY DEF ReplInit, SentInOrder
<1>5. ConnectionsConsistent
  BY <1>1 DEF ReplInit, ConnectionsConsistent, CountExact, PressureCurrent,
              ReplicatingMeansAccepted
<1> QED BY <1>2, <1>3, <1>4, <1>5 DEF ReplInd

(* A set of connections is finite and has no more members than there are.  *)
LEMMA ConnSets ==
  ASSUME NEW S, S \subseteq Conn
  PROVE  IsFiniteSet(S) /\ Cardinality(S) \in 0 .. MaxDials
<1>1. MaxDials \in Nat
  BY ReplicationAssumption
<1>2. IsFiniteSet(Conn) /\ Cardinality(Conn) = MaxDials
  BY <1>1, FS_Interval DEF Conn
<1>3. IsFiniteSet(S) /\ Cardinality(S) <= Cardinality(Conn)
  BY <1>2, FS_Subset
<1>4. Cardinality(S) \in Nat
  BY <1>3, FS_CardinalityType
<1> QED BY <1>1, <1>2, <1>3, <1>4

LEMMA ReplStepInd == ReplInd /\ [ReplNext]_replVars => ReplInd'
<1> SUFFICES ASSUME ReplInd, [ReplNext]_replVars PROVE ReplInd'
  OBVIOUS
<1> USE DEF ReplInd, ConnectionsConsistent, serverVars, clientVars, feedVars, wireVars
<1>0. /\ MaxDials \in Nat /\ MaxCommits \in Nat /\ BufferCap \in Nat
      /\ Conn = 1 .. MaxDials /\ Len(records) \in Nat
  BY ReplicationAssumption DEF Conn, ReplTypeOK
(* Commits.                                                                *)
<1>1. CASE Submit
  <2>1. ReplTypeOK'
    BY <1>0, <1>1 DEF Submit, ReplTypeOK, FeedInd
  <2>2. FeedInd'
    BY <1>0, <1>1 DEF Submit, ReplTypeOK, FeedInd
  <2> QED BY <1>1, <2>1, <2>2 DEF Submit, WireInd, SentInOrder, CountExact, PressureCurrent,
                                  ReplicatingMeansAccepted
<1>2. CASE ProcessCommit
  <2>0. /\ commitQ' = commitQ - 1 /\ commitQ > 0 /\ proc = "recv"
        /\ UNCHANGED <<serving, submitted, nextSeq, pressure, listed, active, meter,
                       wireVars, clientVars, aborted>>
    BY <1>2 DEF ProcessCommit
  <2>1. CASE Len(records) + 1 > BufferCap
    <3>1. UNCHANGED <<records, proc>>
      BY <1>2, <2>1 DEF ProcessCommit
    <3>2. ReplTypeOK' /\ FeedInd'
      BY <1>0, <2>0, <3>1 DEF ReplTypeOK, FeedInd
    <3> QED BY <2>0, <3>1, <3>2 DEF WireInd, SentInOrder, CountExact, PressureCurrent,
                                    ReplicatingMeansAccepted
  <2>2. CASE ~(Len(records) + 1 > BufferCap)
    <3>1. records' = Append(records, nextSeq) /\ proc' = "account"
      BY <1>2, <2>2 DEF ProcessCommit
    <3>2. /\ records' \in Seq(Nat) /\ Len(records') = Len(records) + 1
          /\ \A i \in 1 .. Len(records) : records'[i] = records[i]
          /\ records'[Len(records) + 1] = nextSeq
      BY <1>0, <3>1 DEF ReplTypeOK
    <3>3. ReplTypeOK'
      BY <1>0, <2>0, <2>2, <3>1, <3>2 DEF ReplTypeOK
    <3>4. ~aborted => Numbered(records)'
      <4> SUFFICES ASSUME ~aborted, NEW i \in 1 .. Len(records') PROVE records'[i] = i - 1
        BY DEF Numbered
      <4>1. CASE i = Len(records) + 1
        BY <1>0, <2>0, <3>2, <4>1 DEF FeedInd
      <4>2. CASE i # Len(records) + 1
        BY <1>0, <3>2, <4>2 DEF FeedInd, Numbered
      <4> QED BY <4>1, <4>2
    <3>5. FeedInd'
      BY <1>0, <2>0, <3>1, <3>2, <3>4 DEF ReplTypeOK, FeedInd
    <3> QED BY <2>0, <3>1, <3>3, <3>5 DEF WireInd, SentInOrder, CountExact, PressureCurrent,
                                         ReplicatingMeansAccepted
  <2> QED BY <2>1, <2>2
<1>3. CASE AccountCommit
  <2>1. \A n \in Nat : Pressure(n) \in {"Normal", "Applying", "Relieving"}
    BY ReplicationAssumption DEF Pressure
  <2>2. ReplTypeOK'
    BY <1>0, <1>3, <2>1 DEF AccountCommit, ReplTypeOK, FeedInd
  <2>3. FeedInd'
    BY <1>0, <1>3 DEF AccountCommit, ReplTypeOK, FeedInd
  <2>4. PressureCurrent'
    BY <1>3 DEF AccountCommit, PressureCurrent
  <2> QED BY <1>3, <2>2, <2>3, <2>4
          DEF AccountCommit, WireInd, SentInOrder, CountExact, ReplicatingMeansAccepted
<1>4. CASE MetricsState \/ MetricsBuffer
  BY <1>4 DEF MetricsState, MetricsBuffer, ReplTypeOK, FeedInd, WireInd, SentInOrder,
              CountExact, PressureCurrent, ReplicatingMeansAccepted
(* Connections at the server.                                              *)
<1>5. ASSUME NEW h \in Conn, Accept(h) PROVE ReplInd'
  <2>1. /\ handler[h] = "backlog"
        /\ UNCHANGED <<serverVars, feedVars, out, inbox, hungUp, clientVars, aborted>>
    BY <1>5 DEF Accept
  <2>2. PICK p \in {"add", "ended"} : HandlerAt(h, p)
    BY <1>5 DEF Accept
  <2>3. ReplTypeOK'
    BY <2>1, <2>2 DEF ReplTypeOK, HandlerAt, HandlerPlace
  <2>4. WireInd'
    BY <2>1, <2>2 DEF ReplTypeOK, WireInd, HandlerAt
  <2>5. CountExact' /\ ReplicatingMeansAccepted'
    BY <1>0, <2>1, <2>2 DEF ReplTypeOK, WireInd, HandlerAt, CountExact, ReplicatingMeansAccepted
  <2> QED BY <2>1, <2>3, <2>4, <2>5 DEF FeedInd, SentInOrder, PressureCurrent
<1>6. ASSUME NEW h \in Conn, HandlerAdd(h) PROVE ReplInd'
  <2>1. /\ handler[h] = "add" /\ listed' = listed \cup {h} /\ active' = active + 1
        /\ HandlerAt(h, "shake")
        /\ UNCHANGED <<serving, nextSeq, proc, pressure, meter, feedVars, out, inbox,
                       hungUp, clientVars, aborted>>
    BY <1>6 DEF HandlerAdd
  <2>2. h \notin listed /\ listed \cup {h} \subseteq Conn
    BY <2>1 DEF WireInd, ReplTypeOK
  <2>3. active' = Cardinality(listed \cup {h}) /\ active' \in 0 .. MaxDials
    <3>1. IsFiniteSet(listed) /\ Cardinality(listed \cup {h}) \in 0 .. MaxDials
      BY <2>2, ConnSets DEF ReplTypeOK
    <3>2. Cardinality(listed \cup {h}) = Cardinality(listed) + 1
      BY <2>2, <3>1, FS_AddElement
    <3> QED BY <2>1, <3>1, <3>2 DEF CountExact
  <2>4. ReplTypeOK'
    BY <2>1, <2>2, <2>3 DEF ReplTypeOK, HandlerAt, HandlerPlace
  <2>5. WireInd'
    BY <2>1 DEF ReplTypeOK, WireInd, HandlerAt
  <2>6. CountExact'
    BY <2>1, <2>3 DEF ReplTypeOK, HandlerAt, CountExact
  <2>7. ReplicatingMeansAccepted'
    BY <1>0, <2>1 DEF ReplTypeOK, HandlerAt, ReplicatingMeansAccepted
  <2> QED BY <2>1, <2>4, <2>5, <2>6, <2>7 DEF FeedInd, SentInOrder, PressureCurrent
<1>7. ASSUME NEW h \in Conn, HandlerShake(h) PROVE ReplInd'
  <2>1. /\ handler[h] = "shake"
        /\ UNCHANGED <<serverVars, feedVars, out, hungUp, clientVars, aborted>>
    BY <1>7 DEF HandlerShake
  <2>2. \/ HandlerAt(h, "remove") /\ UNCHANGED inbox
        \/ HandlerAt(h, "loop") /\ inbox' = [inbox EXCEPT ![h] = <<"accept">>]
    BY <1>7 DEF HandlerShake
  <2>3. <<"accept">> \in Seq({"accept", "heartbeat", "commit"})
    OBVIOUS
  <2>4. ReplTypeOK'
    BY <2>1, <2>2, <2>3 DEF ReplTypeOK, HandlerAt, HandlerPlace
  <2>5. WireInd'
    BY <2>1, <2>2 DEF ReplTypeOK, WireInd, HandlerAt
  <2>6. CountExact'
    BY <2>1, <2>2 DEF ReplTypeOK, HandlerAt, CountExact
  <2>7. ReplicatingMeansAccepted'
    BY <1>0, <2>1, <2>2 DEF ReplTypeOK, HandlerAt, ReplicatingMeansAccepted
  <2> QED BY <2>1, <2>4, <2>5, <2>6, <2>7 DEF FeedInd, SentInOrder, PressureCurrent
<1>8. ASSUME NEW h \in Conn, HandlerTick(h) \/ HandlerEof(h) PROVE ReplInd'
  <2>1. /\ handler[h] = "loop"
        /\ UNCHANGED <<serverVars, feedVars, hungUp, clientVars, aborted>>
    BY <1>8 DEF HandlerTick, HandlerEof
  <2>2. CASE HandlerAt(h, "remove") /\ UNCHANGED <<out, inbox>>
    <3>1. ReplTypeOK'
      BY <2>1, <2>2 DEF ReplTypeOK, HandlerAt, HandlerPlace
    <3>2. WireInd'
      BY <2>1, <2>2 DEF ReplTypeOK, WireInd, HandlerAt
    <3>3. CountExact' /\ ReplicatingMeansAccepted'
      BY <1>0, <2>1, <2>2 DEF ReplTypeOK, HandlerAt, CountExact, ReplicatingMeansAccepted
    <3> QED BY <2>1, <2>2, <3>1, <3>2, <3>3 DEF FeedInd, SentInOrder, PressureCurrent
  <2>3. CASE ~(HandlerAt(h, "remove") /\ UNCHANGED <<out, inbox>>)
    <3> DEFINE new == After(records, LastSent(h))
               more == <<"heartbeat">> \o [i \in 1 .. Len(new) |-> "commit"]
               all == inbox[h] \o <<"heartbeat">> \o [i \in 1 .. Len(new) |-> "commit"]
    <3>1. /\ out' = [out EXCEPT ![h] = out[h] \o new]
          /\ inbox' = [inbox EXCEPT ![h] = all]
          /\ UNCHANGED handler
      BY <1>8, <2>3 DEF HandlerTick, HandlerEof, ReplTypeOK
    <3>2. LastSent(h) \in Nat
      BY DEF LastSent, ReplTypeOK
    <3>3. new \in Seq(Nat)
      BY <3>2, OnlyType DEF After, ReplTypeOK
    <3>4. ~aborted => LastSent(h) = Len(out[h])
      <4> SUFFICES ASSUME ~aborted PROVE LastSent(h) = Len(out[h])
        OBVIOUS
      <4>1. PICK o : o = out[h]
        OBVIOUS
      <4>2. o \in Seq(Nat) /\ \A i \in 1 .. Len(o) : o[i] = i
        BY <4>1 DEF ReplTypeOK, SentInOrder
      <4>3. (IF o = <<>> THEN 0 ELSE o[Len(o)]) = Len(o)
        BY ONLY <4>2
      <4> QED BY <4>1, <4>3 DEF LastSent
    <3>5. ~aborted => \A i \in 1 .. Len(new) : new[i] = LastSent(h) + i
      BY <3>2, AfterNumbered DEF FeedInd, ReplTypeOK
    <3> HIDE DEF new
    <3>6. all \in Seq({"accept", "heartbeat", "commit"})
      BY <3>3 DEF ReplTypeOK
    <3> HIDE DEF all
    <3>7. out[h] \o new \in Seq(Nat)
      BY <3>3 DEF ReplTypeOK
    <3>8. ReplTypeOK'
      BY <2>1, <3>1, <3>6, <3>7 DEF ReplTypeOK
    <3>9. WireInd'
      BY <2>1, <3>1 DEF WireInd, ReplTypeOK
    <3>10. ~aborted => \A i \in 1 .. Len(out[h] \o new) : (out[h] \o new)[i] = i
      <4> SUFFICES ASSUME ~aborted, NEW i \in 1 .. Len(out[h] \o new)
                   PROVE  (out[h] \o new)[i] = i
        OBVIOUS
      <4> DEFINE o == out[h]
      <4>1. o \in Seq(Nat) /\ \A j \in 1 .. Len(o) : o[j] = j
        BY DEF ReplTypeOK, SentInOrder
      <4>2. \A j \in 1 .. Len(new) : new[j] = Len(o) + j
        BY <3>4, <3>5
      <4> HIDE DEF o
      <4>3. (o \o new)[i] = IF i <= Len(o) THEN o[i] ELSE new[i - Len(o)]
        BY <3>3, <4>1 DEF o
      <4>4. i \in 1 .. Len(o) + Len(new) /\ Len(o) \in Nat /\ Len(new) \in Nat
        BY <3>3, <4>1 DEF o
      <4>5. CASE i <= Len(o)
        BY <4>1, <4>3, <4>4, <4>5 DEF o
      <4>6. CASE i > Len(o)
        <5>1. i - Len(o) \in 1 .. Len(new)
          BY <4>4, <4>6
        <5>2. new[i - Len(o)] = Len(o) + (i - Len(o))
          BY <4>2, <5>1
        <5> QED BY <4>3, <4>4, <4>6, <5>2 DEF o
      <4> QED BY <4>4, <4>5, <4>6
    <3>11. SentInOrder'
      BY <2>1, <3>1, <3>10 DEF SentInOrder, ReplTypeOK
    <3> QED BY <2>1, <3>1, <3>8, <3>9, <3>11
            DEF FeedInd, CountExact, PressureCurrent, ReplicatingMeansAccepted
  <2> QED BY <2>2, <2>3
<1>9. ASSUME NEW h \in Conn, Unlist(h),
             UNCHANGED <<serving, nextSeq, proc, pressure, meter, feedVars, out, inbox,
                         hungUp, clientVars, aborted>>,
             \/ UNCHANGED handler
             \/ handler[h] = "remove" /\ HandlerAt(h, "ended")
      PROVE  ReplInd'
  <2>1. active' = Cardinality(listed \ {h}) /\ active' \in 0 .. MaxDials
    <3>1. IsFiniteSet(listed) /\ Cardinality(listed \ {h}) \in 0 .. MaxDials
      BY ConnSets DEF ReplTypeOK
    <3>2. Cardinality(listed \ {h}) = IF h \in listed THEN Cardinality(listed) - 1
                                                      ELSE Cardinality(listed)
      BY <3>1, FS_RemoveElement
    <3> QED BY <1>9, <3>1, <3>2 DEF CountExact, Unlist
  <2>2. listed' = listed \ {h}
    BY <1>9 DEF Unlist
  <2>3. ReplTypeOK'
    BY <1>9, <2>1, <2>2 DEF ReplTypeOK, HandlerAt, HandlerPlace
  <2>4. WireInd'
    BY <1>9, <2>2 DEF ReplTypeOK, WireInd, HandlerAt
  <2>5. CountExact'
    BY <1>9, <2>1, <2>2 DEF ReplTypeOK, HandlerAt, CountExact
  <2>6. ReplicatingMeansAccepted'
    BY <1>0, <1>9 DEF ReplTypeOK, HandlerAt, ReplicatingMeansAccepted
  <2> QED BY <1>9, <2>3, <2>4, <2>5, <2>6 DEF FeedInd, SentInOrder, PressureCurrent
<1>10. ASSUME NEW h \in Conn, HandlerRemove(h) \/ MonitorExpire(h) PROVE ReplInd'
  BY <1>9, <1>10 DEF HandlerRemove, MonitorExpire
<1>11. CASE ServerShutdown
  <2>1. /\ serving' = FALSE /\ aborted' = TRUE /\ proc' = "recv"
        /\ handler' = [h \in Conn |-> IF handler[h] = "none" THEN "none" ELSE "ended"]
        /\ UNCHANGED <<nextSeq, pressure, listed, active, meter, feedVars, out, inbox,
                       hungUp, clientVars>>
    BY <1>11 DEF ServerShutdown
  <2>2. serving' \in BOOLEAN
    BY <2>1
  <2>3. ReplTypeOK'
    BY <2>1, <2>2 DEF ReplTypeOK, HandlerPlace
  <2>4. FeedInd' /\ WireInd'
    BY <2>1 DEF ReplTypeOK, FeedInd, WireInd
  <2>5. SentInOrder' /\ PressureCurrent' /\ CountExact'
    BY <2>1 DEF SentInOrder, PressureCurrent, CountExact
  <2>6. ReplicatingMeansAccepted'
    BY <1>0, <2>1 DEF ReplTypeOK, ReplicatingMeansAccepted
  <2> QED BY <2>3, <2>4, <2>5, <2>6
<1>12. CASE ServerRun
  <2>1. /\ ~serving /\ serving' = TRUE /\ nextSeq' = 0
        /\ UNCHANGED <<proc, pressure, listed, active, meter, feedVars, wireVars,
                       clientVars, aborted>>
    BY <1>12 DEF ServerRun
  <2>2. aborted /\ serving' \in BOOLEAN
    BY <2>1 DEF FeedInd
  <2>3. ReplTypeOK'
    BY <1>0, <2>1, <2>2 DEF ReplTypeOK
  <2>4. FeedInd'
    BY <1>0, <2>1, <2>2 DEF ReplTypeOK, FeedInd
  <2> QED BY <2>1, <2>2, <2>3, <2>4
          DEF WireInd, SentInOrder, CountExact, PressureCurrent, ReplicatingMeansAccepted
(* The client.                                                             *)
<1>13. CASE Connect
  BY <1>13 DEF Connect, ReplTypeOK, ClientPlace, FeedInd, WireInd, SentInOrder, CountExact,
              PressureCurrent, ReplicatingMeansAccepted
<1>14. CASE ClientDial
  <2>0. where = "dial" /\ UNCHANGED <<serverVars, feedVars, aborted, out, inbox, hungUp, link>>
    BY <1>14 DEF ClientDial
  <2>1. CASE /\ dials < MaxDials /\ dials' = dials + 1 /\ HandlerAt(dials + 1, "backlog")
             /\ client' = "Handshaking" /\ where' = "await"
    <3>1. dials + 1 \in Conn /\ handler[dials + 1] = "none"
      BY <1>0, <2>1 DEF ReplTypeOK, WireInd
    <3>2. ReplTypeOK'
      BY <1>0, <2>0, <2>1 DEF ReplTypeOK, HandlerAt, HandlerPlace, ClientPlace
    <3>3. WireInd'
      <4>1. (\A h \in Conn : h > dials => handler[h] = "none")'
        BY <1>0, <2>1 DEF ReplTypeOK, WireInd, HandlerAt
      <4>2. (\A h \in listed : handler[h] \in {"shake", "loop", "remove", "ended"})'
        BY <2>0, <2>1, <3>1 DEF ReplTypeOK, WireInd, HandlerAt
      <4>3. (\A h \in Conn : inbox[h] # <<>> => handler[h] \in {"loop", "remove", "ended"})'
        BY <2>0, <2>1, <3>1 DEF ReplTypeOK, WireInd, HandlerAt
      <4>4. dials' # 0 /\ where' = "await"
        BY <1>0, <2>1 DEF ReplTypeOK
      <4> QED BY <4>1, <4>2, <4>3, <4>4 DEF WireInd
    <3>4. CountExact'
      BY <2>0, <2>1, <3>1 DEF ReplTypeOK, CountExact, HandlerAt
    <3> QED BY <2>0, <2>1, <3>2, <3>3, <3>4
            DEF FeedInd, SentInOrder, PressureCurrent, ReplicatingMeansAccepted
  <2>2. CASE Fails /\ UNCHANGED <<wireVars, client, link, isRunning, dials>>
    BY <2>0, <2>2 DEF Fails, ReplTypeOK, ClientPlace, FeedInd, WireInd, SentInOrder,
                     CountExact, PressureCurrent, ReplicatingMeansAccepted
  <2> QED BY <1>14, <2>1, <2>2 DEF ClientDial
<1>15. CASE ClientAwait
  <2>0. /\ where = "await" /\ dials \in Conn
        /\ UNCHANGED <<serverVars, feedVars, handler, out, dials, aborted>>
    BY <1>0, <1>15 DEF ClientAwait, WireInd, ReplTypeOK
  <2>1. CASE /\ inbox[dials] # <<>>
             /\ inbox' = [inbox EXCEPT ![dials] = Tail(inbox[dials])]
             /\ link' = dials /\ client' = "Replicating" /\ where' = "run"
             /\ isRunning' = TRUE /\ UNCHANGED hungUp
    <3>1. Tail(inbox[dials]) \in Seq({"accept", "heartbeat", "commit"})
      BY <2>0, <2>1 DEF ReplTypeOK
    <3>2. handler[dials] \in {"loop", "remove", "ended"} /\ dials # 0
      BY <1>0, <2>0, <2>1 DEF WireInd
    <3>3. ReplTypeOK'
      BY <2>0, <2>1, <3>1 DEF ReplTypeOK, ClientPlace
    <3>4. WireInd'
      BY <2>0, <2>1, <3>2 DEF ReplTypeOK, WireInd
    <3>5. ReplicatingMeansAccepted'
      BY <2>0, <2>1, <3>2 DEF ReplicatingMeansAccepted
    <3> QED BY <2>0, <2>1, <3>3, <3>4, <3>5
            DEF FeedInd, SentInOrder, CountExact, PressureCurrent
  <2>2. CASE Fails /\ UNCHANGED <<inbox, client, link, isRunning>>
    BY <2>0, <2>2 DEF Fails, ReplTypeOK, ClientPlace, FeedInd, WireInd, SentInOrder,
                     CountExact, PressureCurrent, ReplicatingMeansAccepted
  <2> QED BY <1>15, <2>0, <2>1, <2>2 DEF ClientAwait, ReplTypeOK
<1>16. CASE ClientReceive
  <2>0. /\ where = "run" /\ link \in Conn
        /\ UNCHANGED <<serverVars, feedVars, handler, out, isRunning, dials, aborted>>
    BY <1>0, <1>16 DEF ClientReceive, WireInd, ReplicatingMeansAccepted, ReplTypeOK
  <2>1. CASE /\ inbox[link] # <<>> /\ inbox' = [inbox EXCEPT ![link] = Tail(inbox[link])]
             /\ UNCHANGED <<client, link, where, hungUp>>
    <3>1. Tail(inbox[link]) \in Seq({"accept", "heartbeat", "commit"})
      BY <2>0, <2>1 DEF ReplTypeOK
    <3>2. ReplTypeOK'
      BY <2>0, <2>1, <3>1 DEF ReplTypeOK
    <3>3. WireInd'
      BY <2>0, <2>1 DEF ReplTypeOK, WireInd
    <3> QED BY <2>0, <2>1, <3>2, <3>3
            DEF FeedInd, SentInOrder, CountExact, PressureCurrent, ReplicatingMeansAccepted
  <2>2. CASE Reconnect /\ UNCHANGED inbox
    <3>1. ReplTypeOK'
      BY <1>0, <2>0, <2>2 DEF Reconnect, ReplTypeOK, ClientPlace
    <3> QED BY <2>0, <2>2, <3>1 DEF Reconnect, FeedInd, WireInd, SentInOrder, CountExact,
                     PressureCurrent, ReplicatingMeansAccepted
  <2> QED BY <1>16, <2>0, <2>1, <2>2 DEF ClientReceive, ReplTypeOK
<1>17. CASE ClientShutdown
  BY <1>17 DEF ClientShutdown, ReplTypeOK, ClientPlace, FeedInd, WireInd, SentInOrder,
              CountExact, PressureCurrent, ReplicatingMeansAccepted
<1>18. CASE UNCHANGED replVars
  BY <1>18 DEF replVars, ReplTypeOK, FeedInd, WireInd, SentInOrder, CountExact,
              PressureCurrent, ReplicatingMeansAccepted
<1> QED BY <1>1, <1>2, <1>3, <1>4, <1>5, <1>6, <1>7, <1>8, <1>10, <1>11, <1>12, <1>13,
           <1>14, <1>15, <1>16, <1>17, <1>18 DEF ReplNext

(* The server's count of its connections through removals by the handler   *)
(* and by the monitor, its backpressure through the processor's two steps, *)
(* and the client's belief that it is replicating through refusals,        *)
(* hang-ups, aborts and reconnects: all hold for any number of             *)
(* connections, commits and buffer slots.                                  *)
THEOREM ConnectionsHold == ReplSpec => [](ReplTypeOK /\ ConnectionsConsistent)
<1>1. ReplInd => ReplTypeOK /\ ConnectionsConsistent
  BY DEF ReplInd
<1> QED BY <1>1, ReplInitInd, ReplStepInd, PTL DEF ReplSpec

(* A handler sends the records 1, 2, 3, ... without a gap or a repeat,     *)
(* however its ticks fall between the processor's pushes.                  *)
THEOREM SentWithoutGap == ReplSpec => []SentInOrder
<1>1. ReplInd => SentInOrder
  BY DEF ReplInd
<1> QED BY <1>1, ReplInitInd, ReplStepInd, PTL DEF ReplSpec

-----------------------------------------------------------------------------
(***************************************************************************)
(* Types of the publisher: what a task carries was a number below the      *)
(* bound, so what is sent and what a connection counts stay in theirs.     *)
(***************************************************************************)
Busy == {"push", "apply", "enter", "send"}
Places ==
  /\ listen \in {"start", "accept", "free"} /\ accepting \in {"binding", "looping", "ended"}
  /\ running \in BOOLEAN /\ state \in {"Normal", "Applying", "Relieving"}
Numbers ==
  /\ nextId \in 1 .. MaxConn + 1 /\ counter \in 0 .. MaxSeq /\ DOMAIN acks \subseteq Replica
Carries == \A t \in Task : pc[t] \in Busy => arg[t].seq < MaxSeq
Sends   == \A r \in DOMAIN conn : conn[r].sendSeq <= MaxSeq
PubBounds == Places /\ Numbers /\ Carries /\ Sends

LEMMA PubBoundsNat == MaxSeq \in Nat /\ MaxConn \in Nat
BY PublisherAssumption

LEMMA PlacesStep == ASSUME Places, [PubNext]_pubVars PROVE Places'
<1>1. CASE StartReturns \/ AcceptBind \/ AcceptReplica \/ Run
  BY <1>1 DEF Places, StartReturns, AcceptBind, AcceptReplica, Run
<1>2. ASSUME NEW c \in Committer, \/ PublishCheck(c) \/ PublishRefused(c) \/ PublishNumber(c)
                                  \/ PublishApply(c) \/ PublishEnter(c) \/ PublishSend(c)
                                  \/ \E n \in Size : Push(c, n)
      PROVE Places'
  <2>1. UNCHANGED netVars /\ running' = running /\ (state' = state \/ state' = "Applying")
    BY <1>2 DEF PublishCheck, PublishRefused, PublishNumber, PublishApply, PublishEnter, PublishSend, Push
  <2> QED BY <2>1 DEF Places, netVars
<1>3. ASSUME NEW r \in Replica, \/ HandlerFlush(r) \/ HandlerRead(r) \/ HandlerStop(r)
                                \/ Heartbeat(r) \/ HandlerAck(r)
      PROVE Places'
  <2>1. UNCHANGED netVars /\ running' = running /\ state' = state
    BY <1>3 DEF HandlerFlush, HandlerRead, HandlerStop, Heartbeat, HandlerAck
  <2> QED BY <2>1 DEF Places, netVars
<1>4. ASSUME NEW c \in Caller, \/ ShutdownMark(c) \/ ShutdownClear(c)
                               \/ \E r \in Replica : TrackPosition(c, r)
      PROVE Places'
  <2>1. UNCHANGED netVars /\ running' \in {running, FALSE} /\ state' = state
    BY <1>4 DEF ShutdownMark, ShutdownClear, TrackPosition
  <2> QED BY <2>1 DEF Places, netVars
<1>5. ASSUME NEW t \in Task, ReleaseMin(t) \/ Release(t) \/ ReleaseRelieve(t) PROVE Places'
  <2>1. UNCHANGED netVars /\ running' = running /\ (state' = state \/ state' = "Relieving")
    BY <1>5 DEF ReleaseMin, Release, ReleaseRelieve
  <2> QED BY <2>1 DEF Places, netVars
<1>6. CASE UNCHANGED pubVars
  BY <1>6 DEF Places, pubVars, netVars
<1> QED BY <1>1, <1>2, <1>3, <1>4, <1>5, <1>6 DEF PubNext

LEMMA NumbersStep == ASSUME PubTypes, Numbers, [PubNext]_pubVars PROVE Numbers'
<1>0. nextId \in 1 .. MaxConn + 1 /\ counter \in 0 .. MaxSeq /\ DOMAIN acks \subseteq Replica
  BY DEF Numbers
<1>s. ASSUME nextId' = nextId, acks' = acks, counter' = counter \/ (counter < MaxSeq /\ counter' = counter + 1)
      PROVE  Numbers'
  <2>1. counter' \in 0 .. MaxSeq
    BY ONLY <1>0, <1>s, PubBoundsNat
  <2> QED BY <1>0, <1>s, <2>1 DEF Numbers
<1>1. CASE StartReturns \/ AcceptBind \/ Run
  BY <1>1, <1>s DEF StartReturns, AcceptBind, Run
<1>2. CASE AcceptReplica
  <2>1. nextId <= MaxConn /\ nextId' = nextId + 1 /\ counter' = counter
        /\ (acks' = acks \/ DOMAIN acks' = DOMAIN acks \cup {nextId})
    BY <1>2 DEF AcceptReplica
  <2>2. nextId' \in 1 .. MaxConn + 1 /\ nextId \in Replica
    BY <1>0, <2>1, PubBoundsNat DEF Replica
  <2> QED BY <1>0, <2>1, <2>2 DEF Numbers
<1>3. ASSUME NEW c \in Committer, \/ PublishCheck(c) \/ PublishRefused(c) \/ PublishNumber(c)
                                  \/ PublishApply(c) \/ PublishEnter(c) \/ PublishSend(c)
                                  \/ \E n \in Size : Push(c, n)
      PROVE Numbers'
  <2>1. UNCHANGED netVars /\ acks' = acks
        /\ (counter' = counter \/ (counter < MaxSeq /\ counter' = counter + 1))
    BY <1>3 DEF PublishCheck, PublishRefused, PublishNumber, PublishApply, PublishEnter, PublishSend, Push
  <2> QED BY <1>s, <2>1 DEF netVars
<1>4. ASSUME NEW r \in Replica, \/ HandlerFlush(r) \/ HandlerRead(r) \/ HandlerStop(r) \/ Heartbeat(r)
      PROVE Numbers'
  <2>1. UNCHANGED netVars /\ acks' = acks
        /\ (counter' = counter \/ (counter < MaxSeq /\ counter' = counter + 1))
    BY <1>4 DEF HandlerFlush, HandlerRead, HandlerStop, Heartbeat
  <2> QED BY <1>s, <2>1 DEF netVars
<1>5. ASSUME NEW r \in Replica, HandlerAck(r) \/ \E c \in Caller : TrackPosition(c, r) PROVE Numbers'
  <2>1. UNCHANGED netVars /\ counter' = counter /\ DOMAIN acks' = DOMAIN acks \cup {r}
    BY <1>5 DEF HandlerAck, TrackPosition, Acked
  <2> QED BY <1>0, <2>1 DEF Numbers, netVars
<1>6. ASSUME NEW c \in Caller, ShutdownMark(c) \/ ShutdownClear(c) PROVE Numbers'
  <2>1. UNCHANGED netVars /\ acks' = acks /\ counter' = counter
    BY <1>6 DEF ShutdownMark, ShutdownClear
  <2> QED BY <1>s, <2>1 DEF netVars
<1>7. ASSUME NEW t \in Task, ReleaseMin(t) \/ Release(t) \/ ReleaseRelieve(t) PROVE Numbers'
  <2>1. UNCHANGED netVars /\ acks' = acks /\ counter' = counter
    BY <1>7 DEF ReleaseMin, Release, ReleaseRelieve
  <2> QED BY <1>s, <2>1 DEF netVars
<1>8. CASE UNCHANGED pubVars
  BY <1>8, <1>s DEF pubVars, netVars
<1> QED BY <1>1, <1>2, <1>3, <1>4, <1>5, <1>6, <1>7, <1>8 DEF PubNext

(* A task that moves carries nothing, or what it carried.                  *)
LEMMA CarriesMove ==
  ASSUME PubTypes, Carries, NEW t \in Task, NEW p, NEW a, Move(t, p, a),
         p \in Busy => a.seq < MaxSeq
  PROVE  Carries'
<1>1. /\ pc' = [pc EXCEPT ![t] = p] /\ arg' = [arg EXCEPT ![t] = a]
      /\ pc \in [Task -> Spot] /\ arg \in [Task -> Arg]
  BY DEF Move, PubTypes
<1> QED BY <1>1 DEF Carries

LEMMA CarriesGoto ==
  ASSUME PubTypes, Carries, NEW t \in Task, NEW p, NEW n, Goto(t, p, n),
         p \in Busy => n < MaxSeq
  PROVE  Carries'
<1>1. PICK a : a = [seq |-> n, todo |-> {}]
  OBVIOUS
<1>2. Move(t, p, a) /\ a.seq = n
  BY <1>1 DEF Goto
<1> QED BY <1>2, CarriesMove

LEMMA CarriesStep == ASSUME PubTypes, Numbers, Carries, [PubNext]_pubVars PROVE Carries'
<1>a. "idle" \notin Busy /\ "loop" \notin Busy /\ "refuse" \notin Busy /\ "number" \notin Busy
      /\ "read" \notin Busy /\ "ended" \notin Busy /\ "ack" \notin Busy /\ "min" \notin Busy
      /\ "release" \notin Busy /\ "relieve" \notin Busy /\ "drain" \notin Busy
  BY DEF Busy
<1>b. \A t \in Task : Rest(t) \notin Busy
  BY <1>a DEF Rest
<1>s. ASSUME pc' = pc, arg' = arg PROVE Carries'
  BY <1>s DEF Carries
<1>1. CASE StartReturns \/ AcceptBind \/ Run \/ UNCHANGED pubVars
  BY <1>1, <1>s DEF StartReturns, AcceptBind, Run, pubVars, taskVars
<1>2. CASE AcceptReplica
  <2>1. (pc' = pc /\ arg' = arg) \/ (Goto(nextId, "loop", 0) /\ nextId <= MaxConn)
    BY <1>2 DEF AcceptReplica, taskVars
  <2>2. nextId <= MaxConn => nextId \in Task
    BY PubBoundsNat, TaskFacts DEF Numbers, Replica
  <2> QED BY <1>a, <1>s, <2>1, <2>2, CarriesGoto
<1>3. ASSUME NEW c \in Committer, \/ PublishCheck(c) \/ PublishRefused(c) \/ PublishNumber(c)
                                  \/ PublishApply(c) \/ PublishEnter(c) \/ PublishSend(c)
                                  \/ \E n \in Size : Push(c, n)
      PROVE Carries'
  <2>0. c \in Task /\ (pc[c] \in Busy => arg[c].seq < MaxSeq) /\ arg[c] \in Arg
    BY TaskFacts DEF Carries, PubTypes
  <2>1. CASE PublishCheck(c)
    <3>1. PICK p : p = IF state = "Applying" THEN "refuse" ELSE "number"
      OBVIOUS
    <3>2. Goto(c, p, 0) /\ p \notin Busy
      BY <1>a, <2>1, <3>1 DEF PublishCheck
    <3> QED BY <2>0, <3>2, CarriesGoto
  <2>2. CASE PublishRefused(c)
    BY <1>a, <2>0, <2>2, CarriesGoto DEF PublishRefused
  <2>3. CASE PublishNumber(c)
    <3>1. Goto(c, "push", counter) /\ counter < MaxSeq
      BY <2>3 DEF PublishNumber
    <3> QED BY <2>0, <3>1, CarriesGoto
  <2>4. CASE PublishApply(c)
    <3>1. Goto(c, "enter", arg[c].seq) /\ pc[c] \in Busy
      BY <2>4 DEF PublishApply, Busy
    <3> QED BY <2>0, <3>1, CarriesGoto
  <2>5. CASE PublishEnter(c)
    <3>1. PICK a : a = [seq |-> arg[c].seq, todo |-> DOMAIN conn]
      OBVIOUS
    <3>2. Move(c, "send", a) /\ pc[c] \in Busy /\ a.seq = arg[c].seq
      BY <2>5, <3>1 DEF PublishEnter, Busy
    <3> QED BY <2>0, <3>2, CarriesMove
  <2>6. CASE PublishSend(c)
    <3>1. CASE Goto(c, "idle", 0)
      BY <1>a, <2>0, <3>1, CarriesGoto
    <3>2. ASSUME NEW r, Move(c, "send", [arg[c] EXCEPT !.todo = @ \ {r}]) PROVE Carries'
      <4>1. PICK a : a = [arg[c] EXCEPT !.todo = @ \ {r}]
        OBVIOUS
      <4>2. Move(c, "send", a) /\ a.seq = arg[c].seq
        BY <2>0, <3>2, <4>1 DEF Arg
      <4>3. pc[c] \in Busy
        BY <2>6 DEF PublishSend, Busy
      <4> QED BY <2>0, <4>2, <4>3, CarriesMove
    <3> QED BY <2>6, <3>1, <3>2 DEF PublishSend
  <2>7. ASSUME NEW n \in Size, Push(c, n) PROVE Carries'
    <3>1. CASE Goto(c, "idle", 0)
      BY <1>a, <2>0, <3>1, CarriesGoto
    <3>2. CASE Goto(c, IF size + n >= High THEN "apply" ELSE "enter", arg[c].seq)
      <4>1. PICK p : p = IF size + n >= High THEN "apply" ELSE "enter"
        OBVIOUS
      <4>2. Goto(c, p, arg[c].seq)
        BY <3>2, <4>1
      <4>3. pc[c] \in Busy
        BY <2>7 DEF Push, Busy
      <4> QED BY <2>0, <4>2, <4>3, CarriesGoto
    <3> QED BY <2>7, <3>1, <3>2 DEF Push
  <2> QED BY <1>3, <2>1, <2>2, <2>3, <2>4, <2>5, <2>6, <2>7
<1>4. ASSUME NEW r \in Replica, \/ HandlerFlush(r) \/ HandlerRead(r) \/ HandlerStop(r)
                                \/ Heartbeat(r) \/ HandlerAck(r)
      PROVE Carries'
  <2>0. r \in Task
    BY TaskFacts
  <2>1. (pc' = pc /\ arg' = arg) \/ \E p, n : Goto(r, p, n) /\ p \notin Busy
    <3>1. CASE HandlerFlush(r)
      BY <1>a, <3>1 DEF HandlerFlush
    <3>2. CASE HandlerRead(r)
      BY <1>a, <3>2 DEF HandlerRead
    <3>3. CASE HandlerStop(r)
      BY <1>a, <3>3 DEF HandlerStop
    <3>4. CASE Heartbeat(r)
      BY <3>4 DEF Heartbeat, taskVars
    <3>5. CASE HandlerAck(r)
      BY <1>a, <3>5 DEF HandlerAck
    <3> QED BY <1>4, <3>1, <3>2, <3>3, <3>4, <3>5
  <2> QED BY <1>s, <2>0, <2>1, CarriesGoto
<1>5. ASSUME NEW c \in Caller, \/ ShutdownMark(c) \/ ShutdownClear(c)
                               \/ \E r \in Replica : TrackPosition(c, r)
      PROVE Carries'
  <2>0. c \in Task
    BY TaskFacts
  <2>1. \E p, n : Goto(c, p, n) /\ p \notin Busy
    BY <1>5, <1>a DEF ShutdownMark, ShutdownClear, TrackPosition
  <2> QED BY <2>0, <2>1, CarriesGoto
<1>6. ASSUME NEW t \in Task, ReleaseMin(t) \/ Release(t) \/ ReleaseRelieve(t) PROVE Carries'
  <2>1. \E p, n : Goto(t, p, n) /\ p \notin Busy
    <3>1. CASE ReleaseMin(t)
      BY <1>a, <1>b, <3>1 DEF ReleaseMin
    <3>2. CASE Release(t)
      <4>1. PICK k, p : Goto(t, p, 0) /\ p = IF k < Low THEN "relieve" ELSE Rest(t)
        BY <3>2 DEF Release
      <4> QED BY <1>a, <1>b, <4>1
    <3>3. CASE ReleaseRelieve(t)
      BY <1>b, <3>3 DEF ReleaseRelieve
    <3> QED BY <1>6, <3>1, <3>2, <3>3
  <2> QED BY <2>1, CarriesGoto
<1> QED BY <1>1, <1>2, <1>3, <1>4, <1>5, <1>6 DEF PubNext

LEMMA SendsStep == ASSUME PubTypes, Carries, Sends, [PubNext]_pubVars PROVE Sends'
<1>0. conn \in [DOMAIN conn -> Link] /\ \A r \in DOMAIN conn : conn[r] \in Link /\ conn[r].sendSeq <= MaxSeq
  BY DEF PubTypes, Sends
<1>s. ASSUME conn' = conn PROVE Sends'
  BY <1>s DEF Sends
<1>e. ASSUME NEW r \in DOMAIN conn, NEW k, conn' = [conn EXCEPT ![r] = k], k.sendSeq <= MaxSeq PROVE Sends'
  BY <1>0, <1>e DEF Sends
<1>d. ASSUME NEW r \in DOMAIN conn, conn' = [conn EXCEPT ![r].up = FALSE] PROVE Sends'
  <2>1. PICK k : k = [conn[r] EXCEPT !.up = FALSE]
    OBVIOUS
  <2>2. conn' = [conn EXCEPT ![r] = k]
    BY <1>d, <2>1
  <2>3. k.sendSeq = conn[r].sendSeq
    BY <1>0, <2>1 DEF Link
  <2> QED BY <1>0, <1>e, <2>2, <2>3
<1>1. CASE StartReturns \/ AcceptBind \/ Run \/ UNCHANGED pubVars
  BY <1>1, <1>s DEF StartReturns, AcceptBind, Run, pubVars
<1>2. CASE AcceptReplica
  <2>1. conn' = conn \/ conn' = [r \in DOMAIN conn \cup {nextId} |-> IF r = nextId THEN NewConn ELSE conn[r]]
    BY <1>2 DEF AcceptReplica
  <2>2. NewConn.sendSeq <= MaxSeq
    BY PubBoundsNat DEF NewConn
  <2> QED BY <1>0, <1>s, <2>1, <2>2 DEF Sends
<1>3. ASSUME NEW c \in Committer, \/ PublishCheck(c) \/ PublishRefused(c) \/ PublishNumber(c)
                                  \/ PublishApply(c) \/ PublishEnter(c) \/ \E n \in Size : Push(c, n)
      PROVE Sends'
  <2>1. conn' = conn
    BY <1>3 DEF PublishCheck, PublishRefused, PublishNumber, PublishApply, PublishEnter, Push
  <2> QED BY <1>s, <2>1
<1>4. ASSUME NEW c \in Committer, PublishSend(c) PROVE Sends'
  <2>1. arg[c].seq < MaxSeq /\ arg[c].seq \in Nat
    <3>1. c \in Task /\ arg[c] \in Arg /\ pc[c] \in Busy
      BY <1>4, TaskFacts DEF PubTypes, PublishSend, Busy
    <3> QED BY <3>1 DEF Carries, Arg
  <2>2. conn' = conn \/ \E r \in DOMAIN conn : conn' = [conn EXCEPT ![r] = Queued(conn[r], arg[c].seq)]
    BY <1>4 DEF PublishSend, CanSend
  <2>3. ASSUME NEW r \in DOMAIN conn, conn' = [conn EXCEPT ![r] = Queued(conn[r], arg[c].seq)] PROVE Sends'
    <3>1. PICK k : k = Queued(conn[r], arg[c].seq)
      OBVIOUS
    <3>2. k.sendSeq = arg[c].seq + 1
      BY <1>0, <3>1 DEF Queued, Link
    <3>3. k.sendSeq <= MaxSeq
      BY ONLY <2>1, <3>2, PubBoundsNat
    <3> QED BY <1>e, <2>3, <3>1, <3>3
  <2> QED BY <1>s, <2>2, <2>3
<1>5. ASSUME NEW r \in Replica, HandlerFlush(r) PROVE Sends'
  <2>1. r \in DOMAIN conn
    BY <1>5 DEF HandlerFlush, CanSend
  <2>2. CASE conn' = [conn EXCEPT ![r].queue = <<>>]
    <3>1. PICK k : k = [conn[r] EXCEPT !.queue = <<>>]
      OBVIOUS
    <3>2. conn' = [conn EXCEPT ![r] = k]
      BY <2>2, <3>1
    <3>3. k.sendSeq = conn[r].sendSeq
      BY <1>0, <2>1, <3>1 DEF Link
    <3> QED BY <1>0, <1>e, <2>1, <3>2, <3>3
  <2> QED BY <1>5, <1>d, <2>1, <2>2 DEF HandlerFlush
<1>6. ASSUME NEW r \in Replica, HandlerRead(r) \/ Heartbeat(r) PROVE Sends'
  <2>1. r \in DOMAIN conn
    BY <1>6 DEF HandlerRead, Heartbeat, CanSend, PubTypes
  <2>2. conn' = conn \/ conn' = [conn EXCEPT ![r].up = FALSE]
    BY <1>6 DEF HandlerRead, Heartbeat
  <2> QED BY <1>s, <1>d, <2>1, <2>2
<1>7. ASSUME NEW r \in Replica, \/ HandlerStop(r) \/ HandlerAck(r) \/ \E c \in Caller : TrackPosition(c, r)
      PROVE Sends'
  <2>1. conn' = conn
    BY <1>7 DEF HandlerStop, HandlerAck, TrackPosition
  <2> QED BY <1>s, <2>1
<1>8. ASSUME NEW c \in Caller, ShutdownMark(c) PROVE Sends'
  <2>1. conn' = [r \in DOMAIN conn |-> [conn[r] EXCEPT !.up = FALSE]]
    BY <1>8 DEF ShutdownMark
  <2>2. \A r \in DOMAIN conn : [conn[r] EXCEPT !.up = FALSE].sendSeq = conn[r].sendSeq
    BY <1>0 DEF Link
  <2> QED BY <1>0, <2>1, <2>2 DEF Sends
<1>9. ASSUME NEW t \in Task, ReleaseMin(t) \/ Release(t) \/ ReleaseRelieve(t) PROVE Sends'
  <2>1. conn' = conn
    BY <1>9 DEF ReleaseMin, Release, ReleaseRelieve
  <2> QED BY <1>s, <2>1
<1>10. ASSUME NEW c \in Caller, ShutdownClear(c) PROVE Sends'
  <2>1. conn' = conn
    BY <1>10 DEF ShutdownClear
  <2> QED BY <1>s, <2>1
<1> QED BY <1>1, <1>2, <1>3, <1>4, <1>5, <1>6, <1>7, <1>8, <1>9, <1>10 DEF PubNext

LEMMA PubBoundsInit == PubInit => PubBounds
<1> SUFFICES ASSUME PubInit PROVE PubBounds
  OBVIOUS
<1>1. Places
  BY DEF PubInit, Places
<1>2. Numbers /\ Sends
  BY PubBoundsNat DEF PubInit, Numbers, Sends
<1>3. Carries
  BY DEF PubInit, Carries, Busy
<1> QED BY <1>1, <1>2, <1>3 DEF PubBounds

LEMMA PubBoundsTypes == ASSUME PubInd, PubBounds PROVE PubTypeOK
<1>1. PubTypes /\ size = SizeOf(buffer) /\ size <= MaxSize /\ MaxSize \in Nat
  BY PublisherAssumption DEF PubInd, BufInd, BufferAccounting
<1>2. size \in 0 .. MaxSize
  <2>1. buffer \in Seq(Rec)
    BY <1>1 DEF PubTypes
  <2>2. SizeOf(buffer) \in Nat
    BY <2>1, SizeNat
  <2> QED BY <1>1, <2>2
<1>3. \A r \in DOMAIN conn : conn[r].up \in BOOLEAN /\ conn[r].sendSeq \in 0 .. MaxSeq
  <2>1. \A r \in DOMAIN conn : conn[r] \in Link /\ conn[r].sendSeq <= MaxSeq
    BY <1>1 DEF PubTypes, PubBounds, Sends
  <2>2. \A r \in DOMAIN conn : conn[r].up \in BOOLEAN /\ conn[r].sendSeq \in Nat
    BY <2>1 DEF Link
  <2> QED BY <2>1, <2>2, PubBoundsNat
<1> QED BY <1>1, <1>2, <1>3 DEF PubTypeOK, PubBounds, Places, Numbers, PubTypes

(* The three parts of replication keep their types and limits, whichever   *)
(* of them a behaviour is about: a publisher's numbers, positions and      *)
(* buffer stay in their bounds through every release and shutdown, and the *)
(* subscriber, the server and the client are only ever in states their     *)
(* enums have.                                                             *)
THEOREM ReplicationTypes == Spec => []ReplicationTypeOK
<1> DEFINE Inv == PubInd /\ PubBounds /\ SubInd /\ ReplInd
<1>1. Init => Inv
  BY PubInitial, PubBoundsInit, SubInitInd, ReplInitInd DEF Init
<1>2. Inv /\ [Next]_vars => Inv'
  <2> SUFFICES ASSUME Inv, [Next]_vars PROVE Inv'
    OBVIOUS
  <2>1. [PubNext]_pubVars /\ [SubNext]_subVars /\ [ReplNext]_replVars
    BY DEF Next, vars
  <2>2. PubInd'
    BY <2>1, PubStep
  <2>3. PubBounds'
    <3>1. PubTypes
      BY DEF PubInd
    <3> QED BY <2>1, <3>1, PlacesStep, NumbersStep, CarriesStep, SendsStep DEF PubBounds
  <2>4. SubInd' /\ ReplInd'
    BY <2>1, SubStepInd, ReplStepInd
  <2> QED BY <2>2, <2>3, <2>4
<1>3. Inv => ReplicationTypeOK
  BY PubBoundsTypes DEF SubInd, ReplInd, ReplicationTypeOK
<1> QED BY <1>1, <1>2, <1>3, PTL DEF Spec
=============================================================================

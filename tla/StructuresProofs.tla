--------------------------- MODULE StructuresProofs ---------------------------
(* Theorems about the in-memory structures, for every set of pages, keys    *)
(* and threads and every capacity.                                          *)
EXTENDS MCStructures, DataLemmas, SequenceTheorems

(* The node cache's inductive invariant: its types, the finiteness of what  *)
(* it holds, the property itself, and that a caller which is not in the     *)
(* middle of a call has no keys left to handle, so that the keys its next   *)
(* call takes up replace none.                                              *)
NodeInd ==
  /\ NodeTypeOK /\ IsFiniteSet(held) /\ HeldIsFindable
  /\ \A c \in Callers : doing[c] = "idle" => subject[c] = {}

LEMMA NodeInitInd == NodeInit => NodeInd
BY FS_EmptySet, NodeBounds
   DEF NodeInit, NodeInd, NodeTypeOK, HeldIsFindable, NodeKey

LEMMA NodeStepInd == NodeInd /\ [NodeNext]_nodeVars => NodeInd'
<1> SUFFICES ASSUME NodeInd, [NodeNext]_nodeVars PROVE NodeInd'
  OBVIOUS
<1> USE DEF NodeInd
(* A step that turns one caller to something it has keys for, or to rest.   *)
<1>i. ASSUME NEW c \in Callers, NEW what \in {"idle", "put", "invalidate", "clear"},
             NEW keys \in SUBSET NodeKey, Turn(c, what, keys), what = "idle" => keys = {}
      PROVE  /\ doing' \in [Callers -> {"idle", "put", "invalidate", "clear"}]
             /\ subject' \in [Callers -> SUBSET NodeKey]
             /\ (\A d \in Callers : doing[d] = "idle" => subject[d] = {})'
             /\ doing'[c] = what /\ subject'[c] = keys
             /\ \A d \in Callers \ {c} : doing'[d] = doing[d] /\ subject'[d] = subject[d]
  BY <1>i DEF Turn, NodeTypeOK
<1>1. ASSUME NEW c \in Callers, NEW k \in NodeKey, PutNode(c, k) PROVE NodeInd'
  <2>1. CASE k \in held \/ Cardinality(held) < NodeCap
    <3>1. held' = held \cup {k} /\ Turn(c, "put", {k}) /\ versions' = versions
      BY <1>1, <2>1 DEF PutNode
    <3>2. IsFiniteSet(held') /\ Cardinality(held') <= NodeCap
      <4>1. /\ IsFiniteSet(held \cup {k})
            /\ Cardinality(held \cup {k}) =
                 IF k \in held THEN Cardinality(held) ELSE Cardinality(held) + 1
        BY FS_AddElement
      <4>2. Cardinality(held) \in Nat
        BY FS_CardinalityType
      <4> QED BY <2>1, <3>1, <4>1, <4>2, NodeBounds DEF NodeTypeOK
    <3>3. subject[c] = {} /\ doing[c] # "clear"
      BY <1>1 DEF PutNode
    <3>4. {k} \in SUBSET NodeKey
      OBVIOUS
    <3>5. NodeTypeOK' /\ (\A d \in Callers : doing[d] = "idle" => subject[d] = {})'
      BY <3>1, <3>2, <3>4, <1>i DEF NodeTypeOK
    <3>6. HeldIsFindable'
      BY <3>1, <3>3, <3>4, <1>i DEF HeldIsFindable
    <3> QED BY <3>2, <3>5, <3>6
  <2>2. CASE ~(k \in held \/ Cardinality(held) < NodeCap)
    BY <1>1, <2>2 DEF PutNode, NodeTypeOK, HeldIsFindable
  <2> QED BY <2>1, <2>2
<1>2. ASSUME NEW c \in Callers, PutTracked(c) PROVE NodeInd'
  <2>1. versions' = versions \cup subject[c] /\ held' = held /\ Turn(c, "idle", {})
        /\ doing[c] # "clear"
    BY <1>2 DEF PutTracked
  <2>2. HeldIsFindable'
    BY <2>1, <1>i DEF HeldIsFindable
  <2>3. NodeTypeOK' /\ (\A d \in Callers : doing[d] = "idle" => subject[d] = {})'
    BY <2>1, <1>i DEF NodeTypeOK
  <2> QED BY <2>1, <2>2, <2>3
<1>3. ASSUME NEW c \in Callers, NEW p \in NodePages, InvalidateNode(c, p) PROVE NodeInd'
  <2>1. held' = held /\ versions' = versions \ Of(p) /\ subject[c] = {} /\ doing[c] # "clear"
    BY <1>3 DEF InvalidateNode
  <2>2. CASE versions \cap Of(p) = {}
    <3>1. UNCHANGED <<doing, subject>>
      BY <1>3, <2>2 DEF InvalidateNode
    <3> QED BY <2>1, <2>2, <3>1 DEF NodeTypeOK, HeldIsFindable
  <2>3. CASE versions \cap Of(p) # {}
    <3>1. Turn(c, "invalidate", versions \cap Of(p)) /\ versions \cap Of(p) \in SUBSET NodeKey
      BY <1>3, <2>3 DEF InvalidateNode, NodeTypeOK
    <3>2. NodeTypeOK' /\ (\A d \in Callers : doing[d] = "idle" => subject[d] = {})'
      BY <2>1, <3>1, <1>i DEF NodeTypeOK
    <3>3. HeldIsFindable'
      BY <2>1, <3>1, <1>i DEF HeldIsFindable
    <3> QED BY <2>1, <3>2, <3>3
  <2> QED BY <2>2, <2>3
<1>4. ASSUME NEW c \in Callers, InvalidateNext(c) PROVE NodeInd'
  <2>1. PICK k \in subject[c] :
          /\ held' = held \ {k}
          /\ Turn(c, IF subject[c] = {k} THEN "idle" ELSE "invalidate", subject[c] \ {k})
    BY <1>4 DEF InvalidateNext
  <2>2. IsFiniteSet(held') /\ Cardinality(held') <= NodeCap
    <3>1. /\ IsFiniteSet(held \ {k})
          /\ Cardinality(held \ {k}) =
               IF k \in held THEN Cardinality(held) - 1 ELSE Cardinality(held)
      BY FS_RemoveElement
    <3>2. Cardinality(held) \in Nat
      BY FS_CardinalityType
    <3> QED BY <2>1, <3>1, <3>2, NodeBounds DEF NodeTypeOK
  <2>3. subject[c] \ {k} \in SUBSET NodeKey /\ doing[c] # "clear" /\ versions' = versions
    BY <1>4 DEF InvalidateNext, NodeTypeOK
  <2>4. NodeTypeOK' /\ (\A d \in Callers : doing[d] = "idle" => subject[d] = {})'
    BY <2>1, <2>2, <2>3, <1>i DEF NodeTypeOK
  <2>5. HeldIsFindable'
    BY <2>1, <2>3, <1>i DEF HeldIsFindable
  <2> QED BY <2>2, <2>4, <2>5
<1>5. ASSUME NEW c \in Callers, ClearNodes(c) PROVE NodeInd'
  BY <1>5 DEF ClearNodes, Turn, NodeTypeOK, HeldIsFindable
<1>6. ASSUME NEW c \in Callers, ClearHeld(c) PROVE NodeInd'
  BY <1>6, FS_EmptySet, NodeBounds DEF ClearHeld, Turn, NodeTypeOK, HeldIsFindable
<1>7. CASE UNCHANGED nodeVars
  BY <1>7 DEF nodeVars, NodeTypeOK, HeldIsFindable
<1> QED BY <1>1, <1>2, <1>3, <1>4, <1>5, <1>6, <1>7 DEF NodeNext

(* put, invalidate and clear update the cache and page_versions one after   *)
(* the other, in any interleaving of any number of callers: a cached node   *)
(* can always be found by the invalidation of its page, and the shard never *)
(* holds more than it may.                                                  *)
THEOREM NodesFindable == NodeSpec => [](NodeTypeOK /\ HeldIsFindable)
<1>1. NodeInd => NodeTypeOK /\ HeldIsFindable
  BY DEF NodeInd
<1> QED BY <1>1, NodeInitInd, NodeStepInd, PTL DEF NodeSpec
-------------------------------------------------------------------------------
(* The bytes of the values under a set of keys, with one key more or less.  *)
LEMMA BytesOfOne ==
  ASSUME NEW k \in Keys
  PROVE  /\ IsFiniteSet({k} \X (1 .. EntrySize[k]))
         /\ Cardinality({k} \X (1 .. EntrySize[k])) = EntrySize[k]
         /\ EntrySize[k] \in Nat
<1> DEFINE n == EntrySize[k]
<1>1. n \in Nat
  BY ShardBounds
<1> HIDE DEF n
<1>2. IsFiniteSet(1 .. n) /\ Cardinality(1 .. n) = n
  BY <1>1, FS_Interval
<1>3. IsFiniteSet({k}) /\ Cardinality({k}) = 1
  BY FS_Singleton
<1>4. IsFiniteSet({k} \X (1 .. n)) /\ Cardinality({k} \X (1 .. n)) = 1 * n
  BY <1>2, <1>3, FS_Product
<1> QED BY <1>1, <1>4 DEF n

LEMMA BytesWith ==
  ASSUME NEW K \in SUBSET Keys, IsFiniteSet(Bytes(K)), NEW k \in Keys
  PROVE  /\ IsFiniteSet(Bytes(K \cup {k}))
         /\ Cardinality(Bytes(K)) \in Nat
         /\ Cardinality(Bytes(K \cup {k})) <= Cardinality(Bytes(K)) + EntrySize[k]
<1> DEFINE One == {k} \X (1 .. EntrySize[k])
<1>1. Bytes(K \cup {k}) = Bytes(K) \cup One
  BY DEF Bytes
<1>2. IsFiniteSet(One) /\ Cardinality(One) = EntrySize[k] /\ EntrySize[k] \in Nat
  BY BytesOfOne
<1> HIDE DEF One
<1>3. /\ IsFiniteSet(Bytes(K) \cup One)
      /\ Cardinality(Bytes(K) \cup One) =
           Cardinality(Bytes(K)) + Cardinality(One) - Cardinality(Bytes(K) \cap One)
  BY <1>2, FS_Union
<1>4. IsFiniteSet(Bytes(K) \cap One)
  BY <1>2, FS_Subset
<1>5. Cardinality(Bytes(K) \cap One) \in Nat /\ Cardinality(Bytes(K)) \in Nat
  BY <1>4, FS_CardinalityType
<1>6. Cardinality(Bytes(K) \cup One) <= Cardinality(Bytes(K)) + EntrySize[k]
  BY <1>2, <1>3, <1>5
<1> QED BY <1>1, <1>3, <1>5, <1>6

LEMMA BytesWithout ==
  ASSUME NEW K \in SUBSET Keys, IsFiniteSet(Bytes(K)), NEW k \in K
  PROVE  /\ IsFiniteSet(Bytes(K \ {k}))
         /\ Cardinality(Bytes(K \ {k})) \in Nat
         /\ Cardinality(Bytes(K)) = Cardinality(Bytes(K \ {k})) + EntrySize[k]
<1> DEFINE One == {k} \X (1 .. EntrySize[k])
           Rest == Bytes(K \ {k})
<1>1. Bytes(K) = Rest \cup One /\ Rest \cap One = {} /\ Rest \subseteq Bytes(K)
  BY DEF Bytes
<1>2. IsFiniteSet(One) /\ Cardinality(One) = EntrySize[k] /\ EntrySize[k] \in Nat
  BY BytesOfOne
<1> HIDE DEF One, Rest
<1>3. IsFiniteSet(Rest)
  BY <1>1, FS_Subset
<1>4. Cardinality(Rest \cup One) =
        Cardinality(Rest) + Cardinality(One) - Cardinality(Rest \cap One)
  BY <1>2, <1>3, FS_Union
<1>5. Cardinality(Rest \cap One) = 0 /\ Cardinality(Rest) \in Nat
  BY <1>1, <1>3, FS_EmptySet, FS_CardinalityType
<1> QED BY <1>1, <1>2, <1>3, <1>4, <1>5 DEF Rest

(* The list of recently used keys after a use and after a removal.          *)
LEMMA NewestOnce ==
  ASSUME NEW s \in Seq(Keys), IsInjective(s), NEW k \in Keys
  PROVE  /\ Forget(s, k) \in Seq(Keys) /\ IsInjective(Forget(s, k))
         /\ Newest(s, k) \in Seq(Keys) /\ IsInjective(Newest(s, k))
<1> DEFINE u == Forget(s, k)
<1>1. u \in Seq(Keys)
  BY OnlyType DEF Forget
<1>2. \A i, j \in 1 .. Len(u) : u[i] = u[j] => i = j
  <2>1. \A i, j \in 1 .. Len(s) : s[i] = s[j] => i = j
    BY DEF IsInjective
  <2> QED BY <2>1, OnlyNamesOnce DEF Forget
<1>3. \A i \in 1 .. Len(u) : u[i] # k
  <2>1. u \in Seq(Keys \cap (Keys \ {k}))
    BY OnlyType DEF Forget
  <2> HIDE DEF u
  <2> QED BY <2>1
<1> HIDE DEF u
<1>4. IsInjective(u)
  BY <1>1, <1>2 DEF IsInjective
<1>5. <<k>> \o u \in Seq(Keys) /\ IsInjective(<<k>> \o u)
  <2>1. <<k>> \o u \in Seq(Keys)
    BY <1>1
  <2>2. /\ Len(<<k>> \o u) = Len(u) + 1 /\ (<<k>> \o u)[1] = k
        /\ \A i \in 2 .. Len(u) + 1 : (<<k>> \o u)[i] = u[i - 1]
        /\ DOMAIN (<<k>> \o u) = 1 .. Len(u) + 1
        /\ Len(u) \in Nat
    BY <1>1
  <2>3. ASSUME NEW i \in 1 .. Len(u) + 1, NEW j \in 1 .. Len(u) + 1,
               (<<k>> \o u)[i] = (<<k>> \o u)[j]
        PROVE  i = j
    <3>1. CASE i = 1
      BY <1>3, <2>2, <2>3, <3>1
    <3>2. CASE j = 1
      BY <1>3, <2>2, <2>3, <3>2
    <3>3. CASE i # 1 /\ j # 1
      <4>1. i - 1 \in 1 .. Len(u) /\ j - 1 \in 1 .. Len(u) /\ u[i - 1] = u[j - 1]
        BY <2>2, <2>3, <3>3
      <4>2. i - 1 = j - 1
        BY <1>2, <4>1
      <4> QED BY <4>2
    <3> QED BY <3>1, <3>2, <3>3
  <2> QED BY <2>1, <2>2, <2>3 DEF IsInjective
<1> QED BY <1>1, <1>4, <1>5 DEF u, Newest

(* The shard's inductive invariant: its types, its two promises, and that   *)
(* what the map holds can be counted.                                       *)
ShardInd ==
  /\ ShardTypeOK /\ CountersCover /\ ListNamesOnce
  /\ IsFiniteSet(DOMAIN entries) /\ IsFiniteSet(Bytes(DOMAIN entries))

LEMMA ShardInitInd == ShardInit => ShardInd
<1> SUFFICES ASSUME ShardInit PROVE ShardInd
  OBVIOUS
<1>1. DOMAIN entries = {} /\ Bytes({}) = {} /\ size = 0 /\ count = 0 /\ lru = <<>>
  BY DEF ShardInit, Bytes
<1>2. IsFiniteSet({}) /\ Cardinality({}) = 0
  BY FS_EmptySet
<1>3. ShardTypeOK
  BY <1>1, ShardBounds DEF ShardInit, ShardTypeOK, Steps
<1>4. ListNamesOnce
  BY <1>1 DEF ListNamesOnce, IsInjective
<1>5. DOMAIN entries = {} /\ Bytes(DOMAIN entries) = {} /\ size = 0 /\ count = 0
  BY <1>1
<1>c. Cardinality(DOMAIN entries) = 0 /\ Cardinality(Bytes(DOMAIN entries)) = 0
  BY <1>2, <1>5, Zenon
<1>6. CountersCover
  BY <1>c, <1>5 DEF CountersCover
<1> QED BY <1>2, <1>3, <1>4, <1>5, <1>6 DEF ShardInd

(* A step that neither adds nor removes entries keeps the accounting.       *)
LEMMA ShardSame ==
  ASSUME ShardInd, DOMAIN entries' = DOMAIN entries, size' = size, count' = count
  PROVE  CountersCover' /\ (IsFiniteSet(DOMAIN entries) /\ IsFiniteSet(Bytes(DOMAIN entries)))'
<1>1. Bytes(DOMAIN entries)' = Bytes(DOMAIN entries)
  BY DEF Bytes
<1> QED BY <1>1 DEF ShardInd, CountersCover

(* So does one that removes an entry and subtracts what it counted.         *)
LEMMA ShardRemove ==
  ASSUME ShardInd, NEW k \in DOMAIN entries, entries' = Without(k),
         size' = size - EntrySize[k], count' = count - 1
  PROVE  /\ CountersCover' /\ (IsFiniteSet(DOMAIN entries) /\ IsFiniteSet(Bytes(DOMAIN entries)))'
         /\ DOMAIN entries' \subseteq Keys /\ entries' \in [DOMAIN entries' -> 0 .. PinWrap - 1]
         /\ size' \in Nat /\ count' \in Nat
<1> DEFINE D == DOMAIN entries
<1>0. D \in SUBSET Keys /\ IsFiniteSet(D) /\ IsFiniteSet(Bytes(D)) /\ k \in D /\ k \in Keys
      /\ size \in Nat /\ count \in Nat /\ size >= Cardinality(Bytes(D)) /\ count >= Cardinality(D)
  BY DEF ShardInd, ShardTypeOK, CountersCover
<1>1. DOMAIN entries' = D \ {k} /\ Bytes(DOMAIN entries)' = Bytes(D \ {k})
  BY DEF Without, Bytes
<1>2. DOMAIN entries' \subseteq Keys /\ entries' \in [DOMAIN entries' -> 0 .. PinWrap - 1]
  BY DEF ShardInd, ShardTypeOK, Without
<1> HIDE DEF D
<1>3. /\ IsFiniteSet(Bytes(D \ {k})) /\ Cardinality(Bytes(D \ {k})) \in Nat
      /\ Cardinality(Bytes(D)) = Cardinality(Bytes(D \ {k})) + EntrySize[k]
  BY <1>0, BytesWithout
<1>4. IsFiniteSet(D \ {k}) /\ Cardinality(D \ {k}) = Cardinality(D) - 1
  BY <1>0, FS_RemoveElement
<1>5. Cardinality(D \ {k}) \in Nat /\ Cardinality(D) \in Nat
  BY <1>0, <1>4, FS_CardinalityType
<1>6. EntrySize[k] \in Nat
  BY <1>0, ShardBounds
<1>7. size - EntrySize[k] >= Cardinality(Bytes(D \ {k})) /\ size - EntrySize[k] \in Nat
  BY <1>0, <1>3, <1>6
<1>8. count - 1 >= Cardinality(D \ {k}) /\ count - 1 \in Nat
  BY <1>0, <1>4, <1>5
<1> QED BY <1>1, <1>2, <1>3, <1>4, <1>7, <1>8 DEF CountersCover

(* And one that inserts an entry and adds it, whether or not it was there.  *)
LEMMA ShardInsert ==
  ASSUME ShardInd, NEW k \in Keys, entries' = With(k),
         size' = size + EntrySize[k], count' = count + 1
  PROVE  /\ CountersCover' /\ (IsFiniteSet(DOMAIN entries) /\ IsFiniteSet(Bytes(DOMAIN entries)))'
         /\ DOMAIN entries' \subseteq Keys /\ entries' \in [DOMAIN entries' -> 0 .. PinWrap - 1]
         /\ size' \in Nat /\ count' \in Nat
<1> DEFINE D == DOMAIN entries
<1>0. D \in SUBSET Keys /\ IsFiniteSet(D) /\ IsFiniteSet(Bytes(D))
      /\ size \in Nat /\ count \in Nat /\ size >= Cardinality(Bytes(D)) /\ count >= Cardinality(D)
  BY DEF ShardInd, ShardTypeOK, CountersCover
<1>1. DOMAIN entries' = D \cup {k} /\ Bytes(DOMAIN entries)' = Bytes(D \cup {k})
  BY DEF With, Bytes
<1>2. DOMAIN entries' \subseteq Keys /\ entries' \in [DOMAIN entries' -> 0 .. PinWrap - 1]
  BY ShardBounds DEF ShardInd, ShardTypeOK, With
<1> HIDE DEF D
<1>3. /\ IsFiniteSet(Bytes(D \cup {k})) /\ Cardinality(Bytes(D)) \in Nat
      /\ Cardinality(Bytes(D \cup {k})) <= Cardinality(Bytes(D)) + EntrySize[k]
  BY <1>0, BytesWith
<1>4. /\ IsFiniteSet(D \cup {k})
      /\ Cardinality(D \cup {k}) = IF k \in D THEN Cardinality(D) ELSE Cardinality(D) + 1
  BY <1>0, FS_AddElement
<1>5. Cardinality(D) \in Nat /\ Cardinality(Bytes(D \cup {k})) \in Nat
  BY <1>0, <1>3, FS_CardinalityType
<1>6. EntrySize[k] \in Nat
  BY ShardBounds
<1>7. size + EntrySize[k] >= Cardinality(Bytes(D \cup {k})) /\ size + EntrySize[k] \in Nat
  BY <1>0, <1>3, <1>5, <1>6
<1>8. count + 1 >= Cardinality(D \cup {k}) /\ count + 1 \in Nat
  BY <1>0, <1>4, <1>5
<1> QED BY <1>1, <1>2, <1>3, <1>4, <1>7, <1>8 DEF CountersCover

LEMMA ShardStepInd == ShardInd /\ [ShardNext]_shardVars => ShardInd'
<1> SUFFICES ASSUME ShardInd, [ShardNext]_shardVars PROVE ShardInd'
  OBVIOUS
<1> DEFINE Finite == IsFiniteSet(DOMAIN entries) /\ IsFiniteSet(Bytes(DOMAIN entries))
           MapOK == DOMAIN entries \subseteq Keys /\ entries \in [DOMAIN entries -> 0 .. PinWrap - 1]
           ListOK == lru \in Seq(Keys) /\ ListNamesOnce
           PlaceOK == /\ pc \in [Threads -> Steps] /\ arg \in [Threads -> Keys]
                      /\ policy \in {"Lru", "Fifo", "Arc"}
<1>0. CountersCover /\ Finite /\ MapOK /\ ListOK /\ PlaceOK /\ size \in Nat /\ count \in Nat
  BY DEF ShardInd, ShardTypeOK
<1>q. ASSUME CountersCover', Finite', MapOK', ListOK', PlaceOK', size' \in Nat, count' \in Nat
      PROVE  ShardInd'
  BY <1>q DEF ShardInd, ShardTypeOK
<1>p. ASSUME NEW t \in Threads, NEW st \in Steps, Goto(t, st) PROVE pc' \in [Threads -> Steps]
  BY <1>0, <1>p DEF Goto
<1>b. ASSUME NEW t \in Threads, NEW k \in Keys, Begin(t, k) PROVE arg' \in [Threads -> Keys]
  BY <1>0, <1>b DEF Begin
(* The list stays as it is, loses its oldest key, or has a key moved.       *)
<1>l. ASSUME NEW t \in Threads,
             lru' \in {lru, Newest(lru, arg[t]), Forget(lru, arg[t]), <<>>}
      PROVE  ListOK'
  <2>1. <<>> \in Seq(Keys) /\ IsInjective(<<>>)
    BY DEF IsInjective
  <2>2. arg[t] \in Keys
    BY <1>0
  <2> QED BY <1>0, <1>l, <2>1, <2>2, NewestOnce DEF ListNamesOnce
(* Pins change in place, modulo the word.                                   *)
<1>e. ASSUME NEW k, NEW n \in 0 .. PinWrap - 1, entries' = [entries EXCEPT ![k] = n]
      PROVE  MapOK' /\ DOMAIN entries' = DOMAIN entries
  BY <1>0, <1>e
<1>m. ASSUME NEW n \in Int PROVE n % PinWrap \in 0 .. PinWrap - 1
  BY ShardBounds
<1>g. ASSUME NEW k \in DOMAIN entries
      PROVE  entries[k] \in Int /\ entries[k] + 1 \in Int /\ entries[k] - 1 \in Int
  BY <1>0
<1>s. ASSUME DOMAIN entries' = DOMAIN entries, size' = size, count' = count
      PROVE  CountersCover' /\ Finite' /\ size' \in Nat /\ count' \in Nat
  BY <1>0, <1>s, ShardSame
<1>k. \A st \in {"idle", "unpin", "touch", "list", "load", "check", "insert", "track",
                 "pick", "scan", "evict", "droplist", "clearlist"} : st \in Steps
  BY DEF Steps
<1> HIDE DEF ListOK, MapOK, Finite
<1>1. ASSUME NEW t \in Threads, NEW k \in Keys, Get(t, k) PROVE ShardInd'
  <2>1. PlaceOK' /\ ListOK' /\ size' = size /\ count' = count
    BY <1>0, <1>1, <1>b, <1>p, <1>k, <1>l DEF Get
  <2>2. CASE k \in DOMAIN entries
    <3>1. MapOK' /\ DOMAIN entries' = DOMAIN entries
      BY <1>1, <2>2, <1>e, <1>m, <1>g DEF Get
    <3> QED BY <1>q, <1>s, <2>1, <3>1
  <2>3. CASE k \notin DOMAIN entries
    <3>1. entries' = entries
      BY <1>1, <2>3 DEF Get
    <3>2. MapOK' /\ DOMAIN entries' = DOMAIN entries
      BY <1>0, <3>1 DEF MapOK
    <3> QED BY <1>q, <1>s, <2>1, <3>2
  <2> QED BY <2>2, <2>3
<1>2. ASSUME NEW t \in Threads, GetUnpin(t) PROVE ShardInd'
  <2>1. PlaceOK' /\ ListOK' /\ size' = size /\ count' = count
    BY <1>0, <1>2, <1>p, <1>k, <1>l DEF GetUnpin
  <2>2. CASE arg[t] \in DOMAIN entries
    <3>1. MapOK' /\ DOMAIN entries' = DOMAIN entries
      BY <1>2, <2>2, <1>e, <1>m, <1>g DEF GetUnpin
    <3> QED BY <1>q, <1>s, <2>1, <3>1
  <2>3. CASE arg[t] \notin DOMAIN entries
    <3>1. MapOK' /\ DOMAIN entries' = DOMAIN entries
      BY <1>0, <1>2, <2>3 DEF GetUnpin, MapOK
    <3> QED BY <1>q, <1>s, <2>1, <3>1
  <2> QED BY <2>2, <2>3
(* The steps that touch the list, the program counters or nothing.          *)
<1>3. ASSUME NEW t \in Threads,
             GetTouch(t) \/ GetList(t) \/ PutLoad(t) \/ PutCheck(t) \/ PutTrack(t)
               \/ InvalidateList(t) \/ ClearList(t) \/ EvictPick(t)
      PROVE  ShardInd'
  <2>1. entries' = entries /\ size' = size /\ count' = count /\ arg' = arg /\ policy' = policy
        /\ lru' \in {lru, Newest(lru, arg[t]), Forget(lru, arg[t]), <<>>}
    BY <1>3 DEF GetTouch, GetList, PutLoad, PutCheck, PutTrack, InvalidateList, ClearList, EvictPick
  <2>2. \E st \in Steps : Goto(t, st)
    <3>1. CASE EvictPick(t)
      <4>1. CASE policy = "Fifo"
        BY <3>1, <4>1, <1>k DEF EvictPick, Chosen, Refused
      <4>2. CASE policy = "Arc"
        BY <3>1, <4>2, <1>k DEF EvictPick, Refused
      <4>3. CASE policy = "Lru"
        BY <3>1, <4>3, <1>k DEF EvictPick
      <4> QED BY <1>0, <4>1, <4>2, <4>3
    <3> QED BY <1>3, <1>k, <3>1 DEF GetTouch, GetList, PutLoad, PutCheck, PutTrack,
                                    InvalidateList, ClearList
  <2>3. PlaceOK' /\ ListOK'
    BY <1>0, <2>1, <2>2, <1>p, <1>l
  <2>4. MapOK' /\ DOMAIN entries' = DOMAIN entries
    BY <1>0, <2>1 DEF MapOK
  <2> QED BY <1>q, <1>s, <2>1, <2>3, <2>4
<1>4. ASSUME NEW t \in Threads, NEW k \in Keys, Put(t, k) PROVE ShardInd'
  <2>1. PlaceOK' /\ ListOK' /\ entries' = entries /\ size' = size /\ count' = count
    BY <1>0, <1>4, <1>b, <1>p, <1>k, <1>l DEF Put
  <2>2. MapOK' /\ DOMAIN entries' = DOMAIN entries
    BY <1>0, <2>1 DEF MapOK
  <2> QED BY <1>q, <1>s, <2>1, <2>2
<1>5. ASSUME NEW t \in Threads, PutInsert(t) PROVE ShardInd'
  <2>1. PlaceOK' /\ ListOK'
    BY <1>0, <1>5, <1>p, <1>k, <1>l DEF PutInsert
  <2>2. arg[t] \in Keys
    BY <1>0
  <2>3. CountersCover' /\ Finite' /\ MapOK' /\ size' \in Nat /\ count' \in Nat
    BY <1>5, <2>2, ShardInsert DEF PutInsert, Finite, MapOK
  <2> QED BY <1>q, <2>1, <2>3
<1>6. ASSUME NEW t \in Threads, EvictScan(t) PROVE ShardInd'
  <2>1. entries' = entries /\ size' = size /\ count' = count /\ arg' = arg /\ policy' = policy
        /\ lru' \in {lru, Front(lru)} /\ (lru = <<>> => lru' = lru)
    BY <1>6 DEF EvictScan
  <2>2. (\E st \in Steps : Goto(t, st)) \/ pc' = pc
    BY <1>6, <1>k DEF EvictScan, Chosen, Refused
  <2>3. PlaceOK'
    BY <1>0, <2>1, <2>2, <1>p
  <2>4. ListOK'
    <3>1. CASE lru' = lru
      BY <1>l, <3>1
    <3>2. CASE lru # <<>> /\ lru' = Front(lru)
      BY <1>0, <3>2 DEF ListOK, ListNamesOnce, Front, IsInjective
    <3> QED BY <2>1, <3>1, <3>2
  <2>5. MapOK' /\ DOMAIN entries' = DOMAIN entries
    BY <1>0, <2>1 DEF MapOK
  <2> QED BY <1>q, <1>s, <2>1, <2>3, <2>4, <2>5
<1>7. ASSUME NEW t \in Threads, EvictRemove(t) PROVE ShardInd'
  <2>1. entries' = Without(victim[t]) /\ lru' = lru /\ arg' = arg /\ policy' = policy
    BY <1>7 DEF EvictRemove
  <2>2. \E st \in Steps : Goto(t, st)
    BY <1>7, <1>k DEF EvictRemove
  <2>3. PlaceOK' /\ ListOK'
    BY <1>0, <2>1, <2>2, <1>p, <1>l
  <2>4. CASE victim[t] \in DOMAIN entries
    <3>1. size' = size - EntrySize[victim[t]] /\ count' = count - 1
      BY <1>7, <2>4 DEF EvictRemove
    <3>2. CountersCover' /\ Finite' /\ MapOK' /\ size' \in Nat /\ count' \in Nat
      BY <2>1, <2>4, <3>1, ShardRemove DEF Finite, MapOK
    <3> QED BY <1>q, <2>3, <3>2
  <2>5. CASE victim[t] \notin DOMAIN entries
    <3>1. size' = size /\ count' = count
      BY <1>7, <2>5 DEF EvictRemove
    <3>2. MapOK' /\ DOMAIN entries' = DOMAIN entries
      BY <1>0, <2>1, <2>5 DEF Without, MapOK
    <3> QED BY <1>q, <1>s, <2>3, <3>1, <3>2
  <2> QED BY <2>4, <2>5
<1>8. ASSUME NEW t \in Threads, NEW k \in Keys, Invalidate(t, k) PROVE ShardInd'
  <2>1. PlaceOK' /\ ListOK'
    BY <1>0, <1>8, <1>b, <1>p, <1>k, <1>l DEF Invalidate
  <2>2. CASE k \in DOMAIN entries
    <3>1. CountersCover' /\ Finite' /\ MapOK' /\ size' \in Nat /\ count' \in Nat
      BY <1>8, <2>2, ShardRemove DEF Finite, MapOK, Invalidate
    <3> QED BY <1>q, <2>1, <3>1
  <2>3. CASE k \notin DOMAIN entries
    <3>1. MapOK' /\ DOMAIN entries' = DOMAIN entries /\ size' = size /\ count' = count
      BY <1>0, <1>8, <2>3 DEF Invalidate, MapOK
    <3> QED BY <1>q, <1>s, <2>1, <3>1
  <2> QED BY <2>2, <2>3
<1>9. ASSUME NEW t \in Threads, NEW k \in Keys, Pin(t, k) \/ Unpin(t, k) PROVE ShardInd'
  <2>1. PlaceOK' /\ ListOK' /\ size' = size /\ count' = count
    BY <1>0, <1>9, <1>b, <1>l DEF Pin, Unpin
  <2>2. k \in DOMAIN entries
    BY <1>9 DEF Pin, Unpin
  <2>3. CASE Pin(t, k)
    <3>1. entries[k] + 1 \in 0 .. PinWrap - 1
      BY <1>0, <2>2, <2>3, <1>g, ShardBounds DEF Pin, MapOK
    <3>2. entries' = [entries EXCEPT ![k] = entries[k] + 1]
      BY <2>3 DEF Pin
    <3>3. MapOK' /\ DOMAIN entries' = DOMAIN entries
      BY <1>e, <3>1, <3>2
    <3> QED BY <1>q, <1>s, <2>1, <3>3
  <2>4. CASE Unpin(t, k)
    <3>1. MapOK' /\ DOMAIN entries' = DOMAIN entries
      BY <2>2, <2>4, <1>e, <1>m, <1>g DEF Unpin
    <3> QED BY <1>q, <1>s, <2>1, <3>1
  <2> QED BY <1>9, <2>3, <2>4
<1>10. ASSUME NEW t \in Threads, Clear(t) PROVE ShardInd'
  <2>0. arg[t] \in Keys
    BY <1>0
  <2>1. PlaceOK' /\ ListOK'
    BY <1>0, <1>10, <2>0, <1>b, <1>p, <1>k, <1>l DEF Clear
  <2>2. DOMAIN entries' = {} /\ size' = 0 /\ count' = 0 /\ MapOK'
    BY <1>10 DEF Clear, MapOK
  <2>3. IsFiniteSet({}) /\ Cardinality({}) = 0 /\ Bytes({}) = {}
    BY FS_EmptySet DEF Bytes
  <2>4. Bytes(DOMAIN entries)' = {}
    BY <2>2, <2>3 DEF Bytes
  <2>5. CountersCover' /\ Finite'
    BY <2>2, <2>3, <2>4 DEF CountersCover, Finite
  <2> QED BY <1>q, <2>1, <2>2, <2>5
<1>11. CASE UNCHANGED shardVars
  BY <1>11 DEF shardVars, ShardInd, ShardTypeOK, CountersCover, ListNamesOnce, Bytes
<1> QED BY <1>1, <1>2, <1>3, <1>4, <1>5, <1>6, <1>7, <1>8, <1>9, <1>10, <1>11 DEF ShardNext

(* For every number of threads and keys, every size and policy: the         *)
(* counters of the shard are never below what its map holds, so the limits  *)
(* put compares them with bound the map at the moment of the check, and its *)
(* list names no key twice.                                                 *)
THEOREM ShardAccounts == ShardSpec => [](ShardTypeOK /\ ShardBounded)
<1>1. ShardInd => ShardTypeOK /\ ShardBounded
  BY DEF ShardInd, ShardBounded
<1> QED BY <1>1, ShardInitInd, ShardStepInd, PTL DEF ShardSpec

-----------------------------------------------------------------------------
(***************************************************************************)
(* The version store.  The chain of a key whose LSNs came in order is the  *)
(* newest part of what was added, backwards, and it has every version that *)
(* neither the cap nor a reclaim had a reason to drop.                     *)
(***************************************************************************)
Rising(ad)   == \A i, j \in 1 .. Len(ad) : i < j => ad[i] < ad[j]
Mirror(ch, ad) == Len(ch) <= Len(ad) /\ \A i \in 1 .. Len(ch) : ch[i] = ad[Len(ad) + 1 - i]
Enough(ch, ad, h) ==
  \A i \in 1 .. Len(ad) : i > Len(ad) - ChainCap /\ ad[i] >= h => Len(ad) + 1 - i <= Len(ch)
Tidy(ch, ad, h) == Rising(ad) /\ Mirror(ch, ad) /\ Enough(ch, ad, h)

VersionInd ==
  /\ chain \in [VKey -> Seq(VLsn)] /\ added \in [VKey -> Seq(VLsn)] /\ horizon \in Nat
  /\ \A k \in VKey : k \notin shuffled => Tidy(chain[k], added[k], horizon)

LEMMA CapNat == ChainCap \in Nat /\ ChainCap >= 1 /\ VLsn \subseteq Nat
BY VersionsAssumption

LEMMA LsnNat == ASSUME NEW s \in Seq(VLsn), NEW i \in 1 .. Len(s) PROVE s[i] \in Nat
<1>1. s[i] \in VLsn
  OBVIOUS
<1> QED BY <1>1, CapNat

LEMMA MinOfTwo ==
  ASSUME NEW a \in Nat, NEW b \in Nat
  PROVE  /\ Min({a, b}) \in {a, b} /\ Min({a, b}) <= a /\ Min({a, b}) <= b
<1>1. \E x \in {a, b} : \A y \in {a, b} : x <= y
  OBVIOUS
<1> QED BY <1>1 DEF Min

LEMMA MaxOfTwo ==
  ASSUME NEW a \in Nat, NEW b \in Nat
  PROVE  /\ Max({a, b}) \in {a, b} /\ Max({a, b}) >= a /\ Max({a, b}) >= b
<1>1. \E x \in {a, b} : \A y \in {a, b} : x >= y
  OBVIOUS
<1> QED BY <1>1 DEF Max

(* What AddNewest makes of a chain.                                        *)
LEMMA NewChain ==
  ASSUME NEW ch \in Seq(VLsn), NEW l \in VLsn, NEW n \in 1 .. (Len(ch) + 1),
         NEW new, new = SubSeq(<<l>> \o ch, 1, n)
  PROVE  /\ new \in Seq(VLsn) /\ Len(new) = n /\ new[1] = l
         /\ \A i \in 2 .. n : new[i] = ch[i - 1]
<1>0. <<l>> \in Seq(VLsn) /\ Len(<<l>>) = 1 /\ <<l>>[1] = l
  OBVIOUS
<1>1. PICK t \in Seq(VLsn) : t = <<l>> \o ch
  BY <1>0, ConcatProperties
<1>2. /\ Len(t) = Len(ch) + 1 /\ Len(ch) \in Nat /\ t[1] = l
      /\ \A i \in 2 .. Len(t) : t[i] = ch[i - 1]
  BY <1>1
<1>3. new \in Seq(VLsn) /\ Len(new) = n /\ \A i \in 1 .. n : new[i] = t[i]
  BY <1>1, <1>2
<1>4. 1 \in 1 .. n /\ \A i \in 2 .. n : i \in 1 .. n /\ i \in 2 .. Len(t)
  BY <1>2
<1> QED BY <1>2, <1>3, <1>4

LEMMA TidyAdd ==
  ASSUME NEW ch \in Seq(VLsn), NEW ad \in Seq(VLsn), NEW h \in Nat, NEW l \in VLsn, Tidy(ch, ad, h),
         ad = <<>> \/ ad[Len(ad)] < l
  PROVE  Tidy(SubSeq(<<l>> \o ch, 1, Min({ChainCap, Len(ch) + 1})), Append(ad, l), h)
<1>1. PICK n : n = Min({ChainCap, Len(ch) + 1})
  OBVIOUS
<1>2. /\ n \in 1 .. (Len(ch) + 1) /\ n <= ChainCap /\ (n = ChainCap \/ n = Len(ch) + 1)
      /\ Len(ch) \in Nat /\ Len(ad) \in Nat
  <2>1. PICK b \in Nat : b = Len(ch) + 1
    OBVIOUS
  <2>2. n \in {ChainCap, b} /\ n <= ChainCap /\ n <= b
    BY <1>1, <2>1, CapNat, MinOfTwo
  <2> QED BY <2>1, <2>2, CapNat
<1>3. PICK new : new = SubSeq(<<l>> \o ch, 1, n)
  OBVIOUS
<1>4. /\ new \in Seq(VLsn) /\ Len(new) = n /\ new[1] = l
      /\ \A i \in 2 .. n : new[i] = ch[i - 1]
  BY <1>2, <1>3, NewChain
<1>5. PICK a2 : a2 = Append(ad, l)
  OBVIOUS
<1>6. PICK L \in Nat : L = Len(ad)
  BY <1>2
<1>7. Len(a2) = L + 1 /\ a2[L + 1] = l /\ \A i \in 1 .. L : a2[i] = ad[i]
  BY <1>5, <1>6
<1>8. Rising(a2)
  <2> SUFFICES ASSUME NEW i \in 1 .. (L + 1), NEW j \in 1 .. (L + 1), i < j PROVE a2[i] < a2[j]
    BY <1>7 DEF Rising
  <2>1. i \in 1 .. L
    OBVIOUS
  <2>2. a2[i] = ad[i]
    BY <1>7, <2>1
  <2>3. CASE j \in 1 .. L
    BY <1>6, <1>7, <2>1, <2>2, <2>3 DEF Tidy, Rising
  <2>4. CASE j = L + 1
    <3>0. ad # <<>>
      BY <1>6, <2>1
    <3>1. ad[L] < l
      BY <1>6, <3>0
    <3>2. ad[i] <= ad[L]
      <4>3. L \in 1 .. Len(ad) /\ i \in 1 .. Len(ad)
        BY <1>6, <2>1
      <4>1. ad[i] \in Nat /\ ad[L] \in Nat /\ L \in 1 .. L
        BY <1>6, <4>3, LsnNat
      <4>2. i < L => ad[i] < ad[L]
        BY <1>6, <2>1, <4>1 DEF Tidy, Rising
      <4> QED BY <2>1, <4>1, <4>2
    <3>4. L \in 1 .. Len(ad) /\ i \in 1 .. Len(ad)
      BY <1>6, <2>1
    <3>3. ad[i] \in Nat /\ ad[L] \in Nat /\ l \in Nat
      BY <3>4, LsnNat, CapNat
    <3> QED BY <1>7, <2>2, <2>4, <3>1, <3>2, <3>3
  <2> QED BY <2>3, <2>4
<1>9. Mirror(new, a2)
  <2>1. n <= L + 1
    BY <1>2, <1>6 DEF Tidy, Mirror
  <2>2. ASSUME NEW i \in 1 .. n PROVE new[i] = a2[(L + 1) + 1 - i]
    <3>1. CASE i = 1
      <4>1. (L + 1) + 1 - 1 = L + 1
        OBVIOUS
      <4> QED BY <1>4, <1>7, <3>1, <4>1
    <3>2. CASE i # 1
      <4>1. i \in 2 .. n /\ i - 1 \in 1 .. Len(ch)
        BY <1>2, <3>2
      <4>2. new[i] = ch[i - 1] /\ ch[i - 1] = ad[L + 1 - (i - 1)]
        BY <1>4, <1>6, <4>1 DEF Tidy, Mirror
      <4>3. L + 1 - (i - 1) = (L + 1) + 1 - i /\ (L + 1) + 1 - i \in 1 .. L
        BY <1>2, <2>1, <4>1
      <4> QED BY <1>7, <4>2, <4>3
    <3> QED BY <3>1, <3>2
  <2> QED BY <1>4, <1>7, <2>1, <2>2 DEF Mirror
<1>10. Enough(new, a2, h)
  <2> SUFFICES ASSUME NEW i \in 1 .. (L + 1), i > (L + 1) - ChainCap, a2[i] >= h
               PROVE  (L + 1) + 1 - i <= n
    BY <1>4, <1>7 DEF Enough
  <2>1. CASE i = L + 1
    BY <1>2, <2>1
  <2>2. CASE i # L + 1
    <3>1. i \in 1 .. L /\ a2[i] = ad[i] /\ i > L - ChainCap
      BY <1>7, <2>2, CapNat
    <3>2. L + 1 - i <= Len(ch)
      BY <1>6, <3>1 DEF Tidy, Enough
    <3> QED BY <1>2, <3>1, <3>2, CapNat
  <2> QED BY <2>1, <2>2
<1>11. Tidy(new, a2, h)
  BY <1>8, <1>9, <1>10 DEF Tidy
<1> QED BY <1>1, <1>3, <1>5, <1>11

LEMMA Falling ==
  ASSUME NEW ch \in Seq(VLsn), NEW ad \in Seq(VLsn), Rising(ad), Mirror(ch, ad),
         NEW i \in 1 .. Len(ch), NEW j \in 1 .. Len(ch), i < j
  PROVE  ch[i] > ch[j]
<1>1. Len(ch) \in Nat /\ Len(ad) \in Nat /\ Len(ch) <= Len(ad)
  BY DEF Mirror
<1>2. PICK p, q : p = Len(ad) + 1 - i /\ q = Len(ad) + 1 - j
  OBVIOUS
<1>3. p \in 1 .. Len(ad) /\ q \in 1 .. Len(ad) /\ q < p
  BY <1>1, <1>2
<1>4. ch[i] = ad[p] /\ ch[j] = ad[q]
  BY <1>2 DEF Mirror
<1>5. ad[q] < ad[p] /\ ad[p] \in Nat /\ ad[q] \in Nat
  BY <1>3, LsnNat DEF Rising
<1> QED BY <1>4, <1>5

(* A chain cut off at n, as reclaim leaves it.                             *)
LEMMA TidyCut ==
  ASSUME NEW ch \in Seq(VLsn), NEW ad \in Seq(VLsn), NEW h \in Nat, NEW x \in VLsn, Tidy(ch, ad, h)
  PROVE  Tidy(Only(ch, {l \in VLsn : l >= x}), ad, Max({h, x}))
<1>0. PICK K : K = {l \in VLsn : l >= x}
  OBVIOUS
<1>1. /\ Len(ch) \in Nat /\ Len(ad) \in Nat /\ Len(ch) <= Len(ad) /\ x \in Nat
      /\ \A i \in 1 .. Len(ch) : ch[i] \in VLsn /\ ch[i] \in Nat
  BY CapNat, LsnNat DEF Tidy, Mirror
<1>2. PICK I : I = {0} \cup {i \in 1 .. Len(ch) : ch[i] \in K}
  OBVIOUS
<1>3. PICK n \in I : \A i \in I : n >= i
  <2>1. PICK m \in Nat : m = Len(ch)
    BY <1>1
  <2>2. I \subseteq 0 .. m /\ I # {}
    BY <1>2, <2>1
  <2> QED BY <2>2, Greatest
<1>4. n \in 0 .. Len(ch)
  BY <1>1, <1>2, <1>3
<1>5. ASSUME NEW i \in 1 .. Len(ch) PROVE ch[i] \in K <=> i <= n
  <2>1. ch[i] \in K => i <= n
    BY <1>2, <1>3, <1>4
  <2>2. ASSUME i <= n PROVE ch[i] \in K
    <3>1. n \in 1 .. Len(ch) /\ ch[n] \in K
      BY <1>2, <1>3, <1>4, <2>2
    <3>2. CASE i = n
      BY <3>1, <3>2
    <3>3. CASE i < n
      <4>1. ch[i] > ch[n]
        BY <3>1, <3>3, Falling DEF Tidy
      <4>2. ch[n] >= x
        BY <1>0, <3>1
      <4>3. ch[i] >= x /\ ch[i] \in VLsn
        BY <1>1, <3>1, <4>1, <4>2
      <4> QED BY <1>0, <4>3
    <3> QED BY <1>4, <2>2, <3>2, <3>3
  <2> QED BY <2>1, <2>2
<1>6. PICK new : new = Only(ch, K)
  OBVIOUS
<1>7. new = SubSeq(ch, 1, n)
  BY <1>4, <1>5, <1>6, OnlyPrefix
<1>8. Len(new) = n /\ \A i \in 1 .. n : new[i] = ch[i]
  BY <1>1, <1>4, <1>7
<1>9. Mirror(new, ad)
  <2>1. \A i \in 1 .. n : i \in 1 .. Len(ch)
    BY <1>1, <1>4
  <2>2. \A i \in 1 .. n : new[i] = ad[Len(ad) + 1 - i]
    BY <1>8, <2>1 DEF Tidy, Mirror
  <2>3. n <= Len(ad)
    BY <1>1, <1>4
  <2> QED BY <1>8, <2>2, <2>3 DEF Mirror
<1>10. PICK g : g = Max({h, x})
  OBVIOUS
<1>11. g >= h /\ g >= x /\ g \in Nat
  BY <1>1, <1>10, MaxOfTwo
<1>12. Enough(new, ad, g)
  <2> SUFFICES ASSUME NEW i \in 1 .. Len(ad), i > Len(ad) - ChainCap, ad[i] >= g
               PROVE  Len(ad) + 1 - i <= n
    BY <1>8 DEF Enough
  <2>1. ad[i] \in Nat
    BY LsnNat
  <2>2. ad[i] >= h /\ ad[i] >= x
    BY <1>1, <1>11, <2>1
  <2>3. PICK p : p = Len(ad) + 1 - i
    OBVIOUS
  <2>4. p <= Len(ch)
    BY <2>2, <2>3 DEF Tidy, Enough
  <2>5. p \in 1 .. Len(ch) /\ Len(ad) + 1 - p = i
    BY <1>1, <2>3, <2>4
  <2>6. ch[p] = ad[i]
    BY <2>5 DEF Tidy, Mirror
  <2>7. ch[p] \in K
    BY <1>0, <1>1, <2>2, <2>5, <2>6
  <2> QED BY <1>5, <2>3, <2>5, <2>7
<1>13. Tidy(new, ad, g)
  BY <1>9, <1>12 DEF Tidy
<1> QED BY <1>0, <1>6, <1>10, <1>13

(* What a snapshot at s is shown of a tidy chain.                          *)
Exact(ch, ad, h, s) ==
  LET right == {i \in DOMAIN ad : ad[i] <= s}
      shown == Resolve(ch, s)
  IN  IF right = {} THEN shown = 0
      ELSE LET i == Max(right)
           IN  /\ shown \in {0, ad[i]}
               /\ i > Len(ad) - ChainCap /\ ad[i] >= h => shown = ad[i]

LEMMA TidyShows ==
  ASSUME NEW ch \in Seq(VLsn), NEW ad \in Seq(VLsn), NEW h \in Nat, NEW s \in VLsn, Tidy(ch, ad, h)
  PROVE  Exact(ch, ad, h, s)
<1>0. PICK K : K = {l \in VLsn : l <= s}
  OBVIOUS
<1>1. /\ Len(ch) \in Nat /\ Len(ad) \in Nat /\ Len(ch) <= Len(ad) /\ s \in Nat
      /\ \A i \in 1 .. Len(ch) : ch[i] \in VLsn /\ ch[i] = ad[Len(ad) + 1 - i]
  BY CapNat DEF Tidy, Mirror
<1>2. PICK R : R = {i \in DOMAIN ad : ad[i] <= s}
  OBVIOUS
<1>3. PICK shown : shown = Resolve(ch, s)
  OBVIOUS
<1>4. DOMAIN ad = 1 .. Len(ad)
  OBVIOUS
<1>5. \A i \in 1 .. Len(ch) : ch[i] \in K <=> Len(ad) + 1 - i \in R
  BY <1>0, <1>1, <1>2, <1>4
<1>6. R # {} => Max(R) \in R /\ \A i \in R : Max(R) >= i
  <2>1. PICK m \in Nat : m = Len(ad)
    BY <1>1
  <2>2. R \subseteq 0 .. m
    BY <1>2, <1>4, <2>1
  <2>3. R # {} => \E x \in R : \A y \in R : x >= y
    BY <2>2, Greatest
  <2> QED BY <2>3 DEF Max
<1>7. CASE \A i \in 1 .. Len(ch) : ch[i] \notin K
  <2>1. Only(ch, K) = <<>>
    BY <1>7, OnlyUnwanted
  <2>2. shown = 0
    BY <1>0, <1>3, <2>1 DEF Resolve
  <2>3. ASSUME R # {}, Max(R) > Len(ad) - ChainCap, ad[Max(R)] >= h PROVE FALSE
    <3>1. PICK i \in 1 .. Len(ad) : i = Max(R) /\ i \in R
      BY <1>2, <1>4, <1>6, <2>3
    <3>2. Len(ad) + 1 - i <= Len(ch)
      BY <2>3, <3>1 DEF Tidy, Enough
    <3>3. PICK p : p = Len(ad) + 1 - i
      OBVIOUS
    <3>4. p \in 1 .. Len(ch) /\ Len(ad) + 1 - p = i
      BY <1>1, <3>2, <3>3
    <3> QED BY <1>5, <1>7, <3>1, <3>4
  <2> QED BY <1>2, <1>3, <2>2, <2>3 DEF Exact
<1>8. CASE \E i \in 1 .. Len(ch) : ch[i] \in K
  <2>1. PICK I : I = {i \in 1 .. Len(ch) : ch[i] \in K}
    OBVIOUS
  <2>2. I \subseteq Nat /\ I # {}
    BY <1>8, <2>1
  <2>3. PICK i \in I : \A j \in I : i <= j
    BY <2>2, Least
  <2>4. i \in 1 .. Len(ch) /\ ch[i] \in K /\ \A j \in 1 .. (i - 1) : ch[j] \notin K
    BY <1>1, <2>1, <2>3
  <2>5. Only(ch, K) # <<>> /\ Head(Only(ch, K)) = ch[i]
    BY <2>4, OnlyFirst
  <2>6. shown = ch[i]
    BY <1>0, <1>3, <2>5 DEF Resolve
  <2>7. PICK p : p = Len(ad) + 1 - i
    OBVIOUS
  <2>8. p \in R /\ p \in 1 .. Len(ad) /\ ch[i] = ad[p]
    BY <1>1, <1>5, <2>4, <2>7
  <2>9. PICK m : m = Max(R)
    OBVIOUS
  <2>10. m \in R /\ m \in 1 .. Len(ad) /\ m >= p
    BY <1>2, <1>4, <1>6, <2>8, <2>9
  <2>11. m = p
    <3> SUFFICES ASSUME m > p PROVE FALSE
      BY <2>8, <2>10
    <3>1. PICK j : j = Len(ad) + 1 - m
      OBVIOUS
    <3>2. j \in 1 .. (i - 1) /\ j \in 1 .. Len(ch) /\ Len(ad) + 1 - j = m
      BY <1>1, <2>4, <2>7, <2>10, <3>1
    <3> QED BY <1>5, <2>4, <2>10, <3>2
  <2>12. R # {} /\ shown = ad[Max(R)]
    BY <2>6, <2>8, <2>9, <2>11
  <2> QED BY <1>2, <1>3, <2>12 DEF Exact
<1> QED BY <1>7, <1>8

-----------------------------------------------------------------------------
LEMMA VersionInitial == VersionInit => VersionInd
<1> SUFFICES ASSUME VersionInit PROVE VersionInd
  OBVIOUS
<1>1. chain \in [VKey -> Seq(VLsn)] /\ added \in [VKey -> Seq(VLsn)] /\ horizon \in Nat
  BY DEF VersionInit
<1>2. Tidy(<<>>, <<>>, horizon)
  BY DEF Tidy, Rising, Mirror, Enough
<1>3. \A k \in VKey : chain[k] = <<>> /\ added[k] = <<>>
  BY DEF VersionInit
<1> QED BY <1>1, <1>2, <1>3 DEF VersionInd

LEMMA AddKeeps ==
  ASSUME VersionInd, NEW k \in VKey, NEW l \in VLsn, AddNewest(k, l)
  PROVE  VersionInd'
<1>1. chain \in [VKey -> Seq(VLsn)] /\ added \in [VKey -> Seq(VLsn)] /\ horizon \in Nat
  BY DEF VersionInd
<1>2. PICK new, n : n = Min({ChainCap, Len(chain[k]) + 1}) /\ new = SubSeq(<<l>> \o chain[k], 1, n)
  OBVIOUS
<1>3. /\ chain' = [chain EXCEPT ![k] = new] /\ added' = [added EXCEPT ![k] = Append(added[k], l)]
      /\ horizon' = horizon /\ shuffled \subseteq shuffled'
      /\ k \notin shuffled' => added[k] = <<>> \/ ~ (Last(added[k]) >= l)
  BY <1>2 DEF AddNewest, Recorded
<1>4. PICK ch \in Seq(VLsn), ad \in Seq(VLsn) : ch = chain[k] /\ ad = added[k]
  BY <1>1
<1>5. n \in 1 .. (Len(ch) + 1)
  <2>1. PICK b \in Nat : b = Len(ch) + 1
    OBVIOUS
  <2>2. n \in {ChainCap, b} /\ n <= b
    BY <1>2, <1>4, <2>1, CapNat, MinOfTwo
  <2> QED BY <2>1, <2>2, CapNat
<1>6. new \in Seq(VLsn)
  BY <1>2, <1>4, <1>5, NewChain
<1>7. Append(ad, l) \in Seq(VLsn)
  OBVIOUS
<1>8. chain' \in [VKey -> Seq(VLsn)] /\ added' \in [VKey -> Seq(VLsn)]
  BY <1>1, <1>3, <1>4, <1>6, <1>7
<1>9. ASSUME NEW j \in VKey, j \notin shuffled' PROVE Tidy(chain'[j], added'[j], horizon')
  <2>1. j \notin shuffled
    BY <1>3, <1>9
  <2>2. Tidy(chain[j], added[j], horizon)
    BY <2>1 DEF VersionInd
  <2>3. CASE j # k
    BY <1>1, <1>3, <2>2, <2>3
  <2>4. CASE j = k
    <3>1. ad = <<>> \/ ad[Len(ad)] < l
      <4>1. CASE ad # <<>>
        <5>1. Len(ad) \in 1 .. Len(ad)
          BY <4>1
        <5>2. ad[Len(ad)] \in Nat /\ l \in Nat
          BY <5>1, LsnNat, CapNat
        <5>3. ~ (ad[Len(ad)] >= l)
          BY <1>3, <1>4, <1>9, <2>4, <4>1 DEF Last
        <5> QED BY <5>2, <5>3
      <4> QED BY <4>1
    <3>2. Tidy(SubSeq(<<l>> \o ch, 1, Min({ChainCap, Len(ch) + 1})), Append(ad, l), horizon)
      BY <1>1, <1>4, <2>2, <2>4, <3>1, TidyAdd
    <3>3. chain'[j] = new /\ added'[j] = Append(ad, l) /\ new = SubSeq(<<l>> \o ch, 1, Min({ChainCap, Len(ch) + 1}))
      BY <1>1, <1>2, <1>3, <1>4, <2>4
    <3> QED BY <1>3, <3>2, <3>3
  <2> QED BY <2>3, <2>4
<1> QED BY <1>1, <1>3, <1>8, <1>9 DEF VersionInd

LEMMA ReclaimKeeps ==
  ASSUME VersionInd, NEW x \in VLsn, ReclaimAll(x)
  PROVE  VersionInd'
<1>1. chain \in [VKey -> Seq(VLsn)] /\ added \in [VKey -> Seq(VLsn)] /\ horizon \in Nat
  BY DEF VersionInd
<1>2. /\ chain' = [k \in VKey |-> Only(chain[k], {l \in VLsn : l >= x})]
      /\ horizon' = Max({horizon, x}) /\ added' = added /\ shuffled' = shuffled
  BY DEF ReclaimAll
<1>3. horizon' \in Nat
  BY <1>1, <1>2, CapNat, MaxOfTwo
<1>4. chain' \in [VKey -> Seq(VLsn)]
  <2>1. \A k \in VKey : Only(chain[k], {l \in VLsn : l >= x}) \in Seq(VLsn)
    BY <1>1, OnlyType
  <2> QED BY <1>2, <2>1
<1>5. ASSUME NEW j \in VKey, j \notin shuffled' PROVE Tidy(chain'[j], added'[j], horizon')
  <2>1. Tidy(chain[j], added[j], horizon)
    BY <1>2, <1>5 DEF VersionInd
  <2>2. PICK ch \in Seq(VLsn), ad \in Seq(VLsn) : ch = chain[j] /\ ad = added[j]
    BY <1>1
  <2>3. Tidy(Only(ch, {l \in VLsn : l >= x}), ad, Max({horizon, x}))
    BY <1>1, <2>1, <2>2, TidyCut
  <2> QED BY <1>2, <2>2, <2>3
<1> QED BY <1>1, <1>2, <1>3, <1>4, <1>5 DEF VersionInd

LEMMA RemoveKeeps ==
  ASSUME VersionInd, NEW S, RemoveChains(S)
  PROVE  VersionInd'
<1>1. chain \in [VKey -> Seq(VLsn)] /\ added \in [VKey -> Seq(VLsn)] /\ horizon \in Nat
  BY DEF VersionInd
<1>2. chain' \in [VKey -> Seq(VLsn)] /\ added' \in [VKey -> Seq(VLsn)] /\ horizon' = horizon
  BY <1>1 DEF RemoveChains
<1>3. Tidy(<<>>, <<>>, horizon)
  BY DEF Tidy, Rising, Mirror, Enough
<1>4. ASSUME NEW j \in VKey, j \notin shuffled' PROVE Tidy(chain'[j], added'[j], horizon')
  <2>1. CASE j \in S
    BY <1>2, <1>3, <2>1 DEF RemoveChains
  <2>2. CASE j \notin S
    <3>1. j \notin shuffled /\ chain'[j] = chain[j] /\ added'[j] = added[j]
      BY <1>4, <2>2 DEF RemoveChains
    <3> QED BY <1>2, <3>1 DEF VersionInd
  <2> QED BY <2>1, <2>2
<1> QED BY <1>1, <1>2, <1>4 DEF VersionInd

LEMMA VersionStepInd == ASSUME VersionInd, [VersionNext]_versionVars PROVE VersionInd'
<1>1. CASE VersionNext
  BY <1>1, AddKeeps, ReclaimKeeps, RemoveKeeps DEF VersionNext
<1>2. CASE UNCHANGED versionVars
  BY <1>2 DEF versionVars, VersionInd
<1> QED BY <1>1, <1>2

(* For any keys, LSNs and cap: a snapshot is shown of a key whose versions *)
(* came in LSN order the newest one not above it, unless the cap or a      *)
(* reclaim may have dropped it, and then none (VersionChain::resolve after *)
(* any sequence of add, reclaim_all, remove_chain and clear).              *)
THEOREM ResolveIsExact == VersionSpec => []ResolveExact
<1>1. VersionInit => VersionInd
  BY VersionInitial
<1>2. VersionInd /\ [VersionNext]_versionVars => VersionInd'
  BY VersionStepInd
<1>3. VersionInd => ResolveExact
  <2> SUFFICES ASSUME VersionInd, NEW k \in VKey, k \notin shuffled, NEW s \in VLsn
               PROVE  Exact(chain[k], added[k], horizon, s)
    BY DEF ResolveExact, Exact
  <2>1. chain[k] \in Seq(VLsn) /\ added[k] \in Seq(VLsn) /\ horizon \in Nat
    BY DEF VersionInd
  <2>2. Tidy(chain[k], added[k], horizon)
    BY DEF VersionInd
  <2> QED BY <2>1, <2>2, TidyShows
<1> QED BY <1>1, <1>2, <1>3, PTL DEF VersionSpec

-----------------------------------------------------------------------------
(***************************************************************************)
(* The reference model.  A key that was never deleted nor put twice by one *)
(* transaction has versions of LSNs below the next one only, so the next   *)
(* version stands last.                                                    *)
(***************************************************************************)
Version == [value : RefValue \cup {NoValue}, lsn : Nat]
Tree    == [RefKey -> Seq(Version)]

LEMMA CapsNat == VersionCap \in Nat /\ VersionCap >= 1 /\ SnapshotCap \in Nat /\ SnapshotCap >= 1 /\ Top \in Nat
BY RefModelAssumption DEF Top

LEMMA PlacesIn ==
  ASSUME NEW ch \in Seq(Version), NEW l \in Nat
  PROVE  Places(ch, l) \subseteq 1 .. (Len(ch) + 1)
<1>1. PICK n \in Nat : n = Len(ch) /\ DOMAIN ch = 1 .. n
  OBVIOUS
<1>2. PICK B : B = {i \in DOMAIN ch : ch[i].lsn < l}
  OBVIOUS
<1>3. Cardinality(B) \in 0 .. n
  <2>1. IsFiniteSet(1 .. n) /\ Cardinality(1 .. n) = n
    BY FS_Interval
  <2>2. B \subseteq 1 .. n
    BY <1>1, <1>2
  <2>3. IsFiniteSet(B) /\ Cardinality(B) <= n
    BY <2>1, <2>2, FS_Subset
  <2>4. Cardinality(B) \in Nat
    BY <2>3, FS_CardinalityType
  <2> QED BY <2>3, <2>4
<1>4. PICK D : D = {i \in DOMAIN ch : ch[i].lsn = l}
  OBVIOUS
<1>5. Places(ch, l) = IF D # {} THEN D ELSE {1 + Cardinality(B)}
  BY <1>2, <1>4 DEF Places
<1>6. D \subseteq 1 .. n
  BY <1>1, <1>4
<1>7. PICK z \in 0 .. n : z = Cardinality(B)
  BY <1>3
<1>8. 1 + z \in 1 .. (n + 1) /\ 1 .. n \subseteq 1 .. (n + 1)
  OBVIOUS
<1> QED BY <1>1, <1>5, <1>6, <1>7, <1>8

LEMMA InsertType ==
  ASSUME NEW ch \in Seq(Version), NEW i \in 1 .. (Len(ch) + 1), NEW e \in Version
  PROVE  InsertAt(ch, i, e) \in Seq(Version) /\ Len(InsertAt(ch, i, e)) = Len(ch) + 1
<1>1. PICK n \in Nat : n = Len(ch) /\ i \in 1 .. (n + 1)
  OBVIOUS
<1>2. PICK a \in Seq(Version) : a = SubSeq(ch, 1, i - 1) /\ Len(a) = i - 1
  <2>1. \A j \in 1 .. (i - 1) : ch[j] \in Version
    BY <1>1
  <2>2. 1 \in Int /\ i - 1 \in Int
    OBVIOUS
  <2>3. SubSeq(ch, 1, i - 1) \in Seq(Version) /\ Len(SubSeq(ch, 1, i - 1)) = IF 1 <= i - 1 THEN (i - 1) - 1 + 1 ELSE 0
    BY <2>1, <2>2, SubSeqProperties
  <2>4. Len(SubSeq(ch, 1, i - 1)) = i - 1
    <3>1. PICK z : z = Len(SubSeq(ch, 1, i - 1))
      OBVIOUS
    <3>2. z = IF 1 <= i - 1 THEN (i - 1) - 1 + 1 ELSE 0
      BY <2>3, <3>1
    <3> QED BY ONLY <1>1, <3>1, <3>2
  <2> QED BY <2>3, <2>4, Zenon
<1>3. PICK b \in Seq(Version) : b = SubSeq(ch, i, Len(ch)) /\ Len(b) = Len(ch) - i + 1
  <2>1. \A j \in i .. Len(ch) : ch[j] \in Version
    BY <1>1
  <2>2. i \in Int /\ Len(ch) \in Int
    OBVIOUS
  <2>3. SubSeq(ch, i, Len(ch)) \in Seq(Version) /\ Len(SubSeq(ch, i, Len(ch))) = IF i <= Len(ch) THEN Len(ch) - i + 1 ELSE 0
    BY <2>1, <2>2, SubSeqProperties
  <2>4. Len(SubSeq(ch, i, Len(ch))) = Len(ch) - i + 1
    <3>1. PICK z : z = Len(SubSeq(ch, i, Len(ch)))
      OBVIOUS
    <3>2. z = IF i <= n THEN n - i + 1 ELSE 0
      BY <1>1, <2>3, <3>1
    <3>3. z = n - i + 1
      BY ONLY <1>1, <3>2
    <3> QED BY <1>1, <3>1, <3>3
  <2> QED BY <2>3, <2>4, Zenon
<1>4. <<e>> \in Seq(Version) /\ Len(<<e>>) = 1
  OBVIOUS
<1>5. PICK c \in Seq(Version) : c = a \o <<e>> /\ Len(c) = i
  <2>1. a \o <<e>> \in Seq(Version) /\ Len(a \o <<e>>) = Len(a) + Len(<<e>>)
    BY <1>4, ConcatProperties
  <2>2. Len(a \o <<e>>) = i
    <3>1. PICK x, y, z : x = Len(a \o <<e>>) /\ y = Len(a) /\ z = Len(<<e>>)
      OBVIOUS
    <3>2. x = y + z /\ y = i - 1 /\ z = 1
      BY <1>2, <1>4, <2>1, <3>1, Zenon
    <3>3. x = i
      BY ONLY <1>1, <3>2
    <3> QED BY <3>1, <3>3
  <2> QED BY <2>1, <2>2, Zenon
<1>6. c \o b \in Seq(Version) /\ Len(c \o b) = Len(c) + Len(b)
  BY ConcatProperties
<1>7. InsertAt(ch, i, e) = c \o b
  BY <1>2, <1>3, <1>5 DEF InsertAt
<1>8. Len(c) + Len(b) = Len(ch) + 1
  <2>1. PICK y, z : y = Len(c) /\ z = Len(b)
    OBVIOUS
  <2>2. y = i /\ z = n - i + 1
    BY <1>1, <1>3, <1>5, <2>1, Zenon
  <2>3. y + z = n + 1
    BY ONLY <1>1, <2>2
  <2> QED BY <1>1, <2>1, <2>3
<1> QED BY <1>6, <1>7, <1>8

LEMMA PrunedType ==
  ASSUME NEW ch \in Seq(Version), Len(ch) >= 1
  PROVE  /\ Pruned(ch) \in Seq(Version) /\ Pruned(ch) # <<>> /\ Last(Pruned(ch)) = Last(ch)
         /\ \A i \in DOMAIN Pruned(ch) : \E j \in DOMAIN ch : Pruned(ch)[i] = ch[j]
<1>1. CASE ~ (Len(ch) > VersionCap)
  BY <1>1 DEF Pruned
<1>2. CASE Len(ch) > VersionCap
  <2>1. PICK t : t = Tail(ch)
    OBVIOUS
  <2>2. Len(ch) \in Nat /\ Len(ch) >= 2
    BY <1>2, CapsNat
  <2>3. /\ t \in Seq(Version) /\ Len(t) = Len(ch) - 1 /\ \A i \in 1 .. Len(t) : t[i] = ch[i + 1]
    BY <2>1, <2>2
  <2>4. t # <<>>
    BY <2>2, <2>3
  <2>5. t[Len(t)] = ch[Len(ch)]
    BY <2>2, <2>3
  <2>6. \A i \in DOMAIN t : i + 1 \in DOMAIN ch /\ t[i] = ch[i + 1]
    <3>1. DOMAIN t = 1 .. Len(t) /\ DOMAIN ch = 1 .. Len(ch)
      BY <2>3
    <3> QED BY <2>2, <2>3, <3>1
  <2> QED BY <1>2, <2>1, <2>3, <2>4, <2>5, <2>6 DEF Pruned, Last
<1> QED BY <1>1, <1>2

LEMMA AddType ==
  ASSUME NEW tree \in Tree, NEW k \in RefKey, NEW v \in RefValue \cup {NoValue}, NEW l \in Nat
  PROVE  \A t \in AddVersion(tree, k, v, l) : t \in Tree /\ \A j \in RefKey \ {k} : t[j] = tree[j]
<1> SUFFICES ASSUME NEW t \in AddVersion(tree, k, v, l)
             PROVE  t \in Tree /\ \A j \in RefKey \ {k} : t[j] = tree[j]
  OBVIOUS
<1>1. PICK ch \in Seq(Version) : ch = tree[k]
  BY DEF Tree
<1>2. PICK e \in Version : e = [value |-> v, lsn |-> l]
  BY DEF Version
<1>3. PICK i \in Places(ch, l) : t = [tree EXCEPT ![k] = Pruned(InsertAt(ch, i, e))]
  BY <1>1, <1>2 DEF AddVersion
<1>4. i \in 1 .. (Len(ch) + 1)
  BY <1>3, PlacesIn
<1>5. PICK c \in Seq(Version) : c = InsertAt(ch, i, e) /\ Len(c) = Len(ch) + 1
  BY <1>4, InsertType
<1>6. PICK p \in Seq(Version) : p = Pruned(c)
  <2>1. Len(c) >= 1
    BY <1>5
  <2> QED BY <2>1, PrunedType
<1>7. t = [tree EXCEPT ![k] = p]
  BY <1>3, <1>5, <1>6
<1> QED BY <1>7 DEF Tree

LEMMA AppliedType ==
  ASSUME NEW tree \in Tree, NEW m \in Mutation, lsn \in Nat
  PROVE  \A t \in Applied(tree, m) : t \in Tree /\ \A j \in RefKey \ {m.key} : t[j] = tree[j]
<1>1. m.key \in RefKey /\ m.value \in RefValue \cup {NoValue}
  BY DEF Mutation
<1>2. PICK k, v, l : k = m.key /\ v = m.value /\ l = lsn
  OBVIOUS
<1>3. \A t \in AddVersion(tree, k, v, l) : t \in Tree /\ \A j \in RefKey \ {k} : t[j] = tree[j]
  BY <1>1, <1>2, AddType
<1>4. NoValue \in RefValue \cup {NoValue}
  OBVIOUS
<1>5. \A t \in AddVersion(tree, k, NoValue, Top) : t \in Tree /\ \A j \in RefKey \ {k} : t[j] = tree[j]
  BY <1>1, <1>2, <1>4, AddType, CapsNat
<1> QED BY <1>2, <1>3, <1>5 DEF Applied

(* A version above all others is put last.                                 *)
LEMMA PutLast ==
  ASSUME NEW tree \in Tree, NEW k \in RefKey, NEW v \in RefValue, NEW l \in Nat,
         \A i \in DOMAIN tree[k] : tree[k][i].lsn < l
  PROVE  \A t \in AddVersion(tree, k, v, l) :
           /\ t[k] # <<>> /\ Last(t[k]).value = v /\ \A i \in DOMAIN t[k] : t[k][i].lsn <= l
<1> SUFFICES ASSUME NEW t \in AddVersion(tree, k, v, l)
             PROVE  /\ t[k] # <<>> /\ Last(t[k]).value = v /\ \A i \in DOMAIN t[k] : t[k][i].lsn <= l
  OBVIOUS
<1>1. PICK ch \in Seq(Version) : ch = tree[k]
  BY DEF Tree
<1>2. PICK e \in Version : e = [value |-> v, lsn |-> l] /\ e.value = v /\ e.lsn = l
  <2>1. v \in RefValue \cup {NoValue}
    OBVIOUS
  <2>2. [value |-> v, lsn |-> l] \in Version
    BY <2>1 DEF Version
  <2> QED BY <2>2
<1>3. PICK i \in Places(ch, l) : t = [tree EXCEPT ![k] = Pruned(InsertAt(ch, i, e))]
  BY <1>1, <1>2 DEF AddVersion
<1>4. PICK n \in Nat : n = Len(ch) /\ DOMAIN ch = 1 .. n
  OBVIOUS
<1>5. \A x \in 1 .. n : ch[x].lsn < l /\ ch[x].lsn \in Nat
  <2>1. \A x \in 1 .. n : ch[x] \in Version
    BY <1>4
  <2> QED BY <1>1, <1>4, <2>1 DEF Version
<1>6. i = n + 1
  <2>1. {x \in DOMAIN ch : ch[x].lsn = l} = {}
    BY <1>4, <1>5
  <2>2. {x \in DOMAIN ch : ch[x].lsn < l} = 1 .. n
    BY <1>4, <1>5
  <2>3. Cardinality(1 .. n) = n
    <3>1. 1 \in Int /\ n \in Int
      OBVIOUS
    <3>2. Cardinality(1 .. n) = IF 1 > n THEN 0 ELSE n - 1 + 1
      BY <3>1, FS_Interval
    <3> QED BY <3>2
  <2>4. Places(ch, l) = {1 + n}
    BY <2>1, <2>2, <2>3 DEF Places
  <2> QED BY <1>3, <2>4
<1>7. PICK c \in Seq(Version) : c = InsertAt(ch, i, e) /\ Len(c) = n + 1
  <2>1. i \in 1 .. (Len(ch) + 1)
    BY <1>4, <1>6
  <2> QED BY <1>4, <2>1, InsertType
<1>8. c = Append(ch, e)
  <2>1. SubSeq(ch, 1, i - 1) = ch
    <3>1. i - 1 = Len(ch)
      BY <1>4, <1>6
    <3>2. SubSeq(ch, 1, Len(ch)) = ch
      OBVIOUS
    <3> QED BY <3>1, <3>2
  <2>2. SubSeq(ch, i, Len(ch)) = <<>>
    <3>1. i \in Int /\ Len(ch) \in Int /\ Len(ch) < i
      BY <1>4, <1>6
    <3> QED BY <3>1, SubSeqEmpty
  <2>3. ch \o <<e>> = Append(ch, e) /\ Append(ch, e) \o <<>> = Append(ch, e)
    <3>1. ch \o <<e>> = Append(ch, e)
      BY AppendIsConcat
    <3>2. PICK u \in Seq(Version) : u = Append(ch, e)
      BY AppendStays
    <3>3. u \o <<>> = u
      OBVIOUS
    <3> QED BY <3>1, <3>2, <3>3
  <2> QED BY <1>7, <2>1, <2>2, <2>3 DEF InsertAt
<1>9. PICK p \in Seq(Version) : /\ p = Pruned(c) /\ p # <<>> /\ Last(p) = Last(c)
                                /\ \A x \in DOMAIN p : \E y \in DOMAIN c : p[x] = c[y]
  <2>1. Len(c) >= 1
    BY <1>7
  <2> QED BY <2>1, PrunedType
<1>10. t[k] = p
  BY <1>3, <1>7, <1>9 DEF Tree
<1>11. Last(c) = e
  BY <1>7, <1>4, <1>8 DEF Last
<1>12. \A y \in DOMAIN c : c[y].lsn <= l
  <2> SUFFICES ASSUME NEW y \in DOMAIN c PROVE c[y].lsn <= l
    OBVIOUS
  <2>1. y \in 1 .. (n + 1)
    BY <1>7
  <2>2. CASE y = n + 1
    BY <1>2, <1>4, <1>8, <2>2
  <2>3. CASE y # n + 1
    <3>1. y \in 1 .. n
      BY <2>1, <2>3
    <3>2. c[y] = ch[y]
      BY <1>4, <1>8, <3>1
    <3> QED BY <1>5, <3>1, <3>2
  <2> QED BY <2>2, <2>3
<1> QED BY <1>2, <1>9, <1>10, <1>11, <1>12

-----------------------------------------------------------------------------
(* The trees of a commit, mutation by mutation.                            *)
After(T, m) == UNION {Applied(t, m) : t \in T}
TreesBy(f, muts) == f = [i \in 0 .. Len(muts) |-> IF i = 0 THEN {versionsOf} ELSE After(f[i - 1], muts[i])]

LEMMA TreesExist ==
  ASSUME versionsOf \in Tree, lsn \in Nat, NEW muts \in Seq(Mutation)
  PROVE  \E f : TreesBy(f, muts) /\ Outcomes(muts) = f[Len(muts)]
<1> DEFINE n == Len(muts)
           V == SUBSET Tree
           g == [i \in 1 .. n |-> [T \in V |-> After(T, muts[i])]]
<1>1. n \in Nat /\ \A i \in 1 .. n : muts[i] \in Mutation
  OBVIOUS
<1>2. ASSUME NEW i \in 1 .. n, NEW T \in V PROVE After(T, muts[i]) \in V
  <2>1. PICK m \in Mutation : m = muts[i]
    BY <1>1
  <2>2. \A t \in T : Applied(t, m) \subseteq Tree
    BY AppliedType
  <2> QED BY <2>1, <2>2 DEF After
<1>3. g \in [1 .. n -> [V -> V]]
  BY <1>2
<1>4. \A i \in 1 .. n, T \in V : g[i][T] = After(T, muts[i])
  OBVIOUS
<1>5. {versionsOf} \in V
  OBVIOUS
<1> HIDE DEF n, V, g
<1>6. PICK z : z = {versionsOf} /\ z \in V
  BY <1>5
<1>7. PICK f \in [0 .. n -> V] : f[0] = z /\ \A i \in 1 .. n : f[i] = g[i][f[i - 1]]
  <2>1. PICK W, y, h, m : W = V /\ y = z /\ h = g /\ m = n
    OBVIOUS
  <2>2. y \in W /\ m \in Nat /\ h \in [1 .. m -> [W -> W]]
    BY <1>1, <1>3, <1>6, <2>1
  <2>3. \E f \in [0 .. m -> W] : f[0] = y /\ \A i \in 1 .. m : f[i] = h[i][f[i - 1]]
    BY ONLY <2>2, IterationExists
  <2> QED BY <2>1, <2>3
<1>8. ASSUME NEW i \in 0 .. n PROVE f[i] = IF i = 0 THEN {versionsOf} ELSE After(f[i - 1], muts[i])
  <2>1. CASE i = 0
    BY <1>6, <1>7, <2>1
  <2>2. CASE i # 0
    <3>1. i \in 1 .. n /\ i - 1 \in 0 .. n
      BY <1>1, <2>2
    <3>2. f[i - 1] \in V
      BY <1>7, <3>1
    <3> QED BY <1>4, <1>7, <2>2, <3>1, <3>2
  <2> QED BY <2>1, <2>2
<1>9. TreesBy(f, muts)
  BY <1>7, <1>8 DEF TreesBy, n
<1>10. TreesBy(CHOOSE h : TreesBy(h, muts), muts)
  BY <1>9
<1>11. Outcomes(muts) = (CHOOSE h : TreesBy(h, muts))[Len(muts)]
  BY DEF Outcomes, TreesBy, After
<1> QED BY <1>10, <1>11

(* The value v is what get gives, and a later LSN stands after it.         *)
Freshest(ch, v, l) == ch # <<>> /\ Last(ch).value = v /\ \A i \in DOMAIN ch : ch[i].lsn <= l
Below(ch, l) == \A i \in DOMAIN ch : ch[i].lsn < l
On(muts, k) == {i \in DOMAIN muts : muts[i].key = k}
Regular(muts, k) == \A i \in On(muts, k) : On(muts, k) = {i} /\ muts[i].value # NoValue

Reached(t, muts, k, i) ==
  /\ t \in Tree
  /\ k \in RefKey /\ Regular(muts, k) /\ Below(versionsOf[k], lsn) =>
       /\ (\A j \in On(muts, k) : j > i) => t[k] = versionsOf[k]
       /\ \A j \in On(muts, k) : j <= i => Freshest(t[k], muts[j].value, lsn)

LEMMA ReachedNext ==
  ASSUME versionsOf \in Tree, lsn \in Nat, NEW muts \in Seq(Mutation), NEW k,
         NEW i \in Nat, i + 1 <= Len(muts), NEW u, Reached(u, muts, k, i), NEW t \in Applied(u, muts[i + 1])
  PROVE  Reached(t, muts, k, i + 1)
<1>1. i + 1 \in 1 .. Len(muts) /\ DOMAIN muts = 1 .. Len(muts) /\ Len(muts) \in Nat
  OBVIOUS
<1>2. PICK m \in Mutation : m = muts[i + 1]
  BY <1>1
<1>3. u \in Tree
  BY DEF Reached
<1>4. t \in Tree /\ \A j \in RefKey \ {m.key} : t[j] = u[j]
  BY <1>2, <1>3, AppliedType
<1>5. On(muts, k) \subseteq Nat /\ (i + 1 \in On(muts, k) <=> m.key = k)
  BY <1>1, <1>2 DEF On
<1>6. ASSUME k \in RefKey, Regular(muts, k), Below(versionsOf[k], lsn)
      PROVE  /\ (\A j \in On(muts, k) : j > i + 1) => t[k] = versionsOf[k]
             /\ \A j \in On(muts, k) : j <= i + 1 => Freshest(t[k], muts[j].value, lsn)
  <2>1. /\ (\A j \in On(muts, k) : j > i) => u[k] = versionsOf[k]
        /\ \A j \in On(muts, k) : j <= i => Freshest(u[k], muts[j].value, lsn)
    BY <1>6 DEF Reached
  <2>2. CASE m.key # k
    <3>1. t[k] = u[k]
      BY <1>4, <1>6, <2>2
    <3>2. \A j \in On(muts, k) : (j > i + 1 => j > i) /\ (j <= i + 1 => j <= i)
      BY <1>5, <2>2
    <3> QED BY <2>1, <3>1, <3>2
  <2>3. CASE m.key = k
    <3>1. On(muts, k) = {i + 1} /\ m.value # NoValue
      BY <1>2, <1>5, <1>6, <2>3 DEF Regular
    <3>2. u[k] = versionsOf[k]
      BY <2>1, <3>1
    <3>3. m.value \in RefValue
      BY <3>1 DEF Mutation
    <3>4. t \in AddVersion(u, k, m.value, lsn)
      BY <1>2, <2>3, <3>1 DEF Applied
    <3>5. \A x \in DOMAIN u[k] : u[k][x].lsn < lsn
      BY <1>6, <3>2 DEF Below
    <3>6. Freshest(t[k], m.value, lsn)
      BY <1>3, <1>6, <3>3, <3>4, <3>5, PutLast DEF Freshest
    <3> QED BY <1>2, <3>1, <3>6
  <2> QED BY <2>2, <2>3
<1> QED BY <1>4, <1>6 DEF Reached

LEMMA OutcomesReached ==
  ASSUME versionsOf \in Tree, lsn \in Nat, NEW muts \in Seq(Mutation), NEW k
  PROVE  \A t \in Outcomes(muts) : Reached(t, muts, k, Len(muts))
<1>1. PICK f : TreesBy(f, muts) /\ Outcomes(muts) = f[Len(muts)]
  BY TreesExist
<1>2. Len(muts) \in Nat
  OBVIOUS
<1>3. f[0] = {versionsOf} /\ \A i \in 1 .. Len(muts) : f[i] = After(f[i - 1], muts[i])
  <2>1. \A i \in 0 .. Len(muts) : f[i] = IF i = 0 THEN {versionsOf} ELSE After(f[i - 1], muts[i])
    BY <1>1, Zenon DEF TreesBy
  <2>2. 0 \in 0 .. Len(muts) /\ \A i \in 1 .. Len(muts) : i \in 0 .. Len(muts) /\ i # 0
    BY <1>2
  <2> QED BY <2>1, <2>2
<1> DEFINE N == {i \in Nat : i <= Len(muts) => \A t \in f[i] : Reached(t, muts, k, i)}
<1>4. 0 \in N
  <2>1. \A j \in On(muts, k) : ~ (j <= 0)
    <3>1. DOMAIN muts = 1 .. Len(muts)
      OBVIOUS
    <3> QED BY <1>2, <3>1 DEF On
  <2>2. Reached(versionsOf, muts, k, 0)
    BY <2>1 DEF Reached
  <2> QED BY <1>3, <2>2
<1>5. ASSUME NEW i \in Nat, i \in N PROVE i + 1 \in N
  <2> SUFFICES ASSUME i + 1 <= Len(muts), NEW t \in f[i + 1] PROVE Reached(t, muts, k, i + 1)
    OBVIOUS
  <2>1. f[i + 1] = After(f[i], muts[i + 1])
    <3>1. i + 1 \in 1 .. Len(muts) /\ (i + 1) - 1 = i
      BY <1>2
    <3> QED BY <1>3, <3>1
  <2>2. PICK u \in f[i] : t \in Applied(u, muts[i + 1])
    BY <2>1 DEF After
  <2>3. Reached(u, muts, k, i)
    BY <1>2, <1>5
  <2> QED BY <2>2, <2>3, ReachedNext
<1> HIDE DEF N
<1>6. Len(muts) \in N
  BY <1>2, <1>4, <1>5, SetInduction
<1> QED BY <1>1, <1>2, <1>6 DEF N

-----------------------------------------------------------------------------
RefInd ==
  /\ versionsOf \in Tree /\ lsn \in Nat /\ DOMAIN snaps \subseteq 0 .. lsn
  /\ pending \in [RefTxn -> [at : {"none", "active", "committed", "gone"}, muts : Seq(Mutation)]]
  /\ lastPut \in [RefKey -> RefValue \cup {NoValue}]
  /\ \A k \in RefKey \ irregular : Below(versionsOf[k], lsn)
  /\ OracleRight

LEMMA CommitKeeps ==
  ASSUME RefInd, NEW x \in RefTxn, CommitTxn(x)
  PROVE  RefInd'
<1>0. pending \in [RefTxn -> [at : {"none", "active", "committed", "gone"}, muts : Seq(Mutation)]]
  BY DEF RefInd
<1>1. PICK muts \in Seq(Mutation) : muts = pending[x].muts
  BY <1>0
<1>2. /\ versionsOf' \in Outcomes(muts) /\ lsn' = lsn + 1 /\ snaps' = snaps /\ Remember(muts)
      /\ pending' = [pending EXCEPT ![x].at = "committed"]
  BY <1>1 DEF CommitTxn, Apply
<1>3. versionsOf \in Tree /\ lsn \in Nat /\ DOMAIN snaps \subseteq 0 .. lsn
      /\ lastPut \in [RefKey -> RefValue \cup {NoValue}]
  BY DEF RefInd
<1>4. PICK new : new = versionsOf'
  OBVIOUS
<1>5. \A k : Reached(new, muts, k, Len(muts))
  BY <1>2, <1>3, <1>4, OutcomesReached
<1>6. new \in Tree
  BY <1>5 DEF Reached
<1>7. lsn' \in Nat /\ lsn' \notin DOMAIN snaps' /\ DOMAIN snaps' \subseteq 0 .. lsn'
  BY <1>2, <1>3
<1>8. pending' \in [RefTxn -> [at : {"none", "active", "committed", "gone"}, muts : Seq(Mutation)]]
  <2>1. [pending[x] EXCEPT !.at = "committed"] \in [at : {"none", "active", "committed", "gone"}, muts : Seq(Mutation)]
    BY <1>0
  <2> QED BY <1>0, <1>2, <2>1
<1>9. DOMAIN muts = 1 .. Len(muts) /\ Len(muts) \in Nat /\ \A i \in 1 .. Len(muts) : muts[i] \in Mutation
  OBVIOUS
<1>10. /\ irregular' = irregular \cup {k \in RefKey : \E i \in On(muts, k) : On(muts, k) # {i} \/ muts[i].value = NoValue}
       /\ lastPut' = [k \in RefKey |-> IF On(muts, k) = {} THEN lastPut[k] ELSE muts[Max(On(muts, k))].value]
  BY <1>2 DEF Remember, On
<1>11. lastPut' \in [RefKey -> RefValue \cup {NoValue}]
  <2> SUFFICES ASSUME NEW k \in RefKey, On(muts, k) # {}
               PROVE  muts[Max(On(muts, k))].value \in RefValue \cup {NoValue}
    BY <1>3, <1>10
  <2>1. PICK O, n : O = On(muts, k) /\ n \in Nat /\ n = Len(muts)
    BY <1>9
  <2>2. O \subseteq 0 .. n /\ O # {} /\ O \subseteq DOMAIN muts
    BY <1>9, <2>1 DEF On
  <2>3. \E y \in O : \A z \in O : y >= z
    BY <2>1, <2>2, Greatest
  <2>4. Max(O) \in O
    BY <2>3 DEF Max
  <2>5. muts[Max(O)] \in Mutation
    BY <1>9, <2>2, <2>4
  <2> QED BY <2>1, <2>5 DEF Mutation
<1>12. ASSUME NEW k \in RefKey, k \notin irregular'
       PROVE  Below(new[k], lsn + 1) /\ RefGet(new, k) = lastPut'[k]
  <2>1. k \notin irregular /\ Regular(muts, k)
    BY <1>10, <1>12 DEF Regular
  <2>2. Below(versionsOf[k], lsn) /\ RefGet(versionsOf, k) = lastPut[k]
    BY <2>1 DEF RefInd, OracleRight, OracleExact
  <2>3. /\ (\A j \in On(muts, k) : j > Len(muts)) => new[k] = versionsOf[k]
        /\ \A j \in On(muts, k) : j <= Len(muts) => Freshest(new[k], muts[j].value, lsn)
    BY <1>5, <2>1, <2>2 DEF Reached
  <2>4. ASSUME NEW t \in Tree, NEW i \in DOMAIN t[k] PROVE t[k][i].lsn \in Nat
    <3>1. PICK ch \in Seq(Version) : ch = t[k]
      BY DEF Tree
    <3>2. ch[i] \in Version
      BY <3>1
    <3> QED BY <3>1, <3>2 DEF Version
  <2>5. CASE On(muts, k) = {}
    <3>1. new[k] = versionsOf[k] /\ lastPut'[k] = lastPut[k]
      BY <1>10, <2>3, <2>5
    <3>2. Below(new[k], lsn + 1)
      BY <1>3, <2>2, <2>4, <3>1 DEF Below
    <3> QED BY <2>2, <3>1, <3>2 DEF RefGet
  <2>6. CASE On(muts, k) # {}
    <3>1. PICK j \in On(muts, k) : On(muts, k) = {j} /\ j \in 1 .. Len(muts)
      BY <1>9, <2>1, <2>6 DEF Regular, On
    <3>2. Max({j}) = j
      <4>1. \E y \in {j} : \A z \in {j} : y >= z
        BY <3>1
      <4> QED BY <4>1 DEF Max
    <3>3. Freshest(new[k], muts[j].value, lsn)
      BY <2>3, <3>1, <1>9
    <3>4. lastPut'[k] = muts[j].value
      BY <1>10, <3>1, <3>2
    <3>5. Below(new[k], lsn + 1)
      BY <1>3, <1>6, <2>4, <3>3 DEF Below, Freshest
    <3> QED BY <3>3, <3>4, <3>5 DEF Freshest, RefGet
  <2> QED BY <2>5, <2>6
<1>13. OracleExact'
  BY <1>4, <1>12 DEF OracleExact, RefGet
<1>14. SnapshotFixed'
  BY <1>7 DEF SnapshotFixed
<1>15. \A k \in RefKey \ irregular' : Below(versionsOf'[k], lsn')
  BY <1>2, <1>4, <1>12
<1> QED BY <1>4, <1>6, <1>7, <1>8, <1>11, <1>13, <1>14, <1>15 DEF RefInd, OracleRight

LEMMA SnapshotKeeps == ASSUME RefInd, CreateSnapshot PROVE RefInd'
<1>1. /\ UNCHANGED <<versionsOf, lsn, pending, lastPut, irregular>>
      /\ DOMAIN snaps' \subseteq DOMAIN snaps \cup {lsn}
      /\ lsn \in DOMAIN snaps' => snaps'[lsn] = versionsOf
  BY DEF CreateSnapshot
<1>2. lsn \in Nat /\ DOMAIN snaps \subseteq 0 .. lsn
  BY DEF RefInd
<1>3. DOMAIN snaps' \subseteq 0 .. lsn'
  BY <1>1, <1>2
<1>4. OracleRight'
  BY <1>1 DEF RefInd, OracleRight, OracleExact, SnapshotFixed, RefGet
<1> QED BY <1>1, <1>3, <1>4 DEF RefInd

(* A step that only changes what a transaction holds.                      *)
LEMMA PendingKeeps ==
  ASSUME RefInd, UNCHANGED <<versionsOf, lsn, snaps, lastPut, irregular>>,
         pending' \in [RefTxn -> [at : {"none", "active", "committed", "gone"}, muts : Seq(Mutation)]]
  PROVE  RefInd'
BY DEF RefInd, OracleRight, OracleExact, SnapshotFixed, RefGet, Below

LEMMA RefStep == ASSUME RefInd, [RefNext]_refVars PROVE RefInd'
<1> DEFINE Rec == [at : {"none", "active", "committed", "gone"}, muts : Seq(Mutation)]
<1>0. pending \in [RefTxn -> Rec]
  BY DEF RefInd
<1>1. ASSUME NEW t \in RefTxn, BeginTxn(t) PROVE RefInd'
  <2>1. [pending[t] EXCEPT !.at = "active"] \in Rec
    BY <1>0
  <2>2. pending' \in [RefTxn -> Rec]
    BY <1>0, <1>1, <2>1 DEF BeginTxn
  <2> QED BY <1>1, <2>2, PendingKeeps DEF BeginTxn
<1>2. ASSUME NEW t \in RefTxn, NEW m \in Mutation, AddMutation(t, m) PROVE RefInd'
  <2>1. pending[t].muts \in Seq(Mutation) /\ pending[t].at \in {"none", "active", "committed", "gone"}
    BY <1>0
  <2>2. PICK a \in Seq(Mutation) : a = Append(pending[t].muts, m)
    BY <2>1, AppendStays
  <2>3. pending' = [pending EXCEPT ![t] = [at |-> pending[t].at, muts |-> a]]
    <3>1. pending' = [pending EXCEPT ![t] = [pending[t] EXCEPT !.muts = a]]
      BY <1>2, <2>2 DEF AddMutation
    <3>2. pending[t] \in Rec
      BY <1>0
    <3>3. [pending[t] EXCEPT !.muts = a] = [at |-> pending[t].at, muts |-> a]
      BY <3>2
    <3> QED BY <3>1, <3>3
  <2>4. pending' \in [RefTxn -> Rec]
    BY <1>0, <2>1, <2>3
  <2> QED BY <1>2, <2>4, PendingKeeps DEF AddMutation
<1>3. ASSUME NEW t \in RefTxn, RollbackTxn(t) PROVE RefInd'
  <2>1. [at |-> "gone", muts |-> <<>>] \in Rec
    OBVIOUS
  <2>2. pending' \in [RefTxn -> Rec]
    BY <1>0, <1>3, <2>1 DEF RollbackTxn
  <2> QED BY <1>3, <2>2, PendingKeeps DEF RollbackTxn
<1>4. CASE UNCHANGED refVars
  BY <1>0, <1>4, PendingKeeps DEF refVars
<1> QED BY <1>1, <1>2, <1>3, <1>4, CommitKeeps, SnapshotKeeps DEF RefNext

LEMMA RefInitial == RefInit => RefInd
<1> SUFFICES ASSUME RefInit PROVE RefInd
  OBVIOUS
<1> USE DEF RefInit
<1>1. versionsOf \in Tree /\ lsn \in Nat /\ DOMAIN snaps \subseteq 0 .. lsn
  BY DEF Tree
<1>2. pending \in [RefTxn -> [at : {"none", "active", "committed", "gone"}, muts : Seq(Mutation)]]
  <2>1. NotBegun \in [at : {"none", "active", "committed", "gone"}, muts : Seq(Mutation)]
    BY DEF NotBegun
  <2> QED BY <2>1
<1>3. lastPut \in [RefKey -> RefValue \cup {NoValue}]
  OBVIOUS
<1>4. \A k \in RefKey : versionsOf[k] = <<>> /\ lastPut[k] = NoValue
  OBVIOUS
<1>5. DOMAIN <<>> = {} /\ DOMAIN snaps = {}
  OBVIOUS
<1>6. OracleRight
  BY <1>4, <1>5 DEF OracleRight, OracleExact, SnapshotFixed, RefGet
<1>7. \A k \in RefKey : Below(versionsOf[k], lsn)
  BY <1>4, <1>5 DEF Below
<1> QED BY <1>1, <1>2, <1>3, <1>6, <1>7 DEF RefInd

(* For any keys, values, transactions and caps: the reference model's get  *)
(* gives the last committed value of every key that was never deleted nor  *)
(* put twice by one transaction, whichever transactions were rolled back   *)
(* or committed again (RefModel::commit applies before it checks), and a   *)
(* snapshot of the current LSN is the current tree.                        *)
THEOREM OracleIsRight == RefSpec => []OracleRight
<1>1. RefInit => RefInd
  BY RefInitial
<1>2. RefInd /\ [RefNext]_refVars => RefInd'
  BY RefStep
<1>3. RefInd => OracleRight
  BY DEF RefInd
<1> QED BY <1>1, <1>2, <1>3, PTL DEF RefSpec

-------------------------------------------------------------------------------
(* Pages: the allocator, the storage, the page cache and overflow chains.   *)

(* What every method keeps: the numbers of the free list are sorted, below  *)
(* the end of the file and in no cache, and the cache agrees with the       *)
(* storage.  A page is out when the allocator has handed it out and not got *)
(* it back.                                                                 *)
IsStore(s) == DOMAIN s = {"disk", "cached", "free", "next", "ok", "pages"}
Free(s, p) == \E i \in 1..Len(s.free) : s.free[i] = p
Out(s, p) == p \in RootPage..(s.next - 1) /\ ~Free(s, p)
Kept(s, p) == Out(s, p) /\ p \in DOMAIN s.disk
Sorted(f) == \A i, j \in 1..Len(f) : i < j => f[i] < f[j]

Sound(s) ==
  /\ IsStore(s)
  /\ s.next \in FirstFresh..(LastPage + 1)
  /\ s.free \in Seq(FirstFresh..(s.next - 1)) /\ Sorted(s.free)
  /\ \A p \in DOMAIN s.cached : Kept(s, p) /\ s.cached[p] = s.disk[p]

(* t differs from s in the storage, at p only, and in the cache. *)
SameList(s, t) == IsStore(t) /\ t.free = s.free /\ t.next = s.next

LEMMA WritePageIs ==
  ASSUME NEW s, IsStore(s), NEW p, NEW c
  PROVE  LET t == WritePage(s, p, c) IN
         /\ SameList(s, t) /\ t.ok = s.ok /\ t.pages = s.pages
         /\ t.disk = Holding(s.disk, p, c)
         /\ t.cached = s.cached \/ t.cached = Holding(s.cached, p, c)
         /\ p \in DOMAIN s.cached => t.cached = Holding(s.cached, p, c)
BY DEF WritePage, IsStore, SameList

LEMMA WriteRawIs ==
  ASSUME NEW s, IsStore(s), NEW p, NEW c
  PROVE  LET t == WriteRaw(s, p, c) IN
         /\ SameList(s, t) /\ t.pages = s.pages
         /\ t.disk = Holding(s.disk, p, c)
         /\ t.cached \in {Lacking(s.cached, p), Holding(Lacking(s.cached, p), p, c)}
BY DEF WriteRaw, IsStore, SameList

LEMMA ReadInIs ==
  ASSUME NEW s, IsStore(s), NEW p
  PROVE  LET t == ReadIn(s, p) IN
         /\ SameList(s, t) /\ t.pages = s.pages /\ t.disk = s.disk
         /\ t.cached \in {s.cached, Holding(s.cached, p, Content(s, p))}
BY DEF ReadIn, IsStore, SameList

LEMMA AllocatePageIs ==
  ASSUME NEW s, IsStore(s)
  PROVE  LET t == AllocatePage(s) IN
         /\ IsStore(t) /\ t.ok = s.ok /\ t.pages = s.pages /\ t.cached = s.cached
         /\ t.disk = Holding(s.disk, NewPage(s), Allocated)
         /\ t.free = IF s.free # <<>> THEN Tail(s.free) ELSE s.free
         /\ t.next = IF s.free # <<>> THEN s.next ELSE s.next + 1
BY DEF AllocatePage, IsStore

LEMMA FreePageIs ==
  ASSUME NEW s, IsStore(s), NEW p
  PROVE  LET t == FreePage(s, p) IN
         /\ IsStore(t) /\ t.ok = s.ok /\ t.pages = s.pages /\ t.disk = s.disk
         /\ t.next = s.next /\ t.cached = Lacking(s.cached, p)
         /\ t.free = InsertAt(s.free, SearchFor(s.free, p) + 1, p)
BY DEF FreePage, IsStore

(* The storage of t is that of s but for page p, which is there. *)
OnlyAt(s, t, p) ==
  /\ DOMAIN t.disk = DOMAIN s.disk \cup {p}
  /\ \A q \in DOMAIN s.disk : q # p => t.disk[q] = s.disk[q]

(* A store whose cache was sound, after a write of p that keeps the cache   *)
(* sound at the other pages and at p, if the cache has it.                  *)
LEMMA SoundWrite ==
  ASSUME NEW s, Sound(s), NEW p, Out(s, p), NEW t, SameList(s, t), OnlyAt(s, t, p),
         \A q \in DOMAIN t.cached : \/ q \in DOMAIN s.cached /\ q # p /\ t.cached[q] = s.cached[q]
                                    \/ q = p /\ t.cached[p] = t.disk[p]
  PROVE  Sound(t)
<1>1. ASSUME NEW q \in DOMAIN t.cached PROVE Kept(t, q) /\ t.cached[q] = t.disk[q]
  <2>1. CASE q \in DOMAIN s.cached /\ q # p /\ t.cached[q] = s.cached[q]
    BY <2>1 DEF Sound, SameList, OnlyAt, Kept, Out, Free
  <2>2. CASE q = p /\ t.cached[p] = t.disk[p]
    BY <2>2 DEF Sound, SameList, OnlyAt, Kept, Out, Free
  <2> QED BY <2>1, <2>2
<1> QED BY <1>1 DEF Sound, SameList

LEMMA WritePageSound ==
  ASSUME NEW s, Sound(s), NEW p, Out(s, p), NEW c
  PROVE  LET t == WritePage(s, p, c) IN
         /\ Sound(t) /\ SameList(s, t) /\ OnlyAt(s, t, p) /\ t.disk[p] = c
         /\ t.ok = s.ok /\ t.pages = s.pages
<1> DEFINE t == WritePage(s, p, c)
<1>1. /\ SameList(s, t) /\ t.ok = s.ok /\ t.pages = s.pages
      /\ t.disk = Holding(s.disk, p, c)
      /\ t.cached = s.cached \/ t.cached = Holding(s.cached, p, c)
      /\ p \in DOMAIN s.cached => t.cached = Holding(s.cached, p, c)
  BY WritePageIs DEF Sound
<1> HIDE DEF t
<1>2. OnlyAt(s, t, p) /\ t.disk[p] = c
  BY <1>1 DEF OnlyAt, Holding
<1>3. ASSUME NEW q \in DOMAIN t.cached
      PROVE  \/ q \in DOMAIN s.cached /\ q # p /\ t.cached[q] = s.cached[q]
             \/ q = p /\ t.cached[p] = t.disk[p]
  BY <1>1, <1>2, <1>3 DEF Holding
<1>4. Sound(t)
  BY <1>1, <1>2, <1>3, SoundWrite
<1> QED BY <1>1, <1>2, <1>4 DEF t

LEMMA WriteRawSound ==
  ASSUME NEW s, Sound(s), NEW p, Out(s, p), NEW c
  PROVE  LET t == WriteRaw(s, p, c) IN
         /\ Sound(t) /\ SameList(s, t) /\ OnlyAt(s, t, p) /\ t.disk[p] = c
<1> DEFINE t == WriteRaw(s, p, c)
<1>1. /\ SameList(s, t) /\ t.pages = s.pages
      /\ t.disk = Holding(s.disk, p, c)
      /\ t.cached \in {Lacking(s.cached, p), Holding(Lacking(s.cached, p), p, c)}
  BY WriteRawIs DEF Sound
<1> HIDE DEF t
<1>2. OnlyAt(s, t, p) /\ t.disk[p] = c
  BY <1>1 DEF OnlyAt, Holding
<1>3. ASSUME NEW q \in DOMAIN t.cached
      PROVE  \/ q \in DOMAIN s.cached /\ q # p /\ t.cached[q] = s.cached[q]
             \/ q = p /\ t.cached[p] = t.disk[p]
  <2>1. PICK g : g = Lacking(s.cached, p)
    OBVIOUS
  <2>2. DOMAIN g = DOMAIN s.cached \ {p} /\ \A x \in DOMAIN s.cached : x # p => g[x] = s.cached[x]
    BY <2>1 DEF Lacking
  <2>3. t.cached = g \/ t.cached = Holding(g, p, c)
    BY <1>1, <2>1
  <2> QED BY <1>2, <1>3, <2>2, <2>3 DEF Holding
<1>4. Sound(t)
  BY <1>1, <1>2, <1>3, SoundWrite
<1> QED BY <1>1, <1>2, <1>4 DEF t

LEMMA ReadInSound ==
  ASSUME NEW s, Sound(s), NEW p, Kept(s, p)
  PROVE  LET t == ReadIn(s, p) IN
         /\ Sound(t) /\ SameList(s, t) /\ t.disk = s.disk /\ t.pages = s.pages
         /\ Content(s, p) = s.disk[p]
<1> DEFINE t == ReadIn(s, p)
<1>0. Content(s, p) = s.disk[p]
  BY DEF Content, Sound
<1>1. /\ SameList(s, t) /\ t.pages = s.pages /\ t.disk = s.disk
      /\ t.cached \in {s.cached, Holding(s.cached, p, s.disk[p])}
  BY <1>0, ReadInIs DEF Sound
<1> HIDE DEF t
<1>2. OnlyAt(s, t, p)
  BY <1>1 DEF OnlyAt, Kept
<1>3. ASSUME NEW q \in DOMAIN t.cached
      PROVE  \/ q \in DOMAIN s.cached /\ q # p /\ t.cached[q] = s.cached[q]
             \/ q = p /\ t.cached[p] = t.disk[p]
  <2>1. \A x \in DOMAIN s.cached : s.cached[x] = s.disk[x]
    BY DEF Sound
  <2> QED BY <1>1, <1>3, <2>1 DEF Holding
<1>4. Sound(t)
  BY <1>1, <1>2, <1>3, SoundWrite DEF Kept
<1> QED BY <1>0, <1>1, <1>4 DEF t

(* The page the allocator takes was not out, and is afterwards; no other    *)
(* page comes or goes.                                                      *)
LEMMA AllocateSound ==
  ASSUME NEW s, Sound(s), CanAllocate(s, 1)
  PROVE  LET t == AllocatePage(s)
             p == NewPage(s) IN
         /\ Sound(t) /\ OnlyAt(s, t, p) /\ ~Out(s, p) /\ Out(t, p) /\ p >= FirstFresh
         /\ \A q : Out(s, q) => Out(t, q) /\ q # p
         /\ t.ok = s.ok /\ t.pages = s.pages
         /\ t.next - Len(t.free) = s.next - Len(s.free) + 1
<1> DEFINE t == AllocatePage(s)
           p == NewPage(s)
<1>1. /\ IsStore(t) /\ t.ok = s.ok /\ t.pages = s.pages /\ t.cached = s.cached
      /\ t.disk = Holding(s.disk, p, Allocated)
      /\ t.free = IF s.free # <<>> THEN Tail(s.free) ELSE s.free
      /\ t.next = IF s.free # <<>> THEN s.next ELSE s.next + 1
  BY AllocatePageIs DEF Sound
<1>2. p = IF s.free # <<>> THEN s.free[1] ELSE s.next
  BY DEF NewPage
<1>3. /\ s.next \in Int /\ s.next >= 3 /\ s.next <= LastPage + 1
      /\ s.free \in Seq(3..(s.next - 1)) /\ Sorted(s.free) /\ LastPage \in Nat
      /\ s.next + 1 <= LastPage + 1 + Len(s.free)
  <2>1. /\ s.next \in 3..(LastPage + 1) /\ Sorted(s.free)
        /\ s.free \in Seq(3..(s.next - 1))
    BY DEF Sound, FirstFresh
  <2>2. s.next + 1 <= LastPage + 1 + Len(s.free)
    BY DEF CanAllocate
  <2>3. LastPage \in Nat
    BY PageBounds
  <2>4. s.next \in Int /\ s.next >= 3 /\ s.next <= LastPage + 1
    BY ONLY <2>1, <2>3
  <2> QED BY <2>1, <2>2, <2>3, <2>4
<1> HIDE DEF t, p
<1>4. OnlyAt(s, t, p)
  BY <1>1 DEF OnlyAt, Holding
<1>5. CASE s.free = <<>>
  <2>1. t.free = <<>> /\ t.next = s.next + 1 /\ p = s.next /\ Len(s.free) = 0 /\ Len(t.free) = 0
    BY <1>1, <1>2, <1>5
  <2>2. ~Out(s, p) /\ Out(t, p) /\ p >= FirstFresh /\ \A q : Out(s, q) => Out(t, q) /\ q # p
    BY <1>3, <2>1 DEF Out, Free, RootPage, FirstFresh
  <2>3. t.next - Len(t.free) = s.next - Len(s.free) + 1
    BY <1>3, <2>1
  <2>4. \A q \in DOMAIN t.cached : Kept(t, q) /\ t.cached[q] = t.disk[q]
    <3> SUFFICES ASSUME NEW q \in DOMAIN t.cached PROVE Kept(t, q) /\ t.cached[q] = t.disk[q]
      OBVIOUS
    <3>1. Kept(s, q) /\ s.cached[q] = s.disk[q] /\ t.cached[q] = s.cached[q]
      BY <1>1 DEF Sound
    <3>2. q # p /\ Out(t, q) /\ q \in DOMAIN s.disk
      BY <2>2, <3>1 DEF Kept
    <3> QED BY <1>4, <3>1, <3>2 DEF OnlyAt, Kept
  <2>5. Sound(t)
    BY <1>1, <1>3, <2>1, <2>4 DEF Sound, Sorted, FirstFresh
  <2> QED BY <1>1, <1>4, <2>2, <2>3, <2>5 DEF t, p
<1>6. CASE s.free # <<>>
  <2>1. /\ t.free = Tail(s.free) /\ t.next = s.next /\ p = s.free[1]
        /\ Len(s.free) \in Nat \ {0} /\ Len(t.free) = Len(s.free) - 1
        /\ t.free \in Seq(3..(s.next - 1))
        /\ \A i \in 1..Len(t.free) : t.free[i] = s.free[i + 1]
        /\ p \in 3..(s.next - 1)
    <3>1. s.free \in Seq(3..(s.next - 1)) /\ s.free # <<>>
      BY <1>3, <1>6
    <3>2. t.free = Tail(s.free) /\ t.next = s.next /\ p = s.free[1]
      BY <1>1, <1>2, <1>6
    <3>3. PICK f, P : f = s.free /\ P = 3..(s.next - 1)
      OBVIOUS
    <3>4. f \in Seq(P) /\ f # <<>>
      BY <3>1, <3>3
    <3>5. /\ Len(f) \in Nat \ {0} /\ Len(Tail(f)) = Len(f) - 1 /\ Tail(f) \in Seq(P)
          /\ \A i \in 1..Len(Tail(f)) : Tail(f)[i] = f[i + 1]
          /\ f[1] \in P
      BY ONLY <3>4
    <3> QED BY <3>2, <3>3, <3>5
  <2>2. Free(s, p)
    BY <2>1 DEF Free
  <2>3. ~Free(t, p)
    <3> SUFFICES ASSUME NEW i \in 1..Len(t.free), t.free[i] = p PROVE FALSE
      BY DEF Free
    <3>1. s.free[1] < s.free[i + 1]
      <4>1. \A a, b \in 1..Len(s.free) : a < b => s.free[a] < s.free[b]
        BY <1>3 DEF Sorted
      <4>2. 1 \in 1..Len(s.free) /\ i + 1 \in 1..Len(s.free) /\ 1 < i + 1
        BY ONLY <2>1, i \in 1..Len(t.free)
      <4> QED BY <4>1, <4>2
    <3> QED BY <1>3, <2>1, <3>1
  <2>4. \A q : Free(t, q) => Free(s, q)
    BY <2>1 DEF Free
  <2>5. ~Out(s, p) /\ Out(t, p) /\ p >= FirstFresh /\ \A q : Out(s, q) => Out(t, q) /\ q # p
    BY <1>3, <2>1, <2>2, <2>3, <2>4 DEF Out, RootPage, FirstFresh
  <2>6. t.next - Len(t.free) = s.next - Len(s.free) + 1
    <3>0. s.next \in Int /\ Len(s.free) \in Int
      <4>1. Len(s.free) \in Nat
        BY ONLY <2>1
      <4> QED BY <1>3, <4>1
    <3>1. PICK m, n \in Int : m = s.next /\ n = Len(s.free)
      BY ONLY <3>0
    <3>2. t.next = m /\ Len(t.free) = n - 1
      BY <2>1, <3>1
    <3> QED BY <3>1, <3>2
  <2>7. \A q \in DOMAIN t.cached : Kept(t, q) /\ t.cached[q] = t.disk[q]
    <3> SUFFICES ASSUME NEW q \in DOMAIN t.cached PROVE Kept(t, q) /\ t.cached[q] = t.disk[q]
      OBVIOUS
    <3>1. Kept(s, q) /\ s.cached[q] = s.disk[q] /\ t.cached[q] = s.cached[q]
      BY <1>1 DEF Sound
    <3>2. q # p /\ Out(t, q) /\ q \in DOMAIN s.disk
      BY <2>5, <3>1 DEF Kept
    <3> QED BY <1>4, <3>1, <3>2 DEF OnlyAt, Kept
  <2>8. Sorted(t.free)
    <3> SUFFICES ASSUME NEW i \in 1..Len(t.free), NEW j \in 1..Len(t.free), i < j
                 PROVE  t.free[i] < t.free[j]
      BY DEF Sorted
    <3>1. i + 1 \in 1..Len(s.free) /\ j + 1 \in 1..Len(s.free) /\ i + 1 < j + 1
      BY <2>1
    <3>2. s.free[i + 1] < s.free[j + 1]
      BY <1>3, <3>1 DEF Sorted
    <3> QED BY <2>1, <3>2
  <2>9. Sound(t)
    BY <1>1, <1>3, <2>1, <2>7, <2>8 DEF Sound, FirstFresh
  <2> QED BY <1>1, <1>4, <2>5, <2>6, <2>9 DEF t, p
<1> QED BY <1>5, <1>6
(* Where the binary search of a sorted list points. *)
LEMMA SearchIs ==
  ASSUME NEW a \in Int, NEW b \in Int, NEW f \in Seq(a..b), Sorted(f), NEW p \in Int
  PROVE  /\ SearchFor(f, p) \in 0..Len(f)
         /\ \A i \in 1..Len(f) : f[i] < p <=> i <= SearchFor(f, p)
<1> DEFINE Right(n) == \A i \in 1..Len(f) : f[i] < p <=> i <= n
           S == {0} \cup {i \in 1..Len(f) : f[i] < p}
<1>0. Len(f) \in Nat /\ \A i \in 1..Len(f) : f[i] \in Int
  OBVIOUS
<1>1. S \subseteq 0..Len(f) /\ S # {}
  BY <1>0
<1>2. PICK n \in S : \A m \in S : n >= m
  BY <1>0, <1>1, Greatest
<1>3. Right(n)
  <2> SUFFICES ASSUME NEW i \in 1..Len(f) PROVE f[i] < p <=> i <= n
    OBVIOUS
  <2>0. n \in Int /\ i \in Int /\ f[i] \in Int
    BY <1>0, <1>1
  <2>1. ASSUME f[i] < p PROVE i <= n
    BY <1>2, <2>0, <2>1
  <2>2. ASSUME i <= n PROVE f[i] < p
    <3>1. n \in 1..Len(f) /\ f[n] < p
      BY <1>2, <2>0, <2>2
    <3>2. i = n \/ f[i] < f[n]
      BY <2>0, <2>2, <3>1 DEF Sorted
    <3> QED BY <1>0, <2>0, <3>1, <3>2
  <2> QED BY <2>1, <2>2
<1>4. \E m \in 0..Len(f) : Right(m)
  BY <1>1, <1>3
<1>5. SearchFor(f, p) = CHOOSE m \in 0..Len(f) : Right(m)
  BY DEF SearchFor
<1> HIDE DEF Right
<1>6. SearchFor(f, p) \in 0..Len(f) /\ Right(SearchFor(f, p))
  BY <1>4, <1>5
<1> QED BY <1>6 DEF Right

Inserted(f, g, n, p, S) ==
  /\ g \in Seq(S) /\ Len(g) = Len(f) + 1
  /\ \A i \in 1..Len(g) : g[i] = IF i <= n THEN f[i] ELSE IF i = n + 1 THEN p ELSE f[i - 1]

LEMMA InsertIs ==
  ASSUME NEW S, NEW f \in Seq(S), NEW n \in 0..Len(f), NEW p \in S
  PROVE  Inserted(f, InsertAt(f, n + 1, p), n, p, S)
<1> DEFINE g == InsertAt(f, n + 1, p)
<1>1. g = SubSeq(f, 1, n) \o <<p>> \o SubSeq(f, n + 1, Len(f))
  <2>1. (n + 1) - 1 = n
    OBVIOUS
  <2> QED BY <2>1, Zenon DEF InsertAt
<1>2. PICK u : u = SubSeq(f, 1, n)
  OBVIOUS
<1>3. PICK v : v = SubSeq(f, n + 1, Len(f))
  OBVIOUS
<1>4. u \in Seq(S) /\ Len(u) = n /\ \A i \in 1..n : u[i] = f[i]
  BY <1>2
<1>5. v \in Seq(S) /\ Len(v) = Len(f) - n /\ \A i \in 1..(Len(f) - n) : v[i] = f[n + i]
  BY <1>3
<1>6. PICK w : w = u \o <<p>>
  OBVIOUS
<1>7. w \in Seq(S) /\ Len(w) = n + 1 /\ \A i \in 1..(n + 1) : w[i] = IF i <= n THEN f[i] ELSE p
  BY <1>4, <1>6
<1>8. g = w \o v
  BY <1>1, <1>2, <1>3, <1>6
<1> HIDE DEF g
<1>9. Len(f) \in Nat /\ n \in Nat /\ n <= Len(f)
  OBVIOUS
<1>10. g \in Seq(S) /\ Len(g) = Len(f) + 1
  BY <1>5, <1>7, <1>8, <1>9
<1>11. ASSUME NEW i \in 1..Len(g)
       PROVE  g[i] = IF i <= n THEN f[i] ELSE IF i = n + 1 THEN p ELSE f[i - 1]
  <2>1. CASE i <= n + 1
    BY <1>5, <1>7, <1>8, <1>9, <2>1
  <2>2. CASE i > n + 1
    <3>1. i - (n + 1) \in 1..(Len(f) - n) /\ n + (i - (n + 1)) = i - 1
      BY <1>9, <1>10, <2>2
    <3>2. g[i] = v[i - (n + 1)]
      BY <1>5, <1>7, <1>8, <1>9, <2>2, <3>1
    <3> QED BY <1>5, <1>9, <2>2, <3>1, <3>2
  <2> QED BY <1>9, <2>1, <2>2
<1> QED BY <1>10, <1>11 DEF g, Inserted

(* A page that is freed is no longer out, nor cached; the others stay.      *)
LEMMA FreeSound ==
  ASSUME NEW s, Sound(s), NEW p, Out(s, p), p >= FirstFresh
  PROVE  LET t == FreePage(s, p) IN
         /\ Sound(t) /\ t.disk = s.disk /\ t.next = s.next /\ t.ok = s.ok
         /\ \A q : Out(t, q) <=> Out(s, q) /\ q # p
<1> DEFINE t == FreePage(s, p)
<1>1. /\ IsStore(t) /\ t.ok = s.ok /\ t.pages = s.pages /\ t.disk = s.disk
      /\ t.next = s.next /\ t.cached = Lacking(s.cached, p)
      /\ t.free = InsertAt(s.free, SearchFor(s.free, p) + 1, p)
  BY FreePageIs DEF Sound
<1> HIDE DEF t
<1>2. PICK f, g, n, P : f = s.free /\ g = t.free /\ n = SearchFor(f, p) /\ P = FirstFresh..(s.next - 1)
  OBVIOUS
<1>3. /\ s.next \in Int /\ P = 3..(s.next - 1) /\ f \in Seq(P) /\ Sorted(f)
      /\ p \in P /\ p \in Int /\ P \subseteq Int
  <2>1. s.next \in 3..(LastPage + 1) /\ s.free \in Seq(FirstFresh..(s.next - 1)) /\ Sorted(s.free)
    BY DEF Sound, FirstFresh
  <2>2. p \in 2..(s.next - 1) /\ p >= 3
    BY DEF Out, RootPage, FirstFresh
  <2>3. s.next \in Int
    BY <2>1, PageBounds
  <2> QED BY <1>2, <2>1, <2>2, <2>3 DEF FirstFresh
<1>4. n \in 0..Len(f) /\ \A i \in 1..Len(f) : f[i] < p <=> i <= n
  <2>1. f \in Seq(3..(s.next - 1)) /\ 3 \in Int /\ s.next - 1 \in Int
    BY <1>3
  <2> QED BY <1>2, <1>3, <2>1, SearchIs
<1>5. /\ g \in Seq(P) /\ Len(g) = Len(f) + 1
      /\ \A i \in 1..Len(g) : g[i] = IF i <= n THEN f[i] ELSE IF i = n + 1 THEN p ELSE f[i - 1]
  <2>1. g = InsertAt(f, n + 1, p)
    BY <1>1, <1>2
  <2>2. Inserted(f, InsertAt(f, n + 1, p), n, p, P)
    BY <1>3, <1>4, InsertIs
  <2> QED BY <2>1, <2>2 DEF Inserted
<1>6. Len(f) \in Nat /\ n \in Nat /\ n <= Len(f) /\ \A i \in 1..Len(f) : f[i] \in Int /\ f[i] # p
  <2>1. \A i \in 1..Len(f) : f[i] # p
    BY <1>2 DEF Out, Free
  <2> QED BY <1>3, <1>4, <2>1
<1>7. Sorted(g)
  <2> SUFFICES ASSUME NEW i \in 1..Len(g), NEW j \in 1..Len(g), i < j PROVE g[i] < g[j]
    BY DEF Sorted
  <2>0. i \in Int /\ j \in Int /\ i >= 1 /\ j <= Len(f) + 1
    BY <1>5, <1>6
  <2>s. \A x, y \in 1..Len(f) : x < y => f[x] < f[y]
    BY <1>3 DEF Sorted
  <2>1. CASE j <= n
    BY <1>5, <1>6, <2>0, <2>1, <2>s
  <2>2. CASE j = n + 1
    <3>1. g[j] = p /\ g[i] = f[i] /\ i \in 1..Len(f) /\ i <= n
      BY <1>5, <1>6, <2>0, <2>2
    <3> QED BY <1>4, <3>1
  <2>3. CASE j > n + 1 /\ i <= n
    <3>1. g[j] = f[j - 1] /\ g[i] = f[i] /\ i \in 1..Len(f) /\ j - 1 \in 1..Len(f) /\ i < j - 1
      BY <1>5, <1>6, <2>0, <2>3
    <3> QED BY <2>s, <3>1
  <2>4. CASE j > n + 1 /\ i = n + 1
    <3>1. g[j] = f[j - 1] /\ g[i] = p /\ j - 1 \in 1..Len(f) /\ ~(j - 1 <= n)
      BY <1>5, <1>6, <2>0, <2>4
    <3>2. ~(f[j - 1] < p) /\ f[j - 1] # p /\ f[j - 1] \in Int
      BY <1>4, <1>6, <3>1
    <3> QED BY <1>3, <3>1, <3>2
  <2>5. CASE i > n + 1
    <3>1. g[j] = f[j - 1] /\ g[i] = f[i - 1] /\ i - 1 \in 1..Len(f) /\ j - 1 \in 1..Len(f) /\ i - 1 < j - 1
      BY <1>5, <1>6, <2>0, <2>5
    <3> QED BY <2>s, <3>1
  <2> QED BY <1>6, <2>0, <2>1, <2>2, <2>3, <2>4, <2>5
<1>8. ASSUME NEW q PROVE Free(t, q) <=> Free(s, q) \/ q = p
  <2>1. ASSUME Free(t, q) PROVE Free(s, q) \/ q = p
    <3>1. PICK i \in 1..Len(g) : g[i] = q
      BY <1>2, <2>1 DEF Free
    <3>2. CASE i <= n
      <4>1. i \in 1..Len(f) /\ f[i] = q
        BY <1>5, <1>6, <3>1, <3>2
      <4> QED BY <1>2, <4>1 DEF Free
    <3>3. CASE i = n + 1
      BY <1>5, <1>6, <3>1, <3>3
    <3>4. CASE i > n + 1
      <4>1. i - 1 \in 1..Len(f) /\ f[i - 1] = q
        BY <1>5, <1>6, <3>1, <3>4
      <4> QED BY <1>2, <4>1 DEF Free
    <3> QED BY <1>6, <3>2, <3>3, <3>4
  <2>2. ASSUME Free(s, q) PROVE Free(t, q)
    <3>1. PICK i \in 1..Len(f) : f[i] = q
      BY <1>2, <2>2 DEF Free
    <3>2. CASE i <= n
      <4>1. i \in 1..Len(g) /\ g[i] = q
        BY <1>5, <1>6, <3>1, <3>2
      <4> QED BY <1>2, <4>1 DEF Free
    <3>3. CASE i > n
      <4>1. i + 1 \in 1..Len(g) /\ g[i + 1] = q
        BY <1>5, <1>6, <3>1, <3>3
      <4> QED BY <1>2, <4>1 DEF Free
    <3> QED BY <1>6, <3>2, <3>3
  <2>3. Free(t, p)
    <3>1. n + 1 \in 1..Len(g) /\ g[n + 1] = p
      BY <1>5, <1>6
    <3> QED BY <1>2, <3>1 DEF Free
  <2> QED BY <2>1, <2>2, <2>3
<1>9. \A q : Out(t, q) <=> Out(s, q) /\ q # p
  BY <1>1, <1>8 DEF Out
<1>10. ASSUME NEW q \in DOMAIN t.cached PROVE Kept(t, q) /\ t.cached[q] = t.disk[q]
  <2>1. q \in DOMAIN s.cached /\ q # p /\ t.cached[q] = s.cached[q]
    BY <1>1, <1>10 DEF Lacking
  <2>2. Kept(s, q) /\ s.cached[q] = s.disk[q]
    BY <2>1 DEF Sound
  <2> QED BY <1>1, <1>9, <2>1, <2>2 DEF Kept
<1>11. s.next \in FirstFresh..(LastPage + 1)
  BY DEF Sound
<1>12. Sound(t)
  BY <1>1, <1>2, <1>5, <1>7, <1>10, <1>11 DEF Sound
<1> QED BY <1>1, <1>9, <1>12 DEF t

(* The same store, but for what a method notes of its own progress. *)
SameStore(s, t) ==
  /\ IsStore(t) /\ t.disk = s.disk /\ t.cached = s.cached /\ t.free = s.free /\ t.next = s.next

LEMMA SameStoreSound ==
  ASSUME NEW s, Sound(s), NEW t, SameStore(s, t) PROVE Sound(t)
<1>1. \A p : Kept(t, p) <=> Kept(s, p)
  BY DEF SameStore, Kept, Out, Free
<1> QED BY <1>1 DEF Sound, SameStore

LEMMA NotedIs ==
  ASSUME NEW s, IsStore(s), NEW x, NEW y
  PROVE  /\ SameStore(s, [s EXCEPT !.pages = x]) /\ [s EXCEPT !.pages = x].pages = x
         /\ [s EXCEPT !.pages = x].ok = s.ok
         /\ SameStore(s, [s EXCEPT !.ok = y]) /\ [s EXCEPT !.ok = y].ok = y
         /\ [s EXCEPT !.ok = y].pages = s.pages
BY DEF IsStore, SameStore

LEMMA OverflowSound ==
  ASSUME NEW s, Sound(s), NEW p, Kept(s, p)
  PROVE  /\ Sound(OverflowIn(s, p)) /\ SameList(s, OverflowIn(s, p))
         /\ OverflowIn(s, p).disk = s.disk /\ OverflowIn(s, p).pages = s.pages
<1>1. CASE ~s.ok
  BY <1>1 DEF OverflowIn, SameList, Sound
<1>2. CASE s.ok
  <2>1. PICK r : r = ReadIn(s, p)
    OBVIOUS
  <2>2. Sound(r) /\ SameList(s, r) /\ r.disk = s.disk /\ r.pages = s.pages
    BY <2>1, ReadInSound
  <2>3. PICK y : OverflowIn(s, p) = [r EXCEPT !.ok = y]
    BY <1>2, <2>1 DEF OverflowIn
  <2>4. IsStore(r)
    BY <2>2 DEF Sound
  <2>5. /\ SameStore(r, [r EXCEPT !.ok = y]) /\ [r EXCEPT !.ok = y].pages = r.pages
    BY <2>4, NotedIs
  <2>6. SameStore(r, OverflowIn(s, p)) /\ OverflowIn(s, p).pages = r.pages
    BY <2>3, <2>5
  <2>7. Sound(OverflowIn(s, p))
    BY <2>2, <2>6, SameStoreSound
  <2> QED BY <2>2, <2>6, <2>7 DEF SameStore, SameList
<1> QED BY <1>1, <1>2

LEMMA FreeLinkSound ==
  ASSUME NEW s, Sound(s), NEW p, Kept(s, p), p >= FirstFresh
  PROVE  /\ Sound(FreeLink(s, p)) /\ FreeLink(s, p).disk = s.disk
         /\ \A q : Out(s, q) /\ q # p => Out(FreeLink(s, p), q)
<1>1. PICK r : r = OverflowIn(s, p)
  OBVIOUS
<1>2. Sound(r) /\ SameList(s, r) /\ r.disk = s.disk
  BY <1>1, OverflowSound
<1>3. \A q : Out(r, q) <=> Out(s, q)
  BY <1>2 DEF SameList, Out, Free
<1>4. FreeLink(s, p) = IF r.ok THEN FreePage(r, p) ELSE r
  BY <1>1 DEF FreeLink
<1>5. PICK t : t = FreePage(r, p)
  OBVIOUS
<1>6. Sound(t) /\ t.disk = r.disk /\ \A q : Out(t, q) <=> Out(r, q) /\ q # p
  <2>1. Out(r, p)
    BY <1>3 DEF Kept
  <2> QED BY <1>2, <1>5, <2>1, FreeSound
<1> QED BY <1>2, <1>3, <1>4, <1>5, <1>6

(* A value's pages: out, each once, and linked in order with their chunks.  *)
Laid(d, c) ==
  \A j \in 1..Len(c) : d[c[j]] = Overflow(j, IF j < Len(c) THEN c[j + 1] ELSE 0)
Distinct(c) == \A i, j \in 1..Len(c) : c[i] = c[j] => i = j
Owned(s, c) ==
  /\ c \in Seq(Int) /\ Distinct(c) /\ Laid(s.disk, c)
  /\ \A j \in 1..Len(c) : Kept(s, c[j]) /\ c[j] >= FirstFresh

(* After i turns of allocate_overflow_chain from z, where the pages K were  *)
(* held: those are as they were, and the pages taken are a value's.         *)
Growing(z, K, s, i) ==
  /\ Sound(s)
  /\ s.next - Len(s.free) <= z.next - Len(z.free) + i
  /\ \A p \in K : Kept(s, p) /\ s.disk[p] = z.disk[p]
  /\ s.ok => /\ Owned(s, s.pages) /\ Len(s.pages) = i
             /\ \A j \in 1..Len(s.pages) : s.pages[j] \notin K

(* The first half of a turn: a page is taken and written. *)
LEMMA TakeSound ==
  ASSUME NEW s, Sound(s), CanAllocate(s, 1), NEW i
  PROVE  LET p == NewPage(s)
             w == WritePage(WritePage(AllocatePage(s), p, Overflow(0, 0)), p, Overflow(i, 0)) IN
         /\ Sound(w) /\ w.ok = s.ok /\ w.pages = s.pages
         /\ w.next - Len(w.free) = s.next - Len(s.free) + 1
         /\ Kept(w, p) /\ p >= FirstFresh /\ ~Out(s, p) /\ w.disk[p] = Overflow(i, 0)
         /\ \A q : Kept(s, q) => Kept(w, q) /\ q # p /\ w.disk[q] = s.disk[q]
<1>1. PICK p, a : p = NewPage(s) /\ a = AllocatePage(s)
  OBVIOUS
<1>2. /\ Sound(a) /\ OnlyAt(s, a, p) /\ ~Out(s, p) /\ Out(a, p) /\ p >= FirstFresh
      /\ \A q : Out(s, q) => Out(a, q) /\ q # p
      /\ a.ok = s.ok /\ a.pages = s.pages
      /\ a.next - Len(a.free) = s.next - Len(s.free) + 1
  BY <1>1, AllocateSound
<1>3. PICK v : v = WritePage(a, p, Overflow(0, 0))
  OBVIOUS
<1>4. Sound(v) /\ SameList(a, v) /\ OnlyAt(a, v, p) /\ v.ok = a.ok /\ v.pages = a.pages
  BY <1>2, <1>3, WritePageSound
<1>5. PICK w : w = WritePage(v, p, Overflow(i, 0))
  OBVIOUS
<1>6. Out(v, p)
  BY <1>2, <1>4 DEF SameList, Out, Free
<1>7. Sound(w) /\ SameList(v, w) /\ OnlyAt(v, w, p) /\ w.ok = v.ok /\ w.pages = v.pages /\ w.disk[p] = Overflow(i, 0)
  BY <1>4, <1>5, <1>6, WritePageSound
<1>8. w.free = a.free /\ w.next = a.next
  BY <1>4, <1>7 DEF SameList
<1>9. Kept(w, p)
  <2>1. Out(w, p)
    BY <1>2, <1>8 DEF Out, Free
  <2> QED BY <1>7, <2>1 DEF Kept, OnlyAt
<1>10. ASSUME NEW q, Kept(s, q) PROVE Kept(w, q) /\ q # p /\ w.disk[q] = s.disk[q]
  <2>1. Out(a, q) /\ q # p /\ q \in DOMAIN s.disk
    BY <1>2, <1>10 DEF Kept
  <2>2. Out(w, q)
    BY <1>8, <2>1 DEF Out, Free
  <2>3. q \in DOMAIN w.disk /\ w.disk[q] = s.disk[q]
    BY <1>2, <1>4, <1>7, <2>1 DEF OnlyAt
  <2> QED BY <2>1, <2>2, <2>3 DEF Kept
<1>11. w = WritePage(WritePage(AllocatePage(s), p, Overflow(0, 0)), p, Overflow(i, 0))
  BY <1>1, <1>3, <1>5
<1>12. w.next - Len(w.free) = s.next - Len(s.free) + 1
  BY <1>2, <1>8
<1> QED BY <1>1, <1>2, <1>4, <1>7, <1>9, <1>10, <1>11, <1>12

(* One more page at the end of a chain. *)
LEMMA LaidMore ==
  ASSUME NEW s, NEW c, Owned(s, c), c # <<>>, NEW t, NEW p \in Int, p >= FirstFresh, Kept(t, p),
         \A j \in 1..Len(c) : Kept(t, c[j]) /\ c[j] # p,
         t.disk[c[Len(c)]] = Overflow(Len(c), p), t.disk[p] = Overflow(Len(c) + 1, 0),
         \A j \in 1..(Len(c) - 1) : t.disk[c[j]] = s.disk[c[j]]
  PROVE  Owned(t, Append(c, p)) /\ Len(Append(c, p)) = Len(c) + 1
<1>1. PICK d : d = Append(c, p)
  OBVIOUS
<1>2. c \in Seq(Int) /\ Len(c) \in Nat \ {0}
  BY DEF Owned
<1>3. /\ d \in Seq(Int) /\ Len(d) = Len(c) + 1 /\ d[Len(c) + 1] = p
      /\ \A j \in 1..Len(c) : d[j] = c[j]
  BY <1>1, <1>2
<1>4. Distinct(d)
  <2> SUFFICES ASSUME NEW i \in 1..Len(d), NEW j \in 1..Len(d), d[i] = d[j] PROVE i = j
    BY DEF Distinct
  <2>1. \A a, b \in 1..Len(c) : c[a] = c[b] => a = b
    BY DEF Distinct, Owned
  <2>2. (i \in 1..Len(c) \/ i = Len(c) + 1) /\ (j \in 1..Len(c) \/ j = Len(c) + 1)
    BY <1>2, <1>3
  <2> QED BY <1>3, <2>1, <2>2
<1>5. Laid(t.disk, d)
  <2> SUFFICES ASSUME NEW j \in 1..Len(d)
               PROVE  t.disk[d[j]] = Overflow(j, IF j < Len(d) THEN d[j + 1] ELSE 0)
    BY DEF Laid
  <2>1. CASE j = Len(c) + 1
    BY <1>2, <1>3, <2>1
  <2>2. CASE j = Len(c)
    BY <1>2, <1>3, <2>2
  <2>3. CASE j < Len(c)
    <3>1. j \in 1..(Len(c) - 1) /\ j + 1 \in 1..Len(c) /\ j \in 1..Len(c) /\ j < Len(d)
      BY <1>2, <1>3, <2>3
    <3>2. s.disk[c[j]] = Overflow(j, c[j + 1])
      BY <2>3, <3>1 DEF Owned, Laid
    <3> QED BY <1>3, <3>1, <3>2
  <2> QED BY <1>2, <1>3, <2>1, <2>2, <2>3
<1>6. \A j \in 1..Len(d) : Kept(t, d[j]) /\ d[j] >= FirstFresh
  <2> SUFFICES ASSUME NEW j \in 1..Len(d) PROVE Kept(t, d[j]) /\ d[j] >= FirstFresh
    OBVIOUS
  <2>1. CASE j = Len(c) + 1
    BY <1>3, <2>1
  <2>2. CASE j \in 1..Len(c)
    BY <1>3, <2>2 DEF Owned
  <2> QED BY <1>2, <1>3, <2>1, <2>2
<1> QED BY <1>1, <1>3, <1>4, <1>5, <1>6 DEF Owned

LEMMA KeptInt ==
  ASSUME NEW s, Sound(s), NEW p, Kept(s, p) PROVE p \in Int
BY PageBounds DEF Sound, Kept, Out, RootPage, FirstFresh

LEMMA SlackInt ==
  ASSUME NEW s, Sound(s) PROVE s.next \in Int /\ Len(s.free) \in Int
<1>1. s.next \in FirstFresh..(LastPage + 1) /\ s.free \in Seq(FirstFresh..(s.next - 1))
  BY DEF Sound
<1> QED BY <1>1, PageBounds DEF FirstFresh

LEMMA AddLinkSound ==
  ASSUME NEW z, Sound(z), NEW K, NEW n \in Nat, CanAllocate(z, n), NEW s, NEW i \in Nat, i < n,
         Growing(z, K, s, i)
  PROVE  Growing(z, K, AddLink(s, i + 1), i + 1)
<1>0. /\ Sound(s) /\ s.next \in Int /\ Len(s.free) \in Int /\ z.next \in Int /\ Len(z.free) \in Int
      /\ s.next - Len(s.free) <= z.next - Len(z.free) + i
  BY SlackInt DEF Growing
<1>1. CASE ~s.ok
  <2>1. AddLink(s, i + 1) = s
    BY <1>1 DEF AddLink
  <2>2. s.next - Len(s.free) <= z.next - Len(z.free) + (i + 1)
    <3>1. PICK a, b \in Int : a = s.next - Len(s.free) /\ b = z.next - Len(z.free)
      BY <1>0
    <3>2. a <= b + i
      BY <1>0, <3>1
    <3>3. a <= b + (i + 1)
      BY ONLY <3>2, a \in Int, b \in Int, i \in Nat
    <3> QED BY <3>1, <3>3
  <2> QED BY <1>0, <1>1, <2>1, <2>2 DEF Growing
<1>2. CASE s.ok
  <2>1. CanAllocate(s, 1)
    <3>1. z.next + n <= LastPage + 1 + Len(z.free)
      BY DEF CanAllocate
    <3>2. LastPage \in Int
      BY PageBounds
    <3>3. s.next + 1 <= LastPage + 1 + Len(s.free)
      <4>1. PICK a, b, c, d \in Int : a = s.next /\ b = Len(s.free) /\ c = z.next /\ d = Len(z.free)
        BY <1>0
      <4>2. a - b <= c - d + i /\ c + n <= LastPage + 1 + d
        BY <1>0, <3>1, <4>1
      <4>3. a + 1 <= LastPage + 1 + b
        BY ONLY <3>2, <4>2, a \in Int, b \in Int, c \in Int, d \in Int, i \in Nat, n \in Nat, i < n
      <4> QED BY <4>1, <4>3
    <3> QED BY <3>3 DEF CanAllocate
  <2>2. PICK p, w : /\ p = NewPage(s)
                    /\ w = WritePage(WritePage(AllocatePage(s), p, Overflow(0, 0)), p, Overflow(i + 1, 0))
    OBVIOUS
  <2>3. /\ Sound(w) /\ w.ok = s.ok /\ w.pages = s.pages
        /\ w.next - Len(w.free) = s.next - Len(s.free) + 1
        /\ Kept(w, p) /\ p >= FirstFresh /\ ~Out(s, p) /\ w.disk[p] = Overflow(i + 1, 0)
        /\ \A q : Kept(s, q) => Kept(w, q) /\ q # p /\ w.disk[q] = s.disk[q]
    BY <1>0, <2>1, <2>2, TakeSound
  <2>4. PICK c : c = s.pages
    OBVIOUS
  <2>5. Owned(s, c) /\ Len(c) = i /\ (\A j \in 1..Len(c) : c[j] \notin K) /\ c \in Seq(Int)
    BY <1>2, <2>4 DEF Growing, Owned
  <2>6. \A q \in K : Kept(s, q) /\ s.disk[q] = z.disk[q]
    BY DEF Growing
  <2>7. p \notin K /\ p \in Int
    BY <2>3, <2>6, KeptInt DEF Kept
  <2>8. PICK e : e = AddLink(s, i + 1)
    OBVIOUS
  (* What is left to show of the store after the turn. *)
  <2>9. ASSUME NEW x, Sound(x), x.free = w.free, x.next = w.next, SameStore(x, e),
               \A q : Kept(w, q) => Kept(x, q),
               \A q \in K : x.disk[q] = w.disk[q],
               e.ok => /\ Owned(x, e.pages) /\ Len(e.pages) = i + 1
                       /\ \A j \in 1..Len(e.pages) : e.pages[j] = p \/ \E k \in 1..Len(c) : e.pages[j] = c[k]
        PROVE  Growing(z, K, e, i + 1)
    <3>1. Sound(e)
      BY <2>9, SameStoreSound
    <3>2. \A q : Kept(e, q) <=> Kept(x, q)
      BY <2>9 DEF SameStore, Kept, Out, Free
    <3>3. e.next - Len(e.free) <= z.next - Len(z.free) + (i + 1)
      <4>1. e.next = w.next /\ e.free = w.free
        BY <2>9 DEF SameStore
      <4>2. w.next - Len(w.free) <= z.next - Len(z.free) + (i + 1)
        BY <1>0, <2>3
      <4> QED BY <4>1, <4>2
    <3>4. \A q \in K : Kept(e, q) /\ e.disk[q] = z.disk[q]
      BY <2>3, <2>6, <2>9, <3>2 DEF SameStore
    <3>5. ASSUME e.ok
          PROVE  /\ Owned(e, e.pages) /\ Len(e.pages) = i + 1
                 /\ \A j \in 1..Len(e.pages) : e.pages[j] \notin K
      <4>1. Owned(e, e.pages)
        BY <2>9, <3>2, <3>5 DEF Owned, SameStore
      <4> QED BY <2>5, <2>7, <2>9, <3>5, <4>1
    <3> QED BY <3>1, <3>3, <3>4, <3>5 DEF Growing
  <2>10. CASE c = <<>>
    <3>1. i = 0 /\ e = [w EXCEPT !.pages = <<p>>]
      <4>1. i = 0
        BY <2>5, <2>10
      <4>2. s.pages = <<>>
        BY <2>4, <2>10
      <4> QED BY <1>2, <2>2, <2>8, <4>1, <4>2 DEF AddLink
    <3>2. SameStore(w, e) /\ e.pages = <<p>>
      <4>1. IsStore(w)
        BY <2>3 DEF Sound
      <4> QED BY <3>1, <4>1 DEF IsStore, SameStore
    <3>3. Owned(w, <<p>>)
      BY <2>3, <2>7, <3>1 DEF Owned, Distinct, Laid
    <3>4. Owned(w, e.pages) /\ Len(e.pages) = i + 1 /\ \A j \in 1..Len(e.pages) : e.pages[j] = p
      BY <3>1, <3>2, <3>3
    <3> QED BY <2>3, <2>8, <2>9, <3>2, <3>4
  <2>11. CASE c # <<>>
    <3>0. i \in Nat \ {0} /\ Len(c) \in 1..Len(c)
      BY <2>5, <2>11
    <3>1. PICK prev, r : prev = c[Len(c)] /\ r = OverflowIn(w, prev)
      OBVIOUS
    <3>2. Kept(s, prev) /\ Kept(w, prev) /\ prev # p /\ prev \notin K
      BY <2>3, <2>5, <3>0, <3>1 DEF Owned
    <3>3. Sound(r) /\ SameList(w, r) /\ r.disk = w.disk /\ r.pages = w.pages
      BY <2>3, <3>1, <3>2, OverflowSound
    <3>4. \A q : Kept(r, q) <=> Kept(w, q)
      BY <3>3 DEF SameList, Kept, Out, Free
    <3>5. /\ ~r.ok => e = [r EXCEPT !.pages = Append(@, p)]
          /\ r.ok => e = [WritePage(r, prev, Overflow(Content(r, prev).data, p)) EXCEPT !.pages = Append(@, p)]
      <4>1. prev = Last(s.pages) /\ s.pages # <<>>
        BY <2>4, <2>11, <3>1 DEF Last
      <4> QED BY <1>2, <2>2, <2>8, <3>1, <4>1 DEF AddLink
    <3>6. CASE ~r.ok
      <4>1. PICK y : e = [r EXCEPT !.pages = y]
        BY <3>5, <3>6
      <4>2. SameStore(r, e) /\ e.ok = r.ok
        BY <3>3, <4>1, NotedIs DEF Sound
      <4>3. r.free = w.free /\ r.next = w.next
        BY <3>3 DEF SameList
      <4>4. Growing(z, K, e, i + 1)
        BY <2>9, <3>3, <3>4, <3>6, <4>2, <4>3
      <4> QED BY <2>8, <4>4
    <3>7. CASE r.ok
      <4>1. Content(r, prev).data = Len(c)
        <5>1. Content(r, prev) = r.disk[prev]
          BY <3>2, <3>3, <3>4, ReadInSound
        <5>2. s.disk[prev] = Overflow(Len(c), 0)
          BY <2>5, <3>0, <3>1 DEF Owned, Laid
        <5>3. r.disk[prev] = s.disk[prev]
          BY <2>3, <3>2, <3>3
        <5> QED BY <5>1, <5>2, <5>3 DEF Overflow
      <4>2. PICK x : x = WritePage(r, prev, Overflow(Len(c), p))
        OBVIOUS
      <4>3. /\ Sound(x) /\ SameList(r, x) /\ OnlyAt(r, x, prev) /\ x.disk[prev] = Overflow(Len(c), p)
            /\ x.ok = r.ok /\ x.pages = r.pages
        BY <3>2, <3>3, <3>4, <4>2, WritePageSound DEF Kept
      <4>4. e = [x EXCEPT !.pages = Append(c, p)]
        <5>1. e = [x EXCEPT !.pages = Append(@, p)]
          BY <3>5, <3>7, <4>1, <4>2
        <5>2. x.pages = c
          BY <2>3, <2>4, <3>3, <4>3
        <5> QED BY <5>1, <5>2
      <4>5. SameStore(x, e) /\ e.pages = Append(c, p)
        <5>1. IsStore(x)
          BY <4>3 DEF Sound
        <5> QED BY <4>4, <5>1 DEF IsStore, SameStore
      <4>6. x.free = w.free /\ x.next = w.next
        BY <3>3, <4>3 DEF SameList
      <4>7. \A q : Kept(w, q) => Kept(x, q)
        BY <3>3, <4>3, <4>6 DEF OnlyAt, Kept, Out, Free
      <4>8. \A q : Kept(w, q) /\ q # prev => x.disk[q] = w.disk[q]
        BY <3>3, <4>3 DEF OnlyAt, Kept
      <4>9. Owned(x, Append(c, p)) /\ Len(Append(c, p)) = i + 1
        <5>1. \A j \in 1..Len(c) : Kept(s, c[j])
          BY <2>5 DEF Owned
        <5>2. \A j \in 1..Len(c) : Kept(x, c[j]) /\ c[j] # p
          BY <2>3, <4>7, <5>1
        <5>3. x.disk[p] = Overflow(Len(c) + 1, 0) /\ Kept(x, p)
          BY <2>3, <2>5, <3>2, <4>7, <4>8
        <5>4. \A j \in 1..(Len(c) - 1) : x.disk[c[j]] = s.disk[c[j]]
          <6> SUFFICES ASSUME NEW j \in 1..(Len(c) - 1) PROVE x.disk[c[j]] = s.disk[c[j]]
            OBVIOUS
          <6>1. j \in 1..Len(c) /\ j # Len(c)
            BY <3>0
          <6>2. c[j] # prev
            BY <2>5, <3>0, <3>1, <6>1 DEF Owned, Distinct
          <6> QED BY <2>3, <4>8, <5>1, <6>1, <6>2
        <5>5. x.disk[c[Len(c)]] = Overflow(Len(c), p)
          BY <3>1, <4>3
        <5> QED BY <2>3, <2>5, <2>7, <2>11, <5>2, <5>3, <5>4, <5>5, LaidMore
      <4>10. \A j \in 1..Len(e.pages) : e.pages[j] = p \/ \E k \in 1..Len(c) : e.pages[j] = c[k]
        BY <2>5, <2>7, <4>5
      <4>11. \A q \in K : x.disk[q] = w.disk[q]
        BY <2>3, <2>6, <3>2, <4>8
      <4>12. Growing(z, K, e, i + 1)
        BY <2>9, <4>3, <4>5, <4>6, <4>7, <4>9, <4>10, <4>11
      <4> QED BY <2>8, <4>12
    <3> QED BY <3>6, <3>7
  <2> QED BY <2>10, <2>11
<1> QED BY <1>1, <1>2

(* The turns of allocate_overflow_chain, one after the other. *)
LinkedBy(f, s, n) == f = [i \in 0..n |-> IF i = 0 THEN s ELSE AddLink(f[i - 1], i)]

LEMMA LinkedExists ==
  ASSUME NEW s, NEW n \in Nat PROVE \E f : LinkedBy(f, s, n)
<1> DEFINE N == {m \in Nat : \E f : LinkedBy(f, s, m)}
<1>1. 0 \in N
  <2>1. PICK f : f = [i \in 0..0 |-> s]
    OBVIOUS
  <2>2. LinkedBy(f, s, 0)
    BY <2>1 DEF LinkedBy
  <2> QED BY <2>2
<1>2. ASSUME NEW m \in Nat, m \in N PROVE m + 1 \in N
  <2>1. PICK f : LinkedBy(f, s, m)
    BY <1>2
  <2>2. PICK g : g = [i \in 0..(m + 1) |-> IF i = m + 1 THEN AddLink(f[m], m + 1) ELSE f[i]]
    OBVIOUS
  <2>3. \A i \in 0..m : f[i] = IF i = 0 THEN s ELSE AddLink(f[i - 1], i)
    BY <2>1 DEF LinkedBy
  <2>4. ASSUME NEW i \in 0..(m + 1) PROVE g[i] = IF i = 0 THEN s ELSE AddLink(g[i - 1], i)
    <3>1. CASE i = m + 1
      <4>1. g[i] = AddLink(f[m], m + 1) /\ g[i - 1] = f[m] /\ i # 0
        BY <2>2, <3>1
      <4> QED BY <3>1, <4>1
    <3>2. CASE i # m + 1
      <4>1. i \in 0..m /\ g[i] = f[i] /\ (i # 0 => i - 1 \in 0..m /\ g[i - 1] = f[i - 1])
        BY <2>2, <3>2
      <4> QED BY <2>3, <4>1
    <3> QED BY <3>1, <3>2
  <2>5. g = [i \in 0..(m + 1) |-> IF i = 0 THEN s ELSE AddLink(g[i - 1], i)]
    BY <2>2, <2>4
  <2> QED BY <2>5 DEF LinkedBy
<1> HIDE DEF N
<1>3. Nat \subseteq N
  BY <1>1, <1>2, SetInduction
<1> QED BY <1>3 DEF N

LEMMA LinkedIs ==
  ASSUME NEW s, NEW n \in Nat
  PROVE  \E f : /\ f[0] = s /\ Linked(s, n) = f[n]
                /\ \A i \in 0..(n - 1) : f[i + 1] = AddLink(f[i], i + 1)
<1> DEFINE P(f) == LinkedBy(f, s, n)
           turn == CHOOSE f : P(f)
<1>1. \E f : P(f)
  BY LinkedExists
<1> HIDE DEF P
<1>2. P(turn)
  BY <1>1, Zenon
<1>3. Linked(s, n) = turn[n]
  BY DEF Linked, P, LinkedBy
<1>4. PICK f : f = turn
  OBVIOUS
<1>5. \A i \in 0..n : f[i] = IF i = 0 THEN s ELSE AddLink(f[i - 1], i)
  BY <1>2, <1>4 DEF P, LinkedBy
<1>6. f[0] = s
  BY <1>5
<1>7. ASSUME NEW i \in 0..(n - 1) PROVE f[i + 1] = AddLink(f[i], i + 1)
  <2>1. i + 1 \in 0..n /\ i + 1 # 0 /\ (i + 1) - 1 = i
    OBVIOUS
  <2> QED BY <1>5, <2>1
<1> QED BY <1>3, <1>4, <1>6, <1>7

LEMMA LinkedSound ==
  ASSUME NEW z, Sound(z), NEW K, NEW n \in Nat, CanAllocate(z, n), Growing(z, K, z, 0)
  PROVE  Growing(z, K, Linked(z, n), n)
<1>1. PICK f : /\ f[0] = z /\ Linked(z, n) = f[n]
               /\ \A i \in 0..(n - 1) : f[i + 1] = AddLink(f[i], i + 1)
  BY LinkedIs
<1> DEFINE N == {m \in Nat : m <= n => Growing(z, K, f[m], m)}
<1>2. 0 \in N
  BY <1>1
<1>3. ASSUME NEW m \in Nat, m \in N PROVE m + 1 \in N
  <2>1. CASE m + 1 <= n
    <3>1. m < n /\ Growing(z, K, f[m], m) /\ m \in 0..(n - 1)
      BY <1>3, <2>1
    <3>2. Growing(z, K, AddLink(f[m], m + 1), m + 1)
      BY <3>1, AddLinkSound
    <3> QED BY <1>1, <3>1, <3>2
  <2>2. CASE ~(m + 1 <= n)
    BY <2>2
  <2> QED BY <2>1, <2>2
<1> HIDE DEF N
<1>4. Nat \subseteq N
  BY <1>2, <1>3, SetInduction
<1> QED BY <1>1, <1>4 DEF N

(* The pages of a chain visited one after the other. *)
Visit(s, p, frees) == IF frees THEN FreeLink(s, p) ELSE OverflowIn(s, p)
VisitedBy(f, s, w, frees, n) ==
  f = [i \in 0..n |-> IF i = 0 THEN s ELSE Visit(f[i - 1], w[i], frees)]

LEMMA VisitedExists ==
  ASSUME NEW s, NEW w, NEW frees, NEW n \in Nat PROVE \E f : VisitedBy(f, s, w, frees, n)
<1> DEFINE N == {m \in Nat : \E f : VisitedBy(f, s, w, frees, m)}
<1>1. 0 \in N
  <2>1. PICK f : f = [i \in 0..0 |-> s]
    OBVIOUS
  <2>2. VisitedBy(f, s, w, frees, 0)
    BY <2>1 DEF VisitedBy
  <2> QED BY <2>2
<1>2. ASSUME NEW m \in Nat, m \in N PROVE m + 1 \in N
  <2>1. PICK f : VisitedBy(f, s, w, frees, m)
    BY <1>2
  <2>2. PICK g : g = [i \in 0..(m + 1) |-> IF i = m + 1 THEN Visit(f[m], w[m + 1], frees) ELSE f[i]]
    OBVIOUS
  <2>3. \A i \in 0..m : f[i] = IF i = 0 THEN s ELSE Visit(f[i - 1], w[i], frees)
    BY <2>1 DEF VisitedBy
  <2>4. ASSUME NEW i \in 0..(m + 1) PROVE g[i] = IF i = 0 THEN s ELSE Visit(g[i - 1], w[i], frees)
    <3>1. CASE i = m + 1
      <4>1. g[i] = Visit(f[m], w[m + 1], frees) /\ g[i - 1] = f[m] /\ i # 0
        BY <2>2, <3>1
      <4> QED BY <3>1, <4>1
    <3>2. CASE i # m + 1
      <4>1. i \in 0..m /\ g[i] = f[i] /\ (i # 0 => i - 1 \in 0..m /\ g[i - 1] = f[i - 1])
        BY <2>2, <3>2
      <4> QED BY <2>3, <4>1
    <3> QED BY <3>1, <3>2
  <2>5. g = [i \in 0..(m + 1) |-> IF i = 0 THEN s ELSE Visit(g[i - 1], w[i], frees)]
    BY <2>2, <2>4
  <2> QED BY <2>5 DEF VisitedBy
<1> HIDE DEF N
<1>3. Nat \subseteq N
  BY <1>1, <1>2, SetInduction
<1> QED BY <1>3 DEF N

VisitsBy(f, s, w, frees) ==
  /\ f[0] = s /\ Visited(s, w, frees) = f[Len(w)]
  /\ \A i \in 0..(Len(w) - 1) : f[i + 1] = Visit(f[i], w[i + 1], frees)

LEMMA VisitedIs ==
  ASSUME NEW s, NEW w, Len(w) \in Nat, NEW frees
  PROVE  \E f : VisitsBy(f, s, w, frees)
<1> DEFINE P(f) == VisitedBy(f, s, w, frees, Len(w))
           turn == CHOOSE f : P(f)
<1>1. \E f : P(f)
  BY VisitedExists
<1> HIDE DEF P
<1>2. P(turn)
  BY <1>1, Zenon
<1>3. Visited(s, w, frees) = turn[Len(w)]
  BY DEF Visited, P, VisitedBy, Visit
<1>4. PICK f : f = turn
  OBVIOUS
<1>5. \A i \in 0..Len(w) : f[i] = IF i = 0 THEN s ELSE Visit(f[i - 1], w[i], frees)
  BY <1>2, <1>4 DEF P, VisitedBy
<1>6. f[0] = s
  BY <1>5
<1>7. ASSUME NEW i \in 0..(Len(w) - 1) PROVE f[i + 1] = Visit(f[i], w[i + 1], frees)
  <2>1. i + 1 \in 0..Len(w) /\ i + 1 # 0 /\ (i + 1) - 1 = i
    OBVIOUS
  <2> QED BY <1>5, <2>1
<1> QED BY <1>3, <1>4, <1>6, <1>7 DEF VisitsBy

(* t: the store after some visits from z, of which only the pages gone may  *)
(* have been given back.                                                    *)
AfterVisits(z, t, gone) ==
  /\ Sound(t) /\ t.disk = z.disk
  /\ \A q : Out(z, q) /\ q \notin gone => Out(t, q)

LEMMA VisitSound ==
  ASSUME NEW z, NEW s, NEW gone, AfterVisits(z, s, gone), NEW p, Kept(z, p), p \notin gone,
         p >= FirstFresh, NEW frees
  PROVE  /\ AfterVisits(z, Visit(s, p, frees), gone \cup {p})
         /\ ~frees => AfterVisits(z, Visit(s, p, frees), gone)
<1>1. Sound(s) /\ Kept(s, p) /\ s.disk = z.disk
  BY DEF AfterVisits, Kept
<1>2. CASE frees
  <2>1. PICK t : t = FreeLink(s, p)
    OBVIOUS
  <2>2. Sound(t) /\ t.disk = s.disk /\ \A q : Out(s, q) /\ q # p => Out(t, q)
    BY <1>1, <2>1, FreeLinkSound
  <2>3. Visit(s, p, frees) = t
    BY <1>2, <2>1 DEF Visit
  <2> QED BY <1>2, <2>2, <2>3 DEF AfterVisits
<1>3. CASE ~frees
  <2>1. PICK t : t = OverflowIn(s, p)
    OBVIOUS
  <2>2. Sound(t) /\ t.disk = s.disk /\ SameList(s, t)
    BY <1>1, <2>1, OverflowSound
  <2>3. \A q : Out(s, q) => Out(t, q)
    BY <2>2 DEF SameList, Out, Free
  <2>4. Visit(s, p, frees) = t
    BY <1>3, <2>1 DEF Visit
  <2> QED BY <1>3, <2>2, <2>3, <2>4 DEF AfterVisits
<1> QED BY <1>2, <1>3

LEMMA VisitedSound ==
  ASSUME NEW z, Sound(z), NEW w, Owned(z, w), NEW frees
  PROVE  /\ AfterVisits(z, Visited(z, w, frees), {w[j] : j \in 1..Len(w)})
         /\ ~frees => AfterVisits(z, Visited(z, w, frees), {})
<1>0. w \in Seq(Int) /\ Len(w) \in Nat
  BY DEF Owned
<1>1. PICK f : /\ f[0] = z /\ Visited(z, w, frees) = f[Len(w)]
               /\ \A i \in 0..(Len(w) - 1) : f[i + 1] = Visit(f[i], w[i + 1], frees)
  <2>1. \E f : VisitsBy(f, z, w, frees)
    BY <1>0, VisitedIs
  <2> QED BY <2>1 DEF VisitsBy
<1> DEFINE Seen(m) == {w[j] : j \in 1..m}
           Good(m) == AfterVisits(z, f[m], Seen(m)) /\ (~frees => AfterVisits(z, f[m], {}))
           N == {m \in Nat : m <= Len(w) => Good(m)}
<1>2. 0 \in N
  BY <1>1 DEF AfterVisits
<1>3. ASSUME NEW m \in Nat, m \in N PROVE m + 1 \in N
  <2>1. CASE m + 1 <= Len(w)
    <3>1. Good(m) /\ m \in 0..(Len(w) - 1) /\ m + 1 \in 1..Len(w)
      BY <1>0, <1>3, <2>1
    <3>2. PICK p : p = w[m + 1]
      OBVIOUS
    <3>3. Kept(z, p) /\ p >= FirstFresh
      BY <3>1, <3>2 DEF Owned
    <3>4. p \notin Seen(m)
      <4> SUFFICES ASSUME NEW j \in 1..m, w[j] = w[m + 1] PROVE FALSE
        BY <3>2
      <4>1. j \in 1..Len(w) /\ j # m + 1
        BY <1>0, <2>1
      <4> QED BY <3>1, <4>1 DEF Owned, Distinct
    <3>5. AfterVisits(z, Visit(f[m], p, frees), Seen(m) \cup {p})
      BY <3>1, <3>3, <3>4, VisitSound
    <3>6. ~frees => AfterVisits(z, Visit(f[m], p, frees), {})
      <4> SUFFICES ASSUME ~frees PROVE AfterVisits(z, Visit(f[m], p, frees), {})
        OBVIOUS
      <4>1. AfterVisits(z, f[m], {}) /\ p \notin {}
        BY <3>1
      <4> QED BY <3>3, <4>1, VisitSound
    <3>7. Seen(m + 1) = Seen(m) \cup {p}
      BY <3>2
    <3>8. f[m + 1] = Visit(f[m], p, frees)
      BY <1>1, <3>1, <3>2
    <3>9. Good(m + 1)
      BY <3>5, <3>6, <3>7, <3>8
    <3> QED BY <3>9
  <2>2. CASE ~(m + 1 <= Len(w))
    BY <2>2
  <2> QED BY <2>1, <2>2
<1> HIDE DEF N
<1>4. Nat \subseteq N
  BY <1>2, <1>3, SetInduction
<1> HIDE DEF Good
<1>5. Good(Len(w))
  BY <1>0, <1>4 DEF N
<1> QED BY <1>1, <1>5 DEF Good

(* Following the links of a value's pages gives those pages. *)
LEMMA ChainLength ==
  ASSUME NEW z, Sound(z), NEW c, Owned(z, c)
  PROVE  Len(c) \in 0..LastPage
<1>1. /\ c \in Seq(Int) /\ Len(c) \in Nat /\ LastPage \in Nat /\ LastPage >= 2
      /\ z.next \in Int /\ z.next <= LastPage + 1
  BY PageBounds DEF Owned, Sound, FirstFresh
<1>2. \A j \in 1..Len(c) : c[j] \in 2..LastPage
  <2> SUFFICES ASSUME NEW j \in 1..Len(c) PROVE c[j] \in 2..LastPage
    OBVIOUS
  <2>1. c[j] \in 2..(z.next - 1)
    BY DEF Owned, Kept, Out, RootPage
  <2> QED BY <1>1, <2>1
<1>3. PICK S, T : S = 1..Len(c) /\ T = 2..LastPage
  OBVIOUS
<1>4. c \in [S -> T]
  BY <1>1, <1>2, <1>3
<1>5. \A a, b \in S : c[a] = c[b] => a = b
  BY <1>3 DEF Owned, Distinct
<1>6. c \in Injection(S, T)
  BY <1>4, <1>5 DEF Injection, IsInjective
<1>7. IsFiniteSet(T) /\ Cardinality(T) = LastPage - 1
  BY <1>1, <1>3, FS_Interval
<1>8. Cardinality(S) = Len(c)
  <2>1. PICK n \in Nat : n = Len(c)
    BY <1>1
  <2>2. Cardinality(1..n) = IF 1 > n THEN 0 ELSE n - 1 + 1
    BY FS_Interval
  <2>3. Cardinality(1..n) = n
    BY <2>2
  <2> QED BY <1>3, <2>1, <2>3
<1>9. Cardinality(S) <= Cardinality(T)
  BY <1>6, <1>7, FS_Injection
<1> QED BY <1>1, <1>7, <1>8, <1>9

LEMMA FurtherIs ==
  ASSUME NEW z, Sound(z), NEW c, Owned(z, c), NEW m \in 1..Len(c)
  PROVE  Further(z, SubSeq(c, 1, m)) = IF m < Len(c) THEN SubSeq(c, 1, m + 1) ELSE SubSeq(c, 1, m)
<1>0. c \in Seq(Int) /\ Len(c) \in Nat /\ m \in Nat /\ m >= 1 /\ m <= Len(c)
  BY DEF Owned
<1>1. PICK w : w = SubSeq(c, 1, m)
  OBVIOUS
<1>2. w \in Seq(Int) /\ Len(w) = m /\ \A i \in 1..m : w[i] = c[i]
  BY <1>0, <1>1
<1>3. PICK q : q = Content(z, Last(w)).next
  OBVIOUS
<1>4. q = IF m < Len(c) THEN c[m + 1] ELSE 0
  <2>1. Last(w) = c[m]
    BY <1>0, <1>2 DEF Last
  <2>2. Kept(z, c[m])
    BY DEF Owned
  <2>3. Content(z, c[m]) = z.disk[c[m]]
    BY <2>2, ReadInSound
  <2>4. z.disk[c[m]] = Overflow(m, IF m < Len(c) THEN c[m + 1] ELSE 0)
    BY DEF Owned, Laid
  <2> QED BY <1>3, <2>1, <2>3, <2>4 DEF Overflow
<1>5. Further(z, w) = IF q = 0 \/ q \in Range(w) THEN w ELSE Append(w, q)
  BY <1>3 DEF Further
<1>6. CASE m < Len(c)
  <2>1. m + 1 \in 1..Len(c) /\ q = c[m + 1]
    BY <1>0, <1>4, <1>6
  <2>2. q # 0
    BY <2>1 DEF Owned, FirstFresh
  <2>3. q \notin Range(w)
    <3> SUFFICES ASSUME q \in Range(w) PROVE FALSE
      OBVIOUS
    <3>1. PICK i \in DOMAIN w : w[i] = q
      BY DEF Range
    <3>2. i \in 1..m
      BY <1>2, <3>1
    <3>3. c[i] = c[m + 1] /\ i \in 1..Len(c) /\ i # m + 1
      BY <1>0, <1>2, <2>1, <3>1, <3>2
    <3> QED BY <2>1, <3>3 DEF Owned, Distinct
  <2>4. PICK v : v = SubSeq(c, 1, m + 1)
    OBVIOUS
  <2>5. v \in Seq(Int) /\ Len(v) = m + 1 /\ \A i \in 1..(m + 1) : v[i] = c[i]
    BY <1>0, <1>6, <2>4
  <2>6. PICK u : u = Append(w, q)
    OBVIOUS
  <2>7. q \in Int
    BY <1>0, <2>1
  <2>8. u \in Seq(Int) /\ Len(u) = m + 1 /\ u[m + 1] = q /\ \A i \in 1..m : u[i] = w[i]
    BY <1>2, <2>6, <2>7
  <2>9. \A i \in 1..Len(u) : u[i] = v[i]
    <3> SUFFICES ASSUME NEW i \in 1..(m + 1) PROVE u[i] = v[i]
      BY <2>8
    <3>1. CASE i \in 1..m
      BY <1>2, <2>5, <2>8, <3>1
    <3>2. CASE i = m + 1
      BY <2>1, <2>5, <2>8, <3>2
    <3> QED BY <1>0, <3>1, <3>2
  <2>10. u = v
    BY <2>5, <2>8, <2>9, SameSequence
  <2> QED BY <1>1, <1>5, <1>6, <2>2, <2>3, <2>4, <2>6, <2>10
<1>7. CASE m >= Len(c)
  BY <1>0, <1>1, <1>4, <1>5, <1>7
<1> QED BY <1>0, <1>6, <1>7

WalkBy(f, s, p) == f = [i \in 0..LastPage |-> IF i = 0 THEN <<p>> ELSE Further(s, f[i - 1])]

LEMMA WalkIs ==
  ASSUME NEW z, Sound(z), NEW c, Owned(z, c), c # <<>>
  PROVE  Walk(z, c[1]) = c
<1> DEFINE Upto(i) == IF i + 1 <= Len(c) THEN i + 1 ELSE Len(c)
           P(g) == WalkBy(g, z, c[1])
           walk == CHOOSE g : P(g)
<1>0. c \in Seq(Int) /\ Len(c) \in Nat /\ Len(c) >= 1 /\ Len(c) <= LastPage /\ LastPage \in Nat
  <2>1. c \in Seq(Int)
    BY DEF Owned
  <2>2. Len(c) \in 0..LastPage /\ LastPage \in Nat
    BY ChainLength, PageBounds
  <2> QED BY <2>1, <2>2
<1>1. PICK f : f = [i \in 0..LastPage |-> SubSeq(c, 1, Upto(i))]
  OBVIOUS
<1>2. f[0] = <<c[1]>>
  <2>1. Upto(0) = 1
    BY <1>0
  <2>2. f[0] = SubSeq(c, 1, 1)
    BY <1>0, <1>1, <2>1
  <2>3. SubSeq(c, 1, 1) = <<c[1]>>
    <3>1. SubSeq(c, 1, 1) \in Seq(Int) /\ Len(SubSeq(c, 1, 1)) = 1 /\ SubSeq(c, 1, 1)[1] = c[1]
      BY <1>0
    <3>2. <<c[1]>> \in Seq(Int) /\ Len(<<c[1]>>) = 1 /\ <<c[1]>>[1] = c[1]
      BY <1>0
    <3>3. \A i \in 1..1 : SubSeq(c, 1, 1)[i] = <<c[1]>>[i]
      BY <3>1, <3>2
    <3> QED BY <3>1, <3>2, <3>3, SameSequence
  <2> QED BY <2>2, <2>3
<1>3. ASSUME NEW i \in 1..LastPage PROVE f[i] = Further(z, f[i - 1])
  <2>1. i - 1 \in 0..LastPage /\ i \in 0..LastPage /\ Upto(i - 1) \in 1..Len(c)
    BY <1>0
  <2>2. f[i - 1] = SubSeq(c, 1, Upto(i - 1)) /\ f[i] = SubSeq(c, 1, Upto(i))
    BY <1>1, <2>1
  <2>3. PICK m \in 1..Len(c) : m = Upto(i - 1)
    BY <2>1
  <2>4. Upto(i) = IF m < Len(c) THEN m + 1 ELSE m
    BY <1>0, <2>3
  <2> HIDE DEF Upto
  <2>5. Further(z, SubSeq(c, 1, m)) = IF m < Len(c) THEN SubSeq(c, 1, m + 1) ELSE SubSeq(c, 1, m)
    BY FurtherIs
  <2> QED BY <2>2, <2>3, <2>4, <2>5
<1>4. f = [i \in 0..LastPage |-> IF i = 0 THEN <<c[1]>> ELSE Further(z, f[i - 1])]
  <2>1. ASSUME NEW i \in 0..LastPage PROVE f[i] = IF i = 0 THEN <<c[1]>> ELSE Further(z, f[i - 1])
    <3>1. CASE i = 0
      BY <1>2, <3>1
    <3>2. CASE i # 0
      <4>1. i \in 1..LastPage
        BY <1>0, <3>2
      <4> QED BY <1>3, <3>2, <4>1
    <3> QED BY <3>1, <3>2
  <2> HIDE DEF Upto
  <2> QED BY <1>1, <2>1
<1>5. P(f)
  BY <1>4 DEF WalkBy
<1> HIDE DEF P
<1>6. P(walk)
  BY <1>5, Zenon
<1>7. Walk(z, c[1]) = walk[LastPage]
  BY DEF Walk, P, WalkBy
<1>8. PICK g : g = walk
  OBVIOUS
<1>9. \A i \in 0..LastPage : g[i] = IF i = 0 THEN <<c[1]>> ELSE Further(z, g[i - 1])
  BY <1>6, <1>8 DEF P, WalkBy
<1> HIDE DEF walk, Upto
<1> DEFINE N == {m \in Nat : m <= LastPage => g[m] = f[m]}
<1>10. 0 \in N
  BY <1>0, <1>2, <1>9
<1>11. ASSUME NEW m \in Nat, m \in N PROVE m + 1 \in N
  <2>1. CASE m + 1 <= LastPage
    <3>1. m + 1 \in 1..LastPage /\ m + 1 \in 0..LastPage /\ (m + 1) - 1 = m /\ m + 1 # 0 /\ m <= LastPage
      BY <1>0, <2>1
    <3>2. f[m + 1] = Further(z, f[m])
      BY <1>3, <3>1
    <3>3. g[m + 1] = Further(z, g[m])
      BY <1>9, <3>1
    <3> QED BY <1>11, <3>1, <3>2, <3>3
  <2>2. CASE ~(m + 1 <= LastPage)
    BY <2>2
  <2> QED BY <2>1, <2>2
<1> HIDE DEF N
<1>12. Nat \subseteq N
  BY <1>10, <1>11, SetInduction
<1>13. g[LastPage] = f[LastPage]
  BY <1>0, <1>12 DEF N
<1>14. f[LastPage] = c
  <2>1. Upto(LastPage) = Len(c)
    BY <1>0 DEF Upto
  <2>2. f[LastPage] = SubSeq(c, 1, Len(c))
    BY <1>0, <1>1, <2>1
  <2> QED BY <1>0, <2>2
<1> QED BY <1>7, <1>8, <1>13, <1>14

Apart(c, d) == \A i \in 1..Len(c), j \in 1..Len(d) : c[i] # d[j]

(* The inductive invariant, until the file is reopened: the store is sound, *)
(* the tree's pages are out, every value owns its pages, and no two users   *)
(* have one in common.                                                      *)
NodesOut(s, N) == \A p \in N : Kept(s, p)
ChainsOut(s, N, C) ==
  \A c \in C : Owned(s, c) /\ c # <<>> /\ \A j \in 1..Len(c) : c[j] \notin N
AllApart(C) == \A c, d \in C : c = d \/ Apart(c, d)

PageInd ==
  ~reopened => /\ Sound(Store) /\ NodesOut(Store, nodes)
               /\ ChainsOut(Store, nodes, chains) /\ AllApart(chains)

LEMMA OwnedStays ==
  ASSUME NEW s, NEW c, Owned(s, c), NEW t,
         \A j \in 1..Len(c) : Kept(t, c[j]) /\ t.disk[c[j]] = s.disk[c[j]]
  PROVE  Owned(t, c)
BY DEF Owned, Laid

LEMMA IndKeeps ==
  ASSUME NEW t, Sound(t), Becomes(t), NodesOut(t, nodes'), ChainsOut(t, nodes', chains'),
         AllApart(chains')
  PROVE  PageInd'
<1>1. PICK u : u = Store'
  OBVIOUS
<1>2. SameStore(t, u)
  BY <1>1 DEF Store, Becomes, SameStore, IsStore
<1>3. Sound(u)
  BY <1>2, SameStoreSound
<1>4. \A p : (Kept(u, p) <=> Kept(t, p)) /\ u.disk[p] = t.disk[p]
  BY <1>2 DEF SameStore, Kept, Out, Free
<1>5. NodesOut(u, nodes')
  BY <1>4 DEF NodesOut
<1>6. ChainsOut(u, nodes', chains')
  <2> SUFFICES ASSUME NEW c \in chains' PROVE Owned(u, c) /\ c # <<>> /\ \A j \in 1..Len(c) : c[j] \notin nodes'
    BY DEF ChainsOut
  <2>1. Owned(t, c) /\ c # <<>> /\ \A j \in 1..Len(c) : c[j] \notin nodes'
    BY DEF ChainsOut
  <2>2. \A j \in 1..Len(c) : Kept(u, c[j]) /\ u.disk[c[j]] = t.disk[c[j]]
    BY <1>4, <2>1 DEF Owned
  <2> QED BY <2>1, <2>2, OwnedStays
<1> QED BY <1>1, <1>3, <1>5, <1>6 DEF PageInd

(* A value keeps its pages through a step that leaves them. *)
LEMMA ChainsStay ==
  ASSUME NEW s, NEW t, NEW N, NEW M, NEW C, ChainsOut(s, N, C),
         \A p : Kept(s, p) /\ p \notin N => Kept(t, p) /\ t.disk[p] = s.disk[p] /\ p \notin M
  PROVE  ChainsOut(t, M, C)
<1> SUFFICES ASSUME NEW c \in C PROVE Owned(t, c) /\ c # <<>> /\ \A j \in 1..Len(c) : c[j] \notin M
  BY DEF ChainsOut
<1>1. Owned(s, c) /\ c # <<>> /\ \A j \in 1..Len(c) : c[j] \notin N
  BY DEF ChainsOut
<1>2. \A j \in 1..Len(c) : Kept(s, c[j])
  BY <1>1 DEF Owned
<1>3. \A j \in 1..Len(c) : Kept(t, c[j]) /\ t.disk[c[j]] = s.disk[c[j]] /\ c[j] \notin M
  BY <1>1, <1>2
<1> QED BY <1>1, <1>3, OwnedStays

LEMMA ReadNodeKeeps ==
  ASSUME PageInd, ~reopened, NEW p \in nodes, ReadNode(p) PROVE PageInd'
<1>1. PICK s, t : s = Store /\ t = ReadIn(s, p)
  OBVIOUS
<1>2. Sound(s) /\ NodesOut(s, nodes) /\ ChainsOut(s, nodes, chains) /\ AllApart(chains)
  BY <1>1 DEF PageInd
<1>3. Becomes(t) /\ nodes' = nodes /\ chains' = chains
  BY <1>1 DEF ReadNode
<1>4. Kept(s, p)
  BY <1>2 DEF NodesOut
<1>5. Sound(t) /\ SameList(s, t) /\ t.disk = s.disk
  BY <1>1, <1>2, <1>4, ReadInSound
<1>6. \A q : Kept(s, q) => Kept(t, q) /\ t.disk[q] = s.disk[q]
  BY <1>5 DEF SameList, Kept, Out, Free
<1>7. NodesOut(t, nodes)
  BY <1>2, <1>6 DEF NodesOut
<1>8. ChainsOut(t, nodes, chains)
  BY <1>2, <1>6, ChainsStay
<1> QED BY <1>2, <1>3, <1>5, <1>7, <1>8, IndKeeps

LEMMA WriteNodeKeeps ==
  ASSUME PageInd, ~reopened, NEW p \in nodes, NEW d, WriteNode(p, d) PROVE PageInd'
<1>1. PICK s, t : s = Store /\ t = WriteRaw(s, p, Node(d))
  OBVIOUS
<1>2. Sound(s) /\ NodesOut(s, nodes) /\ ChainsOut(s, nodes, chains) /\ AllApart(chains)
  BY <1>1 DEF PageInd
<1>3. Becomes(t) /\ nodes' = nodes /\ chains' = chains
  BY <1>1 DEF WriteNode
<1>4. Kept(s, p) /\ Out(s, p)
  BY <1>2 DEF NodesOut, Kept
<1>5. Sound(t) /\ SameList(s, t) /\ OnlyAt(s, t, p)
  BY <1>1, <1>2, <1>4, WriteRawSound
<1>6. \A q : Kept(s, q) => Kept(t, q) /\ (q # p => t.disk[q] = s.disk[q])
  BY <1>5 DEF SameList, OnlyAt, Kept, Out, Free
<1>7. NodesOut(t, nodes)
  BY <1>2, <1>6 DEF NodesOut
<1>8. ChainsOut(t, nodes, chains)
  BY <1>2, <1>6, ChainsStay
<1> QED BY <1>2, <1>3, <1>5, <1>7, <1>8, IndKeeps

LEMMA SplitNodeKeeps ==
  ASSUME PageInd, ~reopened, NEW d, SplitNode(d) PROVE PageInd'
<1>1. PICK s, a, p, t : s = Store /\ a = AllocatePage(s) /\ p = NewPage(s) /\ t = WriteRaw(a, p, Node(d))
  OBVIOUS
<1>2. Sound(s) /\ NodesOut(s, nodes) /\ ChainsOut(s, nodes, chains) /\ AllApart(chains)
  BY <1>1 DEF PageInd
<1>3. /\ CanAllocate(s, 1) /\ Becomes(t) /\ nodes' \in {nodes, nodes \cup {p}} /\ chains' = chains
  BY <1>1 DEF SplitNode
<1>4. /\ Sound(a) /\ OnlyAt(s, a, p) /\ Out(a, p)
      /\ \A q : Out(s, q) => Out(a, q) /\ q # p
  BY <1>1, <1>2, <1>3, AllocateSound
<1>5. Sound(t) /\ SameList(a, t) /\ OnlyAt(a, t, p)
  BY <1>1, <1>4, WriteRawSound
<1>6. \A q : Kept(s, q) => Kept(t, q) /\ t.disk[q] = s.disk[q] /\ q # p
  <2> SUFFICES ASSUME NEW q, Kept(s, q) PROVE Kept(t, q) /\ t.disk[q] = s.disk[q] /\ q # p
    OBVIOUS
  <2>1. Out(a, q) /\ q # p /\ q \in DOMAIN s.disk
    BY <1>4 DEF Kept
  <2>2. Out(t, q)
    BY <1>5, <2>1 DEF SameList, Out, Free
  <2> QED BY <1>4, <1>5, <2>1, <2>2 DEF OnlyAt, Kept
<1>7. Kept(t, p)
  BY <1>4, <1>5 DEF SameList, OnlyAt, Kept, Out, Free
<1>8. NodesOut(t, nodes')
  BY <1>2, <1>3, <1>6, <1>7 DEF NodesOut
<1>9. ChainsOut(t, nodes', chains)
  <2>1. \A q : Kept(s, q) /\ q \notin nodes => Kept(t, q) /\ t.disk[q] = s.disk[q] /\ q \notin nodes'
    BY <1>3, <1>6
  <2> QED BY <1>2, <2>1, ChainsStay
<1> QED BY <1>2, <1>3, <1>5, <1>8, <1>9, IndKeeps

LEMMA VisitKeeps ==
  ASSUME PageInd, ~reopened, NEW c \in chains, NEW frees,
         Becomes(Visited(Store, Walk(Store, c[1]), frees)), nodes' = nodes,
         chains' = IF frees THEN chains \ {c} ELSE chains
  PROVE  PageInd'
<1>1. PICK s, t, gone : s = Store /\ t = Visited(s, c, frees) /\ gone = {c[j] : j \in 1..Len(c)}
  OBVIOUS
<1>2. Sound(s) /\ NodesOut(s, nodes) /\ ChainsOut(s, nodes, chains) /\ AllApart(chains)
  BY <1>1 DEF PageInd
<1>3. Owned(s, c) /\ c # <<>> /\ \A j \in 1..Len(c) : c[j] \notin nodes
  BY <1>2 DEF ChainsOut
<1>4. Becomes(t)
  <2>1. Walk(s, c[1]) = c
    BY <1>2, <1>3, WalkIs
  <2> QED BY <1>1, <2>1
<1>5. AfterVisits(s, t, gone) /\ (~frees => AfterVisits(s, t, {}))
  BY <1>1, <1>2, <1>3, VisitedSound
<1>6. Sound(t) /\ \A q : Kept(s, q) /\ (frees => q \notin gone) => Kept(t, q) /\ t.disk[q] = s.disk[q]
  BY <1>5 DEF AfterVisits, Kept
<1>7. NodesOut(t, nodes)
  <2>1. \A p \in nodes : p \notin gone
    BY <1>1, <1>3
  <2> QED BY <1>2, <1>6, <2>1 DEF NodesOut
<1>8. ChainsOut(t, nodes, chains')
  <2> SUFFICES ASSUME NEW e \in chains'
               PROVE  Owned(t, e) /\ e # <<>> /\ \A j \in 1..Len(e) : e[j] \notin nodes
    BY DEF ChainsOut
  <2>1. e \in chains /\ (frees => e # c)
    OBVIOUS
  <2>2. Owned(s, e) /\ e # <<>> /\ \A j \in 1..Len(e) : e[j] \notin nodes
    BY <1>2, <2>1 DEF ChainsOut
  <2>3. frees => \A j \in 1..Len(e) : e[j] \notin gone
    BY <1>1, <1>2, <2>1 DEF AllApart, Apart
  <2>4. \A j \in 1..Len(e) : Kept(t, e[j]) /\ t.disk[e[j]] = s.disk[e[j]]
    BY <1>6, <2>2, <2>3 DEF Owned
  <2> QED BY <2>2, <2>4, OwnedStays
<1>9. AllApart(chains')
  BY <1>2 DEF AllApart
<1> QED BY <1>4, <1>6, <1>7, <1>8, <1>9, IndKeeps

LEMMA AllocateChainKeeps ==
  ASSUME PageInd, ~reopened, NEW n \in 1..MaxChain, AllocateChain(n) PROVE PageInd'
<1>1. PICK s, t, K : s = Store /\ t = Linked(s, n) /\ K = Held
  OBVIOUS
<1>2. Sound(s) /\ NodesOut(s, nodes) /\ ChainsOut(s, nodes, chains) /\ AllApart(chains)
  BY <1>1 DEF PageInd
<1>3. /\ CanAllocate(s, n) /\ Becomes(t) /\ nodes' = nodes
      /\ chains' = IF t.ok THEN chains \cup {t.pages} ELSE chains
  BY <1>1 DEF AllocateChain
<1>4. n \in Nat /\ n >= 1
  BY PageBounds
<1>5. \A p \in K : Kept(s, p)
  <2> SUFFICES ASSUME NEW p \in K PROVE Kept(s, p)
    OBVIOUS
  <2>1. CASE p \in nodes
    BY <1>2, <2>1 DEF NodesOut
  <2>2. CASE p \notin nodes
    <3>1. PICK c \in chains : p \in Range(c)
      BY <1>1, <2>2 DEF Held
    <3>2. Owned(s, c)
      BY <1>2 DEF ChainsOut
    <3>3. PICK j \in DOMAIN c : p = c[j]
      BY <3>1 DEF Range
    <3>4. j \in 1..Len(c)
      BY <3>2, <3>3 DEF Owned
    <3> QED BY <3>2, <3>3, <3>4 DEF Owned
  <2> QED BY <2>1, <2>2
<1>6. Growing(s, K, s, 0)
  <2>1. s.pages = <<>>
    BY <1>1 DEF Store
  <2>2. Owned(s, <<>>)
    BY DEF Owned, Distinct, Laid
  <2>3. s.next - Len(s.free) <= s.next - Len(s.free) + 0
    BY <1>2, SlackInt
  <2> QED BY <1>2, <1>5, <2>1, <2>2, <2>3 DEF Growing
<1>7. Growing(s, K, t, n)
  BY <1>1, <1>2, <1>3, <1>4, <1>6, LinkedSound
<1>8. /\ Sound(t) /\ (\A p \in K : Kept(t, p) /\ t.disk[p] = s.disk[p])
      /\ t.ok => /\ Owned(t, t.pages) /\ Len(t.pages) = n
                 /\ \A j \in 1..Len(t.pages) : t.pages[j] \notin K
  BY <1>7 DEF Growing
<1>9. nodes \subseteq K
  BY <1>1 DEF Held
<1>10. NodesOut(t, nodes)
  BY <1>8, <1>9 DEF NodesOut
<1>11. ASSUME NEW c \in chains
       PROVE  Owned(s, c) /\ c # <<>> /\ \A j \in 1..Len(c) : c[j] \notin nodes /\ c[j] \in K
  <2>1. Owned(s, c) /\ c # <<>> /\ \A j \in 1..Len(c) : c[j] \notin nodes
    BY <1>2 DEF ChainsOut
  <2>2. \A j \in 1..Len(c) : c[j] \in Range(c)
    BY <2>1 DEF Range, Owned
  <2> QED BY <1>1, <2>1, <2>2 DEF Held
<1>12. ASSUME NEW c \in chains
       PROVE  Owned(t, c) /\ c # <<>> /\ \A j \in 1..Len(c) : c[j] \notin nodes
  BY <1>8, <1>11, OwnedStays
<1>13. CASE ~t.ok
  <2>1. ChainsOut(t, nodes, chains) /\ chains' = chains
    BY <1>3, <1>12, <1>13 DEF ChainsOut
  <2> QED BY <1>2, <1>3, <1>8, <1>10, <2>1, IndKeeps
<1>14. CASE t.ok
  <2>1. PICK e : e = t.pages
    OBVIOUS
  <2>2. Owned(t, e) /\ Len(e) = n /\ e # <<>> /\ chains' = chains \cup {e} /\ \A j \in 1..Len(e) : e[j] \notin K
    <3>1. Owned(t, e) /\ Len(e) = n /\ chains' = chains \cup {e} /\ \A j \in 1..Len(e) : e[j] \notin K
      BY <1>3, <1>8, <1>14, <2>1
    <3> QED BY <1>4, <3>1
  <2>3. ChainsOut(t, nodes, chains')
    BY <1>9, <1>12, <2>2 DEF ChainsOut
  <2>4. \A c \in chains : Apart(c, e) /\ Apart(e, c)
    BY <1>11, <2>2 DEF Apart
  <2>5. AllApart(chains')
    BY <1>2, <2>2, <2>4 DEF AllApart
  <2> QED BY <1>3, <1>8, <1>10, <2>3, <2>5, IndKeeps
<1> QED BY <1>13, <1>14

LEMMA PageInitInd == PageInit => PageInd
<1> SUFFICES ASSUME PageInit PROVE PageInd
  OBVIOUS
<1>1. PICK s : s = Store
  OBVIOUS
<1>2. /\ IsStore(s) /\ s.next = 3 /\ s.free = <<>> /\ s.cached = s.disk /\ DOMAIN s.disk = {2}
      /\ nodes = {2} /\ chains = {}
  BY <1>1 DEF PageInit, Store, IsStore, RootPage, FirstFresh
<1>3. \A p : Kept(s, p) <=> p = 2
  BY <1>2 DEF Kept, Out, Free, RootPage
<1>4. Sound(s)
  BY <1>2, <1>3, PageBounds DEF Sound, Sorted, FirstFresh
<1> QED BY <1>1, <1>2, <1>3, <1>4 DEF PageInd, NodesOut, ChainsOut, AllApart

LEMMA PageStepInd == PageInd /\ [PageNext]_pageVars => PageInd'
<1> SUFFICES ASSUME PageInd, [PageNext]_pageVars PROVE PageInd'
  OBVIOUS
<1>0. CASE reopened
  <2>1. reopened' = reopened
    BY <1>0 DEF PageNext, pageVars, ReadNode, WriteNode, SplitNode, AllocateChain, FreeChain, ReadChain, Reopen
  <2> QED BY <1>0, <2>1 DEF PageInd
<1>1. CASE UNCHANGED pageVars
  BY <1>1 DEF PageInd, pageVars, Store
<1>2. CASE ~reopened /\ PageNext
  <2>1. ASSUME NEW p \in nodes, ReadNode(p) PROVE PageInd'
    BY <1>2, <2>1, ReadNodeKeeps
  <2>2. ASSUME NEW p \in nodes, NEW d \in NodeData, WriteNode(p, d) PROVE PageInd'
    BY <1>2, <2>2, WriteNodeKeeps
  <2>3. ASSUME NEW d \in NodeData, SplitNode(d) PROVE PageInd'
    BY <1>2, <2>3, SplitNodeKeeps
  <2>4. ASSUME NEW n \in 1..MaxChain, AllocateChain(n) PROVE PageInd'
    BY <1>2, <2>4, AllocateChainKeeps
  <2>5. ASSUME NEW c \in chains, FreeChain(c) PROVE PageInd'
    <3>1. /\ Becomes(Visited(Store, Walk(Store, c[1]), TRUE)) /\ nodes' = nodes
          /\ chains' = IF TRUE THEN chains \ {c} ELSE chains
      BY <2>5 DEF FreeChain
    <3> QED BY <1>2, <3>1, VisitKeeps
  <2>6. ASSUME NEW c \in chains, ReadChain(c) PROVE PageInd'
    <3>1. /\ Becomes(Visited(Store, Walk(Store, c[1]), FALSE)) /\ nodes' = nodes
          /\ chains' = IF FALSE THEN chains \ {c} ELSE chains
      BY <2>6 DEF ReadChain
    <3> QED BY <1>2, <3>1, VisitKeeps
  <2>7. CASE Reopen
    BY <2>7 DEF Reopen, PageInd
  <2> QED BY <1>2, <2>1, <2>2, <2>3, <2>4, <2>5, <2>6, <2>7 DEF PageNext
<1> QED BY <1>0, <1>1, <1>2

LEMMA PageIndWhole == PageInd => PagesWhole
<1> SUFFICES ASSUME PageInd, ~reopened
             PROVE  OneOwner /\ CacheCoherent /\ ChainsWhole
  BY DEF PagesWhole, CacheCoherent, ChainsWhole
<1>1. PICK s : s = Store
  OBVIOUS
<1>2. Sound(s) /\ NodesOut(s, nodes) /\ ChainsOut(s, nodes, chains) /\ AllApart(chains)
  BY <1>1 DEF PageInd
<1>3. s.disk = disk /\ s.cached = cached /\ s.free = free /\ s.next = nextPage
  BY <1>1 DEF Store
<1>4. /\ nextPage \in Int /\ free \in Seq(FirstFresh..(nextPage - 1)) /\ Sorted(free)
  BY <1>2, <1>3, PageBounds DEF Sound, FirstFresh
<1>5. ASSUME NEW c \in chains
      PROVE  Owned(s, c) /\ c # <<>> /\ c \in Seq(Int) /\ Range(c) = {c[j] : j \in 1..Len(c)}
             /\ \A j \in 1..Len(c) : c[j] \notin nodes
  BY <1>2 DEF ChainsOut, Owned, Range
<1>6. ASSUME NEW p \in Held PROVE Kept(s, p)
  <2>1. CASE p \in nodes
    BY <1>2, <2>1 DEF NodesOut
  <2>2. CASE p \notin nodes
    <3>1. PICK c \in chains : p \in Range(c)
      BY <1>6, <2>2 DEF Held
    <3> QED BY <1>5, <3>1 DEF Owned
  <2> QED BY <2>1, <2>2
<1>7. OneOwner
  <2>1. ASSUME NEW p \in Held, p \in Range(free) \cup nextPage..LastPage PROVE FALSE
    <3>1. Kept(s, p)
      BY <1>6, <2>1
    <3>2. p \in RootPage..(nextPage - 1) /\ \A i \in 1..Len(free) : free[i] # p
      BY <1>3, <3>1 DEF Kept, Out, Free
    <3>3. Range(free) = {free[i] : i \in 1..Len(free)}
      BY <1>4 DEF Range
    <3> QED BY <1>4, <2>1, <3>2, <3>3, PageBounds DEF RootPage
  <2>2. \A c \in chains : Range(c) \cap nodes = {}
    BY <1>5
  <2>3. ASSUME NEW c \in chains, NEW d \in chains PROVE c = d \/ Range(c) \cap Range(d) = {}
    <3>1. c = d \/ Apart(c, d)
      BY <1>2 DEF AllApart
    <3> QED BY <1>5, <3>1 DEF Apart
  <2>4. \A i \in 1..(Len(free) - 1) : free[i] < free[i + 1]
    BY <1>4 DEF Sorted
  <2> QED BY <2>1, <2>2, <2>3, <2>4 DEF OneOwner
<1>8. CacheCoherent
  BY <1>2, <1>3 DEF CacheCoherent, Sound
<1>9. ChainsWhole
  <2> SUFFICES ASSUME NEW c \in chains
               PROVE  /\ Walk(s, c[1]) = c
                      /\ \A i \in 1..Len(c) : Content(s, c[i]).kind = "overflow" /\ Content(s, c[i]).data = i
    BY <1>1 DEF ChainsWhole
  <2>1. Walk(s, c[1]) = c
    BY <1>2, <1>5, WalkIs
  <2>2. ASSUME NEW i \in 1..Len(c) PROVE Content(s, c[i]).kind = "overflow" /\ Content(s, c[i]).data = i
    <3>1. Kept(s, c[i])
      BY <1>5 DEF Owned
    <3>2. Content(s, c[i]) = s.disk[c[i]]
      BY <1>2, <3>1, ReadInSound
    <3>3. PICK m : s.disk[c[i]] = Overflow(i, m)
      BY <1>5 DEF Owned, Laid
    <3> QED BY <3>2, <3>3 DEF Overflow
  <2> QED BY <2>1, <2>2
<1> QED BY <1>7, <1>8, <1>9

(* Whatever is allocated, split, linked, read and freed, in any order, on   *)
(* a page cache of any size that refuses what it has no room for, and until *)
(* the file is reopened: no page has two owners, the cache serves what the  *)
(* storage holds, and every value in an overflow chain reads back whole.    *)
THEOREM PagesStayWhole == PageSpec => []PagesWhole
<1> QED BY PageInitInd, PageStepInd, PageIndWhole, PTL DEF PageSpec

-----------------------------------------------------------------------------
(* The prefetch queue: it is kept in falling order of priority, and a      *)
(* request that does not fit pushes out only what is less urgent.          *)

(* Only of two sequences one after the other. *)
LEMMA OnlyConcat ==
  ASSUME NEW S, NEW s \in Seq(S), NEW t \in Seq(S), NEW K
  PROVE  Only(s \o t, K) = Only(s, K) \o Only(t, K)
<1> DEFINE Q == {u \in Seq(S) : Only(s \o u, K) = Only(s, K) \o Only(u, K)}
<1>1. <<>> \in Q
  <2>1. Only(s, K) \in Seq(S)
    BY OnlyType
  <2>2. s \o <<>> = s /\ Only(s, K) \o <<>> = Only(s, K)
    BY <2>1
  <2>3. Only(<<>>, K) = <<>>
    BY OnlyEmpty
  <2>4. Only(s \o <<>>, K) = Only(s, K) \o Only(<<>>, K)
    BY <2>2, <2>3
  <2> QED BY <2>4
<1>2. ASSUME NEW u \in Seq(S), NEW e \in S, u \in Q PROVE Append(u, e) \in Q
  <2>1. PICK a, b, c : a = Only(s, K) /\ b = Only(u, K) /\ c = s \o u
    OBVIOUS
  <2>2. a \in Seq(S) /\ b \in Seq(S) /\ c \in Seq(S) /\ Append(u, e) \in Seq(S)
    <3>1. Only(s, K) \in Seq(S)
      BY OnlyType
    <3>2. Only(u, K) \in Seq(S)
      BY OnlyType
    <3> QED BY <2>1, <3>1, <3>2
  <2>3. Only(c, K) = a \o b
    BY <1>2, <2>1
  <2>4. s \o Append(u, e) = Append(c, e) /\ a \o Append(b, e) = Append(a \o b, e)
    BY <2>1, <2>2
  <2>5. Only(Append(c, e), K) = IF e \in K THEN Append(Only(c, K), e) ELSE Only(c, K)
    BY <2>2, OnlyAppend
  <2>6. Only(Append(u, e), K) = IF e \in K THEN Append(b, e) ELSE b
    BY <2>1, OnlyAppend
  <2>7. Only(s \o Append(u, e), K) = a \o Only(Append(u, e), K)
    BY <2>3, <2>4, <2>5, <2>6
  <2> QED BY <2>1, <2>2, <2>7
<1> HIDE DEF Q
<1>3. Seq(S) \subseteq Q
  BY <1>1, <1>2, SequenceInduction
<1> QED BY <1>3 DEF Q

(* The queue's order: no request stands before a more urgent one. *)
Falls(q) == \A i, j \in 1..Len(q) : i < j => q[i] >= q[j]

LEMMA OnlyWithin ==
  ASSUME NEW S, NEW s \in Seq(S), NEW K, NEW i \in 1..Len(Only(s, K))
  PROVE  \E j \in 1..Len(s) : s[j] = Only(s, K)[i]
<1>1. PICK x : x = Only(s, K)[i]
  OBVIOUS
<1>2. (\E j \in 1..Len(Only(s, K)) : Only(s, K)[j] = x)
        <=> x \in K /\ \E j \in 1..Len(s) : s[j] = x
  BY OnlyElements
<1> QED BY <1>1, <1>2

LEMMA SuffixIs ==
  ASSUME NEW S, NEW s \in Seq(S), NEW k \in 0..Len(s)
  PROVE  \A j \in 1..(Len(s) - k) : SubSeq(s, k + 1, Len(s))[j] = s[k + j]
OBVIOUS

LEMMA OnlyFalls ==
  ASSUME NEW q \in Seq(Int), Falls(q), NEW K
  PROVE  Falls(Only(q, K))
<1> DEFINE Q == {u \in Seq(Int) : Falls(u) => Falls(Only(u, K))}
<1>1. <<>> \in Q
  BY OnlyEmpty DEF Falls
<1>2. ASSUME NEW u \in Seq(Int), NEW e \in Int, u \in Q PROVE Append(u, e) \in Q
  <2> SUFFICES ASSUME Falls(Append(u, e)) PROVE Falls(Only(Append(u, e), K))
    OBVIOUS
  <2>1. PICK v : v = Append(u, e)
    OBVIOUS
  <2>2. Len(u) \in Nat /\ Len(v) = Len(u) + 1 /\ v[Len(u) + 1] = e /\ \A i \in 1..Len(u) : v[i] = u[i]
    BY <2>1
  <2>f. \A i, j \in 1..Len(v) : i < j => v[i] >= v[j]
    BY <2>1 DEF Falls
  <2>3. Falls(u)
    BY <2>2, <2>f DEF Falls
  <2>4. \A i \in 1..Len(u) : u[i] >= e
    <3> SUFFICES ASSUME NEW i \in 1..Len(u) PROVE u[i] >= e
      OBVIOUS
    <3>1. i \in 1..Len(v) /\ Len(u) + 1 \in 1..Len(v) /\ i < Len(u) + 1
      BY <2>2
    <3> QED BY <2>2, <2>f, <3>1
  <2>5. PICK b : b = Only(u, K)
    OBVIOUS
  <2>6. Falls(b) /\ b \in Seq(Int)
    BY <1>2, <2>3, <2>5, OnlyType
  <2>7. \A i \in 1..Len(b) : b[i] >= e
    <3> SUFFICES ASSUME NEW i \in 1..Len(b) PROVE b[i] >= e
      OBVIOUS
    <3>1. PICK x : x = b[i]
      OBVIOUS
    <3>2. \E j \in 1..Len(u) : u[j] = x
      BY <2>5, <3>1, OnlyWithin
    <3> QED BY <2>4, <3>1, <3>2
  <2>8. Only(v, K) = IF e \in K THEN Append(b, e) ELSE b
    BY <2>1, <2>5, OnlyAppend
  <2>9. Falls(Append(b, e))
    <3>1. PICK c : c = Append(b, e)
      OBVIOUS
    <3>2. Len(b) \in Nat /\ Len(c) = Len(b) + 1 /\ c[Len(b) + 1] = e /\ \A i \in 1..Len(b) : c[i] = b[i]
      BY <2>6, <3>1
    <3> SUFFICES ASSUME NEW i \in 1..Len(c), NEW j \in 1..Len(c), i < j PROVE c[i] >= c[j]
      BY <3>1 DEF Falls
    <3>3. i \in 1..Len(b) /\ (j \in 1..Len(b) \/ j = Len(b) + 1)
      <4>1. PICK n \in Nat : n = Len(b) /\ Len(c) = n + 1
        BY <3>2
      <4>2. i \in 1..(n + 1) /\ j \in 1..(n + 1)
        BY <4>1
      <4> QED BY <4>1, <4>2
    <3> QED BY <2>6, <2>7, <3>2, <3>3 DEF Falls
  <2> QED BY <2>1, <2>6, <2>8, <2>9
<1> HIDE DEF Q
<1>3. Seq(Int) \subseteq Q
  BY <1>1, <1>2, SequenceInduction
<1> QED BY <1>3 DEF Q

(* What s \o t is, element by element. *)
Joined(s, t, c, S) ==
  /\ c \in Seq(S) /\ Len(s) \in Nat /\ Len(t) \in Nat /\ Len(c) = Len(s) + Len(t)
  /\ \A i \in 1..Len(s) : c[i] = s[i]
  /\ \A i \in 1..Len(t) : c[Len(s) + i] = t[i]

LEMMA JoinedIs ==
  ASSUME NEW S, NEW s \in Seq(S), NEW t \in Seq(S) PROVE Joined(s, t, s \o t, S)
BY DEF Joined

LEMMA JoinedAt ==
  ASSUME NEW S, NEW s, NEW t, NEW c, Joined(s, t, c, S), NEW i \in 1..Len(c)
  PROVE  \/ i \in 1..Len(s) /\ c[i] = s[i]
         \/ i - Len(s) \in 1..Len(t) /\ c[i] = t[i - Len(s)]
<1>1. PICK m, n \in Nat : m = Len(s) /\ n = Len(t) /\ Len(c) = m + n
  BY DEF Joined
<1>2. i \in 1..m \/ (i - m \in 1..n /\ m + (i - m) = i)
  BY <1>1
<1> QED BY <1>1, <1>2 DEF Joined

LEMMA JoinFalls ==
  ASSUME NEW s \in Seq(Int), NEW t \in Seq(Int), Falls(s), Falls(t),
         \A i \in 1..Len(s), j \in 1..Len(t) : s[i] >= t[j]
  PROVE  Falls(s \o t)
<1>1. PICK c : c = s \o t
  OBVIOUS
<1>2. Joined(s, t, c, Int)
  BY <1>1, JoinedIs
<1> SUFFICES ASSUME NEW i \in 1..Len(c), NEW j \in 1..Len(c), i < j PROVE c[i] >= c[j]
  BY <1>1 DEF Falls
<1>3. PICK m \in Nat : m = Len(s)
  BY <1>2 DEF Joined
<1>4. \/ i \in 1..m /\ c[i] = s[i]
      \/ i - m \in 1..Len(t) /\ c[i] = t[i - m]
  BY <1>2, <1>3, JoinedAt
<1>5. \/ j \in 1..m /\ c[j] = s[j]
      \/ j - m \in 1..Len(t) /\ c[j] = t[j - m]
  BY <1>2, <1>3, JoinedAt
<1>6. CASE i \in 1..m /\ c[i] = s[i]
  <2>1. CASE j \in 1..m /\ c[j] = s[j]
    BY <1>3, <1>6, <2>1 DEF Falls
  <2>2. CASE j - m \in 1..Len(t) /\ c[j] = t[j - m]
    BY <1>3, <1>6, <2>2
  <2> QED BY <1>5, <2>1, <2>2
<1>7. CASE i - m \in 1..Len(t) /\ c[i] = t[i - m]
  <2>0. i \in Int /\ j \in Int /\ i > m
    BY <1>7
  <2>1. j - m \in 1..Len(t) /\ c[j] = t[j - m]
    BY <1>5, <2>0
  <2>2. i - m < j - m
    BY <2>0
  <2> QED BY <1>7, <2>1, <2>2 DEF Falls
<1> QED BY <1>4, <1>6, <1>7

(* How many of a queue's requests are above the lowest priority. *)
Count(q) == Len(Only(q, Urgent))

LEMMA CountIs ==
  ASSUME NEW a \in Seq(Priority), NEW b \in Seq(Priority), NEW r \in Priority
  PROVE  /\ Count(a) \in Nat /\ Count(a \o b) = Count(a) + Count(b)
         /\ Count(<<r>>) = IF r \in Urgent THEN 1 ELSE 0
<1>1. PICK u, v : u = Only(a, Urgent) /\ v = Only(b, Urgent)
  OBVIOUS
<1>2. u \in Seq(Priority) /\ v \in Seq(Priority)
  BY <1>1, OnlyType
<1>3. Only(a \o b, Urgent) = u \o v
  <2>1. Only(a \o b, Urgent) = Only(a, Urgent) \o Only(b, Urgent)
    BY OnlyConcat
  <2> QED BY <1>1, <2>1
<1>4. Count(a) \in Nat /\ Count(a \o b) = Count(a) + Count(b)
  BY <1>1, <1>2, <1>3 DEF Count
<1>5. Only(<<r>>, Urgent) = IF r \in Urgent THEN <<r>> ELSE <<>>
  <2>1. <<>> \in Seq(Priority) /\ <<r>> = Append(<<>>, r)
    OBVIOUS
  <2>2. Only(Append(<<>>, r), Urgent) = IF r \in Urgent THEN Append(Only(<<>>, Urgent), r) ELSE Only(<<>>, Urgent)
    BY <2>1, OnlyAppend
  <2>3. Only(<<>>, Urgent) = <<>>
    BY OnlyEmpty
  <2> QED BY <2>1, <2>2, <2>3
<1>6. Count(<<r>>) = IF r \in Urgent THEN 1 ELSE 0
  BY <1>5 DEF Count
<1> QED BY <1>4, <1>6

(* Where a request is put in: the queue still falls, it is one longer, and  *)
(* no urgent request has gone.                                              *)
LEMMA InsertByPriorityIs ==
  ASSUME NEW q \in Seq(Priority), Falls(q), NEW r \in Priority
  PROVE  LET p == InsertByPriority(q, r) IN
         p \in Seq(Priority) /\ Len(p) = Len(q) + 1 /\ Falls(p) /\ Count(p) >= Count(q)
<1> DEFINE K == {x \in Priority : x >= r}
           L == {x \in Priority : x < r}
<1>0. Priority \subseteq Int /\ r \in Int /\ Seq(Priority) \subseteq Seq(Int)
  BY DEF Priority
<1>1. PICK a, b : a = Only(q, K) /\ b = Only(q, L)
  OBVIOUS
<1>2. a \in Seq(Priority) /\ a \in Seq(Priority \cap K) /\ b \in Seq(Priority) /\ b \in Seq(Priority \cap L)
  BY <1>1, OnlyType
<1>3. Priority \subseteq K \cup L /\ K \cap L \cap Priority = {}
  <2>1. \A x \in Priority : x >= r \/ x < r
    BY <1>0
  <2>2. \A x \in Priority : ~(x >= r /\ x < r)
    BY <1>0
  <2> QED BY <2>1, <2>2
<1>4. Len(a) + Len(b) = Len(q)
  BY <1>1, <1>3, OnlySplit
<1>5. Falls(a) /\ Falls(b)
  BY <1>0, <1>1, OnlyFalls
<1>6. (\A i \in 1..Len(a) : a[i] >= r) /\ (\A i \in 1..Len(b) : b[i] <= r)
  <2>1. ASSUME NEW i \in 1..Len(a) PROVE a[i] >= r
    <3>1. a[i] \in K
      BY <1>2
    <3> QED BY <3>1
  <2>2. ASSUME NEW i \in 1..Len(b) PROVE b[i] <= r
    <3>1. b[i] \in Int /\ b[i] < r
      BY <1>0, <1>2
    <3> QED BY <1>0, <3>1
  <2> QED BY <2>1, <2>2
<1>7. PICK p : p = a \o <<r>> \o b
  OBVIOUS
<1>8. p = InsertByPriority(q, r)
  BY <1>1, <1>7 DEF InsertByPriority
<1>9. p \in Seq(Priority) /\ Len(p) = Len(q) + 1
  <2>1. a \o <<r>> \in Seq(Priority) /\ Len(a \o <<r>>) = Len(a) + 1
    BY <1>2
  <2>2. p \in Seq(Priority) /\ Len(p) = Len(a) + 1 + Len(b)
    BY <1>2, <1>7, <2>1
  <2>3. PICK m, n \in Nat : m = Len(a) /\ n = Len(b)
    BY <1>2
  <2> QED BY <1>4, <2>2, <2>3
<1>10. Falls(p)
  <2>1. a \in Seq(Int) /\ b \in Seq(Int) /\ <<r>> \in Seq(Int) /\ Falls(<<r>>)
    BY <1>0, <1>2 DEF Falls
  <2>2. PICK c : c = a \o <<r>>
    OBVIOUS
  <2>3. Falls(c)
    <3>1. \A i \in 1..Len(a), j \in 1..Len(<<r>>) : a[i] >= <<r>>[j]
      BY <1>6
    <3> QED BY <1>5, <2>1, <2>2, <3>1, JoinFalls
  <2>4. c \in Seq(Int) /\ Len(a) \in Nat /\ Len(c) = Len(a) + 1
        /\ \A i \in 1..Len(c) : c[i] = IF i <= Len(a) THEN a[i] ELSE r
    BY <2>1, <2>2
  <2>5. ASSUME NEW i \in 1..Len(c), NEW j \in 1..Len(b) PROVE c[i] >= b[j]
    <3>1. c[i] \in Int /\ b[j] \in Int /\ b[j] <= r
      BY <1>6, <2>1, <2>4
    <3>2. c[i] >= r
      <4>1. i \in 1..Len(a) \/ c[i] = r
        BY <2>4
      <4>2. CASE i \in 1..Len(a)
        <5>1. c[i] = a[i]
          BY <2>4, <4>2
        <5> QED BY <1>6, <4>2, <5>1
      <4>3. CASE c[i] = r
        BY <1>0, <4>3
      <4> QED BY <4>1, <4>2, <4>3
    <3> QED BY <1>0, <3>1, <3>2
  <2>6. Falls(c \o b)
    BY <1>5, <2>1, <2>3, <2>4, <2>5, JoinFalls
  <2> QED BY <1>7, <2>2, <2>6
<1>11. Count(p) >= Count(q)
  <2>1. PICK u : u = Only(q, Urgent)
    OBVIOUS
  <2>2. u \in Seq(Priority)
    BY <2>1, OnlyType
  <2>3. Len(Only(u, K)) + Len(Only(u, L)) = Len(u)
    BY <1>3, <2>2, OnlySplit
  <2>4. Only(u, K) = Only(q, Urgent \cap K) /\ Only(u, L) = Only(q, Urgent \cap L)
    BY <2>1, OnlyOnly
  <2>5. Only(a, Urgent) = Only(q, K \cap Urgent) /\ Only(b, Urgent) = Only(q, L \cap Urgent)
    BY <1>1, OnlyOnly
  <2>6. K \cap Urgent = Urgent \cap K /\ L \cap Urgent = Urgent \cap L
    OBVIOUS
  <2>7. Count(a) + Count(b) = Count(q)
    BY <2>1, <2>3, <2>4, <2>5, <2>6 DEF Count
  <2>8. PICK c : c = a \o <<r>>
    OBVIOUS
  <2>9. c \in Seq(Priority) /\ <<r>> \in Seq(Priority)
    BY <1>2, <2>8
  <2>10. Count(c) = Count(a) + Count(<<r>>) /\ Count(a) \in Nat /\ Count(b) \in Nat /\ Count(<<r>>) \in {0, 1}
    BY <1>2, <2>8, <2>9, CountIs
  <2>11. Count(p) = Count(c) + Count(b)
    BY <1>2, <1>7, <2>8, <2>9, CountIs
  <2>12. PICK x, y, z \in Nat : x = Count(a) /\ y = Count(b) /\ z = Count(<<r>>)
    BY <2>10
  <2>13. Count(p) = x + z + y /\ Count(q) = x + y
    BY <2>7, <2>10, <2>11, <2>12
  <2> QED BY <2>12, <2>13
<1> QED BY <1>8, <1>9, <1>10, <1>11

LEMMA DropFirstLowIs ==
  ASSUME NEW q \in Seq(Priority), Falls(q), \E i \in 1..Len(q) : q[i] = 0
  PROVE  LET p == DropFirstLow(q) IN
         p \in Seq(Priority) /\ Len(p) = Len(q) - 1 /\ Falls(p) /\ Count(p) = Count(q)
<1> DEFINE First(i) == q[i] = 0 /\ \A j \in 1..(i - 1) : q[j] # 0
           S == {i \in 1..Len(q) : q[i] = 0}
           i == CHOOSE x \in 1..Len(q) : First(x)
<1>0. Len(q) \in Nat /\ S \subseteq Nat /\ S # {} /\ Priority \subseteq Int /\ 0 \in Priority
  BY DEF Priority
<1>1. PICK m \in S : \A n \in S : m <= n
  BY <1>0, Least
<1>2. m \in 1..Len(q) /\ First(m)
  BY <1>0, <1>1
<1>3. DropFirstLow(q) = RemoveAt(q, i)
  BY DEF DropFirstLow
<1> HIDE DEF First
<1>4. i \in 1..Len(q) /\ First(i)
  BY <1>2, Zenon
<1>5. PICK k \in 1..Len(q) : k = i /\ q[k] = 0
  BY <1>4 DEF First
<1> HIDE DEF i
<1>6. PICK a, b, p : a = SubSeq(q, 1, k - 1) /\ b = SubSeq(q, k + 1, Len(q)) /\ p = a \o b
  OBVIOUS
<1>7. p = DropFirstLow(q)
  BY <1>3, <1>5, <1>6, Zenon DEF RemoveAt
<1>n. PICK n \in Nat : n = Len(q) /\ k \in 1..n
  BY <1>0
<1>8. /\ a \in Seq(Priority) /\ Len(a) = k - 1 /\ (\A j \in 1..(k - 1) : a[j] = q[j])
      /\ b \in Seq(Priority) /\ Len(b) = n - k /\ (\A j \in 1..(n - k) : b[j] = q[k + j])
  <2>1. a \in Seq(Priority) /\ Len(a) = k - 1 /\ (\A j \in 1..(k - 1) : a[j] = q[j])
    BY <1>n, <1>6
  <2>2. b \in Seq(Priority) /\ Len(b) = n - k
    BY <1>n, <1>6
  <2>3. \A j \in 1..(n - k) : b[j] = q[k + j]
    <3>1. \A j \in 1..(Len(q) - k) : b[j] = q[k + j]
      <4>1. k \in 0..Len(q)
        BY <1>0
      <4> QED BY <1>6, <4>1, SuffixIs
    <3> QED BY <1>n, <3>1
  <2> QED BY <2>1, <2>2, <2>3
<1>9. Joined(a, b, p, Priority)
  BY <1>6, <1>8, JoinedIs
<1>10. p \in Seq(Priority) /\ Len(p) = Len(q) - 1
  <2>1. p \in Seq(Priority) /\ Len(p) = (k - 1) + (n - k)
    BY <1>8, <1>9 DEF Joined
  <2>2. (k - 1) + (n - k) = n - 1
    BY <1>n
  <2> QED BY <1>n, <2>1, <2>2
<1>f. \A x, y \in 1..n : x < y => q[x] >= q[y]
  BY <1>n DEF Falls
<1>i. Falls(a) /\ Falls(b) /\ \A x \in 1..Len(a), y \in 1..Len(b) : a[x] >= b[y]
  <2>1. ASSUME NEW x \in 1..(k - 1), NEW y \in 1..(k - 1), x < y PROVE a[x] >= a[y]
    <3>1. x \in 1..n /\ y \in 1..n
      BY <1>n
    <3> QED BY <1>8, <1>f, <2>1, <3>1
  <2>2. ASSUME NEW x \in 1..(n - k), NEW y \in 1..(n - k), x < y PROVE b[x] >= b[y]
    <3>1. k + x \in 1..n /\ k + y \in 1..n /\ k + x < k + y
      BY <1>n, <2>2
    <3> QED BY <1>8, <1>f, <3>1
  <2>3. ASSUME NEW x \in 1..(k - 1), NEW y \in 1..(n - k) PROVE a[x] >= b[y]
    <3>1. x \in 1..n /\ k + y \in 1..n /\ x < k + y
      BY <1>n
    <3> QED BY <1>8, <1>f, <3>1
  <2> QED BY <1>8, <2>1, <2>2, <2>3 DEF Falls
<1>t. a \in Seq(Int) /\ b \in Seq(Int)
  BY <1>0, <1>8
<1>11. Falls(p)
  BY <1>6, <1>i, <1>t, JoinFalls
<1>12. Count(p) = Count(q)
  <2>1. PICK c : c = a \o <<0>>
    OBVIOUS
  <2>2. c \in Seq(Priority) /\ <<0>> \in Seq(Priority)
    BY <1>0, <1>8, <2>1
  <2>3. Len(c) = k /\ (\A j \in 1..(k - 1) : c[j] = q[j]) /\ c[k] = 0
    <3>1. Joined(a, <<0>>, c, Priority)
      BY <1>8, <2>1, <2>2, JoinedIs
    <3>2. Len(<<0>>) = 1 /\ <<0>>[1] = 0 /\ 1 \in 1..1 /\ (k - 1) + 1 = k
      BY <1>n
    <3>3. Len(c) = (k - 1) + 1 /\ \A j \in 1..(k - 1) : c[j] = q[j]
      BY <1>8, <3>1, <3>2 DEF Joined
    <3>4. c[(k - 1) + 1] = 0
      BY <1>8, <3>1, <3>2 DEF Joined
    <3> QED BY <3>2, <3>3, <3>4
  <2>4. PICK d : d = c \o b
    OBVIOUS
  <2>5. Joined(c, b, d, Priority)
    BY <1>8, <2>2, <2>4, JoinedIs
  <2>6. d \in Seq(Priority) /\ Len(d) = n
    <3>1. k + (n - k) = n
      BY <1>n
    <3> QED BY <1>8, <2>3, <2>5, <3>1 DEF Joined
  <2>7. ASSUME NEW j \in 1..Len(d) PROVE d[j] = q[j]
    <3>1. \/ j \in 1..k /\ d[j] = c[j]
          \/ j - k \in 1..(n - k) /\ d[j] = b[j - k]
      BY <1>8, <2>3, <2>5, JoinedAt
    <3>2. CASE j \in 1..k /\ d[j] = c[j]
      <4>1. j \in 1..(k - 1) \/ j = k
        BY <1>n, <3>2
      <4> QED BY <1>5, <2>3, <3>2, <4>1
    <3>3. CASE j - k \in 1..(n - k) /\ d[j] = b[j - k]
      <4>1. k + (j - k) = j
        BY <1>n, <2>6
      <4> QED BY <1>8, <3>3, <4>1
    <3> QED BY <3>1, <3>2, <3>3
  <2>8. d = q
    BY <1>n, <2>6, <2>7, SameSequence
  <2>9. Count(c) = Count(a) + Count(<<0>>) /\ Count(a) \in Nat
    BY <1>0, <1>8, <2>1, <2>2, CountIs
  <2>10. Count(<<0>>) = 0
    <3>1. 0 \notin Urgent
      BY DEF Urgent
    <3> QED BY <1>0, <3>1, CountIs
  <2>11. Count(d) = Count(c) + Count(b)
    BY <1>0, <1>8, <2>2, <2>4, CountIs
  <2>12. Count(p) = Count(a) + Count(b)
    BY <1>0, <1>6, <1>8, CountIs
  <2> QED BY <2>8, <2>9, <2>10, <2>11, <2>12
<1> QED BY <1>7, <1>10, <1>11, <1>12
(* The queue's inductive invariant: what it is said to account for, and     *)
(* that it falls.                                                           *)
PrefetchInd ==
  /\ queue \in Seq(Priority) /\ Falls(queue)
  /\ {total, dropped, taken} \subseteq Nat /\ PrefetchAccounted


LEMMA FallsSteps ==
  ASSUME NEW q \in Seq(Priority), Falls(q) PROVE \A i \in 1..Len(q) - 1 : q[i] >= q[i + 1]
<1> SUFFICES ASSUME NEW i \in 1..Len(q) - 1 PROVE q[i] >= q[i + 1]
  OBVIOUS
<1>1. i \in 1..Len(q) /\ i + 1 \in 1..Len(q) /\ i < i + 1
  OBVIOUS
<1> QED BY <1>1 DEF Falls

LEMMA EnqueueKeeps ==
  ASSUME PrefetchInd, NEW r \in Priority, Enqueue(r)
  PROVE  PrefetchInd' /\ taken' = taken /\ Count(queue') >= Count(queue)
<1> DEFINE full == Len(queue) >= QueueCap
           low == \E i \in 1..Len(queue) : queue[i] = 0
<1>0. /\ queue \in Seq(Priority) /\ Falls(queue) /\ Len(queue) \in Nat /\ QueueCap \in Nat \ {0}
      /\ total \in Nat /\ dropped \in Nat /\ taken \in Nat
      /\ total = dropped + taken + Len(queue) /\ queueSize = Len(queue) /\ Len(queue) <= QueueCap
  BY NodeBounds DEF PrefetchInd, PrefetchAccounted
<1>1. total' = total + 1 /\ taken' = taken /\ dropped' = IF full THEN dropped + 1 ELSE dropped
  BY DEF Enqueue
<1>c. Count(queue) \in Nat
  BY <1>0, CountIs
<1>2. CASE full /\ ~low
  <2>1. queue' = queue /\ queueSize' = queueSize
    BY <1>2 DEF Enqueue
  <2>2. PrefetchAccounted'
    BY <1>0, <1>1, <1>2, <2>1 DEF PrefetchAccounted
  <2> QED BY <1>0, <1>1, <1>2, <1>c, <2>1, <2>2 DEF PrefetchInd
<1>3. CASE ~(full /\ ~low)
  <2>1. PICK m, p : m = (IF full THEN DropFirstLow(queue) ELSE queue) /\ p = InsertByPriority(m, r)
    OBVIOUS
  <2>2. queue' = p /\ queueSize' = Len(p)
    BY <1>3, <2>1 DEF Enqueue
  <2>3. /\ m \in Seq(Priority) /\ Falls(m) /\ Count(m) = Count(queue)
        /\ Len(m) = IF full THEN Len(queue) - 1 ELSE Len(queue)
    <3>1. CASE full
      <4>1. m = DropFirstLow(queue) /\ low
        BY <1>3, <2>1, <3>1
      <4>2. m \in Seq(Priority) /\ Len(m) = Len(queue) - 1 /\ Falls(m) /\ Count(m) = Count(queue)
        BY <1>0, <4>1, DropFirstLowIs
      <4> QED BY <3>1, <4>2
    <3>2. CASE ~full
      BY <1>0, <2>1, <3>2
    <3> QED BY <3>1, <3>2
  <2>4. p \in Seq(Priority) /\ Len(p) = Len(m) + 1 /\ Falls(p) /\ Count(p) >= Count(m)
    BY <2>1, <2>3, InsertByPriorityIs
  <2>5. Len(p) = IF full THEN Len(queue) ELSE Len(queue) + 1
    <3>1. PICK n \in Nat : n = Len(queue)
      BY <1>0
    <3> QED BY <2>3, <2>4, <3>1
  <2>6. PrefetchAccounted'
    <3>1. PICK n \in Nat : n = Len(queue)
      BY <1>0
    <3>2. Len(queue') = IF n >= QueueCap THEN n ELSE n + 1
      BY <2>2, <2>5, <3>1
    <3>3. total' = dropped' + taken' + Len(queue')
      BY <1>0, <1>1, <3>1, <3>2
    <3>4. Len(queue') <= QueueCap
      BY <1>0, <3>1, <3>2
    <3> QED BY <2>2, <3>3, <3>4 DEF PrefetchAccounted
  <2>7. {total', dropped', taken'} \subseteq Nat
    BY <1>0, <1>1
  <2> QED BY <1>1, <2>2, <2>3, <2>4, <2>6, <2>7 DEF PrefetchInd
<1> QED BY <1>2, <1>3

LEMMA PrefetchInitInd == PrefetchInit => PrefetchInd
BY NodeBounds DEF PrefetchInit, PrefetchInd, PrefetchAccounted, Falls

LEMMA PrefetchStep ==
  ASSUME PrefetchInd, PrefetchNext
  PROVE  PrefetchInd' /\ (taken' = taken => Count(queue') >= Count(queue))
<1>0. /\ queue \in Seq(Priority) /\ Falls(queue) /\ Len(queue) \in Nat /\ QueueCap \in Nat
      /\ total \in Nat /\ dropped \in Nat /\ taken \in Nat
      /\ total = dropped + taken + Len(queue) /\ queueSize = Len(queue) /\ Len(queue) <= QueueCap
  BY NodeBounds DEF PrefetchInd, PrefetchAccounted
<1>1. ASSUME NEW r \in Priority, Enqueue(r)
      PROVE  PrefetchInd' /\ (taken' = taken => Count(queue') >= Count(queue))
  BY <1>1, EnqueueKeeps
<1>2. CASE Dequeue
  <2>1. PICK q : q = Tail(queue)
    OBVIOUS
  <2>2. queue # <<>> /\ queue' = q /\ queueSize' = Len(q) /\ taken' = taken + 1 /\ total' = total /\ dropped' = dropped
    BY <1>2, <2>1 DEF Dequeue
  <2>3. q \in Seq(Priority) /\ Len(q) = Len(queue) - 1 /\ \A i \in 1..Len(q) : q[i] = queue[i + 1]
    BY <1>0, <2>1, <2>2
  <2>4. Falls(q)
    <3> SUFFICES ASSUME NEW i \in 1..Len(q), NEW j \in 1..Len(q), i < j PROVE q[i] >= q[j]
      BY DEF Falls
    <3>1. i + 1 \in 1..Len(queue) /\ j + 1 \in 1..Len(queue) /\ i + 1 < j + 1
      BY <1>0, <2>3
    <3> QED BY <1>0, <2>3, <3>1 DEF Falls
  <2>5. PrefetchAccounted'
    BY <1>0, <2>2, <2>3 DEF PrefetchAccounted
  <2>6. {total', dropped', taken'} \subseteq Nat /\ taken' # taken
    BY <1>0, <2>2
  <2> QED BY <2>2, <2>3, <2>4, <2>5, <2>6 DEF PrefetchInd
<1>3. CASE ClearQueue
  <2>1. queue' = <<>> /\ queueSize' = 0 /\ taken' = taken + Len(queue) /\ total' = total /\ dropped' = dropped
    BY <1>3 DEF ClearQueue
  <2>2. queue' \in Seq(Priority) /\ Falls(queue') /\ Len(queue') = 0
    BY <2>1 DEF Falls
  <2>3. PrefetchAccounted'
    BY <1>0, <2>1, <2>2 DEF PrefetchAccounted
  <2>4. {total', dropped', taken'} \subseteq Nat
    BY <1>0, <2>1
  <2>5. ASSUME taken' = taken PROVE Count(queue') >= Count(queue)
    <3>1. Len(queue) = 0
      BY <1>0, <2>1, <2>5
    <3>2. queue' = queue
      BY <1>0, <2>1, <3>1
    <3>3. Count(queue) \in Nat
      BY <1>0, CountIs DEF Priority
    <3> QED BY <3>2, <3>3
  <2> QED BY <2>2, <2>3, <2>4, <2>5 DEF PrefetchInd
<1> QED BY <1>1, <1>2, <1>3 DEF PrefetchNext

LEMMA PrefetchStepInd == PrefetchInd /\ [PrefetchNext]_prefetchVars => PrefetchInd'
<1> SUFFICES ASSUME PrefetchInd, [PrefetchNext]_prefetchVars PROVE PrefetchInd'
  OBVIOUS
<1>1. CASE PrefetchNext
  BY <1>1, PrefetchStep
<1>2. CASE UNCHANGED prefetchVars
  BY <1>2 DEF prefetchVars, PrefetchInd, PrefetchAccounted
<1> QED BY <1>1, <1>2

(* For any capacity: every prefetch request is waiting, was taken or is     *)
(* counted as dropped, and the reported size is the queue's.                *)
THEOREM RequestsAccounted == PrefetchSpec => []PrefetchAccounted
<1>1. PrefetchInd => PrefetchAccounted
  BY DEF PrefetchInd
<1> QED BY <1>1, PrefetchInitInd, PrefetchStepInd, PTL DEF PrefetchSpec

(* For any capacity: the most urgent request is first, and a step that      *)
(* takes none from the queue loses no urgent one, a full queue's included.  *)
THEOREM UrgentRequestsStay == PrefetchSpec => UrgentStay
<1> DEFINE Kept1 == /\ \A i \in 1..Len(queue') - 1 : queue'[i] >= queue'[i + 1]
                    /\ taken' = taken => Len(Only(queue', Urgent)) >= Len(Only(queue, Urgent))
<1>1. PrefetchInd /\ [PrefetchNext]_prefetchVars => [Kept1]_prefetchVars
  <2> SUFFICES ASSUME PrefetchInd, PrefetchNext PROVE Kept1
    OBVIOUS
  <2>1. PrefetchInd' /\ (taken' = taken => Count(queue') >= Count(queue))
    BY PrefetchStep
  <2>2. queue' \in Seq(Priority) /\ Falls(queue')
    BY <2>1 DEF PrefetchInd
  <2>3. \A i \in 1..Len(queue') - 1 : queue'[i] >= queue'[i + 1]
    BY <2>2, FallsSteps
  <2> QED BY <2>1, <2>3 DEF Count
<1>2. PrefetchSpec => []PrefetchInd
  BY PrefetchInitInd, PrefetchStepInd, PTL DEF PrefetchSpec
<1>3. PrefetchSpec => [][Kept1]_prefetchVars
  BY <1>1, <1>2, PTL DEF PrefetchSpec
<1> QED BY <1>3 DEF UrgentStay

(***************************************************************************)
(* How far the map may exceed max_entries.  A thread that evicts inserts   *)
(* once it has freed the entries it needs or used up its attempts.  Each   *)
(* hit and each miss of an attempt goes with a removal, its own or that of *)
(* the thread that was faster, so after r removals only the threads        *)
(* Soon(r) can be about to insert.                                         *)
(***************************************************************************)
Evicting == {"pick", "scan", "evict"}
Near(D, p, n, k, v, r) ==
  \/ p = "insert"
  \/ p \in Evicting /\ (n <= r \/ k <= r \/ (p = "evict" /\ v \notin D /\ k <= r + 1))
Soon(D, p, nd, tr, vi, r) == {t \in Threads : Near(D, p[t], nd[t][2], tr[t], vi[t], r)}
Soons(D, p, nd, tr, vi) == [r \in Nat |-> Soon(D, p, nd, tr, vi, r)]
Fits(c, A) == \A r \in Nat : c + Cardinality(A[r]) <= MaxEntries + Cardinality(Threads) - 1 + r

OverTypes ==
  /\ DOMAIN need = Threads /\ DOMAIN tries = Threads /\ DOMAIN victim = Threads
  /\ \A t \in Threads : /\ need[t][2] \in Nat /\ tries[t] \in Nat
                        /\ pc[t] \in Evicting => tries[t] >= 1
OverInd ==
  /\ OverTypes
  /\ Cardinality(Threads) <= MaxEntries =>
       Fits(count, Soons(DOMAIN entries, pc, need, tries, victim))

LEMMA ThreadCount ==
  /\ IsFiniteSet(Threads) /\ Cardinality(Threads) \in Nat /\ MaxEntries \in Nat /\ MaxEntries >= 1
BY ShardBounds, FS_CardinalityType

LEMMA SomeThreads ==
  ASSUME NEW A, A \subseteq Threads, NEW B, B \subseteq A
  PROVE  Cardinality(A) \in Nat /\ Cardinality(B) \in Nat /\ Cardinality(B) <= Cardinality(A)
         /\ Cardinality(A) <= Cardinality(Threads)
<1>1. IsFiniteSet(A) /\ IsFiniteSet(B) /\ Cardinality(A) <= Cardinality(Threads)
  BY ThreadCount, FS_Subset
<1> QED BY <1>1, FS_Subset, FS_CardinalityType

Family == [Nat -> SUBSET Threads]

(* Threads that insert, step back or wait longer.                          *)
LEMMA FitsLess ==
  ASSUME NEW c \in Nat, NEW A \in Family, Fits(c, A), NEW B \in Family, NEW d \in Nat, d <= c,
         \A r \in Nat : B[r] \subseteq A[r]
  PROVE  Fits(d, B)
<1> SUFFICES ASSUME NEW r \in Nat
             PROVE  d + Cardinality(B[r]) <= MaxEntries + Cardinality(Threads) - 1 + r
  BY DEF Fits
<1>1. A[r] \subseteq Threads /\ B[r] \subseteq A[r]
  BY DEF Family
<1>2. Cardinality(A[r]) \in Nat /\ Cardinality(B[r]) \in Nat /\ Cardinality(B[r]) <= Cardinality(A[r])
  BY <1>1, SomeThreads
<1>3. c + Cardinality(A[r]) <= MaxEntries + Cardinality(Threads) - 1 + r
  BY DEF Fits
<1> QED BY <1>2, <1>3, ThreadCount

(* A removal brings every thread one removal nearer, at most.              *)
LEMMA FitsRemove ==
  ASSUME NEW c \in Nat, NEW A \in Family, Fits(c, A), NEW B \in Family, NEW d \in Nat, d <= c - 1,
         \A r \in Nat : B[r] \subseteq A[r + 1]
  PROVE  Fits(d, B)
<1> SUFFICES ASSUME NEW r \in Nat
             PROVE  d + Cardinality(B[r]) <= MaxEntries + Cardinality(Threads) - 1 + r
  BY DEF Fits
<1>0. r + 1 \in Nat
  OBVIOUS
<1>1. A[r + 1] \subseteq Threads /\ B[r] \subseteq A[r + 1]
  BY <1>0 DEF Family
<1>2. Cardinality(A[r + 1]) \in Nat /\ Cardinality(B[r]) \in Nat /\ Cardinality(B[r]) <= Cardinality(A[r + 1])
  BY <1>1, SomeThreads
<1>3. c + Cardinality(A[r + 1]) <= MaxEntries + Cardinality(Threads) - 1 + (r + 1)
  BY <1>0 DEF Fits
<1> QED BY <1>2, <1>3, ThreadCount

(* A thread that inserts was about to.                                     *)
LEMMA FitsInsert ==
  ASSUME NEW c \in Nat, NEW A \in Family, Fits(c, A), NEW B \in Family, NEW t \in Threads,
         \A r \in Nat : t \in A[r] /\ B[r] \subseteq A[r] \ {t}
  PROVE  Fits(c + 1, B)
<1> SUFFICES ASSUME NEW r \in Nat
             PROVE  (c + 1) + Cardinality(B[r]) <= MaxEntries + Cardinality(Threads) - 1 + r
  BY DEF Fits
<1>1. A[r] \subseteq Threads /\ B[r] \subseteq A[r] \ {t} /\ t \in A[r]
  BY DEF Family
<1>2. IsFiniteSet(A[r]) /\ Cardinality(A[r]) \in Nat
  BY <1>1, SomeThreads, ThreadCount, FS_Subset
<1>3. Cardinality(A[r] \ {t}) = Cardinality(A[r]) - 1
  BY <1>1, <1>2, FS_RemoveElement
<1>4. Cardinality(B[r]) \in Nat /\ Cardinality(B[r]) <= Cardinality(A[r] \ {t})
  <2>1. A[r] \ {t} \subseteq Threads
    BY <1>1
  <2> QED BY <1>1, <2>1, SomeThreads
<1>5. c + Cardinality(A[r]) <= MaxEntries + Cardinality(Threads) - 1 + r
  BY DEF Fits
<1> QED BY <1>2, <1>3, <1>4, <1>5, ThreadCount

(* A thread that checks adds itself where the count leaves room for all.   *)
LEMMA FitsCheck ==
  ASSUME NEW c \in Nat, NEW A \in Family, Fits(c, A), NEW B \in Family,
         \A r \in Nat : B[r] \subseteq A[r] \/ c <= MaxEntries - 1 + r
  PROVE  Fits(c, B)
<1> SUFFICES ASSUME NEW r \in Nat
             PROVE  c + Cardinality(B[r]) <= MaxEntries + Cardinality(Threads) - 1 + r
  BY DEF Fits
<1>1. CASE B[r] \subseteq A[r]
  <2>1. A[r] \subseteq Threads
    BY DEF Family
  <2>2. Cardinality(A[r]) \in Nat /\ Cardinality(B[r]) \in Nat /\ Cardinality(B[r]) <= Cardinality(A[r])
    BY <1>1, <2>1, SomeThreads
  <2>3. c + Cardinality(A[r]) <= MaxEntries + Cardinality(Threads) - 1 + r
    BY DEF Fits
  <2> QED BY <2>2, <2>3, ThreadCount
<1>2. CASE c <= MaxEntries - 1 + r
  <2>1. B[r] \subseteq Threads
    BY DEF Family
  <2>2. Cardinality(B[r]) \in Nat /\ Cardinality(B[r]) <= Cardinality(Threads)
    BY <2>1, SomeThreads
  <2> QED BY <1>2, <2>2, ThreadCount
<1> QED BY <1>1, <1>2

LEMMA OverInitial == ShardInit => OverInd
<1> SUFFICES ASSUME ShardInit PROVE OverInd
  OBVIOUS
<1>1. OverTypes
  BY DEF ShardInit, OverTypes, Evicting
<1>2. ASSUME NEW r \in Nat PROVE Soons(DOMAIN entries, pc, need, tries, victim)[r] = {}
  BY DEF ShardInit, Soons, Soon, Near, Evicting
<1>3. Fits(count, Soons(DOMAIN entries, pc, need, tries, victim))
  <2>1. Cardinality({}) = 0 /\ count = 0
    BY FS_EmptySet DEF ShardInit
  <2>2. PICK A : A = Soons(DOMAIN entries, pc, need, tries, victim)
    OBVIOUS
  <2>3. ASSUME NEW r \in Nat PROVE Cardinality(A[r]) = 0
    BY <1>2, <2>1, <2>2
  <2>4. \A r \in Nat : 0 + 0 <= MaxEntries + Cardinality(Threads) - 1 + r
    BY ThreadCount
  <2> QED BY <2>1, <2>2, <2>3, <2>4 DEF Fits
<1> QED BY <1>1, <1>3 DEF OverInd

LEMMA SoonsIs ==
  ASSUME NEW D, NEW p, NEW nd, NEW tr, NEW vi
  PROVE  /\ Soons(D, p, nd, tr, vi) \in Family
         /\ \A r \in Nat, t \in Threads :
              t \in Soons(D, p, nd, tr, vi)[r] <=> Near(D, p[t], nd[t][2], tr[t], vi[t], r)
<1>1. \A r \in Nat : Soon(D, p, nd, tr, vi, r) \subseteq Threads
  BY DEF Soon
<1> QED BY <1>1 DEF Soons, Soon, Family

(* What a step does with one thread while the others stay as they are.     *)
Others(t) == \A u \in Threads \ {t} : pc'[u] = pc[u] /\ need'[u] = need[u] /\ tries'[u] = tries[u]
                                        /\ victim'[u] = victim[u]
NearNow(t, r)  == Near(DOMAIN entries, pc[t], need[t][2], tries[t], victim[t], r)
NearThen(t, r) == Near(DOMAIN entries', pc'[t], need'[t][2], tries'[t], victim'[t], r)

LEMMA OverStays ==
  ASSUME ShardInd, OverInd, OverTypes', count' \in Nat, count' <= count, DOMAIN entries \subseteq DOMAIN entries',
         NEW t \in Threads, Others(t), \A r \in Nat : NearThen(t, r) => NearNow(t, r)
  PROVE  OverInd'
<1> SUFFICES ASSUME Cardinality(Threads) <= MaxEntries
             PROVE  Fits(count', Soons(DOMAIN entries', pc', need', tries', victim'))
  BY DEF OverInd
<1>1. PICK A : A = Soons(DOMAIN entries, pc, need, tries, victim)
  OBVIOUS
<1>2. PICK B : B = Soons(DOMAIN entries', pc', need', tries', victim')
  OBVIOUS
<1>3. /\ A \in Family /\ B \in Family
      /\ \A r \in Nat, u \in Threads : (u \in A[r] <=> NearNow(u, r)) /\ (u \in B[r] <=> NearThen(u, r))
  BY <1>1, <1>2, SoonsIs DEF NearNow, NearThen
<1>4. ASSUME NEW r \in Nat, NEW u \in Threads \ {t}, NearThen(u, r) PROVE NearNow(u, r)
  BY <1>4 DEF Others, NearNow, NearThen, Near
<1>5. \A r \in Nat : B[r] \subseteq A[r]
  BY <1>3, <1>4 DEF Family
<1>6. count \in Nat /\ Fits(count, A)
  BY <1>1 DEF ShardInd, ShardTypeOK, OverInd
<1>7. Fits(count', B)
  BY <1>3, <1>5, <1>6, FitsLess
<1> QED BY <1>2, <1>7

LEMMA OverRemoves ==
  ASSUME ShardInd, OverInd, OverTypes', count' \in Nat, count' <= count - 1,
         NEW t \in Threads, Others(t), \A r \in Nat : NearThen(t, r) => NearNow(t, r + 1)
  PROVE  OverInd'
<1> SUFFICES ASSUME Cardinality(Threads) <= MaxEntries
             PROVE  Fits(count', Soons(DOMAIN entries', pc', need', tries', victim'))
  BY DEF OverInd
<1>1. PICK A : A = Soons(DOMAIN entries, pc, need, tries, victim)
  OBVIOUS
<1>2. PICK B : B = Soons(DOMAIN entries', pc', need', tries', victim')
  OBVIOUS
<1>3. /\ A \in Family /\ B \in Family
      /\ \A r \in Nat, u \in Threads : (u \in A[r] <=> NearNow(u, r)) /\ (u \in B[r] <=> NearThen(u, r))
  BY <1>1, <1>2, SoonsIs DEF NearNow, NearThen
<1>4. ASSUME NEW r \in Nat, NEW u \in Threads \ {t}, NearThen(u, r) PROVE NearNow(u, r + 1)
  <2>1. need[u][2] \in Nat /\ tries[u] \in Nat
    BY DEF OverInd, OverTypes
  <2>2. pc'[u] = pc[u] /\ need'[u] = need[u] /\ tries'[u] = tries[u]
    BY DEF Others
  <2>3. \A n \in Nat : (n <= r => n <= r + 1) /\ (n <= r + 1 => n <= r + 1)
    OBVIOUS
  <2> QED BY <1>4, <2>1, <2>2, <2>3 DEF NearNow, NearThen, Near
<1>5. ASSUME NEW r \in Nat PROVE B[r] \subseteq A[r + 1]
  <2>1. r + 1 \in Nat
    OBVIOUS
  <2> QED BY <1>3, <1>4, <2>1 DEF Family
<1>6. count \in Nat /\ Fits(count, A)
  BY <1>1 DEF ShardInd, ShardTypeOK, OverInd
<1>7. Fits(count', B)
  BY <1>3, <1>5, <1>6, FitsRemove
<1> QED BY <1>2, <1>7

LEMMA OverInserts ==
  ASSUME ShardInd, OverInd, NEW t \in Threads, PutInsert(t)
  PROVE  OverInd'
<1>0. /\ pc \in [Threads -> Steps] /\ count \in Nat /\ DOMAIN entries \subseteq DOMAIN entries'
      /\ count' = count + 1 /\ pc[t] = "insert" /\ pc'[t] \in {"track", "idle"} /\ Others(t)
  BY DEF ShardInd, ShardTypeOK, PutInsert, With, Goto, Others, putVars
<1>t. OverTypes'
  BY <1>0 DEF OverInd, OverTypes, Others, Evicting, PutInsert, putVars
<1> SUFFICES ASSUME Cardinality(Threads) <= MaxEntries
             PROVE  Fits(count', Soons(DOMAIN entries', pc', need', tries', victim'))
  BY <1>t DEF OverInd
<1>1. PICK A : A = Soons(DOMAIN entries, pc, need, tries, victim)
  OBVIOUS
<1>2. PICK B : B = Soons(DOMAIN entries', pc', need', tries', victim')
  OBVIOUS
<1>3. /\ A \in Family /\ B \in Family
      /\ \A r \in Nat, u \in Threads : (u \in A[r] <=> NearNow(u, r)) /\ (u \in B[r] <=> NearThen(u, r))
  BY <1>1, <1>2, SoonsIs DEF NearNow, NearThen
<1>4. ASSUME NEW r \in Nat, NEW u \in Threads \ {t}, NearThen(u, r) PROVE NearNow(u, r)
  BY <1>0, <1>4 DEF Others, NearNow, NearThen, Near
<1>5. \A r \in Nat : NearNow(t, r) /\ ~NearThen(t, r)
  BY <1>0 DEF NearNow, NearThen, Near, Evicting
<1>6. \A r \in Nat : t \in A[r] /\ B[r] \subseteq A[r] \ {t}
  BY <1>3, <1>4, <1>5 DEF Family
<1>7. Fits(count, A)
  BY <1>1 DEF OverInd
<1>8. Fits(count + 1, B)
  BY <1>0, <1>3, <1>6, <1>7, FitsInsert
<1> QED BY <1>0, <1>2, <1>8

LEMMA OverChecks ==
  ASSUME ShardInd, OverInd, NEW t \in Threads, PutCheck(t)
  PROVE  OverInd'
<1> DEFINE n == Over(count + 1, MaxEntries)
<1>0. /\ pc \in [Threads -> Steps] /\ count \in Nat /\ count' = count /\ entries' = entries
      /\ pc[t] = "check" /\ victim' = victim
  BY DEF ShardInd, ShardTypeOK, PutCheck
<1>1. /\ DOMAIN need = Threads /\ DOMAIN tries = Threads /\ DOMAIN victim = Threads
      /\ \A u \in Threads : /\ need[u][2] \in Nat /\ tries[u] \in Nat
                            /\ pc[u] \in Evicting => tries[u] >= 1
  BY DEF OverInd, OverTypes
<1>2. /\ Others(t) /\ need'[t][2] = n /\ tries'[t] = MaxEntries /\ pc'[t] \in {"insert", "pick"}
      /\ DOMAIN need' = Threads /\ DOMAIN tries' = Threads
      /\ pc'[t] = "insert" => n = 0
  BY <1>0, <1>1 DEF PutCheck, Goto, Others
<1>3. n \in Nat /\ \A r \in Nat : n <= r => count <= MaxEntries - 1 + r
  BY <1>0, ThreadCount DEF Over
<1> HIDE DEF n
<1>t. OverTypes'
  BY <1>0, <1>1, <1>2, <1>3, ThreadCount DEF OverTypes, Others
<1> SUFFICES ASSUME Cardinality(Threads) <= MaxEntries
             PROVE  Fits(count', Soons(DOMAIN entries', pc', need', tries', victim'))
  BY <1>t DEF OverInd
<1>4. PICK A : A = Soons(DOMAIN entries, pc, need, tries, victim)
  OBVIOUS
<1>5. PICK B : B = Soons(DOMAIN entries', pc', need', tries', victim')
  OBVIOUS
<1>6. /\ A \in Family /\ B \in Family
      /\ \A r \in Nat, u \in Threads : (u \in A[r] <=> NearNow(u, r)) /\ (u \in B[r] <=> NearThen(u, r))
  BY <1>4, <1>5, SoonsIs DEF NearNow, NearThen
<1>7. Fits(count, A)
  BY <1>4 DEF OverInd
<1>8. count <= MaxEntries - 1 + MaxEntries
  <2>1. A[0] \subseteq Threads /\ count + Cardinality(A[0]) <= MaxEntries + Cardinality(Threads) - 1 + 0
    BY <1>6, <1>7 DEF Fits, Family
  <2>2. Cardinality(A[0]) \in Nat
    BY <2>1, SomeThreads
  <2> QED BY <1>0, <2>1, <2>2, ThreadCount
<1>9. ASSUME NEW r \in Nat, NEW u \in Threads \ {t}, NearThen(u, r) PROVE NearNow(u, r)
  BY <1>0, <1>2, <1>9 DEF Others, NearNow, NearThen, Near
<1>10. ASSUME NEW r \in Nat, NearThen(t, r) PROVE count <= MaxEntries - 1 + r
  <2>1. n <= r \/ MaxEntries <= r
    BY <1>2, <1>3, <1>10 DEF NearThen, Near, Evicting
  <2> QED BY <1>0, <1>3, <1>8, <2>1, ThreadCount
<1>11. \A r \in Nat : B[r] \subseteq A[r] \/ count <= MaxEntries - 1 + r
  BY <1>6, <1>9, <1>10 DEF Family
<1>12. Fits(count, B)
  BY <1>0, <1>6, <1>7, <1>11, FitsCheck
<1> QED BY <1>0, <1>5, <1>12

(* Steps outside put's eviction: the thread neither was nor is near.       *)
LEMMA OverApart ==
  ASSUME ShardInd, OverInd, NEW t \in Threads, count' = count, DOMAIN entries' = DOMAIN entries,
         need' = need, tries' = tries, victim' = victim,
         pc' = pc \/ \E s \in Steps \ (Evicting \cup {"insert"}) : pc' = [pc EXCEPT ![t] = s]
  PROVE  OverInd'
<1>1. pc \in [Threads -> Steps] /\ count \in Nat
  BY DEF ShardInd, ShardTypeOK
<1>2. OverTypes' /\ Others(t)
  BY <1>1 DEF OverInd, OverTypes, Others
<1>3. \A r \in Nat : NearThen(t, r) => NearNow(t, r)
  BY <1>1 DEF NearThen, NearNow, Near
<1> QED BY <1>1, <1>2, <1>3, OverStays

LEMMA OverEvicts ==
  ASSUME ShardInd, OverInd, NEW t \in Threads, EvictRemove(t)
  PROVE  OverInd'
<1>0. /\ pc \in [Threads -> Steps] /\ count \in Nat /\ count >= Cardinality(DOMAIN entries)
      /\ pc[t] = "evict" /\ victim' = victim /\ DOMAIN entries' = DOMAIN entries \ {victim[t]}
  BY DEF ShardInd, ShardTypeOK, CountersCover, EvictRemove, Without
<1>1. /\ DOMAIN need = Threads /\ DOMAIN tries = Threads /\ DOMAIN victim = Threads
      /\ \A u \in Threads : /\ need[u][2] \in Nat /\ tries[u] \in Nat
                            /\ pc[u] \in Evicting => tries[u] >= 1
  BY DEF OverInd, OverTypes
<1>2. Others(t) /\ DOMAIN need' = Threads /\ DOMAIN tries' = Threads
  BY <1>0, <1>1 DEF EvictRemove, Goto, Others
<1>3. PICK n \in Nat, k \in Nat : n = need[t][2] /\ k = tries[t]
  BY <1>1
<1>6. k >= 1
  BY <1>0, <1>1, <1>3 DEF Evicting
<1>4. CASE victim[t] \in DOMAIN entries
  <2>1. count' = count - 1 /\ count' \in Nat
    BY <1>4, ShardStepInd DEF EvictRemove, ShardInd, ShardTypeOK, ShardNext
  <2>2. Over(n, 1) \in Nat /\ (Over(n, 1) = 0 => n <= 1) /\ (n <= 1 => Over(n, 1) = 0)
        /\ \A r \in Nat : Over(n, 1) <= r => n <= r + 1
    BY DEF Over
  <2>3. \/ pc'[t] = "insert" /\ (Over(n, 1) = 0 \/ k = 1) /\ need'[t] = <<0, 0>> /\ tries'[t] = 0
        \/ pc'[t] = "pick" /\ k # 1 /\ need'[t][2] = Over(n, 1) /\ tries'[t] = k - 1
    BY <1>0, <1>1, <1>3, <1>4 DEF EvictRemove, Goto
  <2>t. OverTypes'
    <3>1. ASSUME NEW u \in Threads \ {t}
          PROVE  need'[u][2] \in Nat /\ tries'[u] \in Nat /\ (pc'[u] \in Evicting => tries'[u] >= 1)
      BY <1>1, <1>2 DEF Others
    <3>2. need'[t][2] \in Nat /\ tries'[t] \in Nat /\ (pc'[t] \in Evicting => tries'[t] >= 1)
      BY <1>6, <2>2, <2>3 DEF Evicting
    <3> QED BY <1>0, <1>1, <1>2, <3>1, <3>2 DEF OverTypes
  <2>4. ASSUME NEW r \in Nat, NearThen(t, r) PROVE NearNow(t, r + 1)
    <3>1. n <= r + 1 \/ k <= r + 1
      BY <2>2, <2>3, <2>4 DEF NearThen, Near, Evicting
    <3> QED BY <1>0, <1>3, <3>1 DEF NearNow, Near, Evicting
  <2> QED BY <1>0, <1>2, <2>1, <2>t, <2>4, OverRemoves
<1>5. CASE victim[t] \notin DOMAIN entries
  <2>1. count' = count /\ DOMAIN entries' = DOMAIN entries
    BY <1>0, <1>5 DEF EvictRemove
  <2>3. \/ pc'[t] = "insert" /\ (n = 0 \/ k = 1) /\ need'[t] = <<0, 0>> /\ tries'[t] = 0
        \/ pc'[t] = "pick" /\ k # 1 /\ need'[t][2] = n /\ tries'[t] = k - 1
    BY <1>0, <1>1, <1>3, <1>5 DEF EvictRemove, Goto
  <2>t. OverTypes'
    <3>1. ASSUME NEW u \in Threads \ {t}
          PROVE  need'[u][2] \in Nat /\ tries'[u] \in Nat /\ (pc'[u] \in Evicting => tries'[u] >= 1)
      BY <1>1, <1>2 DEF Others
    <3>2. need'[t][2] \in Nat /\ tries'[t] \in Nat /\ (pc'[t] \in Evicting => tries'[t] >= 1)
      BY <1>6, <2>3 DEF Evicting
    <3> QED BY <1>0, <1>1, <1>2, <3>1, <3>2 DEF OverTypes
  <2>4. ASSUME NEW r \in Nat, NearThen(t, r) PROVE NearNow(t, r)
    <3>1. n <= r \/ k <= r + 1
      BY <2>3, <2>4 DEF NearThen, Near, Evicting
    <3> QED BY <1>0, <1>3, <1>5, <3>1 DEF NearNow, Near, Evicting
  <2> QED BY <1>0, <1>2, <2>1, <2>t, <2>4, OverStays
<1> QED BY <1>4, <1>5

LEMMA OverStep == ASSUME ShardInd, OverInd, [ShardNext]_shardVars PROVE OverInd'
<1>0. pc \in [Threads -> Steps] /\ count \in Nat
  BY DEF ShardInd, ShardTypeOK
<1>1. ASSUME NEW t \in Threads, NEW k \in Keys, Get(t, k) \/ Put(t, k) \/ Pin(t, k) \/ Unpin(t, k)
      PROVE  OverInd'
  <2>1. count' = count /\ DOMAIN entries' = DOMAIN entries /\ need' = need /\ tries' = tries /\ victim' = victim
    BY <1>1 DEF Get, Put, Pin, Unpin, putVars
  <2>2. pc' = pc \/ \E s \in {"unpin", "idle", "load"} : pc' = [pc EXCEPT ![t] = s]
    BY <1>1 DEF Get, Put, Pin, Unpin, Goto
  <2> QED BY <2>1, <2>2, OverApart DEF Steps, Evicting
<1>2. ASSUME NEW t \in Threads,
             GetUnpin(t) \/ GetTouch(t) \/ GetList(t) \/ PutLoad(t) \/ PutTrack(t)
               \/ InvalidateList(t) \/ ClearList(t)
      PROVE  OverInd'
  <2>1. count' = count /\ DOMAIN entries' = DOMAIN entries /\ need' = need /\ tries' = tries /\ victim' = victim
    BY <1>2 DEF GetUnpin, GetTouch, GetList, PutLoad, PutTrack, InvalidateList, ClearList, putVars
  <2>2. \E s \in {"touch", "list", "idle", "check"} : pc' = [pc EXCEPT ![t] = s]
    BY <1>2 DEF GetUnpin, GetTouch, GetList, PutLoad, PutTrack, InvalidateList, ClearList, Goto
  <2> QED BY <2>1, <2>2, OverApart DEF Steps, Evicting
<1>3. ASSUME NEW t \in Threads, NEW k \in Keys, Invalidate(t, k) PROVE OverInd'
  <2>1. need' = need /\ tries' = tries /\ victim' = victim
        /\ (pc' = pc \/ \E s \in {"droplist", "idle"} : pc' = [pc EXCEPT ![t] = s])
    BY <1>3 DEF Invalidate, Goto, putVars
  <2>2. CASE k \notin DOMAIN entries
    <3>1. count' = count /\ DOMAIN entries' = DOMAIN entries
      BY <1>3, <2>2 DEF Invalidate
    <3> QED BY <2>1, <3>1, OverApart DEF Steps, Evicting
  <2>3. CASE k \in DOMAIN entries
    <3>1. count' = count - 1 /\ count' \in Nat /\ pc[t] = "idle"
      BY <1>3, <2>3, ShardStepInd DEF Invalidate, Begin, ShardInd, ShardTypeOK, ShardNext
    <3>2. OverTypes' /\ Others(t)
      BY <1>0, <2>1 DEF OverInd, OverTypes, Others, Evicting
    <3>3. \A r \in Nat : ~NearThen(t, r)
      BY <1>0, <2>1, <3>1 DEF NearThen, Near, Evicting
    <3> QED BY <1>0, <3>1, <3>2, <3>3, OverRemoves
  <2> QED BY <2>2, <2>3
<1>4. ASSUME NEW t \in Threads, Clear(t) PROVE OverInd'
  <2>1. need' = need /\ tries' = tries /\ victim' = victim /\ count' = 0 /\ DOMAIN entries' = {}
        /\ \E s \in {"clearlist", "idle"} : pc' = [pc EXCEPT ![t] = s]
    BY <1>4 DEF Clear, Goto, putVars
  <2>2. CASE count = 0
    <3>1. IsFiniteSet(DOMAIN entries) /\ Cardinality(DOMAIN entries) <= 0
      BY <2>2 DEF ShardInd, CountersCover
    <3>2. DOMAIN entries = {}
      <4>1. PICK n : n = Cardinality(DOMAIN entries)
        OBVIOUS
      <4>2. n \in Nat /\ n <= 0
        BY <3>1, <4>1, FS_CardinalityType
      <4>3. n = 0
        BY <4>2
      <4> QED BY <3>1, <4>1, <4>3, FS_EmptySet
    <3> QED BY <2>1, <2>2, <3>2, OverApart DEF Steps, Evicting
  <2>3. CASE count # 0
    <3>2. OverTypes' /\ Others(t)
      BY <1>0, <2>1 DEF OverInd, OverTypes, Others, Evicting
    <3>3. \A r \in Nat : ~NearThen(t, r)
      BY <1>0, <2>1 DEF NearThen, Near, Evicting
    <3>4. count' \in Nat /\ count' <= count - 1
      BY <1>0, <2>1, <2>3
    <3> QED BY <3>2, <3>3, <3>4, OverRemoves
  <2> QED BY <2>2, <2>3
<1>5. ASSUME NEW t \in Threads, EvictPick(t) \/ EvictScan(t) PROVE OverInd'
  <2>0. /\ DOMAIN need = Threads /\ DOMAIN tries = Threads /\ DOMAIN victim = Threads
        /\ \A u \in Threads : /\ need[u][2] \in Nat /\ tries[u] \in Nat
                              /\ pc[u] \in Evicting => tries[u] >= 1
    BY DEF OverInd, OverTypes
  <2>1. count' = count /\ entries' = entries /\ tries' = tries /\ pc[t] \in {"pick", "scan"}
    BY <1>5 DEF EvictPick, EvictScan
  <2>2. \/ Refused(t) /\ victim' = victim
        \/ pc' = pc /\ need' = need /\ victim' = victim
        \/ Goto(t, "scan") /\ need' = need /\ victim' = victim
        \/ need' = need /\ \E k \in DOMAIN entries : Chosen(t, k)
    <3>1. CASE EvictScan(t)
      BY <3>1 DEF EvictScan
    <3>2. CASE EvictPick(t)
      <4>1. CASE policy = "Fifo"
        BY <3>2, <4>1 DEF EvictPick
      <4>2. CASE policy = "Arc"
        BY <3>2, <4>2 DEF EvictPick
      <4>3. CASE policy = "Lru"
        BY <3>2, <4>3 DEF EvictPick
      <4> QED BY <4>1, <4>2, <4>3 DEF ShardInd, ShardTypeOK
    <3> QED BY <1>5, <3>1, <3>2
  <2>3. Others(t)
    BY <1>0, <2>0, <2>1, <2>2 DEF Others, Refused, Chosen, Goto
  <2>4. DOMAIN need' = Threads /\ DOMAIN victim' = Threads /\ need'[t][2] \in Nat
    BY <2>0, <2>2 DEF Refused, Chosen
  <2>5. OverTypes'
    BY <2>0, <2>1, <2>3, <2>4 DEF OverTypes, Others, Evicting
  <2>6. ASSUME NEW r \in Nat, NearThen(t, r) PROVE NearNow(t, r)
    <3>1. CASE Refused(t)
      BY <1>0, <2>6, <3>1 DEF Refused, Goto, NearThen, Near, Evicting
    <3>2. CASE pc' = pc /\ need' = need /\ victim' = victim
      BY <2>1, <2>6, <3>2 DEF NearThen, NearNow, Near
    <3>3. CASE Goto(t, "scan") /\ need' = need
      BY <1>0, <2>1, <2>6, <3>3 DEF Goto, NearThen, NearNow, Near, Evicting
    <3>4. CASE need' = need /\ \E k \in DOMAIN entries : Chosen(t, k)
      <4>1. pc'[t] = "evict" /\ victim'[t] \in DOMAIN entries
        BY <1>0, <2>0, <3>4 DEF Chosen, Goto
      <4> QED BY <2>1, <2>6, <3>4, <4>1 DEF NearThen, NearNow, Near, Evicting
    <3> QED BY <2>2, <3>1, <3>2, <3>3, <3>4
  <2> QED BY <1>0, <2>1, <2>3, <2>5, <2>6, OverStays
<1>6. CASE UNCHANGED shardVars
  BY <1>6 DEF shardVars, OverInd, OverTypes
<1> QED BY <1>1, <1>2, <1>3, <1>4, <1>5, <1>6, OverInserts, OverChecks, OverEvicts DEF ShardNext

LEMMA OverIs == ShardInd /\ OverInd => OvershootBounded
<1> SUFFICES ASSUME ShardInd, OverInd, Cardinality(Threads) <= MaxEntries
             PROVE  Cardinality(DOMAIN entries) <= MaxEntries + Cardinality(Threads) - 1
  BY DEF OvershootBounded
<1>1. PICK A : A = Soons(DOMAIN entries, pc, need, tries, victim)
  OBVIOUS
<1>2. A \in Family
  BY <1>1, SoonsIs
<1>3. A[0] \subseteq Threads /\ count + Cardinality(A[0]) <= MaxEntries + Cardinality(Threads) - 1 + 0
  BY <1>1, <1>2 DEF OverInd, Fits, Family
<1>4. Cardinality(A[0]) \in Nat
  BY <1>3, SomeThreads
<1>5. count \in Nat /\ Cardinality(DOMAIN entries) \in Nat /\ count >= Cardinality(DOMAIN entries)
  BY FS_CardinalityType DEF ShardInd, ShardTypeOK, CountersCover
<1> QED BY <1>3, <1>4, <1>5, ThreadCount

(* However many threads put, evict, invalidate and clear between the       *)
(* shard's locks, no more of them than max_entries: the map exceeds        *)
(* max_entries by less than their number, though an eviction gives up      *)
(* after max_entries attempts and several threads choose one victim.       *)
THEOREM OvershootIsBounded == ShardSpec => []OvershootBounded
<1> DEFINE Ind == ShardInd /\ OverInd
<1>1. ShardInit => Ind
  BY ShardInitInd, OverInitial
<1>2. Ind /\ [ShardNext]_shardVars => Ind'
  BY ShardStepInd, OverStep
<1>3. Ind => OvershootBounded
  BY OverIs
<1> HIDE DEF Ind
<1> QED BY <1>1, <1>2, <1>3, PTL DEF ShardSpec

(***************************************************************************)
(* The plan cache.  Beyond its size it holds one plan, and then the tail   *)
(* of the list is no dangling one: the next eviction makes room.           *)
(***************************************************************************)
PlanEntry == [strategy : Strategy, schema : 0 .. MaxSchema, expired : BOOLEAN]
PlanKinds ==
  /\ DOMAIN plans \subseteq Query /\ IsFiniteSet(DOMAIN plans)
  /\ \A q \in DOMAIN plans : plans[q] \in PlanEntry
  /\ head \in Names /\ tail \in Names
  /\ enabled \in BOOLEAN /\ schema \in 0 .. MaxSchema /\ lapsed \subseteq Query
Beyond(D, e) ==
  /\ Cardinality(D) <= PlanCacheSize + 1
  /\ Cardinality(D) = PlanCacheSize + 1 => e = NoQuery \/ e \in D
PlanInd == PlanKinds /\ DanglingEnds /\ Beyond(DOMAIN plans, tail)

LEMMA PlanIndIs == PlanInd => PlanTypeOK /\ DanglingEnds /\ OvershootByOne
BY DEF PlanInd, PlanKinds, PlanTypeOK, PlanEntry, Beyond, OvershootByOne

LEMMA PlanSizes == PlanCacheSize \in Nat /\ PlanCacheSize >= 1 /\ MaxSchema \in Nat /\ NoQuery \notin Query
BY PlanCacheAssumption

LEMMA NonePlanned == Cardinality({}) = 0 /\ IsFiniteSet({}) /\ Beyond({}, NoQuery)
BY FS_EmptySet, PlanSizes DEF Beyond

LEMMA PlanInitial == PlanInit => PlanInd
<1> SUFFICES ASSUME PlanInit PROVE PlanInd
  OBVIOUS
<1>1. DOMAIN plans = {}
  BY DEF PlanInit
<1>2. PlanKinds
  BY <1>1, NonePlanned, PlanSizes DEF PlanInit, PlanKinds, Names
<1> QED BY <1>1, <1>2, NonePlanned DEF PlanInit, PlanInd, DanglingEnds

(* With fewer plans, or another tail that is one of them.                  *)
LEMMA BeyondFewer ==
  ASSUME NEW D, IsFiniteSet(D), NEW e, Beyond(D, e), NEW C, C \subseteq D, NEW f,
         f = NoQuery \/ f \in C \/ f = e
  PROVE  IsFiniteSet(C) /\ Beyond(C, f)
<1>1. IsFiniteSet(C) /\ Cardinality(C) <= Cardinality(D) /\ Cardinality(C) \in Nat /\ Cardinality(D) \in Nat
      /\ (Cardinality(C) = Cardinality(D) => C = D)
  <2>1. IsFiniteSet(C) /\ Cardinality(C) <= Cardinality(D) /\ (Cardinality(C) = Cardinality(D) => C = D)
    BY FS_Subset
  <2> QED BY <2>1, FS_CardinalityType
<1>2. Cardinality(C) = PlanCacheSize + 1 => C = D
  BY <1>1, PlanSizes DEF Beyond
<1>3. Cardinality(C) <= PlanCacheSize + 1
  BY <1>1, PlanSizes DEF Beyond
<1> QED BY <1>1, <1>2, <1>3 DEF Beyond

(* One more plan, which is no longer dangling.                             *)
LEMMA BeyondOneMore ==
  ASSUME NEW D, IsFiniteSet(D), Cardinality(D) <= PlanCacheSize, NEW q, NEW f,
         f = NoQuery \/ f = q \/ (q \notin D => Cardinality(D) < PlanCacheSize)
  PROVE  IsFiniteSet(D \cup {q}) /\ Beyond(D \cup {q}, f)
<1>1. IsFiniteSet(D \cup {q}) /\ Cardinality(D) \in Nat
      /\ Cardinality(D \cup {q}) = (IF q \in D THEN Cardinality(D) ELSE Cardinality(D) + 1)
  BY FS_AddElement, FS_CardinalityType
<1> QED BY <1>1, PlanSizes DEF Beyond

LEMMA UpdateLruIs ==
  ASSUME NEW h, NEW e, NEW q \in Query
  PROVE  LET a == UpdateLru([head |-> h, tail |-> e], q) IN
         a.head = q /\ (a.tail = q \/ a.tail = NoQuery \/ (a.tail = e /\ e # q))
BY DEF UpdateLru, RemoveFromLru

LEMMA GetPlanKeeps == ASSUME PlanInd, NEW q \in Query, GetPlan(q) PROVE PlanInd'
<1>0. IsFiniteSet(DOMAIN plans) /\ q \in DOMAIN plans /\ enabled' = enabled /\ schema' = schema
  BY DEF PlanInd, PlanKinds, GetPlan
<1>1. CASE ShouldInvalidate(plans[q])
  <2>1. plans' = PlansBut({q}) /\ lapsed' = lapsed \cup {q} /\ head' = head /\ tail' = tail
    BY <1>1 DEF GetPlan
  <2>2. DOMAIN plans' = DOMAIN plans \ {q} /\ \A k \in DOMAIN plans' : plans'[k] = plans[k]
    BY <2>1 DEF PlansBut, Restrict
  <2>3. IsFiniteSet(DOMAIN plans') /\ Beyond(DOMAIN plans', tail')
    <3>1. DOMAIN plans' \subseteq DOMAIN plans /\ tail' = tail
      BY <2>1, <2>2
    <3> QED BY <1>0, <3>1, BeyondFewer DEF PlanInd
  <2>4. PlanKinds'
    BY <1>0, <2>1, <2>2, <2>3 DEF PlanInd, PlanKinds
  <2>5. DanglingEnds'
    BY <2>1, <2>2 DEF PlanInd, DanglingEnds
  <2> QED BY <2>3, <2>4, <2>5 DEF PlanInd
<1>2. CASE ~ShouldInvalidate(plans[q])
  <2>1. plans' = plans /\ lapsed' = lapsed
        /\ head' = q /\ (tail' = q \/ tail' = NoQuery \/ tail' = tail)
    BY <1>2, UpdateLruIs DEF GetPlan, LruEnds
  <2>2. Beyond(DOMAIN plans', tail')
    BY <1>0, <2>1, BeyondFewer DEF PlanInd
  <2>3. PlanKinds'
    BY <1>0, <2>1 DEF PlanInd, PlanKinds, Names
  <2>4. DanglingEnds'
    BY <1>0, <2>1 DEF PlanInd, DanglingEnds
  <2> QED BY <2>2, <2>3, <2>4 DEF PlanInd
<1> QED BY <1>1, <1>2

LEMMA RemovesKeeps ==
  ASSUME PlanInd, NEW S, Removes(S), schema' \in 0 .. MaxSchema PROVE PlanInd'
<1>1. plans' = PlansBut(S) /\ enabled' = enabled /\ lapsed' = lapsed
      /\ head' = (IF head \in S THEN NoQuery ELSE head) /\ tail' = (IF tail \in S THEN NoQuery ELSE tail)
  BY DEF Removes, RemoveFromLru, LruEnds
<1>2. DOMAIN plans' = DOMAIN plans \ S /\ \A k \in DOMAIN plans' : plans'[k] = plans[k]
  BY <1>1 DEF PlansBut, Restrict
<1>3. IsFiniteSet(DOMAIN plans') /\ Beyond(DOMAIN plans', tail')
  <2>1. DOMAIN plans' \subseteq DOMAIN plans /\ (tail' = NoQuery \/ tail' = tail)
    BY <1>1, <1>2
  <2> QED BY <2>1, BeyondFewer DEF PlanInd, PlanKinds
<1>4. PlanKinds'
  BY <1>1, <1>2, <1>3 DEF PlanInd, PlanKinds, Names
<1>5. DanglingEnds'
  BY <1>1, <1>2 DEF PlanInd, DanglingEnds
<1> QED BY <1>3, <1>4, <1>5 DEF PlanInd

LEMMA PlanInsertKeeps == ASSUME PlanInd, NEW q \in Query, NEW s \in Strategy, Insert(q, s) PROVE PlanInd'
<1> DEFINE room == IF Full(q) THEN PlansBut({tail}) ELSE plans
           C    == DOMAIN room
<1>0. /\ IsFiniteSet(DOMAIN plans) /\ Cardinality(DOMAIN plans) \in Nat
      /\ enabled' = enabled /\ schema' = schema /\ lapsed' = lapsed \ {q}
  BY FS_CardinalityType DEF PlanInd, PlanKinds, Insert
<1>1. C \subseteq DOMAIN plans /\ (Full(q) => C = DOMAIN plans \ {tail}) /\ (~Full(q) => C = DOMAIN plans)
      /\ \A k \in C : room[k] = plans[k]
  BY DEF PlansBut, Restrict
<1>2. /\ DOMAIN plans' = C \cup {q}
      /\ \A k \in DOMAIN plans' : plans'[k] \in PlanEntry
  <2>1. [strategy |-> s, schema |-> schema, expired |-> FALSE] \in PlanEntry
    BY DEF PlanInd, PlanKinds, PlanEntry
  <2> QED BY <1>1, <2>1 DEF Insert, PlanInd, PlanKinds
<1> HIDE DEF room, C
<1>3. head' = q /\ (tail' = q \/ tail' = NoQuery \/ (~Full(q) /\ tail' = tail /\ tail # q))
  <2>1. CASE Full(q)
    <3>1. PICK h : RemoveFromLru(LruEnds, {tail}) = [head |-> h, tail |-> NoQuery]
      <4>1. RemoveFromLru(LruEnds, {tail}) =
              [head |-> IF head = tail THEN NoQuery ELSE head, tail |-> NoQuery]
        BY DEF RemoveFromLru, LruEnds
      <4> QED BY <4>1
    <3>2. head' = UpdateLru([head |-> h, tail |-> NoQuery], q).head
          /\ tail' = UpdateLru([head |-> h, tail |-> NoQuery], q).tail
      BY <2>1, <3>1 DEF Insert
    <3> QED BY <3>2, UpdateLruIs
  <2>2. CASE ~Full(q)
    BY <2>2, UpdateLruIs DEF Insert, LruEnds
  <2> QED BY <2>1, <2>2
<1>4. IsFiniteSet(DOMAIN plans') /\ Beyond(DOMAIN plans', tail')
  <2>1. CASE ~Full(q) /\ q \in DOMAIN plans
    <3>1. DOMAIN plans' = DOMAIN plans /\ (tail' = q \/ tail' = NoQuery \/ tail' = tail)
      BY <1>1, <1>2, <1>3, <2>1
    <3> QED BY <1>0, <2>1, <3>1, BeyondFewer DEF PlanInd
  <2>2. CASE ~Full(q) /\ q \notin DOMAIN plans
    <3>1. Cardinality(DOMAIN plans) < PlanCacheSize /\ Cardinality(DOMAIN plans) <= PlanCacheSize
      BY <1>0, <2>2, PlanSizes DEF Full
    <3>2. PICK D, f : D = DOMAIN plans /\ f = tail'
      OBVIOUS
    <3>3. IsFiniteSet(D) /\ Cardinality(D) <= PlanCacheSize /\ Cardinality(D) < PlanCacheSize
          /\ DOMAIN plans' = D \cup {q}
      BY <1>0, <1>1, <1>2, <2>2, <3>1, <3>2
    <3>4. IsFiniteSet(D \cup {q}) /\ Beyond(D \cup {q}, f)
      BY <3>3, BeyondOneMore
    <3> QED BY <3>2, <3>3, <3>4
  <2>3. CASE Full(q)
    <3>1. IsFiniteSet(C) /\ Cardinality(C) <= PlanCacheSize
      <4>1. CASE tail \in DOMAIN plans
        <5>1. IsFiniteSet(DOMAIN plans \ {tail})
              /\ Cardinality(DOMAIN plans \ {tail}) = Cardinality(DOMAIN plans) - 1
          BY <1>0, <4>1, FS_RemoveElement
        <5> QED BY <1>0, <1>1, <2>3, <5>1, PlanSizes DEF PlanInd, Beyond
      <4>2. CASE tail \notin DOMAIN plans
        <5>1. C = DOMAIN plans
          BY <1>1, <2>3, <4>2
        <5>2. tail # NoQuery
          BY <2>3 DEF Insert
        <5>3. Cardinality(DOMAIN plans) # PlanCacheSize + 1
          BY <4>2, <5>2 DEF PlanInd, Beyond
        <5> QED BY <1>0, <5>1, <5>3, PlanSizes DEF PlanInd, Beyond
      <4> QED BY <4>1, <4>2
    <3> QED BY <1>2, <1>3, <2>3, <3>1, BeyondOneMore
  <2> QED BY <2>1, <2>2, <2>3
<1>5. PlanKinds'
  <2>1. DOMAIN plans' \subseteq Query /\ head' \in Names /\ tail' \in Names
    BY <1>1, <1>2, <1>3 DEF PlanInd, PlanKinds, Names
  <2> QED BY <1>0, <1>2, <1>4, <2>1 DEF PlanInd, PlanKinds
<1>6. DanglingEnds'
  BY <1>0, <1>1, <1>2, <1>3 DEF PlanInd, DanglingEnds
<1> QED BY <1>4, <1>5, <1>6 DEF PlanInd

LEMMA PlanStep == ASSUME PlanInd, [PlanNext]_planVars PROVE PlanInd'
<1>1. ASSUME NEW q \in Query, InvalidateOne(q) PROVE PlanInd'
  BY <1>1, RemovesKeeps DEF InvalidateOne, PlanInd, PlanKinds
<1>2. ASSUME NEW q \in Query, Expires(q) PROVE PlanInd'
  <2>1. DOMAIN plans' = DOMAIN plans /\ \A k \in DOMAIN plans : plans'[k] \in PlanEntry
    BY <1>2 DEF Expires, PlanInd, PlanKinds, PlanEntry
  <2> QED BY <1>2, <2>1 DEF Expires, PlanInd, PlanKinds, DanglingEnds
<1>3. ASSUME NEW v \in 0 .. MaxSchema, InvalidateSchema(v) PROVE PlanInd'
  BY <1>3, RemovesKeeps DEF InvalidateSchema
<1>4. ASSUME NEW v \in 0 .. MaxSchema, NEW on \in BOOLEAN, UpdateConfig(on, v) PROVE PlanInd'
  BY <1>4 DEF UpdateConfig, PlanInd, PlanKinds, DanglingEnds
<1>5. ASSUME InvalidateAll PROVE PlanInd'
  <2>1. DOMAIN plans' = {} /\ head' = NoQuery /\ tail' = NoQuery
    BY <1>5 DEF InvalidateAll
  <2> QED BY <1>5, <2>1, NonePlanned DEF InvalidateAll, PlanInd, PlanKinds, DanglingEnds, Names
<1>6. CASE UNCHANGED planVars
  BY <1>6 DEF planVars, PlanInd, PlanKinds, DanglingEnds
<1> QED BY <1>1, <1>2, <1>3, <1>4, <1>5, <1>6, GetPlanKeeps, PlanInsertKeeps DEF PlanNext

(* For any queries and size, through insertions, lookups, invalidations    *)
(* and changes of the configuration: an end of the list without a plan is  *)
(* one a lookup invalidated, and the cache exceeds its size by one plan    *)
(* at most, however often an eviction meets such an end.                   *)
THEOREM PlansAreBounded == PlanSpec => [](DanglingEnds /\ OvershootByOne)
<1>1. PlanInit => PlanInd
  BY PlanInitial
<1>2. PlanInd /\ [PlanNext]_planVars => PlanInd'
  BY PlanStep
<1>3. PlanInd => DanglingEnds /\ OvershootByOne
  BY PlanIndIs
<1> QED BY <1>1, <1>2, <1>3, PTL DEF PlanSpec

(***************************************************************************)
(* The delta layer: its counters, through replacements and a reload.       *)
(***************************************************************************)
Deletes(m) == {k \in DOMAIN m : ~m[k].put}
DeltaKinds(m) ==
  /\ DOMAIN m \subseteq VKey /\ IsFiniteSet(DOMAIN m) /\ IsFiniteSet(DeltaBytes(m))
  /\ \A k \in DOMAIN m : m[k].size \in Nat /\ (~m[k].put => m[k].size = DeleteSize)
DeltaInd == DeltaKinds(mutations) /\ DeltaAccounted /\ operations \in 0 .. MaxOperations

LEMMA DeltaSizes ==
  DeleteSize \in Nat /\ MaxDelta \in Nat /\ MaxOperations \in Nat /\ PutSize \subseteq Nat
BY VersionsAssumption

LEMMA BytesUnder ==
  ASSUME NEW k, NEW n \in Nat
  PROVE  IsFiniteSet({k} \X (1 .. n)) /\ Cardinality({k} \X (1 .. n)) = n
<1>1. IsFiniteSet(1 .. n) /\ Cardinality(1 .. n) = n
  BY FS_Interval
<1>2. IsFiniteSet({k}) /\ Cardinality({k}) = 1
  BY FS_Singleton
<1>3. IsFiniteSet({k} \X (1 .. n)) /\ Cardinality({k} \X (1 .. n)) = 1 * n
  BY <1>1, <1>2, FS_Product
<1> QED BY <1>3

LEMMA ApartAdds ==
  ASSUME NEW A, NEW B, IsFiniteSet(A), IsFiniteSet(B), A \cap B = {}
  PROVE  IsFiniteSet(A \cup B) /\ Cardinality(A \cup B) = Cardinality(A) + Cardinality(B)
         /\ Cardinality(A) \in Nat /\ Cardinality(B) \in Nat
<1>1. IsFiniteSet(A \cup B)
      /\ Cardinality(A \cup B) = Cardinality(A) + Cardinality(B) - Cardinality(A \cap B)
  BY FS_Union
<1>2. Cardinality(A \cap B) = 0 /\ Cardinality(A) \in Nat /\ Cardinality(B) \in Nat
  BY FS_EmptySet, FS_CardinalityType
<1> QED BY <1>1, <1>2

(* The bytes and the deletes after k's mutation became one of size n.      *)
Replaced(m, w, k) == DOMAIN w = DOMAIN m \cup {k} /\ \A x \in DOMAIN m \ {k} : w[x] = m[x]

LEMMA ReplacedBytes ==
  ASSUME NEW m, IsFiniteSet(DeltaBytes(m)), NEW k, NEW w, Replaced(m, w, k), NEW n \in Nat, w[k].size = n,
         NEW o \in Nat, IF k \in DOMAIN m THEN m[k].size = o ELSE o = 0
  PROVE  /\ IsFiniteSet(DeltaBytes(w)) /\ Cardinality(DeltaBytes(w)) \in Nat
         /\ Cardinality(DeltaBytes(w)) = Cardinality(DeltaBytes(m)) - o + n
         /\ Cardinality(DeltaBytes(m)) \in Nat /\ Cardinality(DeltaBytes(m)) >= o
<1>1. PICK R : R = UNION {{x} \X (1 .. m[x].size) : x \in DOMAIN m \ {k}}
  OBVIOUS
<1>2. PICK A, B : A = {k} \X (1 .. o) /\ B = {k} \X (1 .. n)
  OBVIOUS
<1>3. DeltaBytes(m) = R \cup A
  <2>1. CASE k \in DOMAIN m
    BY <1>1, <1>2, <2>1 DEF DeltaBytes
  <2>2. CASE k \notin DOMAIN m
    <3>1. A = {} /\ DOMAIN m \ {k} = DOMAIN m
      BY <1>2, <2>2
    <3> QED BY <1>1, <3>1 DEF DeltaBytes
  <2> QED BY <2>1, <2>2
<1>4. DeltaBytes(w) = R \cup B
  <2>1. \A z : z \in DeltaBytes(w) <=> \E x \in DOMAIN w : z \in {x} \X (1 .. w[x].size)
    BY DEF DeltaBytes
  <2>2. \A z : z \in R <=> \E x \in DOMAIN m \ {k} : z \in {x} \X (1 .. m[x].size)
    BY <1>1
  <2>3. \A z : z \in B <=> z \in {k} \X (1 .. w[k].size)
    BY <1>2
  <2>4. \A z : z \in DeltaBytes(w) <=> z \in R \/ z \in B
    BY <2>1, <2>2, <2>3 DEF Replaced
  <2> QED BY <2>4
<1>5. R \cap A = {} /\ R \cap B = {}
  BY <1>1, <1>2
<1>6. IsFiniteSet(A) /\ Cardinality(A) = o /\ IsFiniteSet(B) /\ Cardinality(B) = n
  BY <1>2, BytesUnder
<1>7. IsFiniteSet(R)
  <2>1. R \subseteq DeltaBytes(m)
    BY <1>3
  <2> QED BY <2>1, FS_Subset
<1>8. IsFiniteSet(R \cup A) /\ Cardinality(R \cup A) = Cardinality(R) + o /\ Cardinality(R) \in Nat
  BY <1>5, <1>6, <1>7, ApartAdds
<1>9. IsFiniteSet(R \cup B) /\ Cardinality(R \cup B) = Cardinality(R) + n
  BY <1>5, <1>6, <1>7, ApartAdds
<1> QED BY <1>3, <1>4, <1>8, <1>9

LEMMA NoMutations ==
  ASSUME NEW m, DOMAIN m = {}
  PROVE  /\ DeltaKinds(m) /\ 0 = Cardinality(DeltaBytes(m)) /\ 0 = Cardinality(DOMAIN m)
         /\ 0 <= MaxDelta + DeleteSize * Cardinality({k \in DOMAIN m : ~m[k].put})
<1>1. DeltaBytes(m) = {} /\ {k \in DOMAIN m : ~m[k].put} = {}
  BY DEF DeltaBytes
<1>2. IsFiniteSet({}) /\ Cardinality({}) = 0
  BY FS_EmptySet
<1>3. DeltaKinds(m)
  BY <1>1, <1>2 DEF DeltaKinds
<1>4. Cardinality(DeltaBytes(m)) = 0 /\ Cardinality(DOMAIN m) = 0
      /\ Cardinality({k \in DOMAIN m : ~m[k].put}) = 0
  BY <1>1, <1>2
<1> QED BY <1>3, <1>4, DeltaSizes

LEMMA DeltaInitial == DeltaInit => DeltaInd
<1> SUFFICES ASSUME DeltaInit PROVE DeltaInd
  OBVIOUS
<1>1. DOMAIN mutations = {} /\ deltaSize = 0 /\ operations = 0
  BY DEF DeltaInit
<1> QED BY <1>1, NoMutations, DeltaSizes DEF DeltaInd, DeltaAccounted

(* What both kinds of mutation do to the counters.                         *)
LEMMA RecordKeeps ==
  ASSUME DeltaInd, NEW k \in VKey, NEW p, NEW n \in Nat, Record(k, [put |-> p, size |-> n]), ~p => n = DeleteSize
  PROVE  /\ DeltaKinds(mutations') /\ operations' \in 0 .. MaxOperations
         /\ deltaSize' = Cardinality(DeltaBytes(mutations'))
         /\ operations' = Cardinality(DOMAIN mutations')
         /\ deltaSize \in Nat /\ SizeAt(k) \in Nat /\ deltaSize' \in Nat
         /\ deltaSize' = deltaSize - SizeAt(k) + n
         /\ Replaced(mutations, mutations', k) /\ mutations'[k] = [put |-> p, size |-> n]
<1>1. /\ Replaced(mutations, mutations', k) /\ mutations'[k] = [put |-> p, size |-> n]
      /\ deltaSize' = deltaSize - SizeAt(k) + n
      /\ operations < MaxOperations
      /\ operations' = IF k \in DOMAIN mutations THEN operations ELSE operations + 1
  BY DEF Record, Replace, Replaced
<1>2. /\ IsFiniteSet(DOMAIN mutations) /\ IsFiniteSet(DeltaBytes(mutations)) /\ DOMAIN mutations \subseteq VKey
      /\ \A x \in DOMAIN mutations : /\ mutations[x].size \in Nat
                                     /\ ~mutations[x].put => mutations[x].size = DeleteSize
      /\ deltaSize = Cardinality(DeltaBytes(mutations)) /\ operations = Cardinality(DOMAIN mutations)
      /\ operations \in Nat
  BY DEF DeltaInd, DeltaKinds, DeltaAccounted
<1>3. PICK o : o = SizeAt(k)
  OBVIOUS
<1>4. o \in Nat /\ IF k \in DOMAIN mutations THEN mutations[k].size = o ELSE o = 0
  BY <1>2, <1>3 DEF SizeAt
<1>5. PICK w : w = mutations'
  OBVIOUS
<1>6. Replaced(mutations, w, k) /\ w[k].size = n
  BY <1>1, <1>5
<1>7. /\ IsFiniteSet(DeltaBytes(w)) /\ Cardinality(DeltaBytes(w)) \in Nat
      /\ Cardinality(DeltaBytes(w)) = Cardinality(DeltaBytes(mutations)) - o + n
      /\ Cardinality(DeltaBytes(mutations)) \in Nat
  BY <1>2, <1>4, <1>6, ReplacedBytes
<1>8. /\ IsFiniteSet(DOMAIN w)
      /\ Cardinality(DOMAIN w) =
           (IF k \in DOMAIN mutations THEN Cardinality(DOMAIN mutations) ELSE Cardinality(DOMAIN mutations) + 1)
  <2>1. PICK D : D = DOMAIN mutations
    OBVIOUS
  <2>2. IsFiniteSet(D \cup {k}) /\ Cardinality(D \cup {k}) = (IF k \in D THEN Cardinality(D) ELSE Cardinality(D) + 1)
    BY <1>2, <2>1, FS_AddElement
  <2> QED BY <1>6, <2>1, <2>2 DEF Replaced
<1>9. DeltaKinds(w)
  <2>1. DOMAIN w \subseteq VKey
    BY <1>2, <1>6 DEF Replaced
  <2>2. ASSUME NEW x \in DOMAIN w PROVE w[x].size \in Nat /\ (~w[x].put => w[x].size = DeleteSize)
    <3>1. CASE x = k
      BY <1>1, <1>5, <3>1
    <3>2. CASE x # k
      BY <1>2, <1>6, <3>2 DEF Replaced
    <3> QED BY <3>1, <3>2
  <2> QED BY <1>7, <1>8, <2>1, <2>2 DEF DeltaKinds
<1>10. operations' \in 0 .. MaxOperations
  BY <1>1, <1>2, DeltaSizes
<1> QED BY <1>1, <1>2, <1>3, <1>4, <1>5, <1>7, <1>8, <1>9, <1>10

LEMMA SomeDeletes ==
  ASSUME NEW m, DeltaKinds(m)
  PROVE  IsFiniteSet(Deletes(m)) /\ Cardinality(Deletes(m)) \in Nat
<1>1. Deletes(m) \subseteq DOMAIN m /\ IsFiniteSet(DOMAIN m)
  BY DEF Deletes, DeltaKinds
<1>2. IsFiniteSet(Deletes(m))
  BY <1>1, FS_Subset
<1> QED BY <1>2, FS_CardinalityType

Allowed(c) == MaxDelta + DeleteSize * c
LEMMA AllowedIs ==
  ASSUME NEW c \in Nat
  PROVE  Allowed(c) \in Nat /\ Allowed(c) >= MaxDelta /\ Allowed(c + 1) = Allowed(c) + DeleteSize
<1>1. DeleteSize * c \in Nat /\ DeleteSize * (c + 1) = DeleteSize * c + DeleteSize
  BY DeltaSizes
<1> QED BY <1>1, DeltaSizes DEF Allowed

LEMMA RecordPutKeeps == ASSUME DeltaInd, NEW k \in VKey, NEW n \in PutSize, RecordPut(k, n) PROVE DeltaInd'
<1>0. n \in Nat /\ deltaSize + n <= MaxDelta /\ Record(k, [put |-> TRUE, size |-> n])
  BY DeltaSizes DEF RecordPut
<1>1. /\ DeltaKinds(mutations') /\ operations' \in 0 .. MaxOperations
      /\ deltaSize' = Cardinality(DeltaBytes(mutations'))
      /\ operations' = Cardinality(DOMAIN mutations')
      /\ deltaSize \in Nat /\ SizeAt(k) \in Nat /\ deltaSize' \in Nat
      /\ deltaSize' = deltaSize - SizeAt(k) + n
  BY <1>0, RecordKeeps
<1>2. deltaSize' <= MaxDelta
  BY <1>0, <1>1, DeltaSizes
<1>3. Cardinality(Deletes(mutations')) \in Nat
  BY <1>1, SomeDeletes
<1>4. deltaSize' <= Allowed(Cardinality(Deletes(mutations')))
  BY <1>1, <1>2, <1>3, AllowedIs, DeltaSizes
<1> QED BY <1>1, <1>4 DEF DeltaInd, DeltaAccounted, Allowed, Deletes

LEMMA RecordDeleteKeeps == ASSUME DeltaInd, NEW k \in VKey, RecordDelete(k) PROVE DeltaInd'
<1>0. Record(k, [put |-> FALSE, size |-> DeleteSize]) /\ DeleteSize \in Nat
  BY DeltaSizes DEF RecordDelete
<1>1. /\ DeltaKinds(mutations') /\ operations' \in 0 .. MaxOperations
      /\ deltaSize' = Cardinality(DeltaBytes(mutations'))
      /\ operations' = Cardinality(DOMAIN mutations')
      /\ deltaSize \in Nat /\ SizeAt(k) \in Nat /\ deltaSize' \in Nat
      /\ deltaSize' = deltaSize - SizeAt(k) + DeleteSize
      /\ Replaced(mutations, mutations', k) /\ mutations'[k] = [put |-> FALSE, size |-> DeleteSize]
  BY <1>0, RecordKeeps
<1>2. PICK A, B : A = Deletes(mutations) /\ B = Deletes(mutations')
  OBVIOUS
<1>3. IsFiniteSet(A) /\ Cardinality(A) \in Nat /\ deltaSize <= Allowed(Cardinality(A))
  BY <1>2, SomeDeletes DEF DeltaInd, DeltaAccounted, Allowed, Deletes
<1>4. B = A \cup {k}
  BY <1>1, <1>2 DEF Deletes, Replaced
<1>5. k \in A => SizeAt(k) = DeleteSize
  BY <1>2 DEF Deletes, SizeAt, DeltaInd, DeltaKinds
<1>6. Cardinality(B) = IF k \in A THEN Cardinality(A) ELSE Cardinality(A) + 1
  BY <1>3, <1>4, FS_AddElement
<1>7. deltaSize' <= Allowed(Cardinality(B))
  <2>1. PICK c \in Nat, s \in Nat, d \in Nat : c = Cardinality(A) /\ s = SizeAt(k) /\ d = deltaSize
    BY <1>1, <1>3
  <2>2. Allowed(c) \in Nat /\ Allowed(c + 1) = Allowed(c) + DeleteSize
    BY <1>3, <2>1, AllowedIs
  <2>3. CASE k \in A
    BY <1>0, <1>1, <1>3, <1>5, <1>6, <2>1, <2>2, <2>3
  <2>4. CASE k \notin A
    BY <1>0, <1>1, <1>3, <1>6, <2>1, <2>2, <2>4
  <2> QED BY <2>3, <2>4
<1> QED BY <1>1, <1>2, <1>7 DEF DeltaInd, DeltaAccounted, Allowed, Deletes

LEMMA DeltaStep == ASSUME DeltaInd, [DeltaNext]_deltaVars PROVE DeltaInd'
<1>1. CASE Reload
  BY <1>1 DEF Reload, DeltaInd, DeltaAccounted
<1>2. CASE ClearDelta
  <2>1. DOMAIN mutations' = {} /\ deltaSize' = 0 /\ operations' = 0
    BY <1>2 DEF ClearDelta
  <2> QED BY <2>1, NoMutations, DeltaSizes DEF DeltaInd, DeltaAccounted
<1>3. CASE UNCHANGED deltaVars
  BY <1>3 DEF deltaVars, DeltaInd, DeltaAccounted
<1> QED BY <1>1, <1>2, <1>3, RecordPutKeeps, RecordDeleteKeeps DEF DeltaNext

(* For any keys and sizes, through any replacements, reloads and clears:   *)
(* the delta layer's size and operation count are those of its mutations,  *)
(* so the subtraction in record_put and record_delete cannot wrap, and     *)
(* only deletes take it past MAX_DELTA_SIZE.                               *)
THEOREM DeltaIsAccounted == DeltaSpec => []DeltaAccounted
<1>1. DeltaInit => DeltaInd
  BY DeltaInitial
<1>2. DeltaInd /\ [DeltaNext]_deltaVars => DeltaInd'
  BY DeltaStep
<1>3. DeltaInd => DeltaAccounted
  BY DEF DeltaInd
<1> QED BY <1>1, <1>2, <1>3, PTL DEF DeltaSpec

(***************************************************************************)
(* What the types of the version store and of the reference model say of   *)
(* their chains: no chain is longer than its cap.                          *)
(***************************************************************************)
ChainsCapped == \A k \in VKey : Len(chain[k]) <= ChainCap

LEMMA OnlyShorter ==
  ASSUME NEW S, NEW s \in Seq(S), NEW K
  PROVE  Len(Only(s, K)) <= Len(s)
<1>1. PICK L : L = S \ K
  OBVIOUS
<1>2. S \subseteq K \cup L /\ K \cap L \cap S = {}
  BY <1>1
<1>3. Len(Only(s, K)) + Len(Only(s, L)) = Len(s)
  BY <1>2, OnlySplit
<1>4. Only(s, K) \in Seq(S) /\ Only(s, L) \in Seq(S)
  BY OnlyType
<1>5. PICK a \in Nat, b \in Nat, c \in Nat : a = Len(Only(s, K)) /\ b = Len(Only(s, L)) /\ c = Len(s)
  BY <1>4
<1>6. a + b = c
  BY <1>3, <1>5
<1>7. a <= c
  BY <1>6
<1> QED BY <1>5, <1>7

LEMMA CappedStep ==
  ASSUME VersionInd, ChainsCapped, [VersionNext]_versionVars
  PROVE  ChainsCapped'
<1>0. chain \in [VKey -> Seq(VLsn)]
  BY DEF VersionInd
<1>1. ASSUME NEW k \in VKey, NEW l \in VLsn, AddNewest(k, l) PROVE ChainsCapped'
  <2>1. PICK ch \in Seq(VLsn) : ch = chain[k]
    BY <1>0
  <2>2. PICK n : n = Min({ChainCap, Len(ch) + 1})
    OBVIOUS
  <2>3. n \in 1 .. (Len(ch) + 1) /\ n <= ChainCap
    <3>1. PICK b \in Nat : b = Len(ch) + 1
      OBVIOUS
    <3>2. n \in {ChainCap, b} /\ n <= b /\ n <= ChainCap
      BY <2>2, <3>1, CapNat, MinOfTwo
    <3> QED BY <3>1, <3>2, CapNat
  <2>4. PICK new : new = SubSeq(<<l>> \o ch, 1, n)
    OBVIOUS
  <2>5. Len(new) = n
    BY <2>3, <2>4, NewChain
  <2>6. chain' = [chain EXCEPT ![k] = new]
    BY <1>1, <2>1, <2>2, <2>4 DEF AddNewest
  <2> QED BY <1>0, <2>3, <2>5, <2>6 DEF ChainsCapped
<1>2. ASSUME NEW x \in VLsn, ReclaimAll(x) PROVE ChainsCapped'
  <2> SUFFICES ASSUME NEW k \in VKey PROVE Len(chain'[k]) <= ChainCap
    BY DEF ChainsCapped
  <2>0. PICK K : K = {l \in VLsn : l >= x}
    OBVIOUS
  <2>1. PICK ch \in Seq(VLsn) : ch = chain[k]
    BY <1>0
  <2>2. chain'[k] = Only(ch, K)
    BY <1>2, <2>0, <2>1 DEF ReclaimAll
  <2>3. Len(Only(ch, K)) <= Len(ch) /\ Only(ch, K) \in Seq(VLsn)
    BY OnlyShorter, OnlyType
  <2>4. Len(ch) <= ChainCap
    BY <2>1 DEF ChainsCapped
  <2>5. PICK a \in Nat, b \in Nat : a = Len(Only(ch, K)) /\ b = Len(ch)
    BY <2>3
  <2> QED BY <2>2, <2>3, <2>4, <2>5, CapNat
<1>3. ASSUME NEW S, RemoveChains(S) PROVE ChainsCapped'
  BY <1>3, CapNat DEF RemoveChains, ChainsCapped
<1>4. CASE UNCHANGED versionVars
  BY <1>4 DEF versionVars, ChainsCapped
<1> QED BY <1>1, <1>2, <1>3, <1>4 DEF VersionNext

LEMMA CappedInit == VersionInit => ChainsCapped
BY CapNat DEF VersionInit, ChainsCapped

LEMMA VersionsTypes == VersionInd /\ ChainsCapped /\ DeltaInd => VersionsTypeOK
<1> SUFFICES ASSUME VersionInd, ChainsCapped, DeltaInd PROVE VersionsTypeOK
  OBVIOUS
<1>1. \A k \in VKey : Range(chain[k]) \subseteq VLsn
  <2> SUFFICES ASSUME NEW k \in VKey PROVE Range(chain[k]) \subseteq VLsn
    OBVIOUS
  <2>1. chain[k] \in Seq(VLsn)
    BY DEF VersionInd
  <2> QED BY <2>1 DEF Range
<1> QED BY <1>1 DEF VersionsTypeOK, ChainsCapped, DeltaInd, DeltaKinds

-----------------------------------------------------------------------------
(* The reference model's chains are in LSN order, wherever among versions  *)
(* of one LSN the binary search puts a new one.                            *)
InOrder(ch) == \A i, j \in 1 .. Len(ch) : i < j => ch[i].lsn <= ch[j].lsn
Neat(ch) == ch \in Seq(Version) /\ Len(ch) <= VersionCap /\ InOrder(ch)
Fitting(ch, l, i) ==
  /\ \A j \in 1 .. Len(ch) : (j < i => ch[j].lsn <= l) /\ (j >= i => l <= ch[j].lsn)

LEMMA PlacesFit ==
  ASSUME NEW ch \in Seq(Version), InOrder(ch), NEW l \in Nat, NEW i \in Places(ch, l)
  PROVE  Fitting(ch, l, i)
<1>0. PICK n \in Nat : n = Len(ch) /\ DOMAIN ch = 1 .. n
  OBVIOUS
<1>1. \A j \in 1 .. n : ch[j].lsn \in Nat
  <2>1. \A j \in 1 .. n : ch[j] \in Version
    BY <1>0
  <2> QED BY <2>1 DEF Version
<1>2. PICK D, B : D = {x \in 1 .. n : ch[x].lsn = l} /\ B = {x \in 1 .. n : ch[x].lsn < l}
  OBVIOUS
<1>3. i \in IF D # {} THEN D ELSE {1 + Cardinality(B)}
  BY <1>0, <1>2 DEF Places
<1>4. CASE D # {}
  <2>1. i \in 1 .. n /\ ch[i].lsn = l
    BY <1>2, <1>3, <1>4
  <2>2. \A j \in 1 .. n : (j < i => ch[j].lsn <= l) /\ (j >= i => l <= ch[j].lsn)
    BY <1>0, <1>1, <2>1 DEF InOrder
  <2> QED BY <1>0, <2>2 DEF Fitting
<1>5. CASE D = {}
  <2>0. i = 1 + Cardinality(B)
    BY <1>3, <1>5
  <2>1. CASE B = 1 .. n
    <3>1. Cardinality(1 .. n) = n
      BY FS_Interval
    <3>2. i = n + 1
      BY <2>0, <2>1, <3>1
    <3>3. \A j \in 1 .. n : j < i /\ ch[j].lsn <= l
      BY <1>1, <1>2, <2>1, <3>2
    <3> QED BY <1>0, <3>2, <3>3 DEF Fitting
  <2>2. CASE B # 1 .. n
    <3>1. PICK T : T = (1 .. n) \ B
      OBVIOUS
    <3>2. T # {} /\ T \subseteq Nat
      BY <1>2, <2>2, <3>1
    <3>3. PICK m \in T : \A x \in T : m <= x
      BY <3>2, Least
    <3>4. m \in 1 .. n /\ m \notin B
      BY <3>1, <3>3
    <3>5. B = 1 .. (m - 1)
      <4>1. ASSUME NEW x \in 1 .. (m - 1) PROVE x \in B
        BY <3>1, <3>3, <3>4
      <4>2. ASSUME NEW x \in B PROVE x \in 1 .. (m - 1)
        <5>1. x \in 1 .. n /\ ch[x].lsn < l /\ ~ (ch[m].lsn < l) /\ x # m
          BY <1>2, <3>4
        <5>2. m < x => ch[m].lsn <= ch[x].lsn
          BY <1>0, <3>4, <5>1 DEF InOrder
        <5>3. ch[m].lsn \in Nat /\ ch[x].lsn \in Nat
          BY <1>1, <3>4, <5>1
        <5>4. ~ (m < x)
          BY <5>1, <5>2, <5>3
        <5> QED BY <3>4, <5>1, <5>4
      <4> QED BY <4>1, <4>2
    <3>6. Cardinality(1 .. (m - 1)) = m - 1
      <4>1. m - 1 \in Nat
        BY <3>4
      <4>2. PICK z \in Nat : z = m - 1
        BY <4>1
      <4>3. Cardinality(1 .. z) = z
        BY FS_Interval
      <4> QED BY <4>2, <4>3
    <3>7. i = m
      BY <2>0, <3>4, <3>5, <3>6
    <3>8. \A j \in 1 .. n : (j < i => j \in B) /\ (j >= i => j \notin B)
      BY <3>4, <3>5, <3>7
    <3>9. \A j \in 1 .. n : (j < i => ch[j].lsn <= l) /\ (j >= i => l <= ch[j].lsn)
      BY <1>1, <1>2, <3>8
    <3> QED BY <1>0, <3>9 DEF Fitting
  <2> QED BY <2>1, <2>2
<1> QED BY <1>4, <1>5

LEMMA InsertNeat ==
  ASSUME NEW ch, Neat(ch), NEW e \in Version, NEW i \in Places(ch, e.lsn)
  PROVE  Neat(Pruned(InsertAt(ch, i, e)))
<1>0. ch \in Seq(Version) /\ Len(ch) <= VersionCap /\ InOrder(ch) /\ Len(ch) \in Nat
  BY DEF Neat
<1>1. e.lsn \in Nat
  BY DEF Version
<1>2. PICK l \in Nat : l = e.lsn
  BY <1>1
<1>3. Fitting(ch, l, i) /\ i \in 1 .. (Len(ch) + 1)
  BY <1>0, <1>2, PlacesFit, PlacesIn
<1>4. PICK n \in 0 .. Len(ch) : i = n + 1
  <2>1. i - 1 \in 0 .. Len(ch) /\ i = (i - 1) + 1
    BY <1>0, <1>3
  <2> QED BY <2>1
<1>5. PICK c : c = InsertAt(ch, i, e)
  OBVIOUS
<1>6. Inserted(ch, c, n, e, Version)
  <2>1. Inserted(ch, InsertAt(ch, n + 1, e), n, e, Version)
    BY <1>0, InsertIs
  <2> QED BY <1>4, <1>5, <2>1
<1>7. /\ c \in Seq(Version) /\ Len(c) = Len(ch) + 1
      /\ \A x \in 1 .. Len(c) : c[x] = IF x <= n THEN ch[x] ELSE IF x = n + 1 THEN e ELSE ch[x - 1]
  BY <1>6 DEF Inserted
<1>8. PICK m \in Nat : m = Len(ch) /\ n \in 0 .. m /\ Len(c) = m + 1
  BY <1>0, <1>7
<1>9. \A x \in 1 .. m : ch[x].lsn \in Nat
  <2>1. \A x \in 1 .. m : ch[x] \in Version
    BY <1>0, <1>8
  <2> QED BY <2>1 DEF Version
<1>10. InOrder(c)
  <2> SUFFICES ASSUME NEW x \in 1 .. (m + 1), NEW y \in 1 .. (m + 1), x < y PROVE c[x].lsn <= c[y].lsn
    BY <1>8 DEF InOrder
  <2>0. \A a, b \in 1 .. m : a < b => ch[a].lsn <= ch[b].lsn
    BY <1>0, <1>8 DEF InOrder
  <2>f. \A a \in 1 .. m : (a < n + 1 => ch[a].lsn <= l) /\ (a >= n + 1 => l <= ch[a].lsn)
    BY <1>3, <1>4, <1>8 DEF Fitting
  <2>1. CASE y <= n
    <3>1. c[x] = ch[x] /\ c[y] = ch[y] /\ x \in 1 .. m /\ y \in 1 .. m
      BY <1>7, <1>8, <2>1
    <3> QED BY <2>0, <3>1
  <2>2. CASE y = n + 1
    <3>1. c[x] = ch[x] /\ c[y] = e /\ x \in 1 .. m /\ x < n + 1
      BY <1>7, <1>8, <2>2
    <3> QED BY <1>2, <2>f, <3>1
  <2>3. CASE y > n + 1
    <3>1. c[y] = ch[y - 1] /\ y - 1 \in 1 .. m /\ y - 1 >= n + 1
      BY <1>7, <1>8, <2>3
    <3>2. CASE x <= n
      <4>1. c[x] = ch[x] /\ x \in 1 .. m /\ x < y - 1
        BY <1>7, <1>8, <2>3, <3>2
      <4> QED BY <2>0, <3>1, <4>1
    <3>3. CASE x = n + 1
      <4>1. c[x] = e
        BY <1>7, <1>8, <3>3
      <4> QED BY <1>2, <2>f, <3>1, <4>1
    <3>4. CASE x > n + 1
      <4>1. c[x] = ch[x - 1] /\ x - 1 \in 1 .. m /\ x - 1 < y - 1
        BY <1>7, <1>8, <3>4
      <4> QED BY <2>0, <3>1, <4>1
    <3> QED BY <1>8, <3>2, <3>3, <3>4
  <2> QED BY <1>8, <2>1, <2>2, <2>3
<1>11. CASE ~ (m + 1 > VersionCap)
  <2>1. Pruned(c) = c
    BY <1>8, <1>11 DEF Pruned
  <2>2. m + 1 <= VersionCap
    BY <1>8, <1>11, CapsNat
  <2> QED BY <1>5, <1>7, <1>8, <1>10, <2>1, <2>2 DEF Neat
<1>12. CASE m + 1 > VersionCap
  <2>1. PICK t : t = Tail(c)
    OBVIOUS
  <2>2. t \in Seq(Version) /\ Len(t) = m /\ \A x \in 1 .. m : t[x] = c[x + 1]
    BY <1>7, <1>8, <2>1
  <2>3. InOrder(t)
    <3> SUFFICES ASSUME NEW x \in 1 .. m, NEW y \in 1 .. m, x < y PROVE t[x].lsn <= t[y].lsn
      BY <2>2 DEF InOrder
    <3>1. x + 1 \in 1 .. (m + 1) /\ y + 1 \in 1 .. (m + 1) /\ x + 1 < y + 1
      OBVIOUS
    <3> QED BY <1>8, <1>10, <2>2, <3>1 DEF InOrder
  <2>4. Pruned(c) = t
    BY <1>8, <1>12, <2>1 DEF Pruned
  <2>5. m <= VersionCap
    BY <1>0, <1>8
  <2> QED BY <1>5, <2>2, <2>3, <2>4, <2>5 DEF Neat
<1> QED BY <1>8, <1>11, <1>12, CapsNat

NeatTree(t) == t \in Tree /\ \A k \in RefKey : Neat(t[k])

LEMMA AddNeat ==
  ASSUME NEW tree, NeatTree(tree), NEW k \in RefKey, NEW v \in RefValue \cup {NoValue}, NEW l \in Nat,
         NEW t \in AddVersion(tree, k, v, l)
  PROVE  NeatTree(t)
<1>1. t \in Tree /\ \A j \in RefKey \ {k} : t[j] = tree[j]
  BY AddType DEF NeatTree
<1>2. PICK ch : ch = tree[k] /\ Neat(ch)
  BY DEF NeatTree
<1>3. PICK e \in Version : e = [value |-> v, lsn |-> l] /\ e.lsn = l
  <2>1. [value |-> v, lsn |-> l] \in Version
    BY DEF Version
  <2> QED BY <2>1
<1>4. PICK i \in Places(ch, l) : t = [tree EXCEPT ![k] = Pruned(InsertAt(ch, i, e))]
  BY <1>2, <1>3 DEF AddVersion
<1>5. Neat(Pruned(InsertAt(ch, i, e)))
  BY <1>2, <1>3, <1>4, InsertNeat
<1>6. t[k] = Pruned(InsertAt(ch, i, e))
  BY <1>4 DEF NeatTree, Tree
<1> QED BY <1>1, <1>5, <1>6 DEF NeatTree

LEMMA AppliedNeat ==
  ASSUME NEW tree, NeatTree(tree), NEW m \in Mutation, lsn \in Nat, NEW t \in Applied(tree, m)
  PROVE  NeatTree(t)
<1>1. m.key \in RefKey /\ m.value \in RefValue \cup {NoValue} /\ NoValue \in RefValue \cup {NoValue}
  BY DEF Mutation
<1>2. PICK k, v, l : k = m.key /\ v = m.value /\ l = lsn
  OBVIOUS
<1>3. \/ t \in AddVersion(tree, k, v, l) \/ t = tree \/ t \in AddVersion(tree, k, NoValue, Top)
  BY <1>2 DEF Applied
<1>4. CASE t \in AddVersion(tree, k, v, l)
  BY <1>1, <1>2, <1>4, AddNeat
<1>5. CASE t \in AddVersion(tree, k, NoValue, Top)
  BY <1>1, <1>2, <1>5, AddNeat, CapsNat
<1> QED BY <1>3, <1>4, <1>5

LEMMA OutcomesNeat ==
  ASSUME NeatTree(versionsOf), lsn \in Nat, NEW muts \in Seq(Mutation)
  PROVE  \A t \in Outcomes(muts) : NeatTree(t)
<1>0. versionsOf \in Tree
  BY DEF NeatTree
<1>1. PICK f : TreesBy(f, muts) /\ Outcomes(muts) = f[Len(muts)]
  BY <1>0, TreesExist
<1>2. Len(muts) \in Nat
  OBVIOUS
<1>3. f[0] = {versionsOf} /\ \A i \in 1 .. Len(muts) : f[i] = After(f[i - 1], muts[i])
  <2>1. \A i \in 0 .. Len(muts) : f[i] = IF i = 0 THEN {versionsOf} ELSE After(f[i - 1], muts[i])
    BY <1>1, Zenon DEF TreesBy
  <2>2. 0 \in 0 .. Len(muts) /\ \A i \in 1 .. Len(muts) : i \in 0 .. Len(muts) /\ i # 0
    BY <1>2
  <2> QED BY <2>1, <2>2
<1> DEFINE N == {i \in Nat : i <= Len(muts) => \A t \in f[i] : NeatTree(t)}
<1>4. 0 \in N
  BY <1>3
<1>5. ASSUME NEW i \in Nat, i \in N PROVE i + 1 \in N
  <2> SUFFICES ASSUME i + 1 <= Len(muts), NEW t \in f[i + 1] PROVE NeatTree(t)
    OBVIOUS
  <2>1. i + 1 \in 1 .. Len(muts) /\ (i + 1) - 1 = i
    BY <1>2
  <2>2. f[i + 1] = After(f[i], muts[i + 1])
    BY <1>3, <2>1
  <2>3. PICK m \in Mutation : m = muts[i + 1]
    BY <2>1
  <2>4. PICK u \in f[i] : t \in Applied(u, m)
    BY <2>2, <2>3 DEF After
  <2>5. NeatTree(u)
    BY <1>2, <1>5
  <2> QED BY <2>4, <2>5, AppliedNeat
<1> HIDE DEF N
<1>6. Len(muts) \in N
  BY <1>2, <1>4, <1>5, SetInduction
<1> QED BY <1>1, <1>2, <1>6 DEF N

RefMore ==
  /\ NeatTree(versionsOf) /\ lsn \in 0 .. MaxRefLsn
  /\ IsFiniteSet(DOMAIN snaps) /\ Cardinality(DOMAIN snaps) <= SnapshotCap

LEMMA RefMoreInit == RefInit => RefMore
<1> SUFFICES ASSUME RefInit PROVE RefMore
  OBVIOUS
<1>1. Neat(<<>>)
  BY CapsNat DEF Neat, InOrder
<1>2. NeatTree(versionsOf)
  BY <1>1 DEF RefInit, NeatTree, Tree
<1>3. lsn \in 0 .. MaxRefLsn
  BY RefModelAssumption DEF RefInit
<1>4. DOMAIN snaps = {}
  BY DEF RefInit
<1>5. IsFiniteSet({}) /\ Cardinality({}) = 0
  BY FS_EmptySet
<1> QED BY <1>2, <1>3, <1>4, <1>5, CapsNat DEF RefMore

LEMMA SnapshotsKept ==
  ASSUME RefInd, RefMore, CreateSnapshot
  PROVE  IsFiniteSet(DOMAIN snaps') /\ Cardinality(DOMAIN snaps') <= SnapshotCap
<1>1. PICK all : all = DOMAIN snaps \cup {lsn}
  OBVIOUS
<1>2. PICK kept : kept = {l \in all : Cardinality({h \in all : h >= l}) <= SnapshotCap}
  OBVIOUS
<1>3. DOMAIN snaps' = kept
  BY <1>1, <1>2 DEF CreateSnapshot
<1>4. IsFiniteSet(all)
  BY <1>1, FS_AddElement DEF RefMore
<1>5. all \subseteq Nat /\ kept \subseteq all
  BY <1>1, <1>2 DEF RefInd
<1>6. IsFiniteSet(kept)
  BY <1>4, <1>5, FS_Subset
<1>7. CASE kept = {}
  BY <1>3, <1>6, <1>7, FS_EmptySet, CapsNat
<1>8. CASE kept # {}
  <2>1. PICK m \in kept : \A x \in kept : m <= x
    BY <1>5, <1>8, Least
  <2>2. PICK up : up = {h \in all : h >= m}
    OBVIOUS
  <2>3. Cardinality(up) <= SnapshotCap
    BY <1>2, <2>1, <2>2
  <2>4. kept \subseteq up
    BY <1>5, <2>1, <2>2
  <2>5. IsFiniteSet(up)
    <3>1. up \subseteq all
      BY <2>2
    <3> QED BY <1>4, <3>1, FS_Subset
  <2>6. Cardinality(kept) <= Cardinality(up)
    BY <2>4, <2>5, FS_Subset
  <2>7. Cardinality(kept) \in Nat /\ Cardinality(up) \in Nat
    BY <1>6, <2>5, FS_CardinalityType
  <2> QED BY <1>3, <1>6, <2>3, <2>6, <2>7, CapsNat
<1> QED BY <1>7, <1>8

LEMMA RefMoreStep == ASSUME RefInd, RefMore, [RefNext]_refVars PROVE RefMore'
<1>1. ASSUME UNCHANGED <<versionsOf, lsn, snaps>> PROVE RefMore'
  BY <1>1 DEF RefMore
<1>2. ASSUME NEW t \in RefTxn, CommitTxn(t) PROVE RefMore'
  <2>1. PICK muts \in Seq(Mutation) : muts = pending[t].muts
    BY DEF RefInd
  <2>2. versionsOf' \in Outcomes(muts) /\ lsn' = lsn + 1 /\ lsn < MaxRefLsn /\ snaps' = snaps
    BY <1>2, <2>1 DEF CommitTxn, Apply
  <2>3. NeatTree(versionsOf) /\ lsn \in Nat
    BY DEF RefMore
  <2>4. PICK new : new = versionsOf'
    OBVIOUS
  <2>5. NeatTree(new)
    BY <2>2, <2>3, <2>4, OutcomesNeat
  <2>6. lsn' \in 0 .. MaxRefLsn
    BY <2>2, <2>3, RefModelAssumption
  <2> QED BY <2>2, <2>4, <2>5, <2>6 DEF RefMore
<1>3. ASSUME CreateSnapshot PROVE RefMore'
  <2>1. IsFiniteSet(DOMAIN snaps') /\ Cardinality(DOMAIN snaps') <= SnapshotCap
    BY <1>3, SnapshotsKept
  <2> QED BY <1>3, <2>1 DEF CreateSnapshot, RefMore
<1> QED BY <1>1, <1>2, <1>3 DEF RefNext, BeginTxn, AddMutation, RollbackTxn, refVars

LEMMA RefTypes == RefInd /\ RefMore => RefTypeOK
<1> SUFFICES ASSUME RefInd, RefMore PROVE RefTypeOK
  OBVIOUS
<1>1. ASSUME NEW k \in RefKey
      PROVE  /\ Len(versionsOf[k]) <= VersionCap
             /\ \A i, j \in DOMAIN versionsOf[k] : i < j => versionsOf[k][i].lsn <= versionsOf[k][j].lsn
  <2>1. PICK ch : ch = versionsOf[k] /\ Neat(ch)
    BY DEF RefMore, NeatTree
  <2>2. DOMAIN ch = 1 .. Len(ch)
    BY <2>1 DEF Neat
  <2> QED BY <2>1, <2>2 DEF Neat, InOrder
<1>2. \A t \in RefTxn : pending[t].at \in {"none", "active", "committed", "gone"}
  BY DEF RefInd
<1> QED BY <1>1, <1>2 DEF RefTypeOK, RefInd, RefMore

(***************************************************************************)
(* The types of pages, which hold after a reopening too, when a page may   *)
(* have two owners and be freed twice: every link leads to a page that is  *)
(* stored, so whatever a walk meets can be read and freed.                 *)
(***************************************************************************)
Usable == FirstFresh..LastPage
Leads(D, c) == c.next = 0 \/ c.next \in D \cap Usable
Led(D, f) == \A q \in DOMAIN f : Leads(D, f[q])
Cacheable(C) == IsFiniteSet(C) /\ Cardinality(C) <= CacheCap
Listed(f) == f \in Seq(Usable) /\ \A i, j \in 1..Len(f) : i < j => f[i] <= f[j]
Typed(s) ==
  /\ IsStore(s)
  /\ s.next \in FirstFresh..(LastPage + 1) /\ Listed(s.free)
  /\ DOMAIN s.disk \subseteq Pages
  /\ DOMAIN s.cached \subseteq DOMAIN s.disk /\ Cacheable(DOMAIN s.cached)
  /\ Led(DOMAIN s.disk, s.disk) /\ Led(DOMAIN s.disk, s.cached)

LEMMA PageNumbers ==
  /\ LastPage \in Nat /\ LastPage >= 2 /\ FirstFresh = 3 /\ RootPage = 2 /\ Usable = 3..LastPage
  /\ Pages = 2..LastPage /\ Usable \subseteq Pages /\ CacheCap \in Nat /\ CacheCap >= 1
BY PageBounds DEF FirstFresh, RootPage, Usable, Pages

LEMMA HoldingLed ==
  ASSUME NEW D, NEW E, D \subseteq E, NEW f, Led(D, f), NEW p, NEW c, Leads(E, c)
  PROVE  DOMAIN Holding(f, p, c) = DOMAIN f \cup {p} /\ Led(E, Holding(f, p, c))
BY DEF Led, Leads, Holding

LEMMA LackingLed ==
  ASSUME NEW D, NEW f, Led(D, f), NEW p
  PROVE  DOMAIN Lacking(f, p) = DOMAIN f \ {p} /\ Led(D, Lacking(f, p))
BY DEF Led, Leads, Lacking

LEMMA LedMore ==
  ASSUME NEW D, NEW E, D \subseteq E, NEW f, Led(D, f)
  PROVE  Led(E, f)
BY DEF Led, Leads

LEMMA CacheMore ==
  ASSUME NEW C, Cacheable(C), NEW p, p \in C \/ Cardinality(C) < CacheCap
  PROVE  Cacheable(C \cup {p})
<1>1. CASE p \in C
  <2>1. C \cup {p} = C
    BY <1>1
  <2> QED BY <2>1
<1>2. CASE p \notin C
  <2>1. IsFiniteSet(C \cup {p}) /\ Cardinality(C \cup {p}) = Cardinality(C) + 1
    BY <1>2, FS_AddElement DEF Cacheable
  <2>2. Cardinality(C) \in Nat
    BY FS_CardinalityType DEF Cacheable
  <2> QED BY <1>2, <2>1, <2>2, PageNumbers DEF Cacheable
<1> QED BY <1>1, <1>2

LEMMA CacheLess ==
  ASSUME NEW C, Cacheable(C), NEW p
  PROVE  Cacheable(C \ {p})
<1>1. C \ {p} \subseteq C
  OBVIOUS
<1>2. IsFiniteSet(C \ {p}) /\ Cardinality(C \ {p}) <= Cardinality(C)
  BY <1>1, FS_Subset DEF Cacheable
<1>3. Cardinality(C) \in Nat /\ Cardinality(C \ {p}) \in Nat
  BY <1>2, FS_CardinalityType DEF Cacheable
<1> QED BY <1>2, <1>3, PageNumbers DEF Cacheable

(* The pages stored: t has those of s and p. *)
Adds(s, t, p) == SameList(s, t) /\ DOMAIN t.disk = DOMAIN s.disk \cup {p}

LEMMA TypedWrite ==
  ASSUME NEW s, Typed(s), NEW p \in Pages, NEW c, Leads(DOMAIN s.disk \cup {p}, c)
  PROVE  LET t == WritePage(s, p, c) IN
         Typed(t) /\ Adds(s, t, p) /\ t.ok = s.ok /\ t.pages = s.pages
<1> DEFINE t == WritePage(s, p, c)
<1>1. /\ SameList(s, t) /\ t.ok = s.ok /\ t.pages = s.pages
      /\ t.disk = Holding(s.disk, p, c)
  BY WritePageIs DEF Typed
<1>2. t.cached = IF p \in DOMAIN s.cached \/ Room(s) THEN Holding(s.cached, p, c) ELSE s.cached
  BY DEF WritePage, Typed, IsStore
<1> HIDE DEF t
<1>3. PICK D, E : D = DOMAIN s.disk /\ E = D \cup {p}
  OBVIOUS
<1>4. D \subseteq E /\ Led(D, s.disk) /\ Led(D, s.cached) /\ Leads(E, c)
  BY <1>3 DEF Typed
<1>5. DOMAIN t.disk = E /\ Led(E, t.disk)
  <2>1. DOMAIN Holding(s.disk, p, c) = DOMAIN s.disk \cup {p} /\ Led(E, Holding(s.disk, p, c))
    BY <1>4, HoldingLed
  <2> QED BY <1>1, <1>3, <2>1
<1>6. DOMAIN t.cached \subseteq E /\ Cacheable(DOMAIN t.cached) /\ Led(E, t.cached)
  <2>1. CASE p \in DOMAIN s.cached \/ Room(s)
    <3>1. DOMAIN t.cached = DOMAIN s.cached \cup {p} /\ Led(E, t.cached)
      <4>1. DOMAIN Holding(s.cached, p, c) = DOMAIN s.cached \cup {p} /\ Led(E, Holding(s.cached, p, c))
        BY <1>4, HoldingLed
      <4> QED BY <1>2, <2>1, <4>1
    <3>2. Cacheable(DOMAIN s.cached \cup {p})
      BY <2>1, CacheMore DEF Typed, Room
    <3> QED BY <1>3, <3>1, <3>2 DEF Typed
  <2>2. CASE ~ (p \in DOMAIN s.cached \/ Room(s))
    BY <1>2, <1>3, <1>4, <2>2, LedMore DEF Typed
  <2> QED BY <2>1, <2>2
<1>7. E \subseteq Pages
  BY <1>3 DEF Typed
<1>8. Typed(t)
  BY <1>1, <1>5, <1>6, <1>7 DEF Typed, SameList
<1> QED BY <1>1, <1>3, <1>5, <1>8 DEF t, Adds

LEMMA TypedRaw ==
  ASSUME NEW s, Typed(s), NEW p \in Pages, NEW c, Leads(DOMAIN s.disk \cup {p}, c)
  PROVE  LET t == WriteRaw(s, p, c) IN Typed(t) /\ Adds(s, t, p)
<1> DEFINE t == WriteRaw(s, p, c)
<1>1. SameList(s, t) /\ t.disk = Holding(s.disk, p, c)
  BY WriteRawIs DEF Typed
<1>0. PICK g : g = Lacking(s.cached, p)
  OBVIOUS
<1>2. t.cached = IF Cardinality(DOMAIN g) >= CacheCap THEN g ELSE Holding(g, p, c)
  BY <1>0 DEF WriteRaw, Typed, IsStore
<1> HIDE DEF t
<1>3. PICK D, E : D = DOMAIN s.disk /\ E = D \cup {p}
  OBVIOUS
<1>4. D \subseteq E /\ Led(D, s.disk) /\ Led(D, s.cached) /\ Leads(E, c)
  BY <1>3 DEF Typed
<1>5. DOMAIN t.disk = E /\ Led(E, t.disk)
  <2>1. DOMAIN Holding(s.disk, p, c) = DOMAIN s.disk \cup {p} /\ Led(E, Holding(s.disk, p, c))
    BY <1>4, HoldingLed
  <2> QED BY <1>1, <1>3, <2>1
<1>6. DOMAIN g = DOMAIN s.cached \ {p} /\ Led(D, g) /\ Cacheable(DOMAIN g)
  <2>1. DOMAIN g = DOMAIN s.cached \ {p} /\ Led(D, g)
    BY <1>0, <1>4, LackingLed
  <2> QED BY <2>1, CacheLess DEF Typed
<1>7. DOMAIN t.cached \subseteq E /\ Cacheable(DOMAIN t.cached) /\ Led(E, t.cached)
  <2>1. CASE Cardinality(DOMAIN g) >= CacheCap
    BY <1>2, <1>3, <1>4, <1>6, <2>1, LedMore DEF Typed
  <2>2. CASE ~ (Cardinality(DOMAIN g) >= CacheCap)
    <3>1. DOMAIN t.cached = DOMAIN g \cup {p} /\ Led(E, t.cached)
      <4>1. DOMAIN Holding(g, p, c) = DOMAIN g \cup {p} /\ Led(E, Holding(g, p, c))
        BY <1>4, <1>6, HoldingLed
      <4> QED BY <1>2, <2>2, <4>1
    <3>2. Cardinality(DOMAIN g) < CacheCap
      <4>1. Cardinality(DOMAIN g) \in Nat
        BY <1>6, FS_CardinalityType DEF Cacheable
      <4> QED BY <2>2, <4>1, PageNumbers
    <3>3. Cacheable(DOMAIN g \cup {p})
      BY <1>6, <3>2, CacheMore
    <3> QED BY <1>3, <1>6, <3>1, <3>3 DEF Typed
  <2> QED BY <2>1, <2>2
<1>8. E \subseteq Pages
  BY <1>3 DEF Typed
<1>9. Typed(t)
  BY <1>1, <1>5, <1>7, <1>8 DEF Typed, SameList
<1> QED BY <1>1, <1>3, <1>5, <1>9 DEF t, Adds

(* What reading a page of the storage leaves. *)
Same(s, t) == SameList(s, t) /\ t.disk = s.disk /\ t.pages = s.pages

LEMMA ContentLeads ==
  ASSUME NEW s, Typed(s), NEW p \in DOMAIN s.disk
  PROVE  Leads(DOMAIN s.disk, Content(s, p))
BY DEF Typed, Led, Content

LEMMA TypedRead ==
  ASSUME NEW s, Typed(s), NEW p \in DOMAIN s.disk
  PROVE  LET t == ReadIn(s, p) IN Typed(t) /\ Same(s, t)
<1> DEFINE t == ReadIn(s, p)
<1>1. SameList(s, t) /\ t.pages = s.pages /\ t.disk = s.disk
  BY ReadInIs DEF Typed
<1>2. t.cached = IF p \in DOMAIN s.cached \/ Room(s) THEN Holding(s.cached, p, Content(s, p)) ELSE s.cached
  BY DEF ReadIn, Readable, Typed, IsStore
<1> HIDE DEF t
<1>3. PICK D, c : D = DOMAIN s.disk /\ c = Content(s, p)
  OBVIOUS
<1>4. Led(D, s.cached) /\ Leads(D, c) /\ p \in D /\ D \subseteq D
  BY <1>3, ContentLeads DEF Typed
<1>5. DOMAIN t.cached \subseteq D /\ Cacheable(DOMAIN t.cached) /\ Led(D, t.cached)
  <2>1. CASE p \in DOMAIN s.cached \/ Room(s)
    <3>1. DOMAIN t.cached = DOMAIN s.cached \cup {p} /\ Led(D, t.cached)
      <4>1. DOMAIN Holding(s.cached, p, c) = DOMAIN s.cached \cup {p} /\ Led(D, Holding(s.cached, p, c))
        BY <1>4, HoldingLed
      <4> QED BY <1>2, <1>3, <2>1, <4>1
    <3>2. Cacheable(DOMAIN s.cached \cup {p})
      BY <2>1, CacheMore DEF Typed, Room
    <3> QED BY <1>3, <3>1, <3>2 DEF Typed
  <2>2. CASE ~ (p \in DOMAIN s.cached \/ Room(s))
    BY <1>2, <1>3, <1>4, <2>2 DEF Typed
  <2> QED BY <2>1, <2>2
<1>6. Typed(t)
  BY <1>1, <1>3, <1>5 DEF Typed, SameList
<1> QED BY <1>1, <1>6 DEF t, Same

LEMMA SameStoreTyped ==
  ASSUME NEW s, Typed(s), NEW t, SameStore(s, t) PROVE Typed(t)
BY DEF Typed, SameStore

LEMMA TypedOverflow ==
  ASSUME NEW s, Typed(s), NEW p \in DOMAIN s.disk
  PROVE  Typed(OverflowIn(s, p)) /\ Same(s, OverflowIn(s, p))
<1>1. CASE ~s.ok
  BY <1>1 DEF OverflowIn, SameList, Same, Typed
<1>2. CASE s.ok
  <2>1. PICK r : r = ReadIn(s, p)
    OBVIOUS
  <2>2. Typed(r) /\ Same(s, r)
    BY <2>1, TypedRead
  <2>3. PICK y : OverflowIn(s, p) = [r EXCEPT !.ok = y]
    BY <1>2, <2>1 DEF OverflowIn
  <2>4. IsStore(r)
    BY <2>2 DEF Typed
  <2>5. /\ SameStore(r, [r EXCEPT !.ok = y]) /\ [r EXCEPT !.ok = y].pages = r.pages
    BY <2>4, NotedIs
  <2>6. SameStore(r, OverflowIn(s, p)) /\ OverflowIn(s, p).pages = r.pages
    BY <2>3, <2>5
  <2>7. Typed(OverflowIn(s, p))
    BY <2>2, <2>6, SameStoreTyped
  <2> QED BY <2>2, <2>6, <2>7 DEF SameStore, SameList, Same
<1> QED BY <1>1, <1>2

(* The allocator: what it takes can be used, even when it was freed twice. *)
Slack(s) == s.next - Len(s.free)

LEMMA ListedIs ==
  ASSUME NEW s, Typed(s)
  PROVE  /\ s.next \in Int /\ s.next >= 3 /\ s.next <= LastPage + 1 /\ Len(s.free) \in Nat
         /\ s.free \in Seq(3..LastPage) /\ Slack(s) \in Int
<1>1. s.next \in 3..(LastPage + 1) /\ s.free \in Seq(3..LastPage) /\ LastPage \in Nat
  BY PageNumbers DEF Typed, Listed
<1>2. s.next \in Int /\ s.next >= 3 /\ s.next <= LastPage + 1
  BY <1>1
<1>3. Len(s.free) \in Nat
  BY <1>1
<1> QED BY <1>1, <1>2, <1>3 DEF Slack

LEMMA TypedAllocate ==
  ASSUME NEW s, Typed(s), CanAllocate(s, 1)
  PROVE  LET t == AllocatePage(s)
             p == NewPage(s) IN
         /\ Typed(t) /\ p \in Usable /\ DOMAIN t.disk = DOMAIN s.disk \cup {p}
         /\ t.ok = s.ok /\ t.pages = s.pages /\ Slack(t) = Slack(s) + 1
<1> DEFINE t == AllocatePage(s)
           p == NewPage(s)
<1>1. /\ IsStore(t) /\ t.ok = s.ok /\ t.pages = s.pages /\ t.cached = s.cached
      /\ t.disk = Holding(s.disk, p, Allocated)
      /\ t.free = IF s.free # <<>> THEN Tail(s.free) ELSE s.free
      /\ t.next = IF s.free # <<>> THEN s.next ELSE s.next + 1
  BY AllocatePageIs DEF Typed
<1>2. p = IF s.free # <<>> THEN s.free[1] ELSE s.next
  BY DEF NewPage
<1>3. /\ s.next \in Int /\ s.next >= 3 /\ s.next <= LastPage + 1 /\ LastPage \in Nat
      /\ s.free \in Seq(3..LastPage) /\ s.next + 1 <= LastPage + 1 + Len(s.free)
  BY ListedIs, PageNumbers DEF CanAllocate
<1> HIDE DEF t, p
<1>4. p \in Usable /\ t.next \in FirstFresh..(LastPage + 1) /\ Listed(t.free) /\ Slack(t) = Slack(s) + 1
  <2>1. CASE s.free = <<>>
    <3>1. t.free = <<>> /\ t.next = s.next + 1 /\ p = s.next /\ Len(s.free) = 0 /\ Len(t.free) = 0
      BY <1>1, <1>2, <2>1
    <3>2. p \in 3..LastPage /\ t.next \in 3..(LastPage + 1)
      BY <1>3, <3>1
    <3>3. Slack(t) = Slack(s) + 1
      BY <1>3, <3>1 DEF Slack
    <3> QED BY <3>1, <3>2, <3>3, PageNumbers DEF Listed
  <2>2. CASE s.free # <<>>
    <3>1. PICK f, P : f = s.free /\ P = 3..LastPage
      OBVIOUS
    <3>2. f \in Seq(P) /\ f # <<>>
      BY <1>3, <2>2, <3>1
    <3>3. /\ Len(f) \in Nat \ {0} /\ Len(Tail(f)) = Len(f) - 1 /\ Tail(f) \in Seq(P)
          /\ \A i \in 1..Len(Tail(f)) : Tail(f)[i] = f[i + 1]
          /\ f[1] \in P
      BY ONLY <3>2
    <3>4. t.free = Tail(f) /\ t.next = s.next /\ p = f[1]
      BY <1>1, <1>2, <2>2, <3>1
    <3>5. PICK g : g = Tail(f)
      OBVIOUS
    <3>6. \A i, j \in 1..Len(f) : i < j => f[i] <= f[j]
      BY <3>1 DEF Typed, Listed
    <3>7. \A i, j \in 1..Len(g) : i < j => g[i] <= g[j]
      <4> SUFFICES ASSUME NEW i \in 1..Len(g), NEW j \in 1..Len(g), i < j PROVE g[i] <= g[j]
        OBVIOUS
      <4>1. PICK n \in Nat : n = Len(f) /\ Len(g) = n - 1
        BY <3>3, <3>5
      <4>2. i + 1 \in 1..Len(f) /\ j + 1 \in 1..Len(f) /\ i + 1 < j + 1
        BY <4>1
      <4>3. f[i + 1] <= f[j + 1]
        BY <3>6, <4>2
      <4> QED BY <3>3, <3>5, <4>3
    <3>8. Listed(g)
      BY <3>1, <3>3, <3>5, <3>7, PageNumbers DEF Listed
    <3>9. Slack(t) = Slack(s) + 1
      <4>1. PICK m \in Int, n \in Nat : m = s.next /\ n = Len(s.free)
        BY <1>3, <3>1, <3>3
      <4>2. t.next = m /\ Len(t.free) = n - 1
        BY <3>1, <3>3, <3>4, <4>1
      <4> QED BY <4>1, <4>2 DEF Slack
    <3>10. t.next \in 3..(LastPage + 1)
      BY <1>3, <3>4
    <3> QED BY <3>1, <3>3, <3>4, <3>5, <3>8, <3>9, <3>10, PageNumbers
  <2> QED BY <2>1, <2>2
<1>5. PICK D, E : D = DOMAIN s.disk /\ E = D \cup {p}
  OBVIOUS
<1>6. D \subseteq E /\ Led(D, s.disk) /\ Led(D, s.cached) /\ Leads(E, Allocated)
  BY <1>5 DEF Typed, Leads, Allocated
<1>7. DOMAIN t.disk = E /\ Led(E, t.disk)
  <2>1. DOMAIN Holding(s.disk, p, Allocated) = DOMAIN s.disk \cup {p} /\ Led(E, Holding(s.disk, p, Allocated))
    BY <1>6, HoldingLed
  <2> QED BY <1>1, <1>5, <2>1
<1>8. DOMAIN t.cached \subseteq E /\ Cacheable(DOMAIN t.cached) /\ Led(E, t.cached)
  BY <1>1, <1>5, <1>6, LedMore DEF Typed
<1>9. E \subseteq Pages
  BY <1>4, <1>5, PageNumbers DEF Typed
<1>10. Typed(t)
  BY <1>1, <1>4, <1>7, <1>8, <1>9 DEF Typed
<1> QED BY <1>1, <1>4, <1>5, <1>7, <1>10 DEF t, p

(* Where the search of a list that may hold a page twice points. *)
LEMMA ListedSearch ==
  ASSUME NEW f, Listed(f), NEW p \in Usable
  PROVE  /\ SearchFor(f, p) \in 0..Len(f)
         /\ \A i \in 1..Len(f) : f[i] < p <=> i <= SearchFor(f, p)
<1> DEFINE Right(n) == \A i \in 1..Len(f) : f[i] < p <=> i <= n
           S == {0} \cup {i \in 1..Len(f) : f[i] < p}
<1>0. f \in Seq(3..LastPage) /\ LastPage \in Nat /\ p \in Int /\ \A i, j \in 1..Len(f) : i < j => f[i] <= f[j]
  BY PageNumbers DEF Listed
<1>a. Len(f) \in Nat /\ \A i \in 1..Len(f) : f[i] \in Int
  BY <1>0
<1>1. S \subseteq 0..Len(f) /\ S # {}
  BY <1>a
<1>2. PICK n \in S : \A m \in S : n >= m
  BY <1>a, <1>1, Greatest
<1>3. Right(n)
  <2> SUFFICES ASSUME NEW i \in 1..Len(f) PROVE f[i] < p <=> i <= n
    OBVIOUS
  <2>0. n \in Int /\ i \in Int /\ f[i] \in Int
    BY <1>a, <1>1
  <2>1. ASSUME f[i] < p PROVE i <= n
    BY <1>2, <2>0, <2>1
  <2>2. ASSUME i <= n PROVE f[i] < p
    <3>1. n \in 1..Len(f) /\ f[n] < p
      BY <1>2, <2>0, <2>2
    <3>2. i = n \/ f[i] <= f[n]
      BY <1>0, <2>0, <2>2, <3>1
    <3> QED BY <1>0, <1>a, <2>0, <3>1, <3>2
  <2> QED BY <2>1, <2>2
<1>4. \E m \in 0..Len(f) : Right(m)
  BY <1>1, <1>3
<1>5. SearchFor(f, p) = CHOOSE m \in 0..Len(f) : Right(m)
  BY DEF SearchFor
<1> HIDE DEF Right
<1>6. SearchFor(f, p) \in 0..Len(f) /\ Right(SearchFor(f, p))
  BY <1>4, <1>5
<1> QED BY <1>6 DEF Right

LEMMA ListedInsert ==
  ASSUME NEW f, Listed(f), NEW p \in Usable
  PROVE  Listed(InsertAt(f, SearchFor(f, p) + 1, p))
<1>0. f \in Seq(Usable) /\ (\A i, j \in 1..Len(f) : i < j => f[i] <= f[j]) /\ Len(f) \in Nat
  BY DEF Listed
<1>1. PICK n \in 0..Len(f) : n = SearchFor(f, p) /\ \A i \in 1..Len(f) : f[i] < p <=> i <= n
  BY ListedSearch
<1>2. PICK g : g = InsertAt(f, n + 1, p)
  OBVIOUS
<1>3. Inserted(f, g, n, p, Usable)
  BY <1>0, <1>2, InsertIs
<1>4. PICK m \in Nat : m = Len(f) /\ n \in 0..m
  BY <1>0
<1>5. /\ g \in Seq(Usable) /\ Len(g) = m + 1
      /\ \A x \in 1..(m + 1) : g[x] = IF x <= n THEN f[x] ELSE IF x = n + 1 THEN p ELSE f[x - 1]
  BY <1>3, <1>4 DEF Inserted
<1>6. p \in Int /\ \A x \in 1..m : f[x] \in Int
  <2>1. \A x \in 1..m : f[x] \in Usable
    BY <1>0, <1>4
  <2> QED BY <2>1, PageNumbers
<1>7. \A x \in 1..m : (x <= n => f[x] <= p) /\ (x > n => p <= f[x])
  BY <1>1, <1>4, <1>6
<1>8. ASSUME NEW x \in 1..(m + 1), NEW y \in 1..(m + 1), x < y PROVE g[x] <= g[y]
  <2>0. \A a, b \in 1..m : a < b => f[a] <= f[b]
    BY <1>0, <1>4
  <2>1. CASE y <= n
    <3>1. g[x] = f[x] /\ g[y] = f[y] /\ x \in 1..m /\ y \in 1..m
      BY <1>4, <1>5, <1>8, <2>1
    <3> QED BY <1>8, <2>0, <3>1
  <2>2. CASE y = n + 1
    <3>1. g[x] = f[x] /\ g[y] = p /\ x \in 1..m /\ x <= n
      BY <1>4, <1>5, <1>8, <2>2
    <3> QED BY <1>7, <3>1
  <2>3. CASE y > n + 1
    <3>1. g[y] = f[y - 1] /\ y - 1 \in 1..m /\ y - 1 > n
      BY <1>4, <1>5, <2>3
    <3>2. CASE x <= n
      <4>1. g[x] = f[x] /\ x \in 1..m /\ x < y - 1
        BY <1>4, <1>5, <2>3, <3>2
      <4> QED BY <2>0, <3>1, <4>1
    <3>3. CASE x = n + 1
      <4>1. g[x] = p
        BY <1>4, <1>5, <3>3
      <4> QED BY <1>7, <3>1, <4>1
    <3>4. CASE x > n + 1
      <4>1. g[x] = f[x - 1] /\ x - 1 \in 1..m /\ x - 1 < y - 1
        BY <1>4, <1>5, <1>8, <3>4
      <4> QED BY <2>0, <3>1, <4>1
    <3> QED BY <1>4, <3>2, <3>3, <3>4
  <2> QED BY <1>4, <2>1, <2>2, <2>3
<1>9. Listed(g)
  BY <1>5, <1>8 DEF Listed
<1> QED BY <1>1, <1>2, <1>9

LEMMA TypedFree ==
  ASSUME NEW s, Typed(s), NEW p \in Usable
  PROVE  Typed(FreePage(s, p)) /\ FreePage(s, p).disk = s.disk
<1>1. PICK t : t = FreePage(s, p)
  OBVIOUS
<1>2. /\ IsStore(t) /\ t.disk = s.disk /\ t.next = s.next /\ t.cached = Lacking(s.cached, p)
      /\ t.free = InsertAt(s.free, SearchFor(s.free, p) + 1, p)
  BY <1>1, FreePageIs DEF Typed
<1>3. Listed(t.free)
  BY <1>2, ListedInsert DEF Typed
<1>4. PICK D : D = DOMAIN s.disk
  OBVIOUS
<1>5. DOMAIN t.cached = DOMAIN s.cached \ {p} /\ Led(D, t.cached)
  <2>1. Led(D, s.cached)
    BY <1>4 DEF Typed
  <2>2. DOMAIN Lacking(s.cached, p) = DOMAIN s.cached \ {p} /\ Led(D, Lacking(s.cached, p))
    BY <2>1, LackingLed
  <2> QED BY <1>2, <2>2
<1>6. Cacheable(DOMAIN t.cached)
  BY <1>5, CacheLess DEF Typed
<1>7. Typed(t)
  BY <1>2, <1>3, <1>4, <1>5, <1>6 DEF Typed
<1> QED BY <1>1, <1>2, <1>7

LEMMA TypedVisit ==
  ASSUME NEW s, Typed(s), NEW p \in DOMAIN s.disk \cap Usable, NEW frees
  PROVE  Typed(Visit(s, p, frees)) /\ Visit(s, p, frees).disk = s.disk
<1>1. PICK r : r = OverflowIn(s, p)
  OBVIOUS
<1>2. Typed(r) /\ r.disk = s.disk
  BY <1>1, TypedOverflow DEF Same
<1>3. Typed(FreePage(r, p)) /\ FreePage(r, p).disk = r.disk
  BY <1>2, TypedFree
<1>4. Visit(s, p, frees) = r \/ Visit(s, p, frees) = FreePage(r, p)
  BY <1>1 DEF Visit, FreeLink
<1> QED BY <1>2, <1>3, <1>4

(* A chain as its owner knows it: pages that are stored. *)
Chained(s, w) == w \in Seq(DOMAIN s.disk \cap Usable)

(* After some turns of allocate_overflow_chain from z. *)
Linking(z, s, i) ==
  /\ Typed(s) /\ Slack(s) <= Slack(z) + i /\ DOMAIN z.disk \subseteq DOMAIN s.disk
  /\ Chained(s, s.pages) /\ (s.ok => Len(s.pages) = i)

LEMMA SlackSame ==
  ASSUME NEW s, NEW t, SameList(s, t) PROVE Slack(t) = Slack(s)
BY DEF SameList, Slack

LEMMA ChainedMore ==
  ASSUME NEW s, NEW t, DOMAIN s.disk \subseteq DOMAIN t.disk, NEW w, Chained(s, w) PROVE Chained(t, w)
<1>1. PICK A, B : A = DOMAIN s.disk \cap Usable /\ B = DOMAIN t.disk \cap Usable
  OBVIOUS
<1>2. A \subseteq B
  BY <1>1
<1>3. w \in Seq(A)
  BY <1>1 DEF Chained
<1>4. w \in Seq(B)
  BY <1>2, <1>3
<1> QED BY <1>1, <1>4 DEF Chained

LEMMA ChainedAppend ==
  ASSUME NEW s, NEW w, Chained(s, w), NEW p \in DOMAIN s.disk \cap Usable
  PROVE  Chained(s, Append(w, p)) /\ Len(Append(w, p)) = Len(w) + 1
<1>1. PICK A : A = DOMAIN s.disk \cap Usable
  OBVIOUS
<1>2. w \in Seq(A) /\ p \in A
  BY <1>1 DEF Chained
<1>3. Append(w, p) \in Seq(A) /\ Len(Append(w, p)) = Len(w) + 1
  BY <1>2
<1> QED BY <1>1, <1>3 DEF Chained

LEMMA TypedAddLink ==
  ASSUME NEW z, Typed(z), NEW n \in Nat, CanAllocate(z, n), NEW s, NEW i \in Nat, i < n, Linking(z, s, i)
  PROVE  Linking(z, AddLink(s, i + 1), i + 1)
<1>0. /\ Typed(s) /\ Slack(s) \in Int /\ Slack(z) \in Int /\ Slack(s) <= Slack(z) + i
      /\ DOMAIN z.disk \subseteq DOMAIN s.disk /\ Chained(s, s.pages)
  BY ListedIs DEF Linking
<1>1. CASE ~s.ok
  <2>1. AddLink(s, i + 1) = s
    BY <1>1 DEF AddLink
  <2>2. Slack(s) <= Slack(z) + (i + 1)
    <3>1. PICK a, b \in Int : a = Slack(s) /\ b = Slack(z)
      BY <1>0
    <3>2. a <= b + i
      BY <1>0, <3>1
    <3>3. a <= b + (i + 1)
      BY ONLY <3>2, a \in Int, b \in Int, i \in Nat
    <3> QED BY <3>1, <3>3
  <2> QED BY <1>0, <1>1, <2>1, <2>2 DEF Linking
<1>2. CASE s.ok
  <2>1. CanAllocate(s, 1)
    <3>1. PICK a, b, c, d \in Int : a = s.next /\ b = Len(s.free) /\ c = z.next /\ d = Len(z.free)
      <4>1. s.next \in Int /\ Len(s.free) \in Nat /\ z.next \in Int /\ Len(z.free) \in Nat
        BY <1>0, ListedIs
      <4> QED BY <4>1
    <3>2. a - b <= c - d + i /\ c + n <= LastPage + 1 + d /\ LastPage \in Int
      <4>1. Slack(s) = a - b /\ Slack(z) = c - d
        BY <3>1 DEF Slack
      <4>2. c + n <= LastPage + 1 + d
        BY <3>1 DEF CanAllocate
      <4> QED BY <1>0, <4>1, <4>2, PageNumbers
    <3>3. a + 1 <= LastPage + 1 + b
      BY ONLY <3>2, i < n, n \in Nat, i \in Nat, a \in Int, b \in Int, c \in Int, d \in Int
    <3> QED BY <3>1, <3>3 DEF CanAllocate
  <2>2. PICK p, a : p = NewPage(s) /\ a = AllocatePage(s)
    OBVIOUS
  <2>3. /\ Typed(a) /\ p \in Usable /\ DOMAIN a.disk = DOMAIN s.disk \cup {p}
        /\ a.ok = s.ok /\ a.pages = s.pages /\ Slack(a) = Slack(s) + 1
    BY <1>0, <2>1, <2>2, TypedAllocate
  <2>4. p \in Pages /\ p \in DOMAIN a.disk
    BY <2>3, PageNumbers
  <2>5. \A D, x : Leads(D, Overflow(x, 0))
    BY DEF Leads, Overflow
  <2>6. PICK b : b = WritePage(a, p, Overflow(0, 0))
    OBVIOUS
  <2>7. Typed(b) /\ Adds(a, b, p) /\ b.ok = a.ok /\ b.pages = a.pages
    BY <2>3, <2>4, <2>5, <2>6, TypedWrite
  <2>8. PICK w : w = WritePage(b, p, Overflow(i + 1, 0))
    OBVIOUS
  <2>9. Typed(w) /\ Adds(b, w, p) /\ w.ok = b.ok /\ w.pages = b.pages
    BY <2>4, <2>5, <2>7, <2>8, TypedWrite
  <2>10. /\ DOMAIN w.disk = DOMAIN s.disk \cup {p} /\ w.ok /\ w.pages = s.pages
         /\ Slack(w) = Slack(s) + 1
    BY <1>2, <2>3, <2>7, <2>9, SlackSame DEF Adds
  <2>11. Slack(w) <= Slack(z) + (i + 1)
    <3>1. PICK c, d \in Int : c = Slack(s) /\ d = Slack(z)
      BY <1>0
    <3>2. c <= d + i
      BY <1>0, <3>1
    <3>3. c + 1 <= d + (i + 1)
      BY ONLY <3>2, c \in Int, d \in Int, i \in Nat
    <3> QED BY <2>10, <3>1, <3>3
  <2>12. Chained(w, s.pages) /\ p \in DOMAIN w.disk \cap Usable
    <3>1. DOMAIN s.disk \subseteq DOMAIN w.disk
      BY <2>10
    <3> QED BY <1>0, <2>3, <2>10, <3>1, ChainedMore
  <2>13. Len(s.pages) = i /\ s.pages \in Seq(DOMAIN s.disk \cap Usable)
    BY <1>2 DEF Linking, Chained
  <2>a. PICK prev, r : prev = Last(s.pages) /\ r = OverflowIn(w, prev)
    OBVIOUS
  <2>b. AddLink(s, i + 1) = IF s.pages = <<>> THEN [w EXCEPT !.pages = <<p>>]
                            ELSE IF ~r.ok THEN [r EXCEPT !.pages = Append(r.pages, p)]
                            ELSE LET v == WritePage(r, prev, Overflow(Content(r, prev).data, p))
                                 IN  [v EXCEPT !.pages = Append(v.pages, p)]
    BY <1>2, <2>2, <2>6, <2>8, <2>a DEF AddLink
  <2>14. ASSUME NEW v, Typed(v), DOMAIN v.disk = DOMAIN w.disk, Slack(v) = Slack(w),
                NEW e, Chained(w, e), Len(e) = i + 1, AddLink(s, i + 1) = [v EXCEPT !.pages = e]
         PROVE  Linking(z, AddLink(s, i + 1), i + 1)
    <3>1. PICK u : u = [v EXCEPT !.pages = e]
      OBVIOUS
    <3>2. SameStore(v, u) /\ u.pages = e
      <4>1. IsStore(v)
        BY <2>14 DEF Typed
      <4> QED BY <3>1, <4>1 DEF IsStore, SameStore
    <3>3. Typed(u)
      BY <2>14, <3>2, SameStoreTyped
    <3>4. Slack(u) = Slack(w) /\ DOMAIN u.disk = DOMAIN w.disk
      BY <2>14, <3>2 DEF SameStore, Slack
    <3>5. Chained(u, u.pages)
      BY <2>14, <3>2, <3>4 DEF Chained
    <3>6. DOMAIN z.disk \subseteq DOMAIN u.disk
      BY <1>0, <2>10, <3>4
    <3>7. Slack(u) <= Slack(z) + (i + 1)
      BY <2>11, <3>4
    <3>8. Len(u.pages) = i + 1
      BY <2>14, <3>2
    <3> QED BY <2>14, <3>1, <3>3, <3>5, <3>6, <3>7, <3>8 DEF Linking
  <2>15. CASE s.pages = <<>>
    <3>1. PICK e : e = <<p>>
      OBVIOUS
    <3>2. Chained(w, e) /\ Len(e) = i + 1
      <4>1. i = 0
        BY <2>13, <2>15
      <4>2. e \in Seq(DOMAIN w.disk \cap Usable) /\ Len(e) = 1
        BY <2>12, <3>1
      <4> QED BY <4>1, <4>2 DEF Chained
    <3> QED BY <2>9, <2>14, <2>15, <2>b, <3>1, <3>2
  <2>16. CASE s.pages # <<>>
    <3>1. prev \in DOMAIN s.disk \cap Usable
      <4>1. PICK f, A : f = s.pages /\ A = DOMAIN s.disk \cap Usable
        OBVIOUS
      <4>2. f \in Seq(A) /\ f # <<>>
        BY <2>13, <2>16, <4>1
      <4>3. f[Len(f)] \in A
        BY <4>2
      <4> QED BY <2>a, <4>1, <4>3 DEF Last
    <3>2. prev \in DOMAIN w.disk /\ prev \in Pages
      BY <2>10, <3>1, PageNumbers
    <3>3. Typed(r) /\ Same(w, r)
      BY <2>9, <2>a, <3>2, TypedOverflow
    <3>4. r.pages = s.pages /\ DOMAIN r.disk = DOMAIN w.disk /\ Slack(r) = Slack(w)
      BY <2>10, <3>3, SlackSame DEF Same
    <3>5. PICK e : e = Append(s.pages, p)
      OBVIOUS
    <3>6. Chained(w, e) /\ Len(e) = i + 1
      BY <2>12, <2>13, <3>5, ChainedAppend
    <3>7. CASE ~r.ok
      BY <2>14, <2>16, <2>b, <3>3, <3>4, <3>5, <3>6, <3>7
    <3>8. CASE r.ok
      <4>1. PICK c, v : c = Overflow(Content(r, prev).data, p) /\ v = WritePage(r, prev, c)
        OBVIOUS
      <4>2. Leads(DOMAIN r.disk \cup {prev}, c)
        BY <2>12, <3>4, <4>1 DEF Leads, Overflow
      <4>3. Typed(v) /\ Adds(r, v, prev) /\ v.pages = r.pages
        BY <3>2, <3>3, <4>1, <4>2, TypedWrite
      <4>4. DOMAIN v.disk = DOMAIN w.disk /\ Slack(v) = Slack(w)
        BY <3>2, <3>4, <4>3, SlackSame DEF Adds
      <4>5. AddLink(s, i + 1) = [v EXCEPT !.pages = e]
        BY <2>16, <2>b, <3>4, <3>5, <3>8, <4>1, <4>3
      <4> QED BY <2>14, <3>6, <4>3, <4>4, <4>5
    <3> QED BY <3>7, <3>8
  <2> QED BY <2>15, <2>16
<1> QED BY <1>1, <1>2

LEMMA TypedLinked ==
  ASSUME NEW z, Typed(z), NEW n \in Nat, CanAllocate(z, n), Linking(z, z, 0)
  PROVE  Linking(z, Linked(z, n), n)
<1>1. PICK f : /\ f[0] = z /\ Linked(z, n) = f[n]
               /\ \A i \in 0..(n - 1) : f[i + 1] = AddLink(f[i], i + 1)
  BY LinkedIs
<1> DEFINE N == {m \in Nat : m <= n => Linking(z, f[m], m)}
<1>2. 0 \in N
  BY <1>1
<1>3. ASSUME NEW m \in Nat, m \in N PROVE m + 1 \in N
  <2>1. CASE m + 1 <= n
    <3>1. m < n /\ Linking(z, f[m], m) /\ m \in 0..(n - 1)
      BY <1>3, <2>1
    <3>2. Linking(z, AddLink(f[m], m + 1), m + 1)
      BY <3>1, TypedAddLink
    <3> QED BY <1>1, <3>1, <3>2
  <2>2. CASE ~(m + 1 <= n)
    BY <2>2
  <2> QED BY <2>1, <2>2
<1> HIDE DEF N
<1>4. Nat \subseteq N
  BY <1>2, <1>3, SetInduction
<1> QED BY <1>1, <1>4 DEF N

LEMMA TypedVisited ==
  ASSUME NEW z, Typed(z), NEW w, Chained(z, w), NEW frees
  PROVE  Typed(Visited(z, w, frees)) /\ Visited(z, w, frees).disk = z.disk
<1>0. w \in Seq(DOMAIN z.disk \cap Usable) /\ Len(w) \in Nat
  BY DEF Chained
<1>1. PICK f : /\ f[0] = z /\ Visited(z, w, frees) = f[Len(w)]
               /\ \A i \in 0..(Len(w) - 1) : f[i + 1] = Visit(f[i], w[i + 1], frees)
  <2>1. \E f : VisitsBy(f, z, w, frees)
    BY <1>0, VisitedIs
  <2> QED BY <2>1 DEF VisitsBy
<1> DEFINE Good(m) == Typed(f[m]) /\ f[m].disk = z.disk
           N == {m \in Nat : m <= Len(w) => Good(m)}
<1>2. 0 \in N
  BY <1>1
<1>3. ASSUME NEW m \in Nat, m \in N PROVE m + 1 \in N
  <2>1. CASE m + 1 <= Len(w)
    <3>1. Good(m) /\ m \in 0..(Len(w) - 1) /\ m + 1 \in 1..Len(w)
      BY <1>0, <1>3, <2>1
    <3>2. PICK p : p = w[m + 1]
      OBVIOUS
    <3>3. p \in DOMAIN f[m].disk \cap Usable
      <4>1. p \in DOMAIN z.disk \cap Usable
        BY <1>0, <3>1, <3>2
      <4> QED BY <3>1, <4>1
    <3>4. Typed(Visit(f[m], p, frees)) /\ Visit(f[m], p, frees).disk = f[m].disk
      BY <3>1, <3>3, TypedVisit
    <3>5. f[m + 1] = Visit(f[m], p, frees)
      BY <1>1, <3>1, <3>2
    <3>6. Good(m + 1)
      BY <3>1, <3>4, <3>5
    <3> QED BY <3>6
  <2>2. CASE ~(m + 1 <= Len(w))
    BY <2>2
  <2> QED BY <2>1, <2>2
<1> HIDE DEF N
<1>4. Nat \subseteq N
  BY <1>2, <1>3, SetInduction
<1> HIDE DEF Good
<1>5. Good(Len(w))
  BY <1>0, <1>4 DEF N
<1> QED BY <1>1, <1>5 DEF Good

LEMMA TypedWalk ==
  ASSUME NEW s, Typed(s), NEW p \in DOMAIN s.disk \cap Usable
  PROVE  Chained(s, Walk(s, p))
<1> DEFINE P == DOMAIN s.disk \cap Usable
           V == Seq(P) \ {<<>>}
           G == [i \in 1..LastPage |-> [w \in V |-> Further(s, w)]]
           Q(g) == WalkBy(g, s, p)
<1>0. LastPage \in Nat
  BY PageNumbers
<1>1. ASSUME NEW w \in V PROVE Further(s, w) \in V
  <2>1. PICK q : q = Content(s, Last(w)).next
    OBVIOUS
  <2>2. Last(w) \in P
    <3>1. w \in Seq(P) /\ w # <<>>
      OBVIOUS
    <3>2. w[Len(w)] \in P
      <4> HIDE DEF P
      <4> QED BY <3>1
    <3> QED BY <3>2 DEF Last
  <2>3. q = 0 \/ q \in P
    BY <2>1, <2>2, ContentLeads DEF Leads
  <2>4. Further(s, w) = IF q = 0 \/ q \in Range(w) THEN w ELSE Append(w, q)
    BY <2>1 DEF Further
  <2>5. q \in P => Append(w, q) \in V
    <3> HIDE DEF P
    <3>1. w \in Seq(P) /\ w # <<>>
      OBVIOUS
    <3>2. q \in P => Append(w, q) \in Seq(P) /\ Append(w, q) # <<>>
      BY <3>1
    <3> QED BY <3>2
  <2> QED BY <2>3, <2>4, <2>5
<1>2. <<p>> \in V
  OBVIOUS
<1>3. G \in [1..LastPage -> [V -> V]] /\ \A i \in 1..LastPage, w \in V : G[i][w] = Further(s, w)
  BY <1>1
<1> HIDE DEF V, G, P
<1>4. PICK f \in [0..LastPage -> V] : f[0] = <<p>> /\ \A i \in 1..LastPage : f[i] = G[i][f[i - 1]]
  <2>1. PICK W, y, h, m : W = V /\ y = <<p>> /\ h = G /\ m = LastPage
    OBVIOUS
  <2>2. y \in W /\ m \in Nat /\ h \in [1..m -> [W -> W]]
    BY <1>0, <1>2, <1>3, <2>1
  <2>3. \E f \in [0..m -> W] : f[0] = y /\ \A i \in 1..m : f[i] = h[i][f[i - 1]]
    BY ONLY <2>2, IterationExists
  <2> QED BY <2>1, <2>3
<1>5. ASSUME NEW i \in 0..LastPage PROVE f[i] = IF i = 0 THEN <<p>> ELSE Further(s, f[i - 1])
  <2>1. CASE i = 0
    BY <1>4, <2>1
  <2>2. CASE i # 0
    <3>1. i \in 1..LastPage /\ i - 1 \in 0..LastPage
      BY <1>0, <2>2
    <3> QED BY <1>3, <1>4, <2>2, <3>1
  <2> QED BY <2>1, <2>2
<1>6. f = [i \in 0..LastPage |-> IF i = 0 THEN <<p>> ELSE Further(s, f[i - 1])]
  BY <1>4, <1>5
<1>7. Q(f)
  BY <1>6 DEF WalkBy
<1> DEFINE walk == CHOOSE g : Q(g)
<1>8. Walk(s, p) = walk[LastPage]
  BY DEF Walk, WalkBy
<1> HIDE DEF Q
<1>9. Q(walk)
  BY <1>7, Zenon
<1>10. PICK g : g = walk
  OBVIOUS
<1>11. \A i \in 0..LastPage : g[i] = IF i = 0 THEN <<p>> ELSE Further(s, g[i - 1])
  BY <1>9, <1>10 DEF Q, WalkBy
<1> HIDE DEF walk
<1> DEFINE N == {m \in Nat : m <= LastPage => g[m] \in V}
<1>12. 0 \in N
  BY <1>0, <1>2, <1>11
<1>13. ASSUME NEW m \in Nat, m \in N PROVE m + 1 \in N
  <2>1. CASE m + 1 <= LastPage
    <3>1. m + 1 \in 0..LastPage /\ m <= LastPage /\ m + 1 # 0 /\ (m + 1) - 1 = m
      BY <1>0, <2>1
    <3>2. g[m] \in V
      BY <1>13, <3>1
    <3>3. g[m + 1] = Further(s, g[m])
      BY <1>11, <3>1
    <3> QED BY <1>1, <3>2, <3>3
  <2>2. CASE ~ (m + 1 <= LastPage)
    BY <2>2
  <2> QED BY <2>1, <2>2
<1> HIDE DEF N
<1>14. LastPage \in N
  BY <1>0, <1>12, <1>13, SetInduction
<1>15. g[LastPage] \in V
  BY <1>0, <1>14 DEF N
<1> QED BY <1>8, <1>10, <1>15 DEF V, P, Chained

PageKinds ==
  /\ Typed(Store) /\ nodes \subseteq DOMAIN disk /\ reopened \in BOOLEAN
  /\ \A c \in chains : Chained(Store, c) /\ c # <<>>

LEMMA KindsKeep ==
  ASSUME NEW t, Typed(t), Becomes(t), nodes' \subseteq DOMAIN t.disk, reopened' \in BOOLEAN,
         \A c \in chains' : Chained(t, c) /\ c # <<>>
  PROVE  PageKinds'
<1>1. PICK u : u = Store'
  OBVIOUS
<1>2. SameStore(t, u) /\ t.disk = disk'
  BY <1>1 DEF Store, Becomes, SameStore, IsStore
<1>3. Typed(u)
  BY <1>2, SameStoreTyped
<1>4. \A c \in chains' : Chained(u, c) /\ c # <<>>
  BY <1>2 DEF SameStore, Chained
<1> QED BY <1>1, <1>2, <1>3, <1>4 DEF PageKinds

LEMMA SplitKinds == ASSUME PageKinds, NEW d, SplitNode(d) PROVE PageKinds'
<1>1. PICK s, a, p, t : s = Store /\ a = AllocatePage(s) /\ p = NewPage(s) /\ t = WriteRaw(a, p, Node(d))
  OBVIOUS
<1>2. /\ Typed(s) /\ nodes \subseteq DOMAIN s.disk /\ reopened \in BOOLEAN
      /\ \A c \in chains : Chained(s, c) /\ c # <<>>
  BY <1>1 DEF PageKinds, Store
<1>3. /\ CanAllocate(s, 1) /\ Becomes(t) /\ nodes' \in {nodes, nodes \cup {p}} /\ chains' = chains
      /\ reopened' = reopened
  BY <1>1 DEF SplitNode
<1>4. Typed(a) /\ p \in Usable /\ DOMAIN a.disk = DOMAIN s.disk \cup {p}
  BY <1>1, <1>2, <1>3, TypedAllocate
<1>5. Leads(DOMAIN a.disk \cup {p}, Node(d)) /\ p \in Pages
  BY <1>4, PageNumbers DEF Leads, Node
<1>6. Typed(t) /\ DOMAIN t.disk = DOMAIN a.disk \cup {p}
  BY <1>1, <1>4, <1>5, TypedRaw DEF Adds
<1>7. nodes' \subseteq DOMAIN t.disk /\ DOMAIN s.disk \subseteq DOMAIN t.disk
  BY <1>2, <1>3, <1>4, <1>6
<1>8. \A c \in chains' : Chained(t, c) /\ c # <<>>
  BY <1>2, <1>3, <1>7, ChainedMore
<1> QED BY <1>2, <1>3, <1>6, <1>7, <1>8, KindsKeep

LEMMA ChainKinds == ASSUME PageKinds, NEW n \in 1..MaxChain, AllocateChain(n) PROVE PageKinds'
<1>1. PICK s, t : s = Store /\ t = Linked(s, n)
  OBVIOUS
<1>2. /\ Typed(s) /\ nodes \subseteq DOMAIN s.disk /\ reopened \in BOOLEAN
      /\ \A c \in chains : Chained(s, c) /\ c # <<>>
  BY <1>1 DEF PageKinds, Store
<1>3. /\ CanAllocate(s, n) /\ Becomes(t) /\ nodes' = nodes /\ reopened' = reopened
      /\ chains' = IF t.ok THEN chains \cup {t.pages} ELSE chains
  BY <1>1 DEF AllocateChain
<1>4. n \in Nat /\ n >= 1
  BY PageBounds
<1>5. Linking(s, s, 0)
  <2>1. s.pages = <<>>
    BY <1>1 DEF Store
  <2>2. Chained(s, <<>>) /\ Len(<<>>) = 0
    BY DEF Chained
  <2>3. Slack(s) \in Int
    BY <1>2, ListedIs
  <2>4. Slack(s) <= Slack(s) + 0
    BY <2>3
  <2> QED BY <1>2, <2>1, <2>2, <2>4 DEF Linking
<1>6. Linking(s, t, n)
  BY <1>1, <1>2, <1>3, <1>4, <1>5, TypedLinked
<1>7. /\ Typed(t) /\ DOMAIN s.disk \subseteq DOMAIN t.disk /\ Chained(t, t.pages)
      /\ t.ok => Len(t.pages) = n
  BY <1>6 DEF Linking
<1>8. \A c \in chains : Chained(t, c) /\ c # <<>>
  BY <1>2, <1>7, ChainedMore
<1>9. t.ok => t.pages # <<>>
  BY <1>4, <1>7
<1>10. \A c \in chains' : Chained(t, c) /\ c # <<>>
  BY <1>3, <1>7, <1>8, <1>9
<1>11. nodes' \subseteq DOMAIN t.disk
  BY <1>2, <1>3, <1>7
<1> QED BY <1>2, <1>3, <1>7, <1>10, <1>11, KindsKeep

LEMMA VisitKinds ==
  ASSUME PageKinds, NEW c \in chains, NEW frees, Becomes(Visited(Store, Walk(Store, c[1]), frees)),
         nodes' = nodes, reopened' = reopened, chains' \subseteq chains
  PROVE  PageKinds'
<1>1. PICK s, w, t : s = Store /\ w = Walk(s, c[1]) /\ t = Visited(s, w, frees)
  OBVIOUS
<1>2. /\ Typed(s) /\ nodes \subseteq DOMAIN s.disk /\ reopened \in BOOLEAN
      /\ \A e \in chains : Chained(s, e) /\ e # <<>>
  BY <1>1 DEF PageKinds, Store
<1>3. c[1] \in DOMAIN s.disk \cap Usable
  <2>1. PICK A : A = DOMAIN s.disk \cap Usable
    OBVIOUS
  <2>2. c \in Seq(A) /\ c # <<>>
    BY <1>2, <2>1 DEF Chained
  <2>3. c[1] \in A
    BY <2>2
  <2> QED BY <2>1, <2>3
<1>4. Chained(s, w)
  BY <1>1, <1>2, <1>3, TypedWalk
<1>5. Typed(t) /\ t.disk = s.disk
  BY <1>1, <1>2, <1>4, TypedVisited
<1>6. \A e \in chains' : Chained(t, e) /\ e # <<>>
  BY <1>2, <1>5 DEF Chained
<1>7. nodes' \subseteq DOMAIN t.disk /\ Becomes(t) /\ reopened' \in BOOLEAN
  BY <1>1, <1>2, <1>5
<1> QED BY <1>5, <1>6, <1>7, KindsKeep

LEMMA NodeKinds ==
  ASSUME PageKinds, NEW p \in nodes, ReadNode(p) \/ \E d \in NodeData : WriteNode(p, d)
  PROVE  PageKinds'
<1>1. PICK s : s = Store
  OBVIOUS
<1>2. /\ Typed(s) /\ nodes \subseteq DOMAIN s.disk /\ reopened \in BOOLEAN
      /\ \A c \in chains : Chained(s, c) /\ c # <<>>
  BY <1>1 DEF PageKinds, Store
<1>3. p \in DOMAIN s.disk /\ p \in Pages
  BY <1>2 DEF Typed
<1>4. PICK t : Typed(t) /\ Becomes(t) /\ DOMAIN t.disk = DOMAIN s.disk /\ nodes' = nodes /\ chains' = chains
               /\ reopened' = reopened
  <2>1. CASE ReadNode(p)
    <3>1. Typed(ReadIn(s, p)) /\ DOMAIN ReadIn(s, p).disk = DOMAIN s.disk
      BY <1>2, <1>3, TypedRead DEF Same
    <3> QED BY <1>1, <2>1, <3>1 DEF ReadNode
  <2>2. ASSUME NEW d \in NodeData, WriteNode(p, d)
        PROVE  \E t : Typed(t) /\ Becomes(t) /\ DOMAIN t.disk = DOMAIN s.disk /\ nodes' = nodes /\ chains' = chains
                      /\ reopened' = reopened
    <3>1. Leads(DOMAIN s.disk \cup {p}, Node(d))
      BY DEF Leads, Node
    <3>2. Typed(WriteRaw(s, p, Node(d))) /\ DOMAIN WriteRaw(s, p, Node(d)).disk = DOMAIN s.disk \cup {p}
      BY <1>2, <1>3, <3>1, TypedRaw DEF Adds
    <3>3. DOMAIN s.disk \cup {p} = DOMAIN s.disk
      BY <1>3
    <3> QED BY <1>1, <2>2, <3>2, <3>3 DEF WriteNode
  <2> QED BY <2>1, <2>2
<1>5. nodes' \subseteq DOMAIN t.disk /\ DOMAIN s.disk \subseteq DOMAIN t.disk
  BY <1>2, <1>4
<1>6. \A c \in chains' : Chained(t, c) /\ c # <<>>
  BY <1>2, <1>4 DEF Chained
<1> QED BY <1>2, <1>4, <1>5, <1>6, KindsKeep

LEMMA ReopenKinds == ASSUME PageKinds, Reopen PROVE PageKinds'
<1>1. PICK s, u : s = Store /\ u = Store'
  OBVIOUS
<1>2. /\ Typed(s) /\ nodes \subseteq DOMAIN s.disk /\ s.disk = disk
      /\ \A c \in chains : Chained(s, c) /\ c # <<>>
  BY <1>1 DEF PageKinds, Store
<1>3. /\ IsStore(u) /\ u.disk = s.disk /\ u.cached = [p \in {} |-> 0] /\ u.free = <<>> /\ u.next = FirstFresh
  BY <1>1 DEF Reopen, Store, IsStore
<1>4. DOMAIN u.cached = {}
  BY <1>3
<1>5. Cacheable({})
  BY FS_EmptySet, PageNumbers DEF Cacheable
<1>6. Listed(<<>>)
  BY DEF Listed
<1>7. FirstFresh \in FirstFresh..(LastPage + 1)
  BY PageNumbers
<1>8. Typed(u)
  BY <1>2, <1>3, <1>4, <1>5, <1>6, <1>7 DEF Typed, Led
<1>9. \A c \in chains : Chained(u, c) /\ c # <<>>
  BY <1>2, <1>3 DEF Chained
<1> QED BY <1>1, <1>2, <1>8, <1>9 DEF PageKinds, Reopen

LEMMA PageKindsInit == PageInit => PageKinds
<1> SUFFICES ASSUME PageInit PROVE PageKinds
  OBVIOUS
<1>1. PICK s : s = Store
  OBVIOUS
<1>2. /\ IsStore(s) /\ s.next = 3 /\ s.free = <<>> /\ s.cached = s.disk /\ s.disk = disk
      /\ nodes = {2} /\ chains = {} /\ reopened = FALSE
  BY <1>1 DEF PageInit, Store, IsStore, RootPage, FirstFresh
<1>3. PICK c : s.disk = [p \in {2} |-> Node(c)]
  <2>1. disk = [p \in {2} |-> Node(CHOOSE d \in NodeData : TRUE)]
    BY DEF PageInit, RootPage
  <2> QED BY <1>2, <2>1, Zenon
<1>4. DOMAIN s.disk = {2} /\ s.disk[2].next = 0
  BY <1>3 DEF Node
<1>5. Cacheable({2})
  BY FS_Singleton, PageNumbers DEF Cacheable
<1>6. Listed(<<>>)
  BY DEF Listed
<1>7. 3 \in FirstFresh..(LastPage + 1) /\ {2} \subseteq Pages
  BY PageNumbers
<1>8. Typed(s)
  BY <1>2, <1>4, <1>5, <1>6, <1>7 DEF Typed, Led, Leads
<1> QED BY <1>1, <1>2, <1>4, <1>8 DEF PageKinds

LEMMA PageKindsStep == ASSUME PageKinds, [PageNext]_pageVars PROVE PageKinds'
<1>1. CASE UNCHANGED pageVars
  BY <1>1 DEF PageKinds, pageVars, Store
<1>2. ASSUME NEW c \in chains, FreeChain(c) \/ ReadChain(c) PROVE PageKinds'
  <2>1. CASE FreeChain(c)
    <3>1. /\ Becomes(Visited(Store, Walk(Store, c[1]), TRUE)) /\ nodes' = nodes /\ reopened' = reopened
          /\ chains' \subseteq chains
      BY <2>1 DEF FreeChain
    <3> QED BY <3>1, VisitKinds
  <2>2. CASE ReadChain(c)
    <3>1. /\ Becomes(Visited(Store, Walk(Store, c[1]), FALSE)) /\ nodes' = nodes /\ reopened' = reopened
          /\ chains' \subseteq chains
      BY <2>2 DEF ReadChain
    <3> QED BY <3>1, VisitKinds
  <2> QED BY <1>2, <2>1, <2>2
<1>3. ASSUME NEW p \in nodes, ReadNode(p) PROVE PageKinds'
  BY <1>3, NodeKinds
<1>4. ASSUME NEW p \in nodes, NEW d \in NodeData, WriteNode(p, d) PROVE PageKinds'
  BY <1>4, NodeKinds
<1>5. ASSUME NEW d \in NodeData, SplitNode(d) PROVE PageKinds'
  BY <1>5, SplitKinds
<1>6. ASSUME NEW n \in 1..MaxChain, AllocateChain(n) PROVE PageKinds'
  BY <1>6, ChainKinds
<1>7. CASE Reopen
  BY <1>7, ReopenKinds
<1> QED BY <1>1, <1>2, <1>3, <1>4, <1>5, <1>6, <1>7 DEF PageNext

LEMMA PageTypes == PageKinds => PageTypeOK
<1> SUFFICES ASSUME PageKinds PROVE PageTypeOK
  OBVIOUS
<1>1. PICK s : s = Store
  OBVIOUS
<1>2. /\ Typed(s) /\ nodes \subseteq DOMAIN s.disk /\ reopened \in BOOLEAN
      /\ \A c \in chains : Chained(s, c)
      /\ s.disk = disk /\ s.cached = cached /\ s.free = free /\ s.next = nextPage
  BY <1>1 DEF PageKinds, Store
<1>3. ASSUME NEW c \in chains PROVE Range(c) \subseteq Pages
  <2>1. PICK A : A = DOMAIN s.disk \cap Usable
    OBVIOUS
  <2>2. c \in Seq(A)
    BY <1>2, <2>1 DEF Chained
  <2>3. Range(c) \subseteq A
    BY <2>2 DEF Range
  <2> QED BY <2>1, <2>3, PageNumbers
<1>4. free \in Seq(FirstFresh..LastPage)
  BY <1>2 DEF Typed, Listed, Usable
<1> QED BY <1>2, <1>3, <1>4 DEF PageTypeOK, Typed, Cacheable

-----------------------------------------------------------------------------
(* All of the structures together. *)
StructuresInd ==
  /\ PageKinds /\ ShardInd /\ OverInd /\ NodeInd /\ PrefetchInd /\ PlanInd
  /\ VersionInd /\ ChainsCapped /\ DeltaInd /\ RefInd /\ RefMore

LEMMA StructuresInit == Init => StructuresInd
BY PageKindsInit, ShardInitInd, OverInitial, NodeInitInd, PrefetchInitInd, PlanInitial, VersionInitial,
   CappedInit, DeltaInitial, RefInitial, RefMoreInit DEF Init, StructuresInd

LEMMA StructuresSteps ==
  ASSUME [Next]_vars
  PROVE  /\ [PageNext]_pageVars /\ [ShardNext]_shardVars /\ [NodeNext]_nodeVars
         /\ [PrefetchNext]_prefetchVars /\ [PlanNext]_planVars /\ [VersionNext]_versionVars
         /\ [DeltaNext]_deltaVars /\ [RefNext]_refVars
<1>1. CASE Next
  BY <1>1, Zenon DEF Next, sideVars
<1>2. CASE UNCHANGED vars
  BY <1>2, Zenon DEF vars, sideVars
<1> QED BY <1>1, <1>2

LEMMA StructuresStep == StructuresInd /\ [Next]_vars => StructuresInd'
<1> SUFFICES ASSUME StructuresInd, [Next]_vars PROVE StructuresInd'
  OBVIOUS
<1>1. /\ [PageNext]_pageVars /\ [ShardNext]_shardVars /\ [NodeNext]_nodeVars
      /\ [PrefetchNext]_prefetchVars /\ [PlanNext]_planVars /\ [VersionNext]_versionVars
      /\ [DeltaNext]_deltaVars /\ [RefNext]_refVars
  BY StructuresSteps
<1>2. PageKinds'
  BY <1>1, PageKindsStep DEF StructuresInd
<1>3. ShardInd'
  BY <1>1, ShardStepInd DEF StructuresInd
<1>4. OverInd'
  BY <1>1, OverStep DEF StructuresInd
<1>5. NodeInd'
  BY <1>1, NodeStepInd DEF StructuresInd
<1>6. PrefetchInd'
  BY <1>1, PrefetchStepInd DEF StructuresInd
<1>7. PlanInd'
  BY <1>1, PlanStep DEF StructuresInd
<1>8. VersionInd' /\ ChainsCapped'
  BY <1>1, VersionStepInd, CappedStep DEF StructuresInd
<1>9. DeltaInd'
  BY <1>1, DeltaStep DEF StructuresInd
<1>10. RefInd' /\ RefMore'
  BY <1>1, RefStep, RefMoreStep DEF StructuresInd
<1> QED BY <1>2, <1>3, <1>4, <1>5, <1>6, <1>7, <1>8, <1>9, <1>10 DEF StructuresInd

(* For any keys, pages, threads, callers and capacities, and after a        *)
(* reopening too: every structure keeps its types, the counters kept beside *)
(* the contents are those of the contents, chains, caches and queues stay   *)
(* within their capacity, and the plan cache and the shard beyond it by no  *)
(* more than the puts under way.                                            *)
THEOREM StructuresHold == Spec => []StructuresOK
<1>1. StructuresInd => StructuresOK
  <2> SUFFICES ASSUME StructuresInd PROVE StructuresOK
    OBVIOUS
  <2>1. PageTypeOK
    BY PageTypes DEF StructuresInd
  <2>2. ShardTypeOK /\ OvershootBounded
    BY OverIs DEF StructuresInd, ShardInd
  <2>3. NodeTypeOK /\ PrefetchAccounted
    BY DEF StructuresInd, NodeInd, PrefetchInd
  <2>4. PlanTypeOK /\ DanglingEnds /\ OvershootByOne
    BY PlanIndIs DEF StructuresInd
  <2>5. VersionsTypeOK /\ DeltaAccounted
    BY VersionsTypes DEF StructuresInd, DeltaInd
  <2>6. RefTypeOK
    BY RefTypes DEF StructuresInd
  <2> QED BY <2>1, <2>2, <2>3, <2>4, <2>5, <2>6 DEF StructuresOK
<1> QED BY <1>1, StructuresInit, StructuresStep, PTL DEF Spec
===============================================================================

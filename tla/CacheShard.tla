------------------------------ MODULE CacheShard ------------------------------
(* One shard of the generic cache, shared by several threads, lock by      *)
(* lock.  entries is behind a read-write lock, lru_list behind a mutex,    *)
(* the counters are atomics read and written one at a time.  A step is     *)
(* what a thread does between two acquisitions; a lock is held exactly by  *)
(* the threads that are at certain steps, so the locks are no variables.   *)
(*                                                                         *)
(* Policies: Lru (query results) keeps a list of keys; Fifo and Lifo take  *)
(* an unpinned entry in the order the hash map yields them, that is, any;  *)
(* Arc (pages and nodes) chooses among two lists no code ever fills.       *)
(* Under Lfu a hit asks for a lock it already holds and does not return.   *)
(* The size of a key's value is the same at every put.                     *)
EXTENDS Filters, Integers, Sequences, FiniteSets, SequencesExt

CONSTANTS
  Threads, Keys,
  EntrySize,       \* key -> the size of its value
  MaxSize,         \* max_size
  MaxEntries,      \* max_entries, also the attempts of one eviction
  PinWrap,         \* pin_count is a machine word: it counts modulo this (2^64)
  MaxPins,         \* bound: pins of one entry
  OpBudget         \* bound: operations begun

ASSUME ShardBounds ==
  /\ EntrySize \in [Keys -> Nat] /\ MaxSize \in Nat /\ MaxEntries \in Nat \ {0}
  /\ OpBudget \in Nat /\ PinWrap \in Nat /\ MaxPins \in Nat /\ MaxPins < PinWrap - 1
  /\ Keys # {} /\ IsFiniteSet(Threads)

VARIABLES
  policy,
  entries,         \* key -> pin count, for the keys in the map
  lru,             \* lru_list, the newest first
  size, count,     \* stats.current_size, stats.current_entries
  pc, arg,         \* what each thread is doing and with which key
  seen,            \* thread -> current_size as put has loaded it
  need,            \* thread -> <<bytes, entries>> its eviction still has to free
  tries,           \* thread -> attempts its eviction has left
  victim,          \* thread -> the key its eviction has chosen
  ops

shardVars == <<policy, entries, lru, size, count, pc, arg, seen, need, tries, victim, ops>>
putVars == <<seen, need, tries, victim>>

Steps == {"idle", "unpin", "touch", "list", "load", "check", "insert", "track",
          "pick", "scan", "evict", "droplist", "clearlist"}

(* Who holds what: entries for writing, for reading, and the list. *)
Writing == \E t \in Threads : pc[t] \in {"list", "droplist", "clearlist"}
Reading == \E t \in Threads : pc[t] = "unpin"
Listing == \E t \in Threads : pc[t] = "scan"
CanRead == ~Writing
CanWrite == ~Writing /\ ~Reading

ShardInit ==
  /\ policy \in {"Lru", "Fifo", "Arc"}
  /\ entries = [k \in {} |-> 0] /\ lru = <<>> /\ size = 0 /\ count = 0
  /\ pc = [t \in Threads |-> "idle"]
  /\ arg = [t \in Threads |-> CHOOSE k \in Keys : TRUE]
  /\ seen = [t \in Threads |-> 0] /\ need = [t \in Threads |-> <<0, 0>>]
  /\ tries = [t \in Threads |-> 0]
  /\ victim = [t \in Threads |-> CHOOSE k \in Keys : TRUE]
  /\ ops = 0

Pinned(k) == entries[k] # 0
Without(k) == [j \in DOMAIN entries \ {k} |-> entries[j]]
With(k) == [j \in DOMAIN entries \cup {k} |-> IF j = k THEN 0 ELSE entries[j]]
Goto(t, step) == pc' = [pc EXCEPT ![t] = step]
Begin(t, k) == pc[t] = "idle" /\ ops < OpBudget /\ ops' = ops + 1 /\ arg' = [arg EXCEPT ![t] = k]
Forget(s, k) == Only(s, Keys \ {k})
Newest(s, k) == <<k>> \o Forget(s, k)

------------------------------------------------------------------------------
(* get: the entry is pinned while the value is cloned under the read lock,  *)
(* then, under the write lock, the access is recorded; Lru adds the list.   *)

Get(t, k) ==
  /\ Begin(t, k) /\ CanRead
  /\ IF k \in DOMAIN entries
     THEN entries' = [entries EXCEPT ![k] = (@ + 1) % PinWrap] /\ Goto(t, "unpin")
     ELSE UNCHANGED <<entries, pc>>
  /\ UNCHANGED <<policy, lru, size, count, putVars>>

GetUnpin(t) ==
  /\ pc[t] = "unpin"
  /\ entries' = [entries EXCEPT ![arg[t]] = (@ - 1) % PinWrap]
  /\ Goto(t, "touch")
  /\ UNCHANGED <<policy, lru, size, count, arg, ops, putVars>>

GetTouch(t) ==
  /\ pc[t] = "touch" /\ CanWrite
  /\ Goto(t, IF policy = "Lru" /\ arg[t] \in DOMAIN entries THEN "list" ELSE "idle")
  /\ UNCHANGED <<policy, entries, lru, size, count, arg, ops, putVars>>

(* update_policy_tracking of get, the write lock still held. *)
GetList(t) ==
  /\ pc[t] = "list" /\ ~Listing
  /\ lru' = Newest(lru, arg[t])
  /\ Goto(t, "idle")
  /\ UNCHANGED <<policy, entries, size, count, arg, ops, putVars>>

------------------------------------------------------------------------------
(* put: the look-up, the two loads, the eviction and the insertion are     *)
(* separate critical sections.                                             *)

Put(t, k) ==
  /\ Begin(t, k)
  /\ IF EntrySize[k] > MaxSize THEN UNCHANGED pc          \* EntryTooLarge
     ELSE CanWrite /\ Goto(t, IF k \in DOMAIN entries THEN "idle" ELSE "load")
  /\ UNCHANGED <<policy, entries, lru, size, count, putVars>>

PutLoad(t) ==
  /\ pc[t] = "load"
  /\ seen' = [seen EXCEPT ![t] = size]
  /\ Goto(t, "check")
  /\ UNCHANGED <<policy, entries, lru, size, count, arg, ops, need, tries, victim>>

Over(n, limit) == IF n > limit THEN n - limit ELSE 0

PutCheck(t) ==
  LET due == <<Over(seen[t] + EntrySize[arg[t]], MaxSize), Over(count + 1, MaxEntries)>> IN
  /\ pc[t] = "check"
  /\ Goto(t, IF due = <<0, 0>> THEN "insert" ELSE "pick")
  /\ need' = [need EXCEPT ![t] = due]
  /\ tries' = [tries EXCEPT ![t] = MaxEntries]
  /\ seen' = [seen EXCEPT ![t] = 0]
  /\ UNCHANGED <<policy, entries, lru, size, count, arg, ops, victim>>

(* Mutant: the size is not counted. *)
PutInsert_NoSize(t) ==
  /\ pc[t] = "insert" /\ CanWrite
  /\ entries' = With(arg[t])
  /\ count' = count + 1
  /\ Goto(t, IF policy = "Lru" THEN "track" ELSE "idle")
  /\ UNCHANGED <<policy, lru, size, arg, ops, putVars>>

PutInsert(t) ==
  /\ pc[t] = "insert" /\ CanWrite
  /\ entries' = With(arg[t])
  /\ size' = size + EntrySize[arg[t]] /\ count' = count + 1
  /\ Goto(t, IF policy = "Lru" THEN "track" ELSE "idle")
  /\ UNCHANGED <<policy, lru, arg, ops, putVars>>

PutTrack(t) ==
  /\ pc[t] = "track" /\ ~Listing
  /\ lru' = Newest(lru, arg[t])
  /\ Goto(t, "idle")
  /\ UNCHANGED <<policy, entries, size, count, arg, ops, putVars>>

------------------------------------------------------------------------------
(* evict, called by put: at most MaxEntries times a victim is chosen under *)
(* one lock and removed under the next.                                    *)

Chosen(t, k) == victim' = [victim EXCEPT ![t] = k] /\ Goto(t, "evict")
Refused(t) == Goto(t, "idle") /\ need' = [need EXCEPT ![t] = <<0, 0>>]        \* CacheFull

EvictPick(t) ==
  /\ pc[t] = "pick" /\ CanRead
  /\ CASE policy = "Fifo" ->
            IF \A k \in DOMAIN entries : Pinned(k)
            THEN Refused(t) /\ UNCHANGED victim
            ELSE (\E k \in DOMAIN entries : ~Pinned(k) /\ Chosen(t, k)) /\ UNCHANGED need
       [] policy = "Arc" -> Refused(t) /\ UNCHANGED victim
       [] policy = "Lru" -> ~Listing /\ Goto(t, "scan") /\ UNCHANGED <<victim, need>>
  /\ UNCHANGED <<policy, entries, lru, size, count, arg, ops, seen, tries>>

(* evict_lru holds the list and takes the read lock for each key it pops: *)
(* absent and pinned ones are forgotten.                                  *)
EvictScan(t) ==
  /\ pc[t] = "scan" /\ CanRead
  /\ IF lru = <<>>
     THEN Refused(t) /\ UNCHANGED <<lru, victim>>
     ELSE /\ lru' = Front(lru)
          /\ IF Last(lru) \in DOMAIN entries /\ ~Pinned(Last(lru))
             THEN Chosen(t, Last(lru)) ELSE UNCHANGED <<pc, victim>>
          /\ UNCHANGED need
  /\ UNCHANGED <<policy, entries, size, count, arg, ops, seen, tries>>

(* The victim may have been removed since, and then frees nothing; pinned  *)
(* since, it is removed all the same.                                      *)
EvictRemove(t) ==
  LET k == victim[t]
      hit == k \in DOMAIN entries
      due == IF hit THEN <<Over(need[t][1], EntrySize[k]), Over(need[t][2], 1)>> ELSE need[t]
      done == due = <<0, 0>> \/ tries[t] = 1
  IN
  /\ pc[t] = "evict" /\ CanWrite
  /\ entries' = Without(k)
  /\ size' = IF hit THEN size - EntrySize[k] ELSE size
  /\ count' = IF hit THEN count - 1 ELSE count
  /\ need' = [need EXCEPT ![t] = IF done THEN <<0, 0>> ELSE due]
  /\ tries' = [tries EXCEPT ![t] = IF done THEN 0 ELSE @ - 1]
  /\ Goto(t, IF done THEN "insert" ELSE "pick")
  /\ UNCHANGED <<policy, lru, arg, ops, seen, victim>>

------------------------------------------------------------------------------

(* invalidate: the counters and, with the write lock held, the list. *)
Invalidate(t, k) ==
  /\ Begin(t, k) /\ CanWrite
  /\ IF k \in DOMAIN entries
     THEN /\ entries' = Without(k)
          /\ size' = size - EntrySize[k] /\ count' = count - 1
          /\ Goto(t, IF policy = "Lru" THEN "droplist" ELSE "idle")
     ELSE UNCHANGED <<entries, size, count, pc>>
  /\ UNCHANGED <<policy, lru, putVars>>

InvalidateList(t) ==
  /\ pc[t] = "droplist" /\ ~Listing
  /\ lru' = Forget(lru, arg[t])
  /\ Goto(t, "idle")
  /\ UNCHANGED <<policy, entries, size, count, arg, ops, putVars>>

(* pin and unpin: unpin does not ask whether the entry is pinned. *)
Pin(t, k) ==
  /\ Begin(t, k) /\ CanRead /\ k \in DOMAIN entries /\ entries[k] < MaxPins
  /\ entries' = [entries EXCEPT ![k] = @ + 1]
  /\ UNCHANGED <<policy, lru, size, count, pc, putVars>>

Unpin(t, k) ==
  /\ Begin(t, k) /\ CanRead /\ k \in DOMAIN entries
  /\ entries[k] \in 0..MaxPins
  /\ entries' = [entries EXCEPT ![k] = (@ - 1) % PinWrap]
  /\ UNCHANGED <<policy, lru, size, count, pc, putVars>>

(* clear empties the map, pinned entries too, and then the list. *)
Clear(t) ==
  /\ Begin(t, arg[t]) /\ CanWrite
  /\ entries' = [k \in {} |-> 0] /\ size' = 0 /\ count' = 0
  /\ Goto(t, IF policy = "Lru" THEN "clearlist" ELSE "idle")
  /\ UNCHANGED <<policy, lru, putVars>>

ClearList(t) ==
  /\ pc[t] = "clearlist" /\ ~Listing
  /\ lru' = <<>>
  /\ Goto(t, "idle")
  /\ UNCHANGED <<policy, entries, size, count, arg, ops, putVars>>

ShardNext ==
  \E t \in Threads :
    \/ \E k \in Keys : Get(t, k) \/ Put(t, k) \/ Invalidate(t, k) \/ Pin(t, k) \/ Unpin(t, k)
    \/ Clear(t) \/ ClearList(t) \/ InvalidateList(t)
    \/ GetUnpin(t) \/ GetTouch(t) \/ GetList(t)
    \/ PutLoad(t) \/ PutCheck(t) \/ PutInsert(t) \/ PutTrack(t)
    \/ EvictPick(t) \/ EvictScan(t) \/ EvictRemove(t)

ShardSpec == ShardInit /\ [][ShardNext]_shardVars

------------------------------------------------------------------------------

ShardTypeOK ==
  /\ policy \in {"Lru", "Fifo", "Arc"}
  /\ DOMAIN entries \subseteq Keys /\ entries \in [DOMAIN entries -> 0 .. PinWrap - 1]
  /\ lru \in Seq(Keys) /\ size \in Nat /\ count \in Nat
  /\ pc \in [Threads -> Steps] /\ arg \in [Threads -> Keys]

(* The bytes of the values under the keys K, one element each. *)
Bytes(K) == UNION {{k} \X (1 .. EntrySize[k]) : k \in K}

(* The counters, which put compares with the limits, never report less     *)
(* than the map holds, though every thread checks, evicts and inserts in   *)
(* separate critical sections and others remove what it has chosen.        *)
CountersCover ==
  /\ count >= Cardinality(DOMAIN entries)
  /\ size >= Cardinality(Bytes(DOMAIN entries))

(* However accesses, insertions and removals interleave, the list names a  *)
(* key once: it does not outgrow the keys in use.                          *)
ListNamesOnce == IsInjective(lru)

(* What the shard's accounting rests on: see the two parts.                *)
ShardBounded == CountersCover /\ ListNamesOnce

(* The check before the insertion is stale by then, but only by the        *)
(* insertions of the other threads: the map exceeds max_entries by less    *)
(* than their number.  An eviction gives up after max_entries attempts,    *)
(* and of threads that chose the same victim one alone frees it: with more *)
(* threads than max_entries the excess may grow at every put.              *)
OvershootBounded ==
  Cardinality(Threads) <= MaxEntries =>
    Cardinality(DOMAIN entries) <= MaxEntries + Cardinality(Threads) - 1
==============================================================================

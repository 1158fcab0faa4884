------------------------------ MODULE Cartridges ------------------------------
(****************************************************************************)
(* The entity, relationship and topic cartridges (cartridges/*.rs): a map   *)
(* of items by id and indexes of ids by a field, each under an RwLock of    *)
(* its own.  The three differ in their indexes and the order in which       *)
(* insert and clear go through them, and are one module.                    *)
(*                                                                          *)
(* insert and clear take one write lock after the other; a query holds the  *)
(* lock of its index while it takes that of the items.  Reads of the item   *)
(* map alone (get, get_all, count, a topic's get_by_name) are left out, as  *)
(* is the list of entities a topic carries.  get_bidirectional is two       *)
(* queries.  Lock poisoning, the only error, needs a panic.                 *)
(****************************************************************************)
EXTENDS Integers, Sequences, SequencesExt, FiniteSets, Filters

CONSTANTS
  CartTask,       \* threads
  Pool,           \* cartridge -> items inserted: [id, keys], keys: index -> sequence of values
  Lower,          \* to_lowercase on the keywords used
  Depths,         \* values of max_depth
  MaxCartWrites,  \* bound: calls of insert and clear
  MaxCartReads    \* bound: queries and searches

Indexes == [entity       |-> <<"type", "name", "commit">>,
            relationship |-> <<"from", "to", "type", "commit">>,
            topic        |-> <<"category", "keyword", "commit">>]

ASSUME CartAssumption ==
  /\ DOMAIN Pool = DOMAIN Indexes
  /\ \A c \in DOMAIN Pool : \A x \in Pool[c] :
       /\ DOMAIN x.keys = ToSet(Indexes[c])
       /\ \A ix \in ToSet(Indexes[c]) : x.keys[ix] \in Seq(ToSet(x.keys[ix]))
  \* A relationship has one entity at each end, and its id names them (generate_id).
  /\ \A x \in Pool["relationship"] : Len(x.keys["from"]) = 1 /\ Len(x.keys["to"]) = 1
  /\ \A x, y \in Pool["relationship"] :
       x.id = y.id => x.keys["from"] = y.keys["from"] /\ x.keys["to"] = y.keys["to"]
  /\ Depths \subseteq Nat /\ MaxCartWrites \in Nat /\ MaxCartReads \in Nat

VARIABLES
  cartridge,    \* which of the three
  items,        \* id -> item
  index,        \* index -> value -> sequence of ids
  cjob,         \* thread -> the call under way
  cartCalls,    \* calls so far: [write, read]
  \* history: how often an item was inserted; ids put while a clear was under
  \* way; what a thread's search has met: "still", "moved" or "wiped"
  puts, unsure, calm

cartVars == <<cartridge, items, index, cjob, cartCalls, puts, unsure, calm>>
history  == <<puts, unsure, calm>>

Order      == Indexes[cartridge]
CIdle      == [at |-> "idle"]
Insertable == Pool[cartridge]

(* What insert files an item under in an index, and what a query asks for:  *)
(* keywords are lower-cased by both.                                        *)
Folded(ix, v)   == IF ix = "keyword" THEN Lower[v] ELSE v
Filed(ix, x) == [k \in DOMAIN x.keys[ix] |-> Folded(ix, x.keys[ix][k])]
Asked(ix)    == UNION {ToSet(x.keys[ix]) : x \in Insertable}
Stored(ix)   == {Folded(ix, v) : v \in Asked(ix)}
Empty(ix)    == [v \in Stored(ix) |-> <<>>]
Entities     == Asked("from") \cup Asked("to")

CartInit ==
  /\ cartridge \in DOMAIN Indexes
  /\ items = [i \in {} |-> CIdle]
  /\ index = [ix \in ToSet(Order) |-> Empty(ix)]
  /\ cjob = [t \in CartTask |-> CIdle]
  /\ cartCalls = [write |-> 0, read |-> 0]
  /\ puts = [x \in Insertable |-> 0] /\ unsure = {}
  /\ calm = [t \in CartTask |-> "still"]

MaxCart == [write |-> MaxCartWrites, read |-> MaxCartReads]
Call(t, how) ==
  /\ cjob[t].at = "idle" /\ cartCalls[how] < MaxCart[how]
  /\ cartCalls' = [cartCalls EXCEPT ![how] = @ + 1]
  /\ UNCHANGED cartridge

Assign(f, k, v) == [x \in DOMAIN f \cup {k} |-> IF x = k THEN v ELSE f[x]]
Goes(t, j) == cjob' = [cjob EXCEPT ![t] = j]

(* get(..).cloned().unwrap_or_default(). *)
Ids(ix, v) == IF v \in DOMAIN index[ix] THEN index[ix][v] ELSE <<>>

(* A query keeps its index locked until it has read the items. *)
IndexHeld(ix) == \E t \in CartTask : cjob[t].at \in {"query", "visit"} /\ cjob[t].ix = ix
Clearing     == \E t \in CartTask : cjob[t].at = "clear"
Met(what) ==
  calm' = [t \in CartTask |-> IF cjob[t].at \in {"search", "visit", "path"} /\ calm[t] # "wiped"
                              THEN what ELSE calm[t]]

(* insert: the item, then each index in turn. *)
InsertItem(t) ==
  /\ Call(t, "write")
  /\ \E x \in Insertable :
       /\ items' = Assign(items, x.id, x)
       /\ Goes(t, [at |-> "insert", item |-> x, pos |-> 1])
       /\ puts' = [puts EXCEPT ![x] = @ + 1]
       /\ unsure' = IF Clearing THEN unsure \cup {x.id} ELSE unsure \ {x.id}
  /\ Met("moved")
  /\ UNCHANGED index

(* Where a call goes on after position p of the indexes. *)
After(j) == IF j.pos = Len(Order) THEN CIdle ELSE [j EXCEPT !.pos = j.pos + 1]

(* An entity's name leads to one id, the last one filed; every other index *)
(* gains the id once for each value, those it is already filed under too.  *)
FiledUnder(ix, x, v) == {k \in DOMAIN x.keys[ix] : Filed(ix, x)[k] = v}
Copies(id, n) == [k \in 1..n |-> id]
WithId(old, ix, x) ==
  [v \in DOMAIN old |->
     IF FiledUnder(ix, x, v) = {} THEN old[v]
     ELSE IF ix = "name" THEN <<x.id>>
     ELSE old[v] \o Copies(x.id, Cardinality(FiledUnder(ix, x, v)))]

InsertNext(t) ==
  LET j == cjob[t]  ix == Order[j.pos] IN
  /\ j.at = "insert" /\ ~IndexHeld(ix)
  /\ index' = [index EXCEPT ![ix] = WithId(@, ix, j.item)]
  /\ Goes(t, After(j))
  /\ Met("moved")
  /\ UNCHANGED <<cartridge, items, cartCalls, puts, unsure>>

Wipe(t) ==
  /\ Call(t, "write")
  /\ items' = [i \in {} |-> CIdle]
  /\ Goes(t, [at |-> "clear", pos |-> 1])
  /\ Met("wiped")
  /\ UNCHANGED <<index, puts, unsure>>

ClearNext(t) ==
  LET j == cjob[t]  ix == Order[j.pos] IN
  /\ j.at = "clear" /\ ~IndexHeld(ix)
  /\ index' = [index EXCEPT ![ix] = Empty(ix)]
  /\ Goes(t, After(j))
  /\ Met("moved")
  /\ UNCHANGED <<cartridge, items, cartCalls, puts, unsure>>

(* get_by_type, get_by_name, get_by_commit, get_from_entity and so on: the *)
(* ids under the index's lock, then the items; ids that lead nowhere are   *)
(* passed over.                                                            *)
AskIndex(t) ==
  /\ Call(t, "read")
  /\ \E ix \in ToSet(Order) : \E v \in Asked(ix) :
       Goes(t, [at |-> "query", ix |-> ix, value |-> Folded(ix, v), ids |-> Ids(ix, Folded(ix, v))])
  /\ UNCHANGED <<items, index, history>>

Items(ids) == LET known == Only(ids, DOMAIN items)
              IN  [k \in DOMAIN known |-> items[known[k]]]

QueryRead(t) ==
  LET j == cjob[t] IN
  /\ j.at = "query"
  /\ Goes(t, [at |-> "answer", ix |-> j.ix, value |-> j.value, got |-> Items(j.ids)])
  /\ UNCHANGED <<cartridge, items, index, cartCalls, history>>

Return(t) ==
  /\ cjob[t].at \in {"answer", "path"}
  /\ Goes(t, CIdle)
  /\ calm' = [calm EXCEPT ![t] = "still"]
  /\ UNCHANGED <<cartridge, items, index, cartCalls, puts, unsure>>

Source(x) == x.keys["from"][1]
Target(x) == x.keys["to"][1]
AllLinked == \A i \in DOMAIN items : i \in ToSet(index["from"][Source(items[i])])

(* find_path: a queue of entities with their depth, and for every entity    *)
(* reached the one it was reached from.  The start is not among them.       *)
FindPath(t) ==
  /\ cartridge = "relationship" /\ Call(t, "read")
  /\ \E a, b \in Entities, d \in Depths :
       Goes(t, IF a = b THEN [at |-> "path", from |-> a, to |-> b, depth |-> d, path |-> <<a>>]
               ELSE [at |-> "search", from |-> a, to |-> b, depth |-> d,
                     queue |-> <<[node |-> a, depth |-> 0]>>, visited |-> [e \in {} |-> a]])
  /\ calm' = [calm EXCEPT ![t] = IF AllLinked THEN "still" ELSE "moved"]
  /\ UNCHANGED <<items, index, puts, unsure>>

Ends(t, path) ==
  LET j == cjob[t]
  IN  Goes(t, [at |-> "path", from |-> j.from, to |-> j.to, depth |-> j.depth, path |-> path])

(* Mutant: entities at max_depth are expanded too. *)
Pop_TooDeep(t) ==
  LET j == cjob[t] IN
  /\ j.at = "search"
  /\ IF j.queue = <<>> THEN Ends(t, <<>>)
     ELSE IF j.queue[1].depth > j.depth THEN Goes(t, [j EXCEPT !.queue = Tail(j.queue)])
     ELSE Goes(t, [at |-> "visit", from |-> j.from, to |-> j.to, depth |-> j.depth,
                   queue |-> j.queue, visited |-> j.visited,
                   ix |-> "from", ids |-> Ids("from", j.queue[1].node)])
  /\ UNCHANGED <<cartridge, items, index, cartCalls, history>>

(* pop_front, and the first half of get_from_entity. *)
Pop(t) ==
  LET j == cjob[t] IN
  /\ j.at = "search"
  /\ IF j.queue = <<>> THEN Ends(t, <<>>)
     ELSE IF j.queue[1].depth >= j.depth THEN Goes(t, [j EXCEPT !.queue = Tail(j.queue)])
     ELSE Goes(t, [at |-> "visit", from |-> j.from, to |-> j.to, depth |-> j.depth,
                   queue |-> j.queue, visited |-> j.visited,
                   ix |-> "from", ids |-> Ids("from", j.queue[1].node)])
  /\ UNCHANGED <<cartridge, items, index, cartCalls, history>>

(* One relationship of the loop over those of the entity first in the queue *)
(* of j; nothing more happens once the end is reached.                      *)
Reach(s, j, x) ==
  IF Target(x) \in DOMAIN s.visited \/ j.to \in DOMAIN s.visited THEN s
  ELSE [visited |-> Assign(s.visited, Target(x), j.queue[1].node),
        queue   |-> Append(s.queue, [node |-> Target(x), depth |-> j.queue[1].depth + 1])]

(* The whole loop. *)
Reached(j, xs) ==
  LET after[n \in 0..Len(xs)] == IF n = 0 THEN [visited |-> j.visited, queue |-> j.queue]
                                 ELSE Reach(after[n - 1], j, xs[n])
  IN  after[Len(xs)]

(* The way back from b to a along visited, reversed. *)
PathBack(visited, a, b) ==
  LET back[n \in 0..Cardinality(DOMAIN visited)] == IF n = 0 THEN b ELSE visited[back[n - 1]]
      len == CHOOSE n \in 1..Cardinality(DOMAIN visited) :
               back[n] = a /\ \A k \in 1..n - 1 : back[k] # a
  IN  [n \in 1..len + 1 |-> back[len + 1 - n]]

Visit(t) ==
  LET j == cjob[t]
      s == Reached(j, Items(j.ids))
  IN  /\ j.at = "visit"
      /\ IF j.to \in DOMAIN s.visited THEN Ends(t, PathBack(s.visited, j.from, j.to))
         ELSE Goes(t, [at |-> "search", from |-> j.from, to |-> j.to, depth |-> j.depth,
                       queue |-> Tail(s.queue), visited |-> s.visited])
      /\ UNCHANGED <<cartridge, items, index, cartCalls, history>>

CartNext ==
  \E t \in CartTask :
    \/ InsertItem(t) \/ InsertNext(t) \/ Wipe(t) \/ ClearNext(t)
    \/ AskIndex(t) \/ QueryRead(t) \/ Return(t)
    \/ FindPath(t) \/ Pop(t) \/ Visit(t)

CartSpec == CartInit /\ [][CartNext]_cartVars

--------------------------------------------------------------------------------

CartTypeOK ==
  /\ items \in UNION {[D -> Insertable] : D \in SUBSET {x.id : x \in Insertable}}
  /\ \A i \in DOMAIN items : items[i].id = i
  /\ DOMAIN index = ToSet(Order)
  /\ unsure \subseteq {x.id : x \in Insertable}

(* What insert stored, every index finds: an item is filed under all its     *)
(* values, or the call that stored it has yet to come to that index.  Only   *)
(* an item put while a clear was under way may be lost to an index.  A name  *)
(* leads to some entity, not always to this one.                             *)
StoredIsFindable ==
  \A i \in DOMAIN items \ unsure, p \in DOMAIN Order :
    LET ix == Order[p] IN
    \/ \E t \in CartTask :
         cjob[t].at = "insert" /\ cjob[t].item = items[i] /\ cjob[t].pos <= p
    \/ \A v \in ToSet(Filed(ix, items[i])) :
         IF ix = "name" THEN index[ix][v] # <<>> ELSE i \in ToSet(index[ix][v])

(* An answer holds an id no more often than versions of it were inserted     *)
(* under the value asked for, so an item never inserted under the value is   *)
(* not in it, whatever was cleared and inserted again in between.            *)
Filings(ix, v, i) ==
  UNION {{x} \X ((1..puts[x]) \X FiledUnder(ix, x, v)) : x \in {y \in Insertable : y.id = i}}
AnswersMatch ==
  \A t \in CartTask : cjob[t].at = "answer" =>
    LET j == cjob[t] IN
    \A i \in {x.id : x \in ToSet(j.got)} :
      Cardinality({k \in DOMAIN j.got : j.got[k].id = i}) <= Cardinality(Filings(j.ix, j.value, i))

(* A stored relationship leads from a to b. *)
Linked(a, b) == \E i \in DOMAIN items : Source(items[i]) = a /\ Target(items[i]) = b

(* The entities at most n relationships away from a. *)
Within(a, n) ==
  LET near[k \in 0..n] ==
        IF k = 0 THEN {a}
        ELSE near[k - 1] \cup {Target(items[i]) : i \in {y \in DOMAIN items :
                                                           Source(items[y]) \in near[k - 1]}}
  IN  near[n]

(* find_path reads the graph one entity at a time.  Whatever is inserted     *)
(* meanwhile, the path it returns leads along stored relationships; when     *)
(* nothing is, it is a shortest path, and there is none only when the end    *)
(* is more than max_depth relationships away.                                *)
PathsRight ==
  \A t \in CartTask : cjob[t].at = "path" =>
    LET j == cjob[t]  hops == Len(j.path) - 1 IN
    /\ calm[t] # "wiped" => \A k \in 1..hops : Linked(j.path[k], j.path[k + 1])
    /\ calm[t] = "still" =>
         IF j.path = <<>> THEN j.to \notin Within(j.from, j.depth)
         ELSE /\ hops <= j.depth
              /\ hops > 0 => j.to \notin Within(j.from, hops - 1)

(* The cartridges under concurrent use: what is stored is found, what is     *)
(* found was stored there, and searches are right about the graph.           *)
CartridgesSound == StoredIsFindable /\ AnswersMatch /\ PathsRight
================================================================================

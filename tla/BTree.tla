------------------------------- MODULE BTree --------------------------------
(***************************************************************************)
(* The B+tree (btree/tree.rs and the insert, delete, borrow and merge      *)
(* helpers): put and delete with leaf splits, growth of the tree, borrow   *)
(* on underflow, and get.  Kernel takes the tree for one leaf; here leaves *)
(* split.                                                                  *)
(*                                                                         *)
(* propagate_split first pops the leaf that was split and so always ends   *)
(* in grow_tree: an internal node has two children, the old root and the   *)
(* new leaf, and insert_into_internal is never reached.  next_leaf stays 0 *)
(* in every leaf, so there never is a right sibling: of borrow and merge   *)
(* only borrow_from_left_leaf can happen, a merge candidate on the left    *)
(* being answered with a merge into the (missing) right one.               *)
(*                                                                         *)
(* A leaf maps keys to values; `free` is header.free_space, in units of    *)
(* the smallest entry, kept by the code next to the entries and not always *)
(* in step with them.  LSNs are Kernel's subject: every read here is one   *)
(* of the newest snapshot.                                                 *)
(***************************************************************************)
EXTENDS Integers, FiniteSetsExt

CONSTANTS
  Key,        \* keys, natural numbers for their order
  Value,
  LongValue,  \* values whose entry takes two units instead of one
  Absent,
  Cap,        \* units in a leaf
  SplitAt,    \* used units at which a leaf splits: SPLIT_THRESHOLD of Cap
  DelMin,     \* calculate_min_leaf_entries
  BorMin,     \* calculate_min_keys
  MaxPage     \* bound on page ids

ASSUME TreeAssumption ==
  /\ Key \subseteq Nat /\ LongValue \subseteq Value /\ Absent \notin Value
  /\ {Cap, SplitAt, DelMin, BorMin, MaxPage} \subseteq Nat
  /\ SplitAt + 1 <= Cap           \* a leaf that need not split has room
  /\ Cap >= 4                     \* and so has the lower half of a split
  /\ MaxPage >= 2                 \* the first page
  /\ SplitAt >= 2                 \* a leaf that splits has two entries
  /\ 2 * DelMin <= BorMin + 1     \* 65 and 130: see UniformNeverStale

VARIABLES
  page,       \* the allocated pages
  root,       \* root_page_id
  kv,         \* history: the contents the calls that returned Ok should leave
  ascending,  \* history: new keys came in ascending order, none was deleted
  uniform     \* history: no long value was put: all entries have one size

histVars == <<kv, ascending, uniform>>
vars == <<page, root, histVars>>

FirstPage == 2                      \* PageId::FIRST_DATA
Unused    == [kind |-> "unused"]    \* allocated, never written as a node
Leaf(e, f, p) == [kind |-> "leaf", entries |-> e, free |-> f, prev |-> p]
Inner(l, s, r) == [kind |-> "inner", left |-> l, sep |-> s, right |-> r]

With(f, k, v) == [j \in DOMAIN f \cup {k} |-> IF j = k THEN v ELSE f[j]]

Size(v)  == IF v \in LongValue THEN 2 ELSE 1
Used(e)  == Cardinality({u \in (DOMAIN e) \X {1, 2} : u[2] <= Size(e[u[1]])})
Keys(p)  == DOMAIN page[p].entries
FirstEntry(p) == p = root /\ Keys(p) = {}   \* put's shortcut
NextPage == Max(DOMAIN page) + 1
AtLeastZero(n) == IF n < 0 THEN 0 ELSE n      \* u16::saturating_sub

-----------------------------------------------------------------------------
Nodes == {p \in DOMAIN page : page[p].kind # "unused"}

LeafOf_EqualLeft(k) ==
  LET down[p \in Nodes] ==
        IF page[p].kind = "leaf" THEN p
        ELSE down[IF k <= page[p].sep THEN page[p].left ELSE page[p].right]
  IN  down[root]

(* The descent of get, put and delete: find_child sends a key equal to the *)
(* separator to the right.                                                 *)
LeafOf(k) ==
  LET down[p \in Nodes] ==
        IF page[p].kind = "leaf" THEN p
        ELSE down[IF k < page[p].sep THEN page[p].left ELSE page[p].right]
  IN  down[root]

Lookup(p, k) == IF k \in DOMAIN page[p].entries THEN page[p].entries[k] ELSE Absent

(* BTree::get.                                                             *)
Get(k) == Lookup(LeafOf(k), k)

LeafInsert_NoDelta(leaf, k, v) ==
  Leaf(With(leaf.entries, k, v),
       IF k \in DOMAIN leaf.entries THEN leaf.free
       ELSE AtLeastZero(leaf.free - Size(v)), leaf.prev)

(* LeafNode::insert.  The difference in size of an update is cast to u16:  *)
(* a negative one wraps round and saturating_sub leaves no free space.     *)
LeafInsert(leaf, k, v) ==
  LET more == Size(v) - Size(leaf.entries[k])
  IN  Leaf(With(leaf.entries, k, v),
           IF k \notin DOMAIN leaf.entries THEN AtLeastZero(leaf.free - Size(v))
           ELSE IF more < 0 THEN 0 ELSE AtLeastZero(leaf.free - more),
           leaf.prev)

HasSpace(leaf, v) == leaf.free >= Size(v)
NeedsSplit(leaf)  == Cap - leaf.free >= SplitAt

(* split_leaf_node: the upper half of the entries, which is never empty.   *)
Upper(e) == {k \in DOMAIN e :
               Cardinality({j \in DOMAIN e : j < k}) >= Cardinality(DOMAIN e) \div 2}
Part(e, S, p) == LET part == [k \in S |-> e[k]] IN Leaf(part, Cap - Used(part), p)
LowerHalf(leaf) ==
  Part(leaf.entries, DOMAIN leaf.entries \ Upper(leaf.entries), leaf.prev)

(* split_leaf_node, propagate_split and grow_tree: `leaf` is written to    *)
(* page p, the upper half to a new page, and a new root is put above.      *)
SplitAndGrow(p, upper, leaf) ==
  /\ NextPage + 1 <= MaxPage
  /\ page' = With(With([page EXCEPT ![p] = leaf], NextPage, upper),
                  NextPage + 1, Inner(root, Min(DOMAIN upper.entries), NextPage))
  /\ root' = NextPage + 1

-----------------------------------------------------------------------------
Init ==
  /\ page = [p \in {FirstPage} |-> Leaf([k \in {} |-> Absent], Cap, 0)]
  /\ root = FirstPage
  /\ kv = [k \in Key |-> Absent]
  /\ ascending = TRUE /\ uniform = TRUE

(* What a put of v to k should leave. *)
ShouldHold(k, v) ==
  /\ kv' = [kv EXCEPT ![k] = v]
  /\ ascending' = (ascending /\ (kv[k] = Absent => \A j \in Key : kv[j] # Absent => j < k))
  /\ uniform' = (uniform /\ v \notin LongValue)

(* put into a leaf that has room and stays below the threshold, or whose   *)
(* entry is only updated.                                                  *)
PutInPlace(k, v) ==
  LET p == LeafOf(k)  new == LeafInsert(page[p], k, v)
  IN  /\ HasSpace(page[p], v)
      /\ FirstEntry(p) \/ k \in Keys(p) \/ ~NeedsSplit(new)
      /\ page' = [page EXCEPT ![p] = new]
      /\ ShouldHold(k, v)
      /\ UNCHANGED root

(* put that fills the leaf: it is split after the insertion.               *)
PutThenSplit(k, v) ==
  LET p == LeafOf(k)  new == LeafInsert(page[p], k, v)
  IN  /\ HasSpace(page[p], v)
      /\ ~FirstEntry(p) /\ k \notin Keys(p) /\ NeedsSplit(new)
      /\ SplitAndGrow(p, Part(new.entries, Upper(new.entries), p), LowerHalf(new))
      /\ ShouldHold(k, v)

(* put into a leaf without room: it is split before the insertion, and an  *)
(* entry that belongs to the new leaf is not inserted at all.              *)
SplitThenPut(k, v) ==
  LET p     == LeafOf(k)
      upper == Part(page[p].entries, Upper(page[p].entries), p)
      lower == LowerHalf(page[p])
  IN  /\ ~HasSpace(page[p], v) /\ Keys(p) # {}
      /\ SplitAndGrow(p, upper, IF k < Min(Keys(p) \cap DOMAIN upper.entries)
                                 THEN LeafInsert(lower, k, v) ELSE lower)
      /\ ShouldHold(k, v)

(* put into an empty leaf whose free space was lost: an error.  In a leaf  *)
(* below the root the page for the split is already allocated.             *)
PutRefused(k, v) ==
  LET p == LeafOf(k)
  IN  /\ ~HasSpace(page[p], v) /\ Keys(p) = {}
      /\ IF p = root THEN UNCHANGED page
         ELSE NextPage <= MaxPage /\ page' = With(page, NextPage, Unused)
      /\ UNCHANGED <<root, histVars>>

(* can_borrow_from_sibling, of a donor with d keys by a leaf with n.       *)
CanBorrow(d, n) == d > BorMin /\ d - BorMin >= AtLeastZero(BorMin - n)

LeafRemove_LongEntry(leaf, k) ==
  Leaf([j \in DOMAIN leaf.entries \ {k} |-> leaf.entries[j]],
       leaf.free + 2, leaf.prev)

(* LeafNode::remove.                                                       *)
LeafRemove(leaf, k) ==
  Leaf([j \in DOMAIN leaf.entries \ {k} |-> leaf.entries[j]],
       leaf.free + Size(leaf.entries[k]), leaf.prev)

Delete_NoRemove(k) ==
  /\ UNCHANGED <<page, root>>
  /\ kv' = [kv EXCEPT ![k] = Absent]
  /\ ascending' = (ascending /\ kv[k] = Absent) /\ UNCHANGED uniform

(* delete_from_leaf: the leaf is left with fewer than the least number of  *)
(* entries.                                                                *)
Underfull(leaf) == Cardinality(DOMAIN leaf.entries) < DelMin

Donor(leaf) == page[leaf.prev]
LastOf(leaf) == Max(DOMAIN Donor(leaf).entries)

(* get_leaf_borrow_candidates finds a left sibling with entries to spare,  *)
(* and its last one fits.                                                  *)
MayBorrow(leaf) ==
  /\ leaf.prev # 0
  /\ CanBorrow(Cardinality(DOMAIN Donor(leaf).entries),
               Cardinality(DOMAIN leaf.entries))
  /\ HasSpace(leaf, Donor(leaf).entries[LastOf(leaf)])

(* borrow_from_left_leaf: the donor's free space and the separator in the  *)
(* parent stay as they were.                                               *)
Borrow(p, leaf) ==
  [page EXCEPT
     ![p] = LeafInsert(leaf, LastOf(leaf), Donor(leaf).entries[LastOf(leaf)]),
     ![leaf.prev].entries = [j \in DOMAIN @ \ {LastOf(leaf)} |-> @[j]]]

(* BTree::delete and handle_leaf_underflow.                                *)
Delete(k) ==
  LET p == LeafOf(k)  new == LeafRemove(page[p], k)
  IN  /\ page' = IF k \notin Keys(p) THEN page
                 ELSE IF Underfull(new) /\ MayBorrow(new) THEN Borrow(p, new)
                 ELSE [page EXCEPT ![p] = new]
      /\ kv' = [kv EXCEPT ![k] = Absent]
      /\ ascending' = (ascending /\ kv[k] = Absent) /\ UNCHANGED uniform
      /\ UNCHANGED root

Next ==
  \/ \E k \in Key, v \in Value : PutInPlace(k, v)
  \/ \E k \in Key, v \in Value : PutThenSplit(k, v)
  \/ \E k \in Key, v \in Value : SplitThenPut(k, v)
  \/ \E k \in Key, v \in Value : PutRefused(k, v)
  \/ \E k \in Key : Delete(k)

Spec == Init /\ [][Next]_vars

-----------------------------------------------------------------------------
(***************************************************************************)
(* Properties                                                              *)
(***************************************************************************)
LeafPages  == {p \in DOMAIN page : page[p].kind = "leaf"}
InnerPages == {p \in DOMAIN page : page[p].kind = "inner"}

(* Every page is a leaf, an inner node over older pages, or unused; the    *)
(* root is a node.                                                         *)
TypeOK ==
  /\ DOMAIN page = FirstPage .. NextPage - 1 /\ NextPage <= MaxPage + 1
  /\ root \in Nodes
  /\ \A p \in LeafPages :
       /\ Keys(p) \subseteq Key /\ \A k \in Keys(p) : page[p].entries[k] \in Value
       /\ page[p].free \in 0 .. Cap /\ page[p].prev \in LeafPages \cup {0}
  /\ \A p \in InnerPages : /\ page[p].left \in Nodes
                            /\ page[p].right \in LeafPages
                            /\ page[p].left < p /\ page[p].right < p
                            /\ page[p].sep \in Key
  /\ kv \in [Key -> Value \cup {Absent}] /\ {ascending, uniform} \subseteq BOOLEAN

(* header.free_space never promises more than the page has: no sequence of *)
(* updates, splits, deletes and borrows serialises a leaf past its page.   *)
FreeSpaceSafe == \A p \in LeafPages : page[p].free <= Cap - Used(page[p].entries)

(* With entries of one size a get returns the last value put or nothing:   *)
(* no split, borrow, delete or subtree that splits have cut off brings an  *)
(* overwritten or deleted value back.                                      *)
UniformNeverStale == uniform => \A k \in Key : Get(k) \in {kv[k], Absent}

(* With entries of one size, keys inserted in ascending order and no       *)
(* deletes, every key put is found, through any number of splits.          *)
AscendingComplete == uniform /\ ascending => \A k \in Key : Get(k) = kv[k]

-----------------------------------------------------------------------------
(***************************************************************************)
(* What the documentation says of the tree and the code does not do.       *)
(***************************************************************************)

(* "Insert or update a key-value pair" (put): what a put that returned Ok  *)
(* stored is found by a get until the key is put again or deleted.         *)
GetComplete == \A k \in Key : Get(k) = kv[k]
=============================================================================

------------------------------ MODULE PageStore ------------------------------
(* The pager's pages: the storage, the page cache over it, the allocator   *)
(* with its free list, and the two users of pages, the B+tree (one page    *)
(* per node) and the overflow chains (one chain per large value).          *)
(*                                                                         *)
(* The pager is used through &mut self, so each of its methods is one      *)
(* step; a method that fails part way leaves what it had done by then.     *)
(* The page cache is created with the Arc policy, whose lists no code      *)
(* fills: it never evicts, and a put of a new page into a full shard is    *)
(* refused with CacheFull.  One shard is modelled.                         *)
EXTENDS Integers, Sequences, FiniteSets, SequencesExt

CONSTANTS
  LastPage,        \* bound: no page above this one is allocated
  CacheCap,        \* max_entries of the cache shard
  MaxChain,        \* bound: pages of an overflow chain
  NodeData         \* contents of a node

(* A chain of more pages is allocated, but neither read nor freed. *)
ChainLimit == 2000

ASSUME PageBounds == LastPage \in Nat \ {0, 1} /\ CacheCap \in Nat \ {0} /\ MaxChain \in 1..ChainLimit

VARIABLES
  disk,            \* page -> content, the storage
  cached,          \* page -> content, the page cache
  free,            \* free_pages: sequence of page numbers, ascending
  nextPage,        \* last_allocated_page: the number the next extension takes
  nodes,           \* history: the pages the tree holds
  chains,          \* history: one sequence of pages per value stored in a chain
  reopened         \* history: the file has been closed and opened again

pageVars == <<disk, cached, free, nextPage, nodes, chains, reopened>>

RootPage == 2
FirstFresh == 3
Pages == RootPage..LastPage

(* Contents: a node, a page just allocated, or a page of a chain that      *)
(* holds the i-th chunk of its value and the number of the next page (0:   *)
(* the last one).                                                          *)
Node(d) == [kind |-> "node", data |-> d, next |-> 0]
Allocated == [kind |-> "freelist", data |-> 0, next |-> 0]
Overflow(i, n) == [kind |-> "overflow", data |-> i, next |-> n]

PageInit ==
  /\ disk = [p \in {RootPage} |-> Node(CHOOSE d \in NodeData : TRUE)]
  /\ cached = disk
  /\ free = <<>> /\ nextPage = FirstFresh
  /\ nodes = {RootPage} /\ chains = {}
  /\ reopened = FALSE

------------------------------------------------------------------------------
(* The parts methods are made of, on a record of what they change. *)

Store == [disk |-> disk, cached |-> cached, free |-> free, next |-> nextPage,
          ok |-> TRUE, pages |-> <<>>]

(* f with c at p, and f without p. *)
Holding(f, p, c) == [q \in DOMAIN f \cup {p} |-> IF q = p THEN c ELSE f[q]]
Lacking(f, p) == [q \in DOMAIN f \ {p} |-> f[q]]

Room(s) == Cardinality(DOMAIN s.cached) < CacheCap

(* write_page: the cache is updated if it holds the page or has room; a refusal is ignored. *)
WritePage(s, p, c) ==
  [s EXCEPT !.disk = Holding(@, p, c),
            !.cached = IF p \in DOMAIN @ \/ Room(s) THEN Holding(@, p, c) ELSE @]

(* write_page_raw: the entry is removed first, and a refusal is an error, after the write. *)
WriteRaw(s, p, c) ==
  LET gone == Lacking(s.cached, p)
      full == Cardinality(DOMAIN gone) >= CacheCap
  IN  [s EXCEPT !.disk = Holding(@, p, c),
                !.cached = IF full THEN gone ELSE Holding(gone, p, c),
                !.ok = ~full]

(* The content a cached read returns, and the cache after it: a page that is *)
(* not cached must be put there, so the read of it fails when there is no room. *)
Content(s, p) == IF p \in DOMAIN s.cached THEN s.cached[p] ELSE s.disk[p]
Readable(s, p) == p \in DOMAIN s.cached \/ Room(s)
ReadIn(s, p) ==
  [s EXCEPT !.cached = IF Readable(s, p) THEN Holding(@, p, Content(s, p)) ELSE @,
            !.ok = Readable(s, p)]

(* The allocator reuses the lowest free page, else extends the file. *)
NewPage(s) == IF s.free # <<>> THEN Head(s.free) ELSE s.next
AllocatePage(s) ==
  [s EXCEPT !.disk = Holding(@, NewPage(s), Allocated),
            !.free = IF @ # <<>> THEN Tail(@) ELSE @,
            !.next = IF s.free # <<>> THEN @ ELSE @ + 1]

(* free_page: inserted in order, which is what the binary search is for; *)
(* that it finds the page in the list changes nothing.                   *)
SearchFor(f, p) == CHOOSE n \in 0..Len(f) : \A i \in 1..Len(f) : f[i] < p <=> i <= n
FreePage(s, p) ==
  [s EXCEPT !.free = InsertAt(@, SearchFor(@, p) + 1, p),
            !.cached = Lacking(@, p)]

Becomes(s) ==
  /\ disk' = s.disk /\ cached' = s.cached /\ free' = s.free /\ nextPage' = s.next

CanAllocate(s, n) == s.next + n <= LastPage + 1 + Len(s.free)

------------------------------------------------------------------------------
(* The tree's use of pages. *)

ReadNode(p) ==
  /\ p \in nodes
  /\ Becomes(ReadIn(Store, p))
  /\ UNCHANGED <<nodes, chains, reopened>>

WriteNode(p, d) ==
  /\ p \in nodes
  /\ Becomes(WriteRaw(Store, p, Node(d)))
  /\ UNCHANGED <<nodes, chains, reopened>>

(* A split: the new node's page is allocated and written.  The tree does   *)
(* not link the page in when the write reports an error.                   *)
SplitNode(d) ==
  LET s == AllocatePage(Store) IN
  LET t == WriteRaw(s, NewPage(Store), Node(d)) IN
  /\ CanAllocate(Store, 1)
  /\ Becomes(t)
  /\ nodes' = IF t.ok THEN nodes \cup {NewPage(Store)} ELSE nodes
  /\ UNCHANGED <<chains, reopened>>

------------------------------------------------------------------------------
(* Overflow chains. *)

(* read_overflow_page: a read through the cache, and the page's type checked. *)
OverflowIn(s, p) ==
  IF s.ok THEN [ReadIn(s, p) EXCEPT !.ok = @ /\ Content(s, p).kind = "overflow"] ELSE s

(* Mutant: the page linked to the next one is given the new page's chunk. *)
AddLink_Unlinked(s, i) ==
  LET p == NewPage(s)
      w == WritePage(WritePage(AllocatePage(s), p, Overflow(0, 0)), p, Overflow(i, 0))
      prev == Last(s.pages)
      r == OverflowIn(w, prev)
  IN  IF ~s.ok THEN s
      ELSE IF s.pages = <<>> THEN [w EXCEPT !.pages = <<p>>]
      ELSE IF ~r.ok THEN [r EXCEPT !.pages = Append(@, p)]
      ELSE [WritePage(r, prev, Overflow(i, p)) EXCEPT !.pages = Append(@, p)]

(* One turn of the loop of allocate_overflow_chain: a page is allocated    *)
(* and written twice, then the page before it is read back and linked.     *)
AddLink(s, i) ==
  LET p == NewPage(s)
      w == WritePage(WritePage(AllocatePage(s), p, Overflow(0, 0)), p, Overflow(i, 0))
      prev == Last(s.pages)
      r == OverflowIn(w, prev)
  IN  IF ~s.ok THEN s
      ELSE IF s.pages = <<>> THEN [w EXCEPT !.pages = <<p>>]
      ELSE IF ~r.ok THEN [r EXCEPT !.pages = Append(@, p)]
      ELSE [WritePage(r, prev, Overflow(Content(r, prev).data, p)) EXCEPT !.pages = Append(@, p)]

(* n turns of it. *)
Linked(s, n) ==
  LET turn[i \in 0..n] == IF i = 0 THEN s ELSE AddLink(turn[i - 1], i) IN turn[n]

(* allocate_overflow_chain: on an error the pages taken so far are kept by nobody. *)
AllocateChain(n) ==
  LET s == Linked(Store, n) IN
  /\ CanAllocate(Store, n)
  /\ Becomes(s)
  /\ chains' = IF s.ok THEN chains \cup {s.pages} ELSE chains
  /\ UNCHANGED <<nodes, reopened>>

(* The pages a chain's links lead to from p: what read_overflow_chain and  *)
(* free_overflow_chain walk.  Both stop with an error at a page visited    *)
(* before and at one that is not an overflow page (OverflowIn).            *)
Further(s, w) ==
  LET q == Content(s, Last(w)).next
  IN  IF q = 0 \/ q \in Range(w) THEN w ELSE Append(w, q)
Walk(s, p) ==
  LET walk[i \in 0..LastPage] == IF i = 0 THEN <<p>> ELSE Further(s, walk[i - 1])
  IN  walk[LastPage]

(* One turn of the loop of free_overflow_chain. *)
FreeLink(s, p) ==
  LET r == OverflowIn(s, p) IN IF r.ok THEN FreePage(r, p) ELSE r

(* The pages w read, or read and freed, one after the other until one cannot be. *)
Visited(s, w, frees) ==
  LET turn[i \in 0..Len(w)] ==
        IF i = 0 THEN s
        ELSE IF frees THEN FreeLink(turn[i - 1], w[i]) ELSE OverflowIn(turn[i - 1], w[i])
  IN  turn[Len(w)]

FreeChain(c) ==
  /\ c \in chains
  /\ Becomes(Visited(Store, Walk(Store, c[1]), TRUE))
  /\ chains' = chains \ {c}
  /\ UNCHANGED <<nodes, reopened>>

(* read_overflow_chain *)
ReadChain(c) ==
  /\ c \in chains
  /\ Becomes(Visited(Store, Walk(Store, c[1]), FALSE))
  /\ UNCHANGED <<nodes, chains, reopened>>

(* close, then open_file: an empty cache and an allocator that starts over.  *)
(* rebuild_freelist is a placeholder and not called.                         *)
Reopen ==
  /\ ~reopened
  /\ cached' = [p \in {} |-> 0]
  /\ free' = <<>> /\ nextPage' = FirstFresh
  /\ reopened' = TRUE
  /\ UNCHANGED <<disk, nodes, chains>>

PageNext ==
  \/ \E p \in nodes : ReadNode(p)
  \/ \E p \in nodes, d \in NodeData : WriteNode(p, d)
  \/ \E d \in NodeData : SplitNode(d)
  \/ \E n \in 1..MaxChain : AllocateChain(n)
  \/ \E c \in chains : FreeChain(c) \/ ReadChain(c)
  \/ Reopen

PageSpec == PageInit /\ [][PageNext]_pageVars

------------------------------------------------------------------------------

PageTypeOK ==
  /\ DOMAIN disk \subseteq Pages
  /\ DOMAIN cached \subseteq DOMAIN disk /\ Cardinality(DOMAIN cached) <= CacheCap
  /\ free \in Seq(FirstFresh..LastPage)
  /\ nextPage \in FirstFresh..LastPage + 1
  /\ nodes \subseteq Pages /\ reopened \in BOOLEAN
  /\ \A c \in chains : Range(c) \subseteq Pages

Held == nodes \cup UNION {Range(c) : c \in chains}

(* No page has two owners: a page the allocator may hand out next (free, or  *)
(* never allocated) is held by no node and no value, no two values share a   *)
(* page, and the free list holds a page once, in ascending order.             *)
(* allocate_page and free_page keep this without checking it.                *)
OneOwner ==
  /\ Held \cap (Range(free) \cup nextPage..LastPage) = {}
  /\ \A c \in chains : Range(c) \cap nodes = {}
  /\ \A c, d \in chains : c = d \/ Range(c) \cap Range(d) = {}
  /\ \A i \in 1..Len(free) - 1 : free[i] < free[i + 1]

(* Bound of the exploration: what follows once a reopened file's allocator *)
(* may hand out a page that is held is not explored.                       *)
PageBound == OneOwner

(* The cache never serves what the storage does not hold: every write, link, *)
(* reuse of a freed page and refused put included.                           *)
CacheCoherent == reopened \/ \A p \in DOMAIN cached : cached[p] = disk[p]

(* A value stored in a chain reads back whole: its links lead through its  *)
(* pages in order, each with its own chunk, whatever was allocated and     *)
(* freed around it.                                                        *)
ChainsWhole ==
  reopened \/ \A c \in chains :
    /\ Walk(Store, c[1]) = c
    /\ \A i \in 1..Len(c) : Content(Store, c[i]).kind = "overflow" /\ Content(Store, c[i]).data = i

(* Page contents survive: no page has two owners, the cache agrees with    *)
(* the storage and every stored value reads back whole, until the file is  *)
(* reopened.                                                               *)
PagesWhole == (reopened \/ OneOwner) /\ CacheCoherent /\ ChainsWhole
==============================================================================

------------------------------ MODULE NodeCache ------------------------------
(* The cache of decoded B+tree nodes, by (page, LSN), and page_versions,   *)
(* the mutex-guarded map from a page to the keys cached for it, which      *)
(* invalidate follows.  The two are updated one after the other by threads *)
(* that share the cache.  The shard below is under the Arc policy and does *)
(* not evict: when it is full a new key is refused.                        *)
(*                                                                         *)
(* With it the queue of prefetch requests, whose methods each run under    *)
(* the queue's mutex.                                                      *)
EXTENDS Integers, Sequences, FiniteSets, SequencesExt, Filters

CONSTANTS
  NodePages, Lsns,
  NodeCap,         \* entries the shard may hold
  Callers,         \* the threads that use the cache
  QueueCap,        \* max_size of the prefetch queue
  MaxRequests      \* bound: prefetch requests made

ASSUME NodeBounds == NodeCap \in Nat \ {0} /\ QueueCap \in Nat \ {0} /\ MaxRequests \in Nat

VARIABLES
  held,            \* the keys in the cache
  versions,        \* page_versions: the keys tracked
  doing,           \* caller -> what it does
  subject          \* caller -> the keys it still has to handle

nodeVars == <<held, versions, doing, subject>>

NodeKey == NodePages \X Lsns
Of(p) == {p} \X Lsns

(* invalidate keeps page_versions locked until it has removed every key. *)
VersionsFree == \A c \in Callers : doing[c] # "invalidate"

NodeInit ==
  /\ held = {} /\ versions = {}
  /\ doing = [c \in Callers |-> "idle"] /\ subject = [c \in Callers |-> {}]

Turn(c, what, keys) ==
  doing' = [doing EXCEPT ![c] = what] /\ subject' = [subject EXCEPT ![c] = keys]

(* put: into the cache, then into page_versions. *)
PutNode(c, k) ==
  /\ doing[c] = "idle"
  /\ IF k \in held \/ Cardinality(held) < NodeCap
     THEN held' = held \cup {k} /\ Turn(c, "put", {k})
     ELSE UNCHANGED <<held, doing, subject>>                      \* CacheFull
  /\ UNCHANGED versions

PutTracked(c) ==
  /\ doing[c] = "put" /\ VersionsFree
  /\ versions' = versions \cup subject[c]
  /\ Turn(c, "idle", {})
  /\ UNCHANGED held

(* invalidate: the page's keys leave page_versions, then the cache, one by one. *)
InvalidateNode(c, p) ==
  /\ doing[c] = "idle" /\ VersionsFree
  /\ versions' = versions \ Of(p)
  /\ IF versions \cap Of(p) = {} THEN UNCHANGED <<doing, subject>>
     ELSE Turn(c, "invalidate", versions \cap Of(p))
  /\ UNCHANGED held

(* Mutant: only the first key is removed. *)
InvalidateNext_Half(c) ==
  /\ doing[c] = "invalidate"
  /\ \E k \in subject[c] : held' = held \ {k}
  /\ Turn(c, "idle", {})
  /\ UNCHANGED versions

InvalidateNext(c) ==
  /\ doing[c] = "invalidate"
  /\ \E k \in subject[c] :
       /\ held' = held \ {k}
       /\ Turn(c, IF subject[c] = {k} THEN "idle" ELSE "invalidate", subject[c] \ {k})
  /\ UNCHANGED versions

(* clear: page_versions first, the cache after. *)
ClearNodes(c) ==
  /\ doing[c] = "idle" /\ VersionsFree
  /\ versions' = {} /\ Turn(c, "clear", {})
  /\ UNCHANGED held

ClearHeld(c) ==
  /\ doing[c] = "clear"
  /\ held' = {} /\ Turn(c, "idle", {})
  /\ UNCHANGED versions

NodeNext ==
  \E c \in Callers :
    \/ \E k \in NodeKey : PutNode(c, k)
    \/ \E p \in NodePages : InvalidateNode(c, p)
    \/ PutTracked(c) \/ InvalidateNext(c) \/ ClearNodes(c) \/ ClearHeld(c)

NodeSpec == NodeInit /\ [][NodeNext]_nodeVars

NodeTypeOK ==
  /\ held \subseteq NodeKey /\ Cardinality(held) <= NodeCap
  /\ versions \subseteq NodeKey
  /\ doing \in [Callers -> {"idle", "put", "invalidate", "clear"}]
  /\ subject \in [Callers -> SUBSET NodeKey]

(* A cached node can be found by the invalidation of its page: it is        *)
(* tracked, or a put that brought it in has yet to track it, or an          *)
(* invalidation or clear is about to remove it.  A node outside these would *)
(* be served after its page had changed, with no way to remove it.          *)
HeldIsFindable ==
  \A k \in held : k \in versions \/ \E c \in Callers : k \in subject[c] \/ doing[c] = "clear"

------------------------------------------------------------------------------
(* The prefetch queue. *)

VARIABLES
  queue,           \* the priorities waiting: 0 Low, 1 Normal, 2 High
  total, dropped,  \* stats.total_requests, stats.dropped_requests
  queueSize,       \* stats.current_queue_size
  taken            \* history: requests dequeued or cleared

prefetchVars == <<queue, total, dropped, queueSize, taken>>

Priority == 0..2
Urgent == Priority \ {0}

PrefetchInit == queue = <<>> /\ total = 0 /\ dropped = 0 /\ queueSize = 0 /\ taken = 0

(* Behind every request that is at least as urgent. *)
InsertByPriority(q, r) ==
  Only(q, {x \in Priority : x >= r}) \o <<r>> \o Only(q, {x \in Priority : x < r})

DropFirstLow(q) ==
  LET i == CHOOSE i \in 1..Len(q) : q[i] = 0 /\ \A j \in 1..i - 1 : q[j] # 0 IN RemoveAt(q, i)

(* Mutant: a full queue drops its last request. *)
Enqueue_DropLast(r) ==
  LET full == Len(queue) >= QueueCap
      room == IF full THEN Front(queue) ELSE queue
  IN
  /\ total < MaxRequests /\ total' = total + 1
  /\ dropped' = IF full THEN dropped + 1 ELSE dropped
  /\ queue' = InsertByPriority(room, r) /\ queueSize' = Len(queue')
  /\ UNCHANGED taken

(* A full queue drops its first Low request for the new one, whatever that is, or refuses. *)
Enqueue(r) ==
  LET full == Len(queue) >= QueueCap
      low == \E i \in 1..Len(queue) : queue[i] = 0
  IN
  /\ total < MaxRequests /\ total' = total + 1
  /\ dropped' = IF full THEN dropped + 1 ELSE dropped
  /\ IF full /\ ~low THEN UNCHANGED <<queue, queueSize>>
     ELSE /\ queue' = InsertByPriority(IF full THEN DropFirstLow(queue) ELSE queue, r)
          /\ queueSize' = Len(queue')
  /\ UNCHANGED taken

Dequeue ==
  /\ queue # <<>>
  /\ queue' = Tail(queue) /\ queueSize' = Len(queue') /\ taken' = taken + 1
  /\ UNCHANGED <<total, dropped>>

ClearQueue ==
  /\ queue' = <<>> /\ queueSize' = 0 /\ taken' = taken + Len(queue)
  /\ UNCHANGED <<total, dropped>>

PrefetchNext == (\E r \in Priority : Enqueue(r)) \/ Dequeue \/ ClearQueue

PrefetchSpec == PrefetchInit /\ [][PrefetchNext]_prefetchVars

(* Every request is waiting, was taken or is counted as dropped, and the    *)
(* reported queue size is the queue's, in every order of the three methods. *)
PrefetchAccounted ==
  /\ total = dropped + taken + Len(queue)
  /\ queueSize = Len(queue) /\ Len(queue) <= QueueCap

(* The urgent come first and only Low requests give way: a step that keeps *)
(* the queue from shrinking never loses a Normal or High one.              *)
UrgentStay ==
  [][ /\ \A i \in 1..Len(queue') - 1 : queue'[i] >= queue'[i + 1]
      /\ taken' = taken => Len(Only(queue', Urgent)) >= Len(Only(queue, Urgent))
    ]_prefetchVars

==============================================================================

----------------------------- MODULE Publisher ------------------------------
(***************************************************************************)
(* The primary's side of replication (replication/publisher.rs): publish   *)
(* with its backpressure, the accept task, one handler task per accepted   *)
(* replica, the heartbeat task, acknowledgement by callers and shutdown.   *)
(*                                                                         *)
(* A step is what a task does between two waits for a lock.  Two mutexes   *)
(* are held across such a wait and are explicit: backpressure_state (held  *)
(* by tasks at "refuse") and buffer (held by tasks at "apply", "relieve"). *)
(* The replicas lock is held by a caller that sends or acknowledges        *)
(* (shared: Unread) or drains (exclusive: NoDrain).  A connection's mutex  *)
(* and replica_acks are held for one step only; taking replica_acks and    *)
(* buffer together is one step, so a cycle through replica_acks is not     *)
(* represented.                                                            *)
(*                                                                         *)
(* Nothing reads the buffer but its accounting (records_after is never     *)
(* called): a record travels to a replica through its write buffer only.   *)
(***************************************************************************)
EXTENDS Integers, Sequences, SequencesExt, FiniteSetsExt

CONSTANTS
  Caller,       \* tasks of the application that use the publisher
  Committer,    \* those of them that call publish
  MaxReplicas,  \* config.max_replicas
  MaxSize,      \* config.replication_buffer_size, in units
  High, Low,    \* config.high_watermark(), config.low_watermark()
  Size,         \* record sizes
  MaxConn,      \* bound: connections accepted
  MaxSeq        \* bound: sequence numbers given out

ASSUME PublisherAssumption ==
  /\ Committer \subseteq Caller /\ Caller \cap Int = {}
  /\ {MaxReplicas, MaxSize, High, Low, MaxConn, MaxSeq} \subseteq Nat
  /\ MaxReplicas >= 1 /\ 0 < Low /\ Low < High /\ High <= MaxSize
  /\ Size \subseteq 1..MaxSize

VARIABLES
  listen,     \* who holds the port: "start", "accept" or "free"
  accepting,  \* the accept task: "binding", "looping" or "ended"
  running,
  nextId,     \* next_replica_id
  conn,       \* replicas: id -> [up, sendSeq, queue]
  acks,       \* replica_acks
  counter,    \* sequence_counter
  buffer,     \* records: a sequence of [seq, size]
  size,       \* current_size
  state,      \* backpressure_state
  pc, arg,    \* of every task: where it waits and what it carries
  wire,       \* per replica, the commits written to its socket
  log,        \* history: the sequence numbers pushed, in order
  cleared     \* history: shutdown emptied the buffer

taskVars == <<pc, arg>>
bufVars  == <<buffer, size, log>>
netVars  == <<listen, accepting, nextId>>
pubVars == <<netVars, running, conn, acks, counter, bufVars, state, taskVars,
          wire, cleared>>

Replica == 1..MaxConn
Task    == Caller \cup Replica
CanSend(r) == r \in DOMAIN conn /\ conn[r].up

StateFree  == \A t \in Task : pc[t] # "refuse"
BufferFree == \A t \in Task : pc[t] \notin {"apply", "relieve"}
NoDrain    == \A t \in Caller : pc[t] # "drain"
Unread     == \A t \in Caller :
                pc[t] \notin {"send", "min", "release", "relieve"}
Move(t, p, a) == pc' = [pc EXCEPT ![t] = p] /\ arg' = [arg EXCEPT ![t] = a]
Goto(t, p, n) == Move(t, p, [seq |-> n, todo |-> {}])
Rest(t) == IF t \in Replica THEN "loop" ELSE "idle"

PubInit ==
  /\ listen = "start" /\ accepting = "binding" /\ running = TRUE
  /\ nextId = 1 /\ conn = <<>> /\ acks = <<>>
  /\ counter = 0 /\ buffer = <<>> /\ size = 0 /\ state = "Normal"
  /\ pc = [t \in Task |-> IF t \in Replica THEN "none" ELSE "idle"]
  /\ arg = [t \in Task |-> [seq |-> 0, todo |-> {}]]
  /\ wire = [r \in Replica |-> <<>>] /\ log = <<>> /\ cleared = FALSE

-----------------------------------------------------------------------------
(* start() keeps its own listener on the port until it returns; the accept *)
(* task binds the same port when it first runs and ends at once, without a *)
(* word, when it is still taken.                                           *)
StartReturns ==
  /\ listen = "start"
  /\ listen' = "free"
  /\ UNCHANGED <<accepting, nextId, running, conn, acks, counter, bufVars,
                 state, taskVars, wire, cleared>>

AcceptBind ==
  /\ accepting = "binding"
  /\ IF listen = "free" THEN listen' = "accept" /\ accepting' = "looping"
                        ELSE accepting' = "ended" /\ UNCHANGED listen
  /\ UNCHANGED <<nextId, running, conn, acks, counter, bufVars, state,
                 taskVars, wire, cleared>>

(* A replica connects.  The id is used up even when the connection is      *)
(* refused; no id ever leaves the two maps again.  The flag is looked at   *)
(* after the connection only: one more is taken after shutdown.            *)
NewConn == [up |-> TRUE, sendSeq |-> 0, queue |-> <<>>]

AcceptReplica ==
  /\ accepting = "looping" /\ NoDrain /\ nextId <= MaxConn
  /\ Unread
  /\ nextId' = nextId + 1
  /\ IF Cardinality(DOMAIN conn) >= MaxReplicas
     THEN UNCHANGED <<conn, acks, taskVars>>
     ELSE /\ conn' = [r \in DOMAIN conn \cup {nextId} |->
                        IF r = nextId THEN NewConn ELSE conn[r]]
          /\ acks' = [r \in DOMAIN acks \cup {nextId} |->
                        IF r = nextId THEN 0 ELSE acks[r]]
          /\ Goto(nextId, "loop", 0)
  /\ IF running THEN UNCHANGED <<listen, accepting>>
                ELSE listen' = "free" /\ accepting' = "ended"
  /\ UNCHANGED <<running, counter, bufVars, state, wire, cleared>>

-----------------------------------------------------------------------------
(* publish.  A caller that finds backpressure applied waits for the buffer *)
(* lock, only to report its usage, while it still holds the state lock.    *)
PublishCheck(c) ==
  /\ pc[c] = "idle" /\ StateFree
  /\ counter < MaxSeq
  /\ Goto(c, IF state = "Applying" THEN "refuse" ELSE "number", 0)
  /\ UNCHANGED <<netVars, running, conn, acks, counter, bufVars, state, wire,
                 cleared>>

PublishRefused(c) ==
  /\ pc[c] = "refuse" /\ BufferFree
  /\ Goto(c, "idle", 0)
  /\ UNCHANGED <<netVars, running, conn, acks, counter, bufVars, state, wire,
                 cleared>>

PublishNumber(c) ==
  /\ pc[c] = "number" /\ counter < MaxSeq
  /\ counter' = counter + 1
  /\ Goto(c, "push", counter)
  /\ UNCHANGED <<netVars, running, conn, acks, bufVars, state, wire, cleared>>

(* Mutant: a capacity check that forgets the record's own size. *)
Push_NoOwnSize(c, n) ==
  /\ pc[c] = "push" /\ BufferFree
  /\ IF size > MaxSize
     THEN Goto(c, "idle", 0) /\ UNCHANGED bufVars
     ELSE /\ buffer' = Append(buffer, [seq |-> arg[c].seq, size |-> n])
          /\ size' = size + n
          /\ log' = Append(log, arg[c].seq)
          /\ Goto(c, IF size + n >= High THEN "apply" ELSE "enter", arg[c].seq)
  /\ UNCHANGED <<netVars, running, conn, acks, counter, state, wire, cleared>>

(* A full buffer refuses the record; its number is lost. *)
Push(c, n) ==
  /\ pc[c] = "push" /\ BufferFree
  /\ IF size + n > MaxSize
     THEN Goto(c, "idle", 0) /\ UNCHANGED bufVars
     ELSE /\ buffer' = Append(buffer, [seq |-> arg[c].seq, size |-> n])
          /\ size' = size + n
          /\ log' = Append(log, arg[c].seq)
          /\ Goto(c, IF size + n >= High THEN "apply" ELSE "enter", arg[c].seq)
  /\ UNCHANGED <<netVars, running, conn, acks, counter, state, wire, cleared>>

PublishApply(c) ==
  /\ pc[c] = "apply" /\ StateFree
  /\ state' = "Applying"
  /\ Goto(c, "enter", arg[c].seq)
  /\ UNCHANGED <<netVars, running, conn, acks, counter, bufVars, wire,
                 cleared>>

(* With the replicas lock, the message goes to one connection after the    *)
(* other; `arg` is then [seq, todo], the connections still to visit.       *)
PublishEnter(c) ==
  /\ pc[c] = "enter" /\ NoDrain
  /\ Move(c, "send", [seq |-> arg[c].seq, todo |-> DOMAIN conn])
  /\ UNCHANGED <<netVars, running, conn, acks, counter, bufVars, state, wire,
                 cleared>>

Queued(k, s) == [k EXCEPT !.sendSeq = s + 1, !.queue = Append(@, s)]
PublishSend(c) ==
  /\ pc[c] = "send"
  /\ IF arg[c].todo = {}
     THEN Goto(c, "idle", 0) /\ UNCHANGED conn
     ELSE \E r \in arg[c].todo :
            /\ conn' = IF CanSend(r)
                       THEN [conn EXCEPT ![r] = Queued(@, arg[c].seq)]
                       ELSE conn
            /\ Move(c, "send", [arg[c] EXCEPT !.todo = @ \ {r}])
  /\ UNCHANGED <<netVars, running, acks, counter, bufVars, state, wire,
                 cleared>>

-----------------------------------------------------------------------------
(* Mutant: the write buffer is kept after it was written. *)
HandlerFlush_NoClear(r) ==
  /\ pc[r] = "loop" /\ running /\ CanSend(r)
  /\ \/ wire' = [wire EXCEPT ![r] = @ \o conn[r].queue] /\ UNCHANGED conn
     \/ conn' = [conn EXCEPT ![r].up = FALSE] /\ UNCHANGED wire
  /\ Goto(r, "read", 0)
  /\ UNCHANGED <<netVars, running, acks, counter, bufVars, state, cleared>>

(* The handler of replica r: write out what is queued, then read.          *)
HandlerFlush(r) ==
  /\ pc[r] = "loop" /\ running /\ CanSend(r)
  /\ \/ /\ wire' = [wire EXCEPT ![r] = @ \o conn[r].queue]
        /\ conn' = [conn EXCEPT ![r].queue = <<>>]
     \/ conn' = [conn EXCEPT ![r].up = FALSE] /\ UNCHANGED wire
  /\ Goto(r, "read", 0)
  /\ UNCHANGED <<netVars, running, acks, counter, bufVars, state, cleared>>

(* Anything the replica sends counts as an acknowledgement of all that was *)
(* queued for it.  End of stream, an error, or nothing for a second.       *)
HandlerRead(r) ==
  /\ pc[r] = "read"
  /\ \/ Goto(r, "ack", conn[r].sendSeq) /\ UNCHANGED conn
     \/ Goto(r, "ended", 0) /\ conn' = [conn EXCEPT ![r].up = FALSE]
     \/ Goto(r, "loop", 0) /\ UNCHANGED conn
  /\ UNCHANGED <<netVars, running, acks, counter, bufVars, state, wire,
                 cleared>>

HandlerStop(r) ==
  /\ pc[r] = "loop" /\ ~running
  /\ Goto(r, "ended", 0)
  /\ UNCHANGED <<netVars, running, conn, acks, counter, bufVars, state, wire,
                 cleared>>

(* Only the call of track_replica_position moves last_ack_received, so the *)
(* five seconds may be over for any replica.  The number is spent.         *)
Heartbeat(r) ==
  /\ running /\ CanSend(r) /\ NoDrain /\ counter < MaxSeq
  /\ counter' = counter + 1
  /\ \/ UNCHANGED conn
     \/ conn' = [conn EXCEPT ![r].up = FALSE]
  /\ UNCHANGED <<netVars, running, acks, bufVars, state, taskVars, wire,
                 cleared>>

-----------------------------------------------------------------------------
(* An acknowledgement: by the handler, or by a caller of                   *)
(* track_replica_position, who names any replica and what it has received. *)
Acked(r, s) == acks' = [k \in DOMAIN acks \cup {r} |->
                          IF k = r THEN s ELSE acks[k]]
HandlerAck(r) ==
  /\ pc[r] = "ack"
  /\ Acked(r, arg[r].seq)
  /\ Goto(r, "min", 0)
  /\ UNCHANGED <<netVars, running, conn, counter, bufVars, state, wire,
                 cleared>>

TrackPosition(c, r) ==
  /\ pc[c] = "idle" /\ NoDrain /\ wire[r] # <<>>
  /\ \E s \in ToSet(wire[r]) : Acked(r, s)
  /\ Goto(c, "min", 0)
  /\ UNCHANGED <<netVars, running, conn, counter, bufVars, state, wire,
                 cleared>>

ReleaseMin(t) ==
  /\ pc[t] = "min" /\ BufferFree
  /\ IF acks = <<>> THEN Goto(t, Rest(t), 0)
                    ELSE Goto(t, "release", Min(Range(acks)))
  /\ UNCHANGED <<netVars, running, conn, acks, counter, bufVars, state, wire,
                 cleared>>

(* release_up_to drops records from the front, as far as they are covered. *)
Covered(s) == {n \in 0..Len(buffer) : \A i \in 1..n : buffer[i].seq <= s}
SizeOf(b) ==
  LET sum[i \in 0..Len(b)] == IF i = 0 THEN 0 ELSE sum[i - 1] + b[i].size
  IN  sum[Len(b)]

(* Mutant: only the first record's size is given back. *)
Release_FirstSize(t) ==
  /\ pc[t] = "release" /\ BufferFree
  /\ LET n    == Max(Covered(arg[t].seq))
         gone == IF n = 0 THEN 0 ELSE buffer[1].size
     IN  /\ buffer' = SubSeq(buffer, n + 1, Len(buffer))
         /\ size' = size - gone
         /\ Goto(t, IF size - gone < Low THEN "relieve" ELSE Rest(t), 0)
  /\ UNCHANGED <<netVars, running, conn, acks, counter, log, state, wire,
                 cleared>>

Release(t) ==
  /\ pc[t] = "release" /\ BufferFree
  /\ LET n    == Max(Covered(arg[t].seq))
         gone == SizeOf(SubSeq(buffer, 1, n))
     IN  /\ buffer' = SubSeq(buffer, n + 1, Len(buffer))
         /\ size' = size - gone
         /\ Goto(t, IF size - gone < Low THEN "relieve" ELSE Rest(t), 0)
  /\ UNCHANGED <<netVars, running, conn, acks, counter, log, state, wire,
                 cleared>>

ReleaseRelieve(t) ==
  /\ pc[t] = "relieve" /\ StateFree
  /\ state' = "Relieving"
  /\ Goto(t, Rest(t), 0)
  /\ UNCHANGED <<netVars, running, conn, acks, counter, bufVars, wire,
                 cleared>>

-----------------------------------------------------------------------------
(* shutdown, with the replicas lock held while it waits for the buffer.    *)
ShutdownMark(c) ==
  /\ pc[c] = "idle" /\ NoDrain /\ Unread /\ running
  /\ running' = FALSE
  /\ conn' = [r \in DOMAIN conn |-> [conn[r] EXCEPT !.up = FALSE]]
  /\ Goto(c, "drain", 0)
  /\ UNCHANGED <<netVars, acks, counter, bufVars, state, wire, cleared>>

ShutdownClear(c) ==
  /\ pc[c] = "drain" /\ BufferFree
  /\ buffer' = <<>> /\ size' = 0 /\ cleared' = TRUE
  /\ Goto(c, "idle", 0)
  /\ UNCHANGED <<netVars, running, conn, acks, counter, log, state, wire>>

(* run: the tasks start again; the port may still be the old task's.       *)
Run ==
  /\ ~running /\ running' = TRUE
  /\ IF accepting = "ended" /\ listen = "free"
     THEN accepting' = "looping" /\ listen' = "accept"
     ELSE UNCHANGED <<accepting, listen>>
  /\ UNCHANGED <<nextId, conn, acks, counter, bufVars, state, taskVars, wire,
                 cleared>>

PubNext ==
  \/ StartReturns \/ AcceptBind \/ AcceptReplica \/ Run
  \/ \E c \in Committer : \/ PublishCheck(c) \/ PublishRefused(c)
                          \/ PublishNumber(c) \/ PublishApply(c)
                          \/ PublishEnter(c) \/ PublishSend(c)
                          \/ \E n \in Size : Push(c, n)
  \/ \E r \in Replica : \/ HandlerFlush(r) \/ HandlerRead(r) \/ HandlerStop(r)
                        \/ Heartbeat(r) \/ HandlerAck(r)
  \/ \E c \in Caller : \/ ShutdownMark(c) \/ ShutdownClear(c)
                       \/ \E r \in Replica : TrackPosition(c, r)
  \/ \E t \in Task : ReleaseMin(t) \/ Release(t) \/ ReleaseRelieve(t)

PubSpec == PubInit /\ [][PubNext]_pubVars

-----------------------------------------------------------------------------
(* Types. *)
PubTypeOK ==
  /\ listen \in {"start", "accept", "free"}
  /\ accepting \in {"binding", "looping", "ended"} /\ running \in BOOLEAN
  /\ nextId \in 1..(MaxConn + 1)
  /\ DOMAIN conn \subseteq Replica /\ DOMAIN acks \subseteq Replica
  /\ \A r \in DOMAIN conn : /\ conn[r].up \in BOOLEAN
                            /\ conn[r].sendSeq \in 0..MaxSeq
  /\ counter \in 0..MaxSeq /\ size \in 0..MaxSize
  /\ state \in {"Normal", "Applying", "Relieving"}

(* The running total of the buffer is the sum of what it holds, through    *)
(* pushes, partial releases and clear, and never more than the configured  *)
(* size: current_size is a usize that must not wrap.                       *)
BufferAccounting == size = SizeOf(buffer) /\ size <= MaxSize

(* Unless shutdown emptied the buffer, backpressure is not applied to a    *)
(* buffer below the low watermark, except while the task that brought it   *)
(* there holds the buffer lock to say so.                                  *)
ApplyingMeansFull ==
  state = "Applying" /\ ~cleared =>
    size >= Low \/ \E t \in Task : pc[t] = "relieve"

(* With one committing task the commits queued for and written to a        *)
(* replica are a contiguous piece of the pushed ones, in their order, and  *)
(* as long as the replica can be sent to it lacks none but the one being   *)
(* published: although handlers write out, heartbeats take numbers, full   *)
(* buffers lose some, and replicas come and go in between.                 *)
Stream(r) == wire[r] \o conn[r].queue
Pending(c) == \/ pc[c] \in {"apply", "enter"}
              \/ pc[c] = "send" /\ arg[c].todo # {}
Streams ==
  \A r \in DOMAIN conn : Stream(r) # <<>> =>
    \E i, j \in 1..Len(log) :
      /\ Stream(r) = SubSeq(log, i, j)
      /\ CanSend(r) =>
           \/ j = Len(log)
           \/ j = Len(log) - 1 /\ \E c \in Committer : Pending(c)

(* The number of connections handed out is limited (config.max_replicas),  *)
(* and each of them has an acknowledgement entry from the start, so that   *)
(* the least acknowledgement speaks for all of them.                       *)
EveryReplicaCounts ==
  /\ Cardinality(DOMAIN conn) <= MaxReplicas
  /\ DOMAIN conn \subseteq DOMAIN acks

(* What the publisher keeps beside the buffer agrees with it at every      *)
(* await, whatever the tasks read before: the size, the backpressure, and  *)
(* an acknowledgement entry for every replica the release has to wait for. *)
PublisherConsistent == BufferAccounting /\ ApplyingMeansFull /\ EveryReplicaCounts

(* A call of publish that finds the buffer full returns an error ("Buffer  *)
(* is full (backpressure applied)"): it never waits for a task that itself *)
(* waits for the lock this call holds.                                     *)
NoLockCycle ==
  ~ \E c \in Committer, t \in Task : pc[c] = "refuse"
                                       /\ pc[t] \in {"apply", "relieve"}
=============================================================================

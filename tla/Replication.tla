----------------------------- MODULE Replication ----------------------------
(***************************************************************************)
(* ReplicationServer on the primary and ReplicationClient on a replica     *)
(* (replication/server.rs, client.rs), with the connections between them:  *)
(* the commit processor, the accept loop with its limit, the handler of    *)
(* each connection, the heartbeat monitor, metrics and shutdown on one     *)
(* side, connect, handshake, run and reconnect on the other.               *)
(*                                                                         *)
(* What a message turns into at the other end follows protocol.rs: the     *)
(* server puts one placeholder byte where the commit record belongs and    *)
(* the client's deserialize takes it for a record and fails, so a commit   *)
(* received is an error, never an LSN; no acknowledgement is ever sent.    *)
(* Both ends speak PROTOCOL_VERSION.  A record takes one unit of buffer.   *)
(***************************************************************************)
EXTENDS Integers, Sequences, FiniteSets, Filters

CONSTANTS
  MaxServed,   \* config.max_replicas
  BufferCap,   \* config.replication_buffer_size
  ApplyAt,     \* high_watermark()
  RelieveAt,   \* low_watermark()
  MaxDials,    \* bound: connections the client opens
  MaxCommits,  \* bound: commits submitted
  MaxPending   \* bound: messages on their way that keep a handler from its tick

ASSUME ReplicationAssumption ==
  /\ {MaxServed, BufferCap, ApplyAt, RelieveAt, MaxDials, MaxCommits, MaxPending}
       \subseteq Nat
  /\ RelieveAt <= ApplyAt /\ ApplyAt <= BufferCap

VARIABLES
  serving,    \* run's accept loop is there (and `running` is TRUE)
  submitted,  \* commits given to submit_commit
  commitQ,    \* those still in the commit channel
  records,    \* buffer: the sequence numbers of its records
  nextSeq,    \* the commit processor's `sequence`
  proc,       \* the processor: "recv", or "account" with the buffer locked
  pressure,   \* ServerState.backpressure_state
  listed,     \* ServerState.replicas
  active,     \* ServerState.active_connections
  meter,      \* metrics(): "idle", or "buffer" with ServerState read-locked
  handler,    \* per connection: where its handler is
  out,        \* per connection: the commits its handler has sent
  inbox,      \* per connection: messages on their way to the client
  hungUp,     \* connections the client has closed
  client,     \* ClientState
  link,       \* the client's connection, 0 for None
  where,      \* connect, run, reconnect: "idle", "dial", "await", "run", ...
  isRunning,  \* the client's `running`
  dials,      \* connections opened
  aborted     \* history: shutdown has aborted the server's tasks

serverVars == <<serving, nextSeq, proc, pressure, listed, active, meter>>
clientVars == <<client, link, where, isRunning, dials>>
feedVars   == <<submitted, commitQ, records>>
wireVars   == <<handler, out, inbox, hungUp>>
replVars   == <<serverVars, feedVars, wireVars, clientVars, aborted>>

Conn == 1..MaxDials
ServerStateFree  == meter = "idle"      \* ServerState can be write-locked
RecordsFree == proc = "recv"
HandlerAt(h, p) == handler' = [handler EXCEPT ![h] = p]

ReplInit ==
  /\ serving = TRUE /\ submitted = 0 /\ commitQ = 0 /\ records = <<>>
  /\ nextSeq = 0 /\ proc = "recv" /\ pressure = "Normal"
  /\ listed = {} /\ active = 0 /\ meter = "idle"
  /\ handler = [h \in Conn |-> "none"] /\ out = [h \in Conn |-> <<>>]
  /\ inbox = [h \in Conn |-> <<>>] /\ hungUp = {}
  /\ client = "Disconnected" /\ link = 0 /\ where = "idle"
  /\ isRunning = FALSE /\ dials = 0 /\ aborted = FALSE

-----------------------------------------------------------------------------
(* Commits: submit_commit answers Ok once the record is in the channel.    *)
(* Nothing ever leaves the buffer; a record that finds it full is dropped, *)
(* and its number goes to the next one.                                    *)
Submit ==
  /\ submitted < MaxCommits
  /\ submitted' = submitted + 1 /\ commitQ' = commitQ + 1
  /\ UNCHANGED <<serverVars, records, wireVars, clientVars, aborted>>

ProcessCommit ==
  /\ serving /\ proc = "recv" /\ commitQ > 0
  /\ commitQ' = commitQ - 1
  /\ IF Len(records) + 1 > BufferCap
     THEN UNCHANGED <<records, proc>>
     ELSE records' = Append(records, nextSeq) /\ proc' = "account"
  /\ UNCHANGED <<serving, submitted, nextSeq, pressure, listed, active, meter,
                 wireVars, clientVars, aborted>>

(* With the buffer still locked, the counters and the backpressure. *)
Pressure(n) == CASE n >= ApplyAt  -> "Applying"
                 [] n < RelieveAt -> "Relieving"
                 [] OTHER         -> "Normal"

AccountCommit ==
  /\ proc = "account" /\ ServerStateFree
  /\ nextSeq' = nextSeq + 1 /\ proc' = "recv"
  /\ pressure' = Pressure(Len(records))
  /\ UNCHANGED <<serving, feedVars, listed, active, meter, wireVars,
                 clientVars, aborted>>

(* metrics: the state first, then the buffer; the processor the other way. *)
MetricsState ==
  /\ meter = "idle" /\ meter' = "buffer"
  /\ UNCHANGED <<serving, nextSeq, proc, pressure, listed, active, feedVars,
                 wireVars, clientVars, aborted>>

MetricsBuffer ==
  /\ meter = "buffer" /\ RecordsFree /\ meter' = "idle"
  /\ UNCHANGED <<serving, nextSeq, proc, pressure, listed, active, feedVars,
                 wireVars, clientVars, aborted>>

-----------------------------------------------------------------------------
(* The accept loop: a connection over the rate or over the limit is shut   *)
(* down at once.  The count it looks at is raised by the handler later.    *)
Accept(h) ==
  /\ serving /\ handler[h] = "backlog"
  /\ \/ active < MaxServed /\ HandlerAt(h, "add")
     \/ HandlerAt(h, "ended")
  /\ UNCHANGED <<serverVars, feedVars, out, inbox, hungUp, clientVars,
                 aborted>>

HandlerAdd(h) ==
  /\ handler[h] = "add" /\ ServerStateFree
  /\ listed' = listed \cup {h} /\ active' = active + 1
  /\ HandlerAt(h, "shake")
  /\ UNCHANGED <<serving, nextSeq, proc, pressure, meter, feedVars, out,
                 inbox, hungUp, clientVars, aborted>>

(* The Connect message is read; Accept goes back.  Its start_lsn is not    *)
(* looked at (and not transmitted).                                        *)
HandlerShake(h) ==
  /\ handler[h] = "shake"
  /\ IF h \in hungUp
     THEN HandlerAt(h, "remove") /\ UNCHANGED inbox
     ELSE HandlerAt(h, "loop") /\ inbox' = [inbox EXCEPT ![h] = <<"accept">>]
  /\ UNCHANGED <<serverVars, feedVars, out, hungUp, clientVars, aborted>>

(* A tick: a heartbeat, then the records after the last one sent.  The     *)
(* last one sent is 0 to begin with, and record 0 is not after it.         *)
LastSent(h) == IF out[h] = <<>> THEN 0 ELSE out[h][Len(out[h])]
After(s, n) == Only(s, {q \in Nat : q > n})

(* Mutant: what was sent is taken from the number of the newest record.    *)
HandlerTick_Newest(h) ==
  /\ handler[h] = "loop" /\ RecordsFree
  /\ LET new == IF records = <<>> THEN <<>> ELSE <<records[Len(records)]>>
     IN  IF h \in hungUp
         THEN HandlerAt(h, "remove") /\ UNCHANGED <<out, inbox>>
         ELSE /\ out' = [out EXCEPT ![h] = @ \o After(new, LastSent(h))]
              /\ UNCHANGED <<handler, inbox>>
  /\ UNCHANGED <<serverVars, feedVars, hungUp, clientVars, aborted>>

HandlerTick(h) ==
  /\ handler[h] = "loop" /\ RecordsFree
  /\ LET new == After(records, LastSent(h))
     IN  IF h \in hungUp
         THEN HandlerAt(h, "remove") /\ UNCHANGED <<out, inbox>>
         ELSE /\ out' = [out EXCEPT ![h] = @ \o new]
              /\ inbox' = [inbox EXCEPT ![h] = @ \o <<"heartbeat">>
                             \o [i \in 1..Len(new) |-> "commit"]]
              /\ UNCHANGED handler
  /\ Len(inbox[h]) < MaxPending
  /\ UNCHANGED <<serverVars, feedVars, hungUp, clientVars, aborted>>

HandlerEof(h) ==
  /\ handler[h] = "loop" /\ h \in hungUp
  /\ HandlerAt(h, "remove")
  /\ UNCHANGED <<serverVars, feedVars, out, inbox, hungUp, clientVars,
                 aborted>>

Unlist(h) ==
  /\ listed' = listed \ {h}
  /\ active' = IF h \in listed THEN active - 1 ELSE active
HandlerRemove(h) ==
  /\ handler[h] = "remove" /\ ServerStateFree
  /\ Unlist(h) /\ HandlerAt(h, "ended")
  /\ UNCHANGED <<serving, nextSeq, proc, pressure, meter, feedVars, out,
                 inbox, hungUp, clientVars, aborted>>

(* Mutant: the monitor forgets the count. *)
MonitorExpire_NoCount(h) ==
  /\ serving /\ h \in listed /\ ServerStateFree
  /\ listed' = listed \ {h}
  /\ UNCHANGED <<serving, nextSeq, proc, pressure, active, meter, feedVars,
                 wireVars, clientVars, aborted>>

(* The monitor: nothing refreshes last_ack_received of ServerState, so any *)
(* listed replica is dropped in the end, whether it is served or not.      *)
MonitorExpire(h) ==
  /\ serving /\ h \in listed /\ ServerStateFree
  /\ Unlist(h)
  /\ UNCHANGED <<serving, nextSeq, proc, pressure, meter, feedVars, wireVars,
                 clientVars, aborted>>

(* shutdown: the tasks are aborted where they are, and what a handler      *)
(* would have removed stays.  run can be called again.                     *)
ServerShutdown ==
  /\ serving /\ serving' = FALSE /\ aborted' = TRUE /\ proc' = "recv"
  /\ handler' = [h \in Conn |-> IF handler[h] = "none" THEN "none"
                                                       ELSE "ended"]
  /\ UNCHANGED <<nextSeq, pressure, listed, active, meter, feedVars, out,
                 inbox, hungUp, clientVars>>

ServerRun ==
  /\ ~serving /\ serving' = TRUE /\ nextSeq' = 0
  /\ UNCHANGED <<proc, pressure, listed, active, meter, feedVars, wireVars,
                 clientVars, aborted>>

-----------------------------------------------------------------------------
(* The client: connect, then run, which connects anew on any error, after  *)
(* a delay.                                                                *)
Connect ==
  /\ where \in {"idle", "delay"}
  /\ client' = "Connecting" /\ where' = "dial"
  /\ UNCHANGED <<serverVars, feedVars, wireVars, link, isRunning, dials,
                 aborted>>

(* connect's error ends run as well, reconnect being called with `?`;      *)
(* `running` then stays TRUE.                                              *)
Fails == where' = "returned"
ClientDial ==
  /\ where = "dial"
  /\ \/ /\ serving /\ dials < MaxDials
        /\ dials' = dials + 1 /\ HandlerAt(dials + 1, "backlog")
        /\ client' = "Handshaking" /\ where' = "await"
        /\ UNCHANGED <<out, inbox, hungUp, link, isRunning>>
     \/ Fails /\ UNCHANGED <<wireVars, client, link, isRunning, dials>>
  /\ UNCHANGED <<serverVars, feedVars, aborted>>

ClientAwait ==
  /\ where = "await"
  /\ \/ /\ inbox[dials] # <<>> /\ Head(inbox[dials]) = "accept"
        /\ inbox' = [inbox EXCEPT ![dials] = Tail(@)]
        /\ link' = dials /\ client' = "Replicating" /\ where' = "run"
        /\ isRunning' = TRUE
        /\ UNCHANGED hungUp
     \/ /\ Fails /\ hungUp' = hungUp \cup {dials}     \* timeout or closed
        /\ UNCHANGED <<inbox, client, link, isRunning>>
  /\ UNCHANGED <<serverVars, feedVars, handler, out, dials, aborted>>

(* reconnect: the connection is dropped, and connect called.  A successful *)
(* connect has always reset the attempts: their limit is not reached.      *)
Reconnect ==
  /\ client' = "Disconnected" /\ link' = 0 /\ where' = "delay"
  /\ hungUp' = hungUp \cup {link}

(* A heartbeat is taken note of.  A commit record cannot be decoded; the   *)
(* remains of a message whose reading the timer cut short neither; and no  *)
(* message in time is an error too.                                        *)
ClientReceive ==
  /\ where = "run"
  /\ \/ /\ inbox[link] # <<>> /\ Head(inbox[link]) = "heartbeat"
        /\ inbox' = [inbox EXCEPT ![link] = Tail(@)]
        /\ UNCHANGED <<client, link, where, hungUp>>
     \/ Reconnect /\ UNCHANGED inbox
  /\ UNCHANGED <<serverVars, feedVars, handler, out, isRunning, dials,
                 aborted>>

ClientShutdown ==
  /\ where = "run"
  /\ where' = "returned" /\ isRunning' = FALSE
  /\ UNCHANGED <<serverVars, feedVars, wireVars, client, link, dials,
                 aborted>>

ReplNext ==
  \/ Submit \/ ProcessCommit \/ AccountCommit \/ MetricsState
  \/ MetricsBuffer \/ ServerShutdown \/ ServerRun
  \/ \E h \in Conn : \/ Accept(h) \/ HandlerAdd(h) \/ HandlerShake(h)
                     \/ HandlerTick(h) \/ HandlerEof(h) \/ HandlerRemove(h)
                     \/ MonitorExpire(h)
  \/ Connect \/ ClientDial \/ ClientAwait \/ ClientReceive \/ ClientShutdown

ReplSpec == ReplInit /\ [][ReplNext]_replVars

-----------------------------------------------------------------------------
(* Types. *)
HandlerPlace == {"none", "backlog", "add", "shake", "loop", "remove", "ended"}
ClientPlace  == {"idle", "dial", "await", "run", "delay", "returned"}

ReplTypeOK ==
  /\ serving \in BOOLEAN /\ submitted \in 0..MaxCommits
  /\ commitQ \in 0..MaxCommits /\ records \in Seq(Nat) /\ Len(records) <= BufferCap
  /\ nextSeq \in 0..MaxCommits /\ proc \in {"recv", "account"}
  /\ pressure \in {"Normal", "Applying", "Relieving"}
  /\ listed \subseteq Conn /\ active \in 0..MaxDials
  /\ handler \in [Conn -> HandlerPlace] /\ out \in [Conn -> Seq(Nat)]
  /\ inbox \in [Conn -> Seq({"accept", "heartbeat", "commit"})]
  /\ client \in {"Disconnected", "Connecting", "Handshaking", "Replicating"}
  /\ link \in 0..MaxDials /\ where \in ClientPlace /\ dials \in 0..MaxDials

(* active_connections counts the listed replicas, although the monitor and *)
(* the handler may each remove the same one (the counter is a usize), and  *)
(* until an abort a listed replica is one whose handler is at work.        *)
CountExact ==
  /\ active = Cardinality(listed)
  /\ ~aborted => \A h \in listed : handler[h] \in {"shake", "loop", "remove"}

(* What a handler sends, over any number of ticks between which the        *)
(* processor appends, is records 1, 2, 3, ... without a gap or a repeat.   *)
(* (Record 0 is never sent.)                                               *)
SentInOrder ==
  ~aborted => \A h \in Conn : \A i \in 1..Len(out[h]) : out[h][i] = i

(* The backpressure state shows the buffer as it is after the last push.   *)
PressureCurrent ==
  proc = "recv" /\ ~aborted /\ records # <<>> =>
    pressure = Pressure(Len(records))

(* The client calls itself Replicating only over a connection whose        *)
(* handshake the server has gone through.                                  *)
ReplicatingMeansAccepted ==
  client = "Replicating" =>
    /\ link # 0
    /\ handler[link] \in {"loop", "remove", "ended"}

(* What either side believes of its connections is so: the server's count  *)
(* and backpressure through removals by two tasks, the client's state      *)
(* through refusals, hang-ups and reconnects.                              *)
ConnectionsConsistent == CountExact /\ PressureCurrent /\ ReplicatingMeansAccepted
=============================================================================

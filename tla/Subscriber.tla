----------------------------- MODULE Subscriber -----------------------------
(***************************************************************************)
(* The replica's subscriber (replication/subscriber.rs): start, connect,   *)
(* the receive loop of each connection, the reconnect and heartbeat loops, *)
(* bootstrap and shutdown.  They share an atomic connection state that     *)
(* each of them overwrites, and a connection behind a mutex that a receive *)
(* loop holds while it waits for data.                                     *)
(*                                                                         *)
(* The receive loop takes every message for a heartbeat (the type is a     *)
(* placeholder), so no commit reaches the apply loop, which waits on a     *)
(* channel of its own that nobody writes to: applied_lsn stays 0, and the  *)
(* snapshot handling is never entered.  The receiver of the event channel  *)
(* is dropped in new(): sending an event never waits.                      *)
(***************************************************************************)
EXTENDS Integers, FiniteSets

CONSTANTS
  MaxAttempts,  \* MAX_RECONNECT_ATTEMPTS
  MaxLoops,     \* bound: receive loops alive at a time
  MaxBoot       \* bound: calls of bootstrap

ASSUME SubscriberAssumption ==
  MaxAttempts \in Nat \ {0, 1} /\ MaxLoops \in Nat /\ MaxBoot \in Nat

VARIABLES
  cstate,     \* state: the ConnectionState
  live,       \* running
  connection, \* connection: is there one (Some), and is its socket good
  cpc,        \* where each task that may connect is
  rpc,        \* where each receive loop is
  hpc,        \* the heartbeat loop
  attempt,    \* reconnect_state.attempt
  boots       \* calls of bootstrap so far

subVars == <<cstate, live, connection, cpc, rpc, hpc, attempt, boots>>

(* The caller of start, the reconnect loop, and the caller of bootstrap or *)
(* shutdown.                                                               *)
Connector == {"start", "reconnect", "user"}
Loop      == 1..MaxLoops
ConnState == {"Disconnected", "Connecting", "Connected", "Bootstrapping",
              "Error"}
IsConnected == cstate = "Connected"    \* Catchup is never entered
LockFree    == \A l \in Loop : rpc[l] # "read"

SubInit ==
  /\ cstate = "Disconnected" /\ live = FALSE /\ connection = "none"
  /\ cpc = [k \in Connector |-> "idle"]
  /\ rpc = [l \in Loop |-> "none"] /\ hpc = "unborn"
  /\ attempt = 0 /\ boots = 0

At(k, p)   == cpc' = [cpc EXCEPT ![k] = p]
LoopAt(l, p) == rpc' = [rpc EXCEPT ![l] = p]

-----------------------------------------------------------------------------
(* start spawns the loops, then connects itself. *)
Start ==
  /\ cpc["start"] = "idle" /\ ~live /\ hpc = "unborn"
  /\ live' = TRUE /\ hpc' = "sleep"
  /\ cpc' = [cpc EXCEPT !["start"] = "begin", !["reconnect"] = "sleep"]
  /\ UNCHANGED <<cstate, connection, rpc, attempt, boots>>

(* connect: the state is set first, the new connection stored and the      *)
(* state set again when it is up.  A failure leaves the state Connecting.  *)
ConnectBegin(k) ==
  /\ cpc[k] = "begin"
  /\ cstate' = "Connecting" /\ At(k, "dial")
  /\ UNCHANGED <<live, connection, rpc, hpc, attempt, boots>>

AfterConnect(k) == IF k = "reconnect" THEN "sleep" ELSE "idle"
Dial(k) ==
  /\ cpc[k] = "dial"
  /\ At(k, "store") \/ At(k, AfterConnect(k))
  /\ UNCHANGED <<cstate, live, connection, rpc, hpc, attempt, boots>>

ConnectStore(k) ==
  /\ cpc[k] = "store" /\ LockFree
  /\ connection' = "good" /\ At(k, "mark")
  /\ UNCHANGED <<cstate, live, rpc, hpc, attempt, boots>>

ConnectMark(k) ==
  /\ cpc[k] = "mark"
  /\ cstate' = "Connected" /\ At(k, "spawn")
  /\ UNCHANGED <<live, connection, rpc, hpc, attempt, boots>>

ConnectSpawn(k) ==
  /\ cpc[k] = "spawn"
  /\ attempt' = 0
  /\ \E l \in Loop : /\ \A m \in 1..(l - 1) : rpc[m] # "none"
                     /\ rpc[l] = "none" /\ LoopAt(l, "check")
  /\ At(k, AfterConnect(k))
  /\ UNCHANGED <<cstate, live, connection, hpc, boots>>

-----------------------------------------------------------------------------
(* A receive loop.  It works on whatever connection is stored. *)
RecvCheck(l) ==
  /\ rpc[l] = "check"
  /\ LoopAt(l, IF live /\ IsConnected THEN "lock" ELSE "none")
  /\ UNCHANGED <<cstate, live, connection, cpc, hpc, attempt, boots>>

RecvLock(l) ==
  /\ rpc[l] = "lock" /\ LockFree
  /\ LoopAt(l, IF connection = "none" THEN "failed" ELSE "read")
  /\ UNCHANGED <<cstate, live, connection, cpc, hpc, attempt, boots>>

(* A header arrives and is acknowledged; or the time is over, the peer has *)
(* closed, or the acknowledgement cannot be written.                       *)
RecvRead(l) ==
  /\ rpc[l] = "read"
  /\ \/ connection = "good" /\ LoopAt(l, "check")
     \/ LoopAt(l, "failed")
  /\ UNCHANGED <<cstate, live, connection, cpc, hpc, attempt, boots>>

(* Mutant: a loop that fails says nothing. *)
RecvFail_Silent(l) ==
  /\ rpc[l] = "failed"
  /\ LoopAt(l, "none")
  /\ UNCHANGED <<cstate, live, connection, cpc, hpc, attempt, boots>>

RecvFail(l) ==
  /\ rpc[l] = "failed"
  /\ cstate' = "Disconnected" /\ LoopAt(l, "none")
  /\ UNCHANGED <<live, connection, cpc, hpc, attempt, boots>>

(* The network: the stored connection breaks. *)
SocketBreaks ==
  /\ connection = "good" /\ connection' = "broken"
  /\ UNCHANGED <<cstate, live, cpc, rpc, hpc, attempt, boots>>

-----------------------------------------------------------------------------
(* The reconnect loop wakes up, looks at the state and, after a delay,     *)
(* counts the attempt and connects.                                        *)
ReconnectWake ==
  /\ cpc["reconnect"] = "sleep"
  /\ At("reconnect", IF ~live \/ cstate = "Error" THEN "ended"
                     ELSE IF IsConnected THEN "sleep" ELSE "delay")
  /\ UNCHANGED <<cstate, live, connection, rpc, hpc, attempt, boots>>

(* Mutant: the attempt is not counted. *)
ReconnectTry_NoCount ==
  /\ cpc["reconnect"] = "delay"
  /\ UNCHANGED attempt
  /\ At("reconnect", IF attempt >= MaxAttempts THEN "giveup" ELSE "begin")
  /\ UNCHANGED <<cstate, live, connection, rpc, hpc, boots>>

(* MAX_RECONNECT_ATTEMPTS delays add up to more than a minute; a receive   *)
(* loop that held the old connection, the heartbeat loop waiting for it    *)
(* and the connect of start are through by then (10 s at most).            *)
OthersSettled ==
  /\ \A l \in Loop : rpc[l] \notin {"lock", "read", "failed"}
  /\ hpc = "sleep" /\ cpc["start"] = "idle"

ReconnectTry ==
  /\ cpc["reconnect"] = "delay"
  /\ attempt' = attempt + 1
  /\ IF attempt + 1 >= MaxAttempts
     THEN OthersSettled /\ At("reconnect", "giveup")
     ELSE At("reconnect", "begin")
  /\ UNCHANGED <<cstate, live, connection, rpc, hpc, boots>>

ReconnectGiveUp ==
  /\ cpc["reconnect"] = "giveup"
  /\ cstate' = "Error" /\ At("reconnect", "ended")
  /\ UNCHANGED <<live, connection, rpc, hpc, attempt, boots>>

-----------------------------------------------------------------------------
(* The heartbeat loop.  The age of the last heartbeat is of no record      *)
(* here: it may be too old or not.                                         *)
HeartbeatWake ==
  /\ hpc = "sleep"
  /\ hpc' = IF ~live THEN "ended" ELSE IF IsConnected THEN "lock" ELSE "sleep"
  /\ UNCHANGED <<cstate, live, connection, cpc, rpc, attempt, boots>>

HeartbeatLook ==
  /\ hpc = "lock" /\ LockFree
  /\ hpc' \in IF connection = "none" THEN {"sleep"} ELSE {"sleep", "expire"}
  /\ UNCHANGED <<cstate, live, connection, cpc, rpc, attempt, boots>>

HeartbeatExpire ==
  /\ hpc = "expire"
  /\ cstate' = "Disconnected" /\ hpc' = "sleep"
  /\ UNCHANGED <<live, connection, cpc, rpc, attempt, boots>>

-----------------------------------------------------------------------------
(* bootstrap drops the connection and connects; the Connected that connect *)
(* has set is then taken for the end of the bootstrap.                     *)
Bootstrap ==
  /\ cpc["user"] = "idle" /\ live /\ boots < MaxBoot
  /\ cstate' = "Bootstrapping" /\ boots' = boots + 1
  /\ At("user", "close")
  /\ UNCHANGED <<live, connection, rpc, hpc, attempt>>

BootstrapClose ==
  /\ cpc["user"] = "close" /\ LockFree
  /\ connection' = "none" /\ At("user", "begin")
  /\ UNCHANGED <<cstate, live, rpc, hpc, attempt, boots>>

Shutdown ==
  /\ cpc["user"] = "idle" /\ live
  /\ live' = FALSE /\ At("user", "drop")
  /\ UNCHANGED <<cstate, connection, rpc, hpc, attempt, boots>>

ShutdownDrop ==
  /\ cpc["user"] = "drop" /\ LockFree
  /\ connection' = "none" /\ At("user", "off")
  /\ UNCHANGED <<cstate, live, rpc, hpc, attempt, boots>>

ShutdownOff ==
  /\ cpc["user"] = "off"
  /\ cstate' = "Disconnected" /\ At("user", "idle")
  /\ UNCHANGED <<live, connection, rpc, hpc, attempt, boots>>

ConnectStep(k) == \/ ConnectBegin(k) \/ Dial(k) \/ ConnectStore(k)
                  \/ ConnectMark(k) \/ ConnectSpawn(k)
RecvStep(l)    == RecvCheck(l) \/ RecvLock(l) \/ RecvRead(l) \/ RecvFail(l)
ReconnectStep  == ReconnectWake \/ ReconnectTry \/ ReconnectGiveUp
HeartbeatStep  == HeartbeatWake \/ HeartbeatLook \/ HeartbeatExpire
UserStep       == \/ Bootstrap \/ BootstrapClose \/ Shutdown \/ ShutdownDrop
                  \/ ShutdownOff

SubNext ==
  \/ Start \/ SocketBreaks \/ ReconnectStep \/ HeartbeatStep \/ UserStep
  \/ \E k \in Connector : ConnectStep(k)
  \/ \E l \in Loop : RecvStep(l)

SubFairness ==
  /\ WF_subVars(ReconnectStep) /\ WF_subVars(HeartbeatStep)
  /\ WF_subVars(BootstrapClose \/ ShutdownDrop \/ ShutdownOff)
  /\ \A k \in Connector : WF_subVars(ConnectStep(k))
  /\ \A l \in Loop : WF_subVars(RecvStep(l))

SubSpec == SubInit /\ [][SubNext]_subVars /\ SubFairness

-----------------------------------------------------------------------------
(* Types. *)
SubTypeOK ==
  /\ cstate \in ConnState /\ live \in BOOLEAN
  /\ connection \in {"none", "good", "broken"}
  /\ cpc \in [Connector -> {"idle", "begin", "dial", "store", "mark",
       "spawn", "sleep", "delay", "giveup", "ended", "close", "drop", "off"}]
  /\ rpc \in [Loop -> {"none", "check", "lock", "read", "failed"}]
  /\ hpc \in {"unborn", "sleep", "lock", "expire", "ended"}
  /\ attempt \in 0..MaxAttempts /\ boots \in 0..MaxBoot

(* While the subscriber runs and says Connected, somebody reads from the   *)
(* connection or is about to be spawned to: no interleaving of connects,   *)
(* failing loops and heartbeat timeouts leaves a connection that looks     *)
(* alive and that nobody listens to.                                       *)
SomebodyListens ==
  live /\ cstate = "Connected" =>
    \/ \E k \in Connector : cpc[k] = "spawn"
    \/ \E l \in Loop : rpc[l] \in {"check", "lock", "read", "failed"}

(* "Encountered non-recoverable error, requires intervention": unless      *)
(* bootstrap was called, the state leaves Error only in a shutdown, and no *)
(* loop that was still busy with the old connection overwrites it.  (A     *)
(* bootstrap that races the giving up can.)                                *)
ErrorNeedsIntervention ==
  [][cstate = "Error" /\ cstate' # "Error" => boots' > 0 \/ ~live]_subVars

(* A lost connection is not left lost: as long as the reconnect loop is    *)
(* there, the subscriber gets connected again or gives up and says so.     *)
ReconnectsOrGivesUp ==
  (cstate = "Disconnected" /\ cpc["reconnect"] \in {"sleep", "delay"})
    ~> (cstate \in {"Connected", "Error"} \/ ~live)

(* A subscriber that lost its connection gets out of it: connected again   *)
(* or in Error, and out of Error only by an application's call.            *)
SubscriberRecovers == ErrorNeedsIntervention /\ ReconnectsOrGivesUp
=============================================================================

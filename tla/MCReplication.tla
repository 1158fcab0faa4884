---------------------------- MODULE MCReplication ---------------------------
(* The Publisher, the Subscriber, and the pair ReplicationServer and       *)
(* ReplicationClient share no state: a behaviour is one of one of them.    *)
EXTENDS Publisher, Subscriber, Replication

VARIABLE focus

vars == <<focus, pubVars, subVars, replVars>>

Init ==
  /\ focus \in {"publisher", "subscriber", "replication"}
  /\ PubInit /\ SubInit /\ ReplInit

Next ==
  /\ UNCHANGED focus
  /\ \/ focus = "publisher" /\ PubNext /\ UNCHANGED <<subVars, replVars>>
     \/ focus = "subscriber" /\ SubNext /\ UNCHANGED <<pubVars, replVars>>
     \/ focus = "replication" /\ ReplNext /\ UNCHANGED <<pubVars, subVars>>

(* No fair action of the subscriber is enabled before Start. *)
Spec == Init /\ [][Next]_vars /\ SubFairness

(* Types. *)
ReplicationTypeOK == PubTypeOK /\ SubTypeOK /\ ReplTypeOK
=============================================================================

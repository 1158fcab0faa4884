----------------------------- MODULE MCServices -----------------------------
(* Tree recovery, backups, the snapshot registry's reference counts, the   *)
(* circuit breaker, the throttler and the plugins share no state: a        *)
(* behaviour is one of one of them.                                        *)
EXTENDS Degradation, Recovery, Plugins, Backup, Snapshots

VARIABLE focus

vars == <<focus, breakerVars, bucketVars, recVars, plugVars, backupVars, snapVars>>

MCNeeds == {<<"b", "a">>}

Init ==
  /\ focus \in {"breaker", "bucket", "recovery", "plugins", "backup", "snapshots"}
  /\ BreakerInit /\ BucketInit /\ RecoveryInit /\ PluginsInit
  /\ BackupInit /\ SnapInit
  /\ focus # "plugins" => ~parallel

Next ==
  /\ UNCHANGED focus
  /\ \/ /\ focus = "breaker" /\ BreakerNext
        /\ UNCHANGED <<bucketVars, recVars, plugVars, backupVars, snapVars>>
     \/ /\ focus = "bucket" /\ BucketNext
        /\ UNCHANGED <<breakerVars, recVars, plugVars, backupVars, snapVars>>
     \/ /\ focus = "recovery" /\ RecoveryNext
        /\ UNCHANGED <<breakerVars, bucketVars, plugVars, backupVars, snapVars>>
     \/ /\ focus = "plugins" /\ PluginsNext
        /\ UNCHANGED <<breakerVars, bucketVars, recVars, backupVars, snapVars>>
     \/ /\ focus = "backup" /\ BackupNext
        /\ UNCHANGED <<breakerVars, bucketVars, recVars, plugVars, snapVars>>
     \/ /\ focus = "snapshots" /\ SnapNext
        /\ UNCHANGED <<breakerVars, bucketVars, recVars, plugVars, backupVars>>

Spec == Init /\ [][Next]_vars /\ (focus = "breaker" => BreakerFairness)

(* Types. *)
ServicesTypeOK ==
  DegradationTypeOK /\ RecoveryTypeOK /\ PluginsTypeOK /\ BackupTypeOK /\ SnapTypeOK
=============================================================================

------------------------------- MODULE Backup --------------------------------
(****************************************************************************)
(* Backups and restores (recovery/backup.rs, recovery/restore.rs).  The     *)
(* backup manager is shared behind a mutex, which creating a backup holds   *)
(* to its end and a restore only while it looks a backup up and verifies    *)
(* it; the files are then read without it.  The database goes on changing.  *)
(*                                                                          *)
(* A file is its inode's chunks, a chunk the database version it was copied *)
(* from; a path is the backup's kind and the second it was begun, and a     *)
(* checksum is the contents it was computed from.  One clock stands for     *)
(* seconds and, towards the retention policy, for days.  A restore replays  *)
(* no records and validates nothing (replay_wal_to_lsn, apply_incremental   *)
(* and validate_database are placeholders), so point in time recovery is    *)
(* a full restore.  All restores are to one target path.                    *)
(****************************************************************************)
EXTENDS Integers, Sequences, Functions, FiniteSetsExt

CONSTANTS
  Chunks,       \* chunks of the database file
  MaxAge,       \* retention.max_age_days
  MaxTime, MaxBackups, MaxRestores, MaxVersion   \* bounds

ASSUME BackupAssumption ==
  /\ Chunks \in Nat \ {0} /\ MaxAge \in Nat
  /\ {MaxTime, MaxBackups, MaxRestores, MaxVersion} \subseteq Nat

VARIABLES
  version,    \* of the database file
  time,
  inode,      \* path -> inode
  data,       \* inode -> chunks
  backups,    \* id -> [kind, path, created, prev, sum]
  made,       \* ids given out
  making,     \* the full backup being copied: [path, node], or idle
  recovery,   \* id -> "Restoring" or "Completed": the map of recoveries
  begun,      \* restores begun
  restore,    \* the restore under way: [id, path, node, want, clean], or idle
  target,     \* the target file's chunks, or NoFile
  last        \* history: the last completed restore, [want, got, clean]

backupVars == <<version, time, inode, data, backups, made, making, recovery, begun, restore,
                target, last>>
sourceVars == <<version, time, inode, data, backups, made, making>>
targetVars == <<recovery, begun, restore, target, last>>

Rotten == -1
NoFile == <<-2>>
None   == 0
NoMaking  == [path |-> <<>>, node |-> None]
\* want: the checksum recorded.  clean: a history, the source was verified and
\* not changed since.
NoRestore == [id |-> None, path |-> <<>>, node |-> None, want |-> <<>>, clean |-> FALSE]
Put(f, k, v) == [x \in DOMAIN f \cup {k} |-> IF x = k THEN v ELSE f[x]]
Less(f, S) == Restrict(f, DOMAIN f \ S)

BackupInit ==
  /\ version = 0 /\ time = 0 /\ inode = <<>> /\ data = <<>>
  /\ backups = <<>> /\ made = 0 /\ making = NoMaking
  /\ recovery = <<>> /\ begun = 0 /\ restore = NoRestore /\ target = NoFile
  /\ last = [want |-> <<>>, got |-> <<>>, clean |-> FALSE]

LockFree == making = NoMaking
Changes(path) == restore' = IF restore.path = path THEN [restore EXCEPT !.clean = FALSE] ELSE restore

------------------------------------------------------------------------------
(* File::create truncates the file that is there: a backup begun in the     *)
(* same second has the same path.                                           *)
CreateFile(path) ==
  LET n == IF path \in DOMAIN inode THEN inode[path] ELSE made + 1
  IN  /\ inode' = Put(inode, path, n) /\ data' = Put(data, n, <<>>)
      /\ Changes(path)

BeginFull ==
  /\ LockFree /\ made < MaxBackups
  /\ CreateFile(<<"Full", time>>)
  /\ making' = [path |-> <<"Full", time>>, node |-> inode'[<<"Full", time>>]]
  /\ UNCHANGED <<version, time, backups, made, recovery, begun, target, last>>

CopyChunk ==
  /\ making # NoMaking /\ Len(data[making.node]) < Chunks
  /\ data' = [data EXCEPT ![making.node] = Append(@, version)]
  /\ UNCHANGED <<version, time, inode, backups, made, making, targetVars>>

(* delete_backup and apply_retention_policy: what is as old as max_age_days *)
(* goes with its file; max_count is counted and never enforced.  The policy *)
(* is applied before the new backup is entered.                             *)
Aged == {b \in DOMAIN backups : time - backups[b].created >= MaxAge}
Unlinked(S) == Less(inode, {backups[b].path : b \in S})

FinishFull ==
  /\ making # NoMaking /\ Len(data[making.node]) = Chunks
  /\ made' = made + 1
  /\ backups' = Put(Less(backups, Aged), made + 1,
                    [kind |-> "Full", path |-> making.path, created |-> making.path[2], prev |-> None,
                     sum |-> data[making.node]])
  /\ inode' = Unlinked(Aged)
  /\ making' = NoMaking
  /\ UNCHANGED <<version, time, data, targetVars>>

(* A read or write fails: the file stays as it is and is not entered. *)
FailFull ==
  /\ making # NoMaking /\ making' = NoMaking /\ made' = made + 1
  /\ UNCHANGED <<version, time, inode, data, backups, targetVars>>

(* create_incremental_backup: on the newest completed backup of any kind; a *)
(* file of its own with no records in it, whose checksum is that of two     *)
(* numbers, not of the file.                                                *)
Newest == {b \in DOMAIN backups : \A c \in DOMAIN backups : backups[c].created <= backups[b].created}

CreateIncremental ==
  /\ LockFree /\ made < MaxBackups
  /\ \E base \in Newest :
       LET path == <<"Incremental", time>>
           kept == Unlinked(Aged)
       IN  /\ inode' = Put(kept, path, made + 1) /\ data' = Put(data, made + 1, <<>>)
           /\ backups' = Put(Less(backups, Aged), made + 1,
                             [kind |-> "Incremental", path |-> path, created |-> time,
                              prev |-> base, sum |-> <<Rotten>>])
  /\ made' = made + 1
  /\ UNCHANGED <<version, time, making, targetVars>>

DeleteBackup(b) ==
  /\ LockFree
  /\ backups' = Less(backups, {b}) /\ inode' = Unlinked({b})
  /\ UNCHANGED <<version, time, data, made, making, targetVars>>

------------------------------------------------------------------------------
(* Mutant: the sizes are compared instead of the checksums. *)
Verified_Size(b) == backups[b].path \in DOMAIN inode
                    /\ Len(data[inode[backups[b].path]]) = Len(backups[b].sum)

(* verify_backup: the file there now against the checksum recorded. *)
Verified(b) == backups[b].path \in DOMAIN inode /\ data[inode[backups[b].path]] = backups[b].sum

(* Every restore is entered in the map before it begins. *)
Enters(job) == /\ begun' = begun + 1 /\ recovery' = Put(recovery, begun + 1, "Restoring")
               /\ restore' = IF job = NoRestore THEN job ELSE [job EXCEPT !.id = begun + 1]
MayRestore == LockFree /\ restore = NoRestore /\ begun < MaxRestores
From(b, verified) == [NoRestore EXCEPT !.path = backups[b].path, !.want = backups[b].sum,
                                       !.clean = verified]

(* restore_backup and point_in_time_recovery: an unknown backup, or one     *)
(* whose file fails the verification, is an error.                          *)
RestoreFull(b) ==
  /\ MayRestore
  /\ Enters(IF b \in DOMAIN backups /\ Verified(b) THEN From(b, TRUE) ELSE NoRestore)
  /\ UNCHANGED <<sourceVars, target, last>>

(* restore_incremental_chain: nothing is verified; of the chain only a full *)
(* backup at its start is copied.  Without one nothing is, and the restore  *)
(* is complete.                                                             *)
Chain(b) ==
  LET on[c \in 0 .. b] == IF c \in DOMAIN backups THEN {c} \cup on[backups[c].prev] ELSE {}
  IN  on[b]
RestoreChain(b) ==
  LET full == {c \in DOMAIN backups : c \in Chain(b) /\ backups[c].kind = "Full"}
  IN  /\ MayRestore /\ b \in DOMAIN backups
      /\ \/ \E c \in full : Enters(From(c, FALSE))
         \/ /\ full = {} /\ begun' = begun + 1 /\ UNCHANGED restore
            /\ recovery' = Put(recovery, begun + 1, "Completed")
      /\ UNCHANGED <<sourceVars, target, last>>

(* File::open of the backup, File::create of the target. *)
OpenFiles ==
  /\ restore # NoRestore /\ restore.node = None
  /\ IF restore.path \in DOMAIN inode
     THEN restore' = [restore EXCEPT !.node = inode[restore.path]] /\ target' = <<>>
     ELSE restore' = NoRestore /\ UNCHANGED target
  /\ UNCHANGED <<sourceVars, recovery, begun, last>>

Reading == restore.node # None
RestoreChunk ==
  /\ Reading /\ Len(target) < Len(data[restore.node])
  /\ target' = Append(target, data[restore.node][Len(target) + 1])
  /\ UNCHANGED <<sourceVars, recovery, begun, restore, last>>

RestoreDone ==
  /\ Reading /\ Len(target) >= Len(data[restore.node])
  /\ recovery' = Put(recovery, restore.id, "Completed")
  /\ last' = [want |-> restore.want, got |-> target, clean |-> restore.clean]
  /\ restore' = NoRestore
  /\ UNCHANGED <<sourceVars, begun, target>>

(* An error: the early return leaves the map's copy at Restoring. *)
RestoreFails ==
  /\ Reading /\ restore' = NoRestore
  /\ UNCHANGED <<sourceVars, recovery, begun, target, last>>

CancelRecovery(r) ==
  /\ restore = NoRestore /\ recovery[r] # "Completed"
  /\ target' = NoFile /\ recovery' = Less(recovery, {r})
  /\ UNCHANGED <<sourceVars, begun, restore, last>>

------------------------------------------------------------------------------
(* The database changes, time passes, a stored file decays. *)
Write ==
  /\ version < MaxVersion /\ version' = version + 1
  /\ UNCHANGED <<time, inode, data, backups, made, making, targetVars>>

TimePasses ==
  /\ time < MaxTime /\ time' = time + 1
  /\ UNCHANGED <<version, inode, data, backups, made, making, targetVars>>

Rot(path) ==
  /\ LockFree /\ data[inode[path]] # <<>>
  /\ data' = [data EXCEPT ![inode[path]][1] = Rotten]
  /\ Changes(path)
  /\ UNCHANGED <<version, time, inode, backups, made, making, recovery, begun, target, last>>

BackupNext ==
  \/ BeginFull \/ CopyChunk \/ FinishFull \/ FailFull \/ CreateIncremental
  \/ \E b \in DOMAIN backups : DeleteBackup(b) \/ RestoreChain(b)
  \/ \E b \in 1 .. made : RestoreFull(b)
  \/ OpenFiles \/ RestoreChunk \/ RestoreDone \/ RestoreFails
  \/ \E r \in DOMAIN recovery : CancelRecovery(r)
  \/ Write \/ TimePasses \/ \E path \in DOMAIN inode : Rot(path)

BackupSpec == BackupInit /\ [][BackupNext]_backupVars

------------------------------------------------------------------------------
BackupTypeOK ==
  /\ version \in 0 .. MaxVersion /\ time \in 0 .. MaxTime
  /\ DOMAIN backups \subseteq 1 .. made /\ DOMAIN recovery \subseteq 1 .. begun
  /\ \A p \in DOMAIN inode : Len(data[inode[p]]) <= Chunks
  /\ \A b \in DOMAIN backups : backups[b].prev < b

(* A restore that completes has written exactly what the backup recorded,   *)
(* though other backups were begun in the same second, deleted, aged out or *)
(* decayed before it verified its source, and though the file was deleted   *)
(* while it was read.                                                       *)
VerifiedRestore == last.clean => last.got = last.want

(* A target that holds anything but the last completed restore can be       *)
(* cleaned up: some recovery in the map is not completed.                   *)
PartialCanBeCancelled ==
  (restore = NoRestore /\ target # NoFile /\ target # last.got)
    => \E r \in DOMAIN recovery : recovery[r] # "Completed"

(* A restore is exact or can be cleaned up.                                *)
RestoreSound == VerifiedRestore /\ PartialCanBeCancelled
==============================================================================

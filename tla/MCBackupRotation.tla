-------------------------- MODULE MCBackupRotation --------------------------
(* BackupRotation on small instances. *)
EXTENDS BackupRotation
=============================================================================

--------------------------- MODULE MCBackupExport ---------------------------
(* Instances of BackupExport for TLC; the configurations give the bounds. *)
EXTENDS BackupExport
=============================================================================

---------------------------- MODULE MCLogReader ----------------------------
(***************************************************************************)
(* LogReader on every file of at most MaxFileSize bytes.                   *)
(***************************************************************************)
EXTENDS LogReader

=============================================================================

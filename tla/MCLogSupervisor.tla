-------------------------- MODULE MCLogSupervisor --------------------------
(***************************************************************************)
(* LogSupervisor with a few children: 1 a reader, the others downstream.   *)
(***************************************************************************)
EXTENDS LogSupervisor

\* All goes well, or everybody behind the reader hangs.
DownstreamHangs == {{}, Children \ {1}}

=============================================================================

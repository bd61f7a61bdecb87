------------------------------- MODULE MCIpc -------------------------------
(* Three clients, one of them run with --kill, and two outputs; a backlog  *)
(* that two connections fill and two descriptors to leak.                   *)
EXTENDS Ipc
=============================================================================

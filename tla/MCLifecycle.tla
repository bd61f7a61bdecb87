---------------------------- MODULE MCLifecycle ----------------------------
(* Two daemons: one that serves, and one that fails to start beside it or  *)
(* takes the path after it.                                                *)
EXTENDS Lifecycle
=============================================================================

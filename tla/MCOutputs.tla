----------------------------- MODULE MCOutputs -----------------------------
(* Two monitors of two sizes and two wallpapers; a monitor is plugged in   *)
(* three times, and three buffers are allocated: enough for two monitors,  *)
(* one of them replugged, or one that is resized.                          *)
EXTENDS Outputs, TLC

Symmetry == Permutations(Monitors) \cup Permutations(Settings)
=============================================================================

----------------------------- MODULE MCRegistry -----------------------------
(* A bitmap of two bits; outputs, whose objects are never destroyed, and  *)
(* surfaces with and without a listener.                                    *)
EXTENDS Registry
=============================================================================

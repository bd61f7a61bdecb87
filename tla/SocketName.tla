----------------------------- MODULE SocketName -----------------------------
(***************************************************************************)
(* What the socket path promises to the users of xdwlw, whatever xdwlwd    *)
(* does to keep the promise: the name belongs to at most one daemon, a     *)
(* daemon serves clients only while the name is its own, and the name is   *)
(* given up only by the daemon it belongs to, once it no longer serves.    *)
(* A name whose owner is gone is never taken over.                         *)
(***************************************************************************)
CONSTANTS Daemons,   \* xdwlwd processes
          NoOwner    \* the path does not exist

VARIABLES owner,     \* the daemon whose socket the path names
          serving    \* the daemons that accept connections

vars == <<owner, serving>>

Init == owner = NoOwner /\ serving = {}

Claim(d) ==
    /\ owner = NoOwner
    /\ owner' = d
    /\ UNCHANGED serving

Serve(d) ==
    /\ owner = d
    /\ serving' = serving \cup {d}
    /\ UNCHANGED owner

Stop(d) ==
    /\ serving' = serving \ {d}
    /\ UNCHANGED owner

Release(d) ==
    /\ owner = d
    /\ d \notin serving
    /\ owner' = NoOwner
    /\ UNCHANGED serving

Next == \E d \in Daemons : Claim(d) \/ Serve(d) \/ Stop(d) \/ Release(d)

Spec == Init /\ [][Next]_vars
=============================================================================

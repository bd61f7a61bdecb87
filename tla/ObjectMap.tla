----------------------------- MODULE ObjectMap -----------------------------
(***************************************************************************)
(* What a registry of Wayland objects promises to the client that uses it: *)
(* a new object gets an id that is not in use, on either side, and what    *)
(* arrives for an id goes to the handler made for the object that has it,  *)
(* or to none.  Once the registry is lost nothing is promised any more.    *)
(***************************************************************************)
EXTENDS Integers

CONSTANTS Ids,      \* of objects the client makes
          Tokens,   \* what tells one object from another
          None

VARIABLES handler,  \* of each id in use the object whose handler is called,
                    \* or None
          used,     \* objects that have been made
          lost

vars == <<handler, used, lost>>

Init == handler = [id \in {} |-> None] /\ used = {} /\ lost = FALSE

Add ==
    \E id \in Ids \ DOMAIN handler : \E t \in Tokens \ used : \E h \in {t, None} :
        /\ used' = used \cup {t}
        /\ handler' = [i \in DOMAIN handler \cup {id} |-> IF i = id THEN h ELSE handler[i]]

\* The compositor makes an object, with an id of its own.
AddRemote ==
    /\ \E t \in Tokens \ used : used' = used \cup {t}
    /\ UNCHANGED handler

\* An object is destroyed: nothing is to reach it, while the compositor may
\* still use its id.
Mute ==
    /\ \E id \in DOMAIN handler : handler' = [handler EXCEPT ![id] = None]
    /\ UNCHANGED used

Remove ==
    /\ \E id \in DOMAIN handler : handler' = [i \in DOMAIN handler \ {id} |-> handler[i]]
    /\ UNCHANGED used

Keep == (Add \/ AddRemote \/ Mute \/ Remove) /\ UNCHANGED lost

Lose == lost' = TRUE

Next == ~lost /\ (Keep \/ Lose)

Spec == Init /\ [][Next]_vars
=============================================================================

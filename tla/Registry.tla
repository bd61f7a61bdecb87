------------------------------ MODULE Registry ------------------------------
(***************************************************************************)
(* The object registry of libxdwayland (xdwayland-client.c, with the map   *)
(* and the bitmap of xdwayland-collections.c) and its use in xdwlwd: ids   *)
(* are taken from bitmaps, objects are found by id or, the newest, by      *)
(* name, and listeners are added by name.                                  *)
(*                                                                         *)
(* A map keeps every pair ever set until it is removed; the newest of a    *)
(* key is found, and removed, first.                                       *)
(***************************************************************************)
EXTENDS Integers, FiniteSets

CONSTANTS Names,        \* interfaces
          Listened,     \* of these: a listener is added with each object
          Kept,         \* of these: objects are never destroyed
          Bits,         \* size of a bitmap: 1024 in the code
          MaxSeq        \* bound: registrations

ASSUME RegistryAssumption ==
    /\ Listened \subseteq Names /\ Kept \subseteq Names
    /\ Bits \in Nat \ {0} /\ MaxSeq \in Nat

VARIABLES objects,      \* obj_reg
          listeners,    \* xdwl_listeners
          pool,         \* client_id_pool, the bits that are set
          seq,          \* sequence_number
          answer,       \* what xdwl_object_register() has just returned, or 0
          destroyed,    \* ids of objects destroyed by a request, until the
                        \* compositor has deleted them
          state         \* "ok", "lost" (memory in use has been freed), or
                        \* "ended"

maps == <<objects, listeners>>
vars == <<objects, listeners, pool, seq, answer, destroyed, state>>

\* Ids: those of the client are 1, 2, ...; those of the server are counted
\* from SERVER_IDS_START, here -1 for the second (bit 1), -2 and so on.
ClientIds == 1..Bits
ServerId(bit) == -bit
ServerIds == {ServerId(bit) : bit \in ClientIds}
Ids == ClientIds \cup ServerIds

\* A listener notes which object it is meant for: its sequence number, or 0
\* if the caller has failed to register one.
Objects == [id : Ids, name : Names, seq : 1..MaxSeq]
Listeners == [id : Ids, for : 0..MaxSeq, at : 0..MaxSeq]

-----------------------------------------------------------------------------
Of(id) == {o \in objects : o.id = id}

\* Mutant: the oldest is found.
IsById_Oldest(o, id) == o \in objects /\ o.id = id /\ \A p \in Of(id) : o.seq <= p.seq

\* xdwl_object_get_by_id(): the newest.
IsById(o, id) == o \in objects /\ o.id = id /\ \A p \in Of(id) : p.seq <= o.seq

\* xdwl_object_get_by_name(): of all objects the one registered last.
IsByName(o, name) ==
    /\ o \in objects /\ o.name = name
    /\ \A p \in objects : p.name = name => p.seq <= o.seq

\* The pairs of a map that xdwl_map_remove() leaves: the newest of a key goes.
ObjectsWithout(id) == {o \in objects : ~IsById(o, id)}
ListenersWithout(id) ==
    {l \in listeners : l.id = id => \E k \in listeners : k.id = id /\ k.at > l.at}

\* xdwl_map_set(): a pair goes to the front, whatever the map has of its key.
Put(map, pair) == map \cup {pair}

\* xdwl_bitmap_unset() and xdwl_bitmap_set() of a bit the bitmap has.
Unset(id) == pool \ {id}
SetBit(bit) == pool \cup {bit}

\* xdwl_bitmap_get_free(): the lowest bit that is clear.
Free(bit) ==
    /\ bit \in ClientIds \ pool
    /\ \A b \in ClientIds \ pool : bit <= b

Full == pool = ClientIds

\* Once the bytes are freed they may read as anything.
MayTake(bit) == IF state = "lost" THEN bit \in ClientIds ELSE Free(bit)

\* xdwl_proxy_destroy(), as xdwl_raise() calls it: the objects with their
\* names, the listeners and the bitmap are freed, the bytes of a bitmap that
\* is lost for the second time, which may abort the daemon.
ProxyDestroy ==
    /\ objects' = {} /\ listeners' = {} /\ pool' = {} /\ destroyed' = {}
    /\ answer' = 0
    /\ state' = "ended"
    /\ UNCHANGED seq

-----------------------------------------------------------------------------
\* An object is registered and, when its interface is listened to, a listener
\* is added for the newest object of that name: the one just made.
\* xdwlwd registers no name that the tables lack, for which the bit is taken
\* and 0 returned.
Register(name, bit) ==
    /\ state # "ended"
    /\ seq < MaxSeq
    /\ MayTake(bit)
    /\ pool' = SetBit(bit)
    /\ seq' = seq + 1
    /\ objects' = Put(objects, [id |-> bit, name |-> name, seq |-> seq'])
    /\ answer' = bit
    /\ \E o \in objects' :
          /\ IsByName(o, name)'
          /\ listeners' = IF name \in Listened
                          THEN Put(listeners, [id |-> o.id, for |-> seq', at |-> seq'])
                          ELSE listeners
    /\ UNCHANGED <<destroyed, state>>

\* Mutant: a bitmap that has not grown is used as if it had.
RegisterFull_PastEnd(name) ==
    /\ state = "ok" /\ Full /\ seq < MaxSeq
    /\ answer' = Bits + 1
    /\ seq' = seq + 1
    /\ objects' = Put(objects, [id |-> Bits + 1, name |-> name, seq |-> seq'])
    /\ UNCHANGED <<listeners, pool, destroyed, state>>

\* Every bit is set: the size for growing is computed from the id asked for,
\* 0, and realloc(bytes, 0) frees the bytes and returns NULL.  The registration
\* returns 0; its callers compare with -1, go on, and add their listener to the
\* object of that name that was registered before.
RegisterFull(name) ==
    /\ state # "ended"
    /\ state = "ok" => Full
    /\ answer' = 0
    /\ IF name \in Listened
       THEN \E o \in objects :
               /\ IsByName(o, name)
               /\ listeners' = Put(listeners, [id |-> o.id, for |-> 0, at |-> seq])
       ELSE UNCHANGED listeners
    /\ state' = "lost"
    /\ UNCHANGED <<objects, pool, seq, destroyed>>

\* When there is none, its callers end the daemon.
RegisterFullEnds(name) ==
    /\ state # "ended"
    /\ state = "ok" => Full
    /\ name \in Listened
    /\ \A o \in objects : o.name # name
    /\ ProxyDestroy

\* xdwl_roundtrip() does check for 0, and its callers end the daemon.
RoundtripFull ==
    /\ state = "ok" /\ Full
    /\ ProxyDestroy

\* An id of the server: it is always beyond the bitmap that is asked whether it
\* is taken, and the answer to that, -1 in eight bits, is not -1.  So nothing
\* depends on server_id_pool, and it is left out.  For the same reason
\* xdwl_object_unregister() fails for such an id: the object stays.
RegisterServer(name, bit) ==
    /\ state # "ended"
    /\ seq < MaxSeq
    /\ seq' = seq + 1
    /\ objects' = Put(objects, [id |-> ServerId(bit), name |-> name, seq |-> seq'])
    /\ answer' = ServerId(bit)
    /\ UNCHANGED <<listeners, pool, destroyed, state>>

\* SERVER_IDS_START itself: bit 0, whose byte is half a gigabyte away.
RegisterServerStart ==
    /\ state # "ended"
    /\ state' = "ended"
    /\ answer' = 0
    /\ UNCHANGED <<maps, pool, seq, destroyed>>

\* An id of the client, asked for by number, and an id of the server past the
\* bitmap: whether taken or not, nothing is registered.
RegisterRefused ==
    /\ state # "ended"
    /\ answer' = 0
    /\ UNCHANGED <<maps, pool, seq, destroyed, state>>

\* Mutant: the listener stays.
Destroy_KeepListener(o) ==
    /\ state # "ended"
    /\ o.id \in ClientIds /\ o.name \notin Kept /\ o.id \notin destroyed
    /\ destroyed' = destroyed \cup {o.id}
    /\ answer' = 0
    /\ UNCHANGED <<maps, pool, seq, state>>

\* An object is destroyed by a request, and xdwl_destroy_listener() removes
\* its listener; a wl_callback, which has none, by its done event.
Destroy(o) ==
    /\ state # "ended"
    /\ o.id \in ClientIds /\ o.name \notin Kept /\ o.id \notin destroyed
    /\ destroyed' = destroyed \cup {o.id}
    /\ listeners' = ListenersWithout(o.id)
    /\ answer' = 0
    /\ UNCHANGED <<objects, pool, seq, state>>

\* The compositor has deleted an id: xdwl_object_unregister(), with an assert.
DeleteId(id) ==
    /\ state # "ended"
    /\ destroyed' = destroyed \ {id}
    /\ IF Of(id) # {}
       THEN /\ pool' = Unset(id)
            /\ objects' = ObjectsWithout(id)
            /\ UNCHANGED state
       ELSE /\ state' = "ended"
            /\ UNCHANGED <<pool, objects>>
    /\ answer' = 0
    /\ UNCHANGED <<listeners, seq>>

\* xdwl_object_unregister_last(): the bit of the id stays set.  When another
\* object has the same id, the name of the one found is freed and the other is
\* removed.
UnregisterLast(o) ==
    /\ state # "ended"
    /\ IsByName(o, o.name)
    /\ objects' = ObjectsWithout(o.id)
    /\ state' = IF IsById(o, o.id) THEN state ELSE "lost"
    /\ answer' = 0
    /\ UNCHANGED <<listeners, pool, seq, destroyed>>

\* The daemon ends for any other error of the library: the compositor is gone
\* or has sent an error.
Raise == state # "ended" /\ ProxyDestroy

-----------------------------------------------------------------------------
\* xdwl_bitmap_new() and xdwl_map_new().
NoBits == {}
NoPairs == {}

\* xdwl_object_init(): no id is taken.
ObjectInit == pool = NoBits /\ seq = 0

\* xdwl_proxy_create().
Init ==
    /\ ObjectInit
    /\ objects = NoPairs /\ listeners = NoPairs
    /\ answer = 0
    /\ destroyed = {} /\ state = "ok"

Next ==
    \/ \E name \in Names, bit \in ClientIds : Register(name, bit) \/ RegisterServer(name, bit)
    \/ \E name \in Names : RegisterFull(name) \/ RegisterFullEnds(name)
    \/ Raise \/ RoundtripFull \/ RegisterServerStart \/ RegisterRefused
    \/ \E o \in objects : Destroy(o) \/ UnregisterLast(o)
    \/ \E id \in destroyed : DeleteId(id)

Spec == Init /\ [][Next]_vars

-----------------------------------------------------------------------------
TypeOK ==
    /\ objects \subseteq Objects
    /\ listeners \subseteq Listeners
    /\ pool \subseteq ClientIds
    /\ seq \in 0..MaxSeq
    /\ answer \in Ids \cup {0}
    /\ destroyed \subseteq ClientIds
    /\ state \in {"ok", "lost", "ended"}

(* No two objects of the client have one id, and the bit of every id that  *)
(* is used is set, so that it is not given away again.                     *)
IdsUnique ==
    state = "ok" =>
        /\ \A o \in objects : o.id \in ClientIds => o.id \in pool
        /\ \A o, p \in objects : o.id = p.id /\ o.id \in ClientIds => o = p

(* A listener is only ever found for the object it was added for: not for  *)
(* one that has the id of an object that is gone, and not, by its name,    *)
(* for one registered before.                                              *)
OwnListener ==
    state = "ok" =>
        \A l \in listeners, o \in objects : l.id = o.id => l.for = o.seq

(* What a registration answers leads to the object it has made, by id and  *)
(* by name, even when the id was taken: ids of the server can be.          *)
AnswerLeads ==
    answer # 0 =>
        \E o \in objects : o.seq = seq /\ IsById(o, answer) /\ IsByName(o, o.name)

(* Until its memory is lost the registry keeps the promise of ObjectMap.   *)
NoObject == 0
FoundIn(ls, id) ==
    IF \E l \in ls : l.id = id THEN (CHOOSE l \in ls : l.id = id).for ELSE NoObject

Handlers == IF state = "ok" THEN [id \in pool |-> FoundIn(listeners, id)]
                            ELSE [id \in {} |-> NoObject]
Made == IF state = "ok" THEN 1..seq ELSE {}

Map == INSTANCE ObjectMap WITH Ids <- ClientIds, Tokens <- 1..MaxSeq, None <- NoObject,
                               handler <- Handlers, used <- Made, lost <- state # "ok"

ImplementsObjectMap == Map!Spec
=============================================================================

-------------------------- MODULE RegistryProofs ---------------------------
(***************************************************************************)
(* What the registry guarantees for any interfaces and any size of its     *)
(* bitmap.  The argument: until the pool's memory is lost, the bit of an   *)
(* id is set as long as an object or a listener has the id, so that a free *)
(* id brings neither an older object nor a listener that waits for one.    *)
(***************************************************************************)
EXTENDS Registry, TLAPS

USE DEF Put, SetBit, Unset

Linked ==
    /\ \A l \in listeners : l.id \in pool
    /\ \A l, k \in listeners : l.id = k.id => l = k
    /\ \A id \in destroyed : id \in pool /\ \A l \in listeners : l.id # id

IInv == /\ TypeOK
        /\ \A o \in objects : o.seq <= seq
        /\ state = "ok" => Linked
        /\ IdsUnique
        /\ OwnListener

-----------------------------------------------------------------------------
(* Every variable keeps its range.                                         *)
LEMMA TypePreserved == TypeOK /\ [Next]_vars => TypeOK'
<1> SUFFICES ASSUME TypeOK, [Next]_vars PROVE TypeOK'
    OBVIOUS
<1> USE RegistryAssumption DEF RegistryAssumption
<1>1. CASE UNCHANGED vars
    BY <1>1 DEF vars, maps, TypeOK
<1>2. ASSUME NEW name \in Names, NEW bit \in ClientIds, Register(name, bit) PROVE TypeOK'
  <2>1. seq' \in 1..MaxSeq /\ bit \in Ids
      BY <1>2 DEF Register, TypeOK, Ids
  <2>2. objects' \subseteq Objects
    <3>1. [id |-> bit, name |-> name, seq |-> seq'] \in Objects
        BY <2>1 DEF Objects
    <3> QED
        BY <1>2, <3>1 DEF Register, TypeOK
  <2>3. listeners' \subseteq Listeners
    <3>1. \A o \in objects' : [id |-> o.id, for |-> seq', at |-> seq'] \in Listeners
        BY <2>1, <2>2 DEF Objects, Listeners
    <3> QED
        BY <1>2, <3>1 DEF Register, TypeOK
  <2>4. seq' \in 0..MaxSeq /\ pool' \subseteq ClientIds /\ answer' \in Ids
      BY <1>2, <2>1 DEF Register, TypeOK
  <2> QED
      BY <1>2, <2>2, <2>3, <2>4 DEF Register, TypeOK
<1>3. ASSUME NEW name \in Names, NEW bit \in ClientIds, RegisterServer(name, bit) PROVE TypeOK'
  <2>1. seq' \in 1..MaxSeq /\ ServerId(bit) \in Ids
      BY <1>3 DEF RegisterServer, TypeOK, Ids, ServerIds
  <2>2. [id |-> ServerId(bit), name |-> name, seq |-> seq'] \in Objects
      BY <2>1 DEF Objects
  <2>3. seq' \in 0..MaxSeq
      BY <2>1
  <2> QED
      BY <1>3, <2>1, <2>2, <2>3 DEF RegisterServer, TypeOK
<1>4. ASSUME NEW name \in Names, RegisterFull(name) PROVE TypeOK'
  <2>1. seq \in 0..MaxSeq /\ 0 \in 0..MaxSeq
      BY DEF TypeOK
  <2>2. \A o \in objects : [id |-> o.id, for |-> 0, at |-> seq] \in Listeners
      BY <2>1 DEF TypeOK, Objects, Listeners
  <2> QED
      BY <1>4, <2>2 DEF RegisterFull, TypeOK
<1>5. CASE RegisterServerStart \/ RegisterRefused
    BY <1>5 DEF RegisterServerStart, RegisterRefused, TypeOK, maps
<1>8. ASSUME Raise \/ RoundtripFull \/ \E name \in Names : RegisterFullEnds(name)
      PROVE  TypeOK'
  <2>1. ProxyDestroy
      BY <1>8 DEF Raise, RoundtripFull, RegisterFullEnds
  <2> QED
      BY <2>1 DEF ProxyDestroy, TypeOK
<1>6. ASSUME NEW o \in objects, Destroy(o) \/ UnregisterLast(o) PROVE TypeOK'
    BY <1>6 DEF Destroy, UnregisterLast, TypeOK, ListenersWithout, ObjectsWithout
<1>7. ASSUME NEW id \in destroyed, DeleteId(id) PROVE TypeOK'
    BY <1>7 DEF DeleteId, TypeOK, ObjectsWithout
<1> QED
    BY <1>1, <1>2, <1>3, <1>4, <1>5, <1>6, <1>7, <1>8 DEF Next

(* What a registration that succeeds does while the pool is whole: the id  *)
(* is new to objects and listeners, and the listener is the object's own.  *)
LEMMA Registered ==
    ASSUME IInv, state = "ok", NEW name \in Names, NEW bit \in ClientIds, Register(name, bit)
    PROVE  LET new == [id |-> bit, name |-> name, seq |-> seq + 1]
               own == [id |-> bit, for |-> seq + 1, at |-> seq + 1]
           IN  /\ bit \notin pool
               /\ \A o \in objects : o.id # bit
               /\ objects' = objects \cup {new}
               /\ listeners' = IF name \in Listened THEN listeners \cup {own} ELSE listeners
<1> DEFINE new == [id |-> bit, name |-> name, seq |-> seq + 1]
           own == [id |-> bit, for |-> seq + 1, at |-> seq + 1]
<1>1. bit \notin pool
    BY DEF Register, MayTake, Free
<1>2. \A o \in objects : o.id # bit
    BY <1>1 DEF IInv, IdsUnique
<1>3. seq \in Nat /\ seq' = seq + 1 /\ objects' = objects \cup {new}
    BY DEF Register, IInv, TypeOK
<1>4. \A o \in objects : o.seq <= seq /\ o.seq \in Int
    BY DEF IInv, TypeOK, Objects
<1>5. ASSUME NEW o \in objects', IsByName(o, name)' PROVE o = new
  <2>1. new \in objects' /\ new.name = name /\ new.seq = seq + 1
      BY <1>3
  <2>2. new.seq <= o.seq
      BY <1>5, <2>1 DEF IsByName
  <2> QED
      BY <2>1, <2>2, <1>3, <1>4
<1>6. listeners' = IF name \in Listened THEN listeners \cup {own} ELSE listeners
    BY <1>3, <1>5 DEF Register
<1> QED
    BY <1>1, <1>2, <1>3, <1>6

(* The rest of the invariant, action by action.                            *)
LEMMA InvPreserved == IInv /\ [Next]_vars => IInv'
<1> SUFFICES ASSUME IInv, [Next]_vars PROVE IInv'
    OBVIOUS
<1>0. TypeOK /\ TypeOK'
    BY TypePreserved DEF IInv
<1> DEFINE Past == \A o \in objects : o.seq <= seq
           Whole == (state = "ok" => Linked) /\ IdsUnique /\ OwnListener
<1>1. ASSUME UNCHANGED <<objects, listeners, pool, seq, destroyed>>, state' = "ok" => state = "ok"
      PROVE  Past' /\ Whole'
    BY <1>1 DEF IInv, Linked, IdsUnique, OwnListener, ClientIds
<1>2. ASSUME NEW name \in Names, NEW bit \in ClientIds, Register(name, bit) PROVE Past' /\ Whole'
  <2> DEFINE new == [id |-> bit, name |-> name, seq |-> seq + 1]
             own == [id |-> bit, for |-> seq + 1, at |-> seq + 1]
  <2>1. Past'
      BY <1>0, <1>2 DEF Register, IInv, TypeOK, Objects
  <2>2. ASSUME state = "ok" PROVE Whole'
    <3>1. /\ bit \notin pool
          /\ \A o \in objects : o.id # bit
          /\ objects' = objects \cup {new}
          /\ listeners' = IF name \in Listened THEN listeners \cup {own} ELSE listeners
        BY <1>2, <2>2, Registered
    <3>2. pool' = pool \cup {bit} /\ destroyed' = destroyed
        BY <1>2 DEF Register
    <3>3. Linked /\ IdsUnique /\ OwnListener
        BY <2>2 DEF IInv
    <3>4. \A l \in listeners' : l \in listeners \/ l = own
        BY <3>1
    <3>5. new.id = bit /\ new.seq = seq + 1 /\ own.id = bit /\ own.for = seq + 1
        OBVIOUS
    <3> HIDE DEF new, own
    <3>6. Linked'
        BY <3>1, <3>2, <3>3, <3>4, <3>5 DEF Linked
    <3>7. IdsUnique'
        BY <2>2, <3>1, <3>2, <3>3, <3>5 DEF IdsUnique, ClientIds
    <3>8. OwnListener'
        BY <2>2, <3>1, <3>3, <3>4, <3>5 DEF OwnListener, Linked
    <3> QED
        BY <3>6, <3>7, <3>8
  <2>3. ASSUME state # "ok" PROVE Whole'
      BY <1>2, <2>3 DEF Register, IdsUnique, OwnListener
  <2> QED
      BY <2>1, <2>2, <2>3
<1>3. ASSUME NEW name \in Names, NEW bit \in ClientIds, RegisterServer(name, bit) PROVE Past' /\ Whole'
  <2> DEFINE new == [id |-> ServerId(bit), name |-> name, seq |-> seq + 1]
  <2>1. objects' = objects \cup {new} /\ UNCHANGED <<listeners, pool, destroyed, state>> /\ seq' = seq + 1
      BY <1>3 DEF RegisterServer
  <2>2. new.id \notin ClientIds
      BY RegistryAssumption DEF ServerId, ClientIds, RegistryAssumption
  <2>3. Past'
      BY <1>0, <2>1 DEF IInv, TypeOK, Objects
  <2>4. \A l \in listeners : state = "ok" => l.id \in ClientIds
      BY DEF IInv, Linked, TypeOK
  <2> HIDE DEF new
  <2>5. Whole'
      BY <2>1, <2>2, <2>4 DEF IInv, Linked, IdsUnique, OwnListener, ClientIds
  <2> QED
      BY <2>3, <2>5
<1>4. ASSUME NEW name \in Names, RegisterFull(name) PROVE Past' /\ Whole'
  <2>1. state' # "ok" /\ UNCHANGED <<objects, seq>>
      BY <1>4 DEF RegisterFull
  <2> QED
      BY <2>1 DEF IInv, IdsUnique, OwnListener
<1>5. ASSUME NEW o \in objects, Destroy(o) PROVE Past' /\ Whole'
  <2>1. UNCHANGED <<objects, pool, seq, state>> /\ destroyed' = destroyed \cup {o.id}
        /\ listeners' = ListenersWithout(o.id) /\ o.id \in ClientIds
      BY <1>5 DEF Destroy
  <2>2. listeners' \subseteq listeners
      BY <2>1 DEF ListenersWithout
  <2>3. ASSUME state = "ok" PROVE \A l \in listeners' : l.id # o.id
    <3>1. \A l \in listeners : l.at \in Int
        BY DEF IInv, TypeOK, Listeners
    <3> QED
        BY <2>1, <2>3, <3>1 DEF ListenersWithout, IInv, Linked
  <2>4. state = "ok" => o.id \in pool
      BY <2>1 DEF IInv, IdsUnique
  <2> QED
      BY <2>1, <2>2, <2>3, <2>4 DEF IInv, Linked, IdsUnique, OwnListener, ClientIds
<1>6. ASSUME NEW o \in objects, UnregisterLast(o) PROVE Past' /\ Whole'
  <2>1. UNCHANGED <<listeners, pool, seq, destroyed>> /\ objects' \subseteq objects
        /\ (state' = "ok" => state = "ok")
      BY <1>6 DEF UnregisterLast, ObjectsWithout
  <2> QED
      BY <2>1 DEF IInv, Linked, IdsUnique, OwnListener, ClientIds
<1>7. ASSUME NEW id \in destroyed, DeleteId(id) PROVE Past' /\ Whole'
  <2>1. UNCHANGED <<listeners, seq>> /\ objects' \subseteq objects /\ destroyed' = destroyed \ {id}
        /\ (state' = "ok" => state = "ok" /\ pool' = pool \ {id} /\ objects' = ObjectsWithout(id))
      BY <1>7 DEF DeleteId, ObjectsWithout
  <2>2. Past'
      BY <2>1 DEF IInv
  <2>3. ASSUME state' = "ok" PROVE Whole'
    <3>1. id \in ClientIds
        BY DEF IInv, TypeOK
    <3>2. \A o \in objects' : o.id # id
      <4>1. ASSUME NEW o \in objects, o.id = id PROVE IsById(o, id)
        <5>1. \A p \in Of(id) : p = o
            BY <2>1, <2>3, <3>1, <4>1 DEF Of, IInv, IdsUnique
        <5>2. o.seq \in Int
            BY DEF IInv, TypeOK, Objects
        <5> QED
            BY <4>1, <5>1, <5>2 DEF IsById
      <4> QED
          BY <2>1, <2>3, <4>1 DEF ObjectsWithout
    <3>3. \A l \in listeners : l.id # id
        BY <2>1, <2>3 DEF IInv, Linked
    <3> QED
        BY <2>1, <2>3, <3>2, <3>3 DEF IInv, Linked, IdsUnique, OwnListener, ClientIds
  <2>4. ASSUME state' # "ok" PROVE Whole'
      BY <2>4 DEF IdsUnique, OwnListener
  <2> QED
      BY <2>2, <2>3, <2>4
<1>8. ASSUME UNCHANGED vars \/ RegisterServerStart \/ RegisterRefused PROVE Past' /\ Whole'
  <2>1. UNCHANGED <<objects, listeners, pool, seq, destroyed>> /\ (state' = "ok" => state = "ok")
      BY <1>8 DEF vars, maps, RegisterServerStart, RegisterRefused
  <2> QED
      BY <1>1, <2>1
<1>9. ASSUME Raise \/ RoundtripFull \/ \E name \in Names : RegisterFullEnds(name)
      PROVE  Past' /\ Whole'
  <2>1. objects' = {} /\ state' # "ok"
      BY <1>9 DEF Raise, RoundtripFull, RegisterFullEnds, ProxyDestroy
  <2> QED
      BY <2>1 DEF IdsUnique, OwnListener
<1>10. Past' /\ Whole'
    BY <1>2, <1>3, <1>4, <1>5, <1>6, <1>7, <1>8, <1>9 DEF Next
<1> QED
    BY <1>0, <1>10 DEF IInv

LEMMA Invariant == Spec => []IInv
<1>1. Init => IInv
    BY RegistryAssumption DEF Init, ObjectInit, NoBits, NoPairs, IInv, TypeOK, Linked, IdsUnique, OwnListener, RegistryAssumption
<1> QED
    BY <1>1, InvPreserved, PTL DEF Spec

(* Every variable of Registry keeps its range.                             *)
THEOREM TypeCorrect == Spec => []TypeOK
<1>1. IInv => TypeOK
    BY DEF IInv
<1> QED
    BY <1>1, Invariant, PTL

(* No id of the client is given to two objects, however many there are,    *)
(* until the pool is full.                                                 *)
THEOREM Unique == Spec => []IdsUnique
<1>1. IInv => IdsUnique
    BY DEF IInv
<1> QED
    BY <1>1, Invariant, PTL

(* No event reaches the listener of another object until the pool is full. *)
THEOREM Own == Spec => []OwnListener
<1>1. IInv => OwnListener
    BY DEF IInv
<1> QED
    BY <1>1, Invariant, PTL

(* What a registration answers leads to the object it has made, for any    *)
(* bitmap and also once the pool is lost.                                  *)
THEOREM Answers == Spec => []AnswerLeads
<1>1. Init => AnswerLeads
    BY DEF Init, AnswerLeads
<1>2. IInv /\ AnswerLeads /\ [Next]_vars => AnswerLeads'
  <2> SUFFICES ASSUME IInv, AnswerLeads, [Next]_vars, answer' # 0 PROVE AnswerLeads'
      BY DEF AnswerLeads
  <2>1. CASE UNCHANGED vars
      BY <2>1 DEF vars, maps, AnswerLeads, IsById, IsByName, Of
  <2>2. ASSUME NEW name \in Names, NEW id, seq' = seq + 1, answer' = id,
               objects' = objects \cup {[id |-> id, name |-> name, seq |-> seq']}
        PROVE  AnswerLeads'
    <3> DEFINE new == [id |-> id, name |-> name, seq |-> seq']
    <3>1. \A o \in objects : o.seq <= seq /\ o.seq \in Int /\ seq \in Int
        BY DEF IInv, TypeOK, Objects
    <3>2. new \in objects' /\ new.id = answer' /\ new.seq = seq' /\ new.name = name
        BY <2>2
    <3>3. \A p \in objects' : p.seq <= seq'
        BY <2>2, <3>1
    <3> HIDE DEF new
    <3> QED
        BY <3>2, <3>3 DEF AnswerLeads, IsById, IsByName, Of
  <2>3. ASSUME NEW name \in Names, NEW bit \in ClientIds,
               Register(name, bit) \/ RegisterServer(name, bit)
        PROVE  AnswerLeads'
      BY <2>2, <2>3 DEF Register, RegisterServer
  <2> QED
      BY <2>1, <2>3 DEF Next, RegisterFull, RegisterFullEnds, Raise, RoundtripFull, ProxyDestroy,
                        RegisterServerStart, RegisterRefused, Destroy, DeleteId, UnregisterLast
<1> QED
    BY <1>1, <1>2, Invariant, PTL DEF Spec

-----------------------------------------------------------------------------
(* In a set of listeners with one of each id, the one found is it.         *)
LEMMA FoundIs ==
    ASSUME NEW ls, \A l, k \in ls : l.id = k.id => l = k
    PROVE  /\ \A l \in ls : FoundIn(ls, l.id) = l.for
           /\ \A id : (\A l \in ls : l.id # id) => FoundIn(ls, id) = NoObject
<1>1. ASSUME NEW l \in ls PROVE FoundIn(ls, l.id) = l.for
  <2> DEFINE k == CHOOSE k \in ls : k.id = l.id
  <2>1. k \in ls /\ k.id = l.id
      OBVIOUS
  <2>2. k = l
      BY <2>1
  <2> QED
      BY <2>2 DEF FoundIn
<1> QED
    BY <1>1 DEF FoundIn

(* Every step of Registry is a step of ObjectMap or leaves it alone.       *)
LEMMA MapStep == IInv /\ IInv' /\ [Next]_vars => [Map!Next]_(Map!vars)
<1> SUFFICES ASSUME IInv, IInv', [Next]_vars PROVE [Map!Next]_(Map!vars)
    OBVIOUS
<1>1. CASE UNCHANGED vars
    BY <1>1 DEF vars, maps, Map!vars, Handlers, Made
<1>2. CASE Next /\ state # "ok"
  <2>1. state' # "ok"
      BY <1>2 DEF Next, Register, RegisterFull, RegisterFullEnds, Raise, RoundtripFull, ProxyDestroy,
                  RegisterServer, RegisterServerStart, RegisterRefused, Destroy, DeleteId,
                  UnregisterLast
  <2> QED
      BY <1>2, <2>1 DEF Map!vars, Handlers, Made
<1>3. CASE state = "ok" /\ state' # "ok"
    BY <1>3 DEF Map!Next, Map!Lose
<1>4. ASSUME Next, state = "ok", state' = "ok" PROVE [Map!Next]_(Map!vars)
  <2> DEFINE found(id) == FoundIn(listeners, id)
  <2>0. /\ Handlers = [id \in pool |-> found(id)] /\ Handlers' = [id \in pool' |-> FoundIn(listeners', id)]
        /\ Made = 1..seq /\ Made' = 1..seq'
      BY <1>4 DEF Handlers, Made
  <2>a. /\ \A l, k \in listeners : l.id = k.id => l = k
        /\ \A l, k \in listeners' : l.id = k.id => l = k
      BY <1>4 DEF IInv, Linked
  <2>1. ASSUME NEW name \in Names, NEW bit \in ClientIds, Register(name, bit) PROVE Map!Add
    <3> DEFINE own == [id |-> bit, for |-> seq + 1, at |-> seq + 1]
               h == IF name \in Listened THEN seq + 1 ELSE NoObject
    <3>1. /\ bit \notin pool
          /\ listeners' = IF name \in Listened THEN listeners \cup {own} ELSE listeners
        BY <1>4, <2>1, Registered
    <3>2. pool' = pool \cup {bit} /\ seq' = seq + 1 /\ seq + 1 \in 1..MaxSeq /\ seq \in Nat
        BY <2>1 DEF Register, IInv, TypeOK
    <3>3. \A l \in listeners : l.id # bit
        BY <1>4, <3>1 DEF IInv, Linked
    <3>4. FoundIn(listeners', bit) = h
      <4>1. CASE name \in Listened
        <5>1. own \in listeners' /\ own.id = bit /\ own.for = seq + 1
            BY <3>1, <4>1
        <5>2. FoundIn(listeners', own.id) = own.for
            BY <2>a, <5>1, FoundIs
        <5> QED
            BY <4>1, <5>1, <5>2
      <4>2. CASE name \notin Listened
          BY <3>1, <3>3, <4>2 DEF FoundIn
      <4> QED
          BY <4>1, <4>2
    <3>5. ASSUME NEW id \in pool PROVE FoundIn(listeners', id) = found(id)
      <4>1. id # bit /\ own.id = bit
          BY <3>1
      <4>2. CASE \E l \in listeners : l.id = id
          BY <2>a, <3>1, <4>2, FoundIs
      <4>3. CASE \A l \in listeners : l.id # id
        <5>1. \A l \in listeners' : l.id # id
            BY <3>1, <4>1, <4>3
        <5> QED
            BY <4>3, <5>1 DEF FoundIn
      <4> QED
          BY <4>2, <4>3
    <3>6. Handlers' = [i \in DOMAIN Handlers \cup {bit} |-> IF i = bit THEN h ELSE Handlers[i]]
      <4>1. DOMAIN Handlers = pool
          BY <2>0
      <4> HIDE DEF h
      <4> QED
          BY <2>0, <3>1, <3>2, <3>4, <3>5, <4>1
    <3>7. seq + 1 \notin Made /\ Made' = Made \cup {seq + 1}
        BY <2>0, <3>2
    <3>8. bit \in ClientIds \ DOMAIN Handlers
        BY <2>0, <3>1
    <3>9. h \in {seq + 1, NoObject}
        OBVIOUS
    <3> HIDE DEF h
    <3> QED
        BY <3>2, <3>6, <3>7, <3>8, <3>9 DEF Map!Add
  <2>2. ASSUME NEW name \in Names, NEW bit \in ClientIds, RegisterServer(name, bit) PROVE Map!AddRemote
    <3>1. UNCHANGED <<pool, listeners>> /\ seq' = seq + 1 /\ seq + 1 \in 1..MaxSeq /\ seq \in Nat
        BY <2>2 DEF RegisterServer, IInv, TypeOK
    <3>2. seq + 1 \notin Made /\ Made' = Made \cup {seq + 1}
        BY <2>0, <3>1
    <3>3. Handlers' = Handlers
        BY <2>0, <3>1
    <3> QED
        BY <3>1, <3>2, <3>3 DEF Map!AddRemote
  <2>3. ASSUME NEW o \in objects, Destroy(o) PROVE Map!Mute
    <3>1. UNCHANGED <<pool, seq>> /\ listeners' = ListenersWithout(o.id)
        BY <2>3 DEF Destroy
    <3>2. o.id \in pool
        BY <1>4, <2>3 DEF Destroy, IInv, IdsUnique
    <3>3. \A l \in listeners' : l.id # o.id
        BY <1>4, <2>3 DEF Destroy, IInv, Linked
    <3>4. FoundIn(listeners', o.id) = NoObject
        BY <3>3 DEF FoundIn
    <3>5. ASSUME NEW id \in pool, id # o.id PROVE FoundIn(listeners', id) = found(id)
      <4>1. \A l : l.id = id => (l \in listeners' <=> l \in listeners)
          BY <3>1, <3>5 DEF ListenersWithout
      <4> QED
          BY <2>a, <4>1, FoundIs
    <3>6. Handlers' = [Handlers EXCEPT ![o.id] = NoObject]
        BY <2>0, <3>1, <3>2, <3>4, <3>5
    <3>7. Made' = Made /\ o.id \in DOMAIN Handlers
        BY <2>0, <3>1, <3>2
    <3> QED
        BY <3>6, <3>7 DEF Map!Mute
  <2>4. ASSUME NEW id \in destroyed, DeleteId(id) PROVE Map!Remove
    <3>1. UNCHANGED <<listeners, seq>> /\ pool' = pool \ {id}
        BY <1>4, <2>4 DEF DeleteId
    <3>2. id \in pool
        BY <1>4 DEF IInv, Linked
    <3>3. Handlers' = [i \in DOMAIN Handlers \ {id} |-> Handlers[i]] /\ id \in DOMAIN Handlers
        BY <2>0, <3>1, <3>2
    <3> QED
        BY <2>0, <3>1, <3>3 DEF Map!Remove
  <2>5. ASSUME \/ \E name \in Names : RegisterFull(name) \/ RegisterFullEnds(name)
               \/ Raise \/ RoundtripFull \/ RegisterServerStart \/ RegisterRefused
               \/ \E o \in objects : UnregisterLast(o)
        PROVE  UNCHANGED <<pool, listeners, seq, state>>
      BY <1>4, <2>5 DEF RegisterFull, RegisterFullEnds, Raise, RoundtripFull, ProxyDestroy,
                        RegisterServerStart, RegisterRefused, UnregisterLast, maps
  <2>6. ASSUME UNCHANGED <<pool, listeners, seq, state>> PROVE UNCHANGED Map!vars
      BY <2>6 DEF Map!vars, Handlers, Made
  <2>7. ASSUME Map!Add \/ Map!AddRemote \/ Map!Mute \/ Map!Remove PROVE Map!Next
      BY <1>4, <2>7 DEF Map!Next, Map!Keep
  <2> QED
      BY <1>4, <2>1, <2>2, <2>3, <2>4, <2>5, <2>6, <2>7 DEF Next
<1> QED
    BY <1>1, <1>2, <1>3, <1>4 DEF Next

(* The registry implements its promise, for any size of its bitmap.        *)
THEOREM Implements == Spec => ImplementsObjectMap
<1>1. Init => Map!Init
  <2>1. ASSUME Init PROVE Handlers = [id \in {} |-> NoObject] /\ Made = {} /\ state = "ok"
      BY <2>1 DEF Init, ObjectInit, NoBits, NoPairs, Handlers, Made
  <2> QED
      BY <2>1 DEF Map!Init
<1> QED
    BY <1>1, MapStep, Invariant, PTL DEF Spec, ImplementsObjectMap, Map!Spec
=============================================================================

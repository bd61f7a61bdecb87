-------------------------- MODULE EventLoopProofs --------------------------
(***************************************************************************)
(* The two sides of the connection agree on ids, for any globals, any      *)
(* handlers, any buffer size and any depth of nesting.  The argument: an   *)
(* id that is registered belongs to an object of the compositor, or to one *)
(* request on its way, or is named by one delete_id on its way, and never  *)
(* to two of these (Owned, AllTrue, Once).  So an id is free only after    *)
(* its delete_id has been dispatched, and an event that was sent to an     *)
(* object is not after that in any sequence of events (InOrder).  On the   *)
(* socket an event is followed by the delete_id of its object, unless that *)
(* is still there (Followed), so that whatever is read is for a registered *)
(* object and no event is lost: a global is on its way until it is bound   *)
(* (Bound).  A layer surface that has its listener is not yet destroyed,   *)
(* nor is its surface (Paired), so that destroy requests name objects that *)
(* are there (Doomed) and never one that is bound (AllTrue).               *)
(***************************************************************************)
EXTENDS EventLoop, FiniteSetTheorems, SequenceTheorems, TLAPS

Calls == [cb : Ids \cup {0}, wait : BOOLEAN, batch : Seq(Event), todo : Seq(Steps)]

Ranges ==
    /\ objs \subseteq Ids
    /\ kind \in [Ids -> Kinds]
    /\ surface \in [Ids -> Ids \cup {0}]
    /\ stack \in Seq(Calls)
    /\ phase \in {"connect", "bind", "restore", "loop", "dead"}
    /\ bound \in [Globals -> Nat]
    /\ reqs \in Seq(Requests)
    /\ wire \in Seq(Event)
    /\ live \subseteq Ids
    /\ announced \subseteq Globals
    /\ pace \in Paces

\* The sequences of events on their way: what is on the socket, and what every
\* call has received and not dispatched; and these events.
Lines == 0..Len(stack)
Line(k) == IF k = 0 THEN wire ELSE stack[k].batch
Coming == {e \in Event : \E k \in Lines : \E i \in 1..Len(Line(k)) : Line(k)[i] = e}

\* The requests that create objects and those that destroy them, by their place
\* in the queue; and the ids these name.
Makes(i) == i \in 1..Len(reqs) /\ reqs[i].req # "destroy"
Breaks(i) == i \in 1..Len(reqs) /\ reqs[i].req = "destroy"
Pending == {x \in Ids : \E i \in 1..Len(reqs) : Makes(i) /\ reqs[i].id = x}
Condemned == {x \in Ids : \E i \in 1..Len(reqs) : Breaks(i) /\ reqs[i].id = x}

\* An id belongs to an object of the compositor or to one request.
Owned ==
    /\ Display \in live /\ live \subseteq objs /\ Pending \subseteq objs \ live
    /\ \A i, j \in 1..Len(reqs) : Makes(i) /\ Makes(j) /\ reqs[i].id = reqs[j].id => i = j
    /\ \A i \in 1..Len(reqs) : Makes(i) => kind[reqs[i].id] = reqs[i].req
    /\ \A i \in 1..Len(reqs) : reqs[i].req = "registry" => reqs[i].id = Registry
    /\ kind[Display] = "display"
    /\ Registry \in live \cup Pending => kind[Registry] = "registry"

\* What is destroyed is there, or asked for before, and is a surface.
Doomed ==
    /\ \A i, j \in 1..Len(reqs) : Breaks(i) /\ Breaks(j) /\ reqs[i].id = reqs[j].id => i = j
    /\ \A i \in 1..Len(reqs) : Breaks(i) =>
          /\ kind[reqs[i].id] \in {"surface", "layer"}
          /\ \/ reqs[i].id \in live
             \/ \E j \in 1..Len(reqs) : Makes(j) /\ j < i /\ reqs[j].id = reqs[i].id

\* A layer surface with its listener, and its surface, are there or asked for.
There(x) == x \in (live \cup Pending) \ Condemned
Paired ==
    /\ \A l \in Ids : surface[l] # 0 =>
          /\ kind[l] = "layer" /\ There(l)
          /\ kind[surface[l]] = "surface" /\ There(surface[l])
    /\ \A l, m \in Ids : surface[l] # 0 /\ surface[l] = surface[m] => l = m

\* What an event says of the ids and of the globals.
Holds(e) ==
    /\ e.ev = "info" => e.obj \in live /\ kind[e.obj] = "object"
    /\ e.ev = "global" => Registry \in live /\ e.arg \in announced /\ bound[e.arg] = 0
    /\ e.ev = "delete_id" => e.arg \in objs \ (live \cup Pending)
AllTrue == \A e \in Coming : Holds(e)

\* No delete_id and no global comes twice.
Single(e) == e.ev \in {"delete_id", "global"}
Once ==
    \A k, l \in Lines : \A i \in 1..Len(Line(k)), j \in 1..Len(Line(l)) :
        Line(k)[i] = Line(l)[j] /\ Single(Line(k)[i]) => k = l /\ i = j

\* In a sequence the events of an object come before its delete_id.
Before(s) ==
    \A i, j \in 1..Len(s) : s[j].ev = "delete_id" /\ s[i].obj = s[j].arg => i < j
InOrder == \A k \in Lines : Before(Line(k))

\* On the socket they are followed by it, once the object is not there.
Followed(s) ==
    \A i \in 1..Len(s) :
        \/ s[i].obj \in live
        \/ \E j \in 1..Len(s) : i < j /\ s[j].ev = "delete_id" /\ s[j].arg = s[i].obj

\* A global is announced once, and is then on its way until it is bound.
Bound ==
    /\ announced # {} => Registry \in live
    /\ \A g \in Globals : bound[g] \in {0, 1} /\ (bound[g] = 1 => g \in announced)
    /\ phase # "dead" => \A g \in announced :
           bound[g] = 1 \/ \E e \in Coming : e.ev = "global" /\ e.arg = g

Fresh ==
    /\ phase = "connect" => objs = {Display}
    /\ phase \in {"connect", "dead"} => stack = <<>>

\* The registry is the first object that is asked for, and stays.
Reached == phase \notin {"connect", "dead"} => Registry \in live \cup Pending

Agreed == Owned /\ Doomed /\ Paired

IInv == /\ Ranges /\ Agreed /\ AllTrue /\ Once /\ InOrder /\ Followed(wire)
        /\ Bound /\ Fresh /\ Reached

-----------------------------------------------------------------------------
(* Sequences of events                                                     *)

LEMMA Types ==
  ASSUME Ranges
  PROVE  /\ Len(stack) \in Nat /\ Len(wire) \in Nat /\ Len(reqs) \in Nat
         /\ \A k \in 1..Len(stack) : stack[k] \in Calls
         /\ \A k \in Lines : Line(k) \in Seq(Event) /\ Len(Line(k)) \in Nat
         /\ \A k \in Lines : \A i \in 1..Len(Line(k)) : Line(k)[i] \in Event
         /\ 0 \in Lines /\ Line(0) = wire
  <1>1. Len(stack) \in Nat /\ Len(wire) \in Nat /\ Len(reqs) \in Nat
        /\ \A k \in 1..Len(stack) : stack[k] \in Calls
    BY DEF Ranges
  <1>2. \A k \in Lines : Line(k) \in Seq(Event)
    <2>1. wire \in Seq(Event) /\ \A k \in Lines : k = 0 \/ k \in 1..Len(stack)
      BY <1>1 DEF Ranges, Lines
    <2>2. \A k \in 1..Len(stack) : stack[k].batch \in Seq(Event)
      BY <1>1 DEF Calls
    <2> QED
      BY <2>1, <2>2 DEF Line
  <1>3. \A k \in Lines : Len(Line(k)) \in Nat /\ \A i \in 1..Len(Line(k)) : Line(k)[i] \in Event
    BY <1>2
  <1>4. 0 \in Lines /\ Line(0) = wire
    BY <1>1 DEF Lines, Line
  <1> QED
    BY <1>1, <1>2, <1>3, <1>4

(* Every sequence is a part of one there was, K, from its D-th on, and no   *)
(* event is in two of them.                                                *)
Part(K, D) ==
    /\ \A k \in Lines' : K[k] \in Lines /\ D[k] \in Nat
    /\ \A k \in Lines' : \A i \in 1..Len(Line(k)') :
          i + D[k] \in 1..Len(Line(K[k])) /\ Line(k)'[i] = Line(K[k])[i + D[k]]
    /\ \A k, l \in Lines' : \A i \in 1..Len(Line(k)'), j \in 1..Len(Line(l)') :
          K[k] = K[l] /\ i + D[k] = j + D[l] => k = l

(* Then the order is kept.                                                 *)
LEMMA Parts ==
  ASSUME Ranges, Ranges', Once, InOrder, NEW K, NEW D, Part(K, D)
  PROVE  Once' /\ InOrder' /\ Coming' \subseteq Coming
  <1>1. \A k \in Lines' : Len(Line(k)') \in Nat
    BY Types
  <1> USE DEF Part
  <1>2. Once'
    <2> SUFFICES ASSUME NEW k \in Lines', NEW l \in Lines',
                        NEW i \in 1..Len(Line(k)'), NEW j \in 1..Len(Line(l)'),
                        Line(k)'[i] = Line(l)'[j], Single(Line(k)'[i])
                 PROVE  k = l /\ i = j
      BY DEF Once, Single
    <2>1. K[k] = K[l] /\ i + D[k] = j + D[l]
      <3> DEFINE p == K[k]
                 q == K[l]
                 a == i + D[k]
                 b == j + D[l]
      <3>1. p \in Lines /\ a \in 1..Len(Line(p)) /\ Line(k)'[i] = Line(p)[a]
        OBVIOUS
      <3>2. q \in Lines /\ b \in 1..Len(Line(q)) /\ Line(l)'[j] = Line(q)[b]
        OBVIOUS
      <3>3. Line(p)[a] = Line(q)[b] /\ Single(Line(p)[a])
        BY <3>1, <3>2 DEF Single
      <3> HIDE DEF p, q, a, b
      <3>4. p = q /\ a = b
        BY <3>1, <3>2, <3>3 DEF Once
      <3> QED
        BY <3>4 DEF p, q, a, b
    <2> QED
      BY <2>1
  <1>3. InOrder'
    <2> SUFFICES ASSUME NEW k \in Lines', NEW i \in 1..Len(Line(k)'), NEW j \in 1..Len(Line(k)'),
                        Line(k)'[j].ev = "delete_id",
                        Line(k)'[i].obj = Line(k)'[j].arg
                 PROVE  i < j
      BY DEF InOrder, Before
    <2> DEFINE p == K[k]
               a == i + D[k]
               b == j + D[k]
    <2>1. /\ p \in Lines /\ a \in 1..Len(Line(p)) /\ b \in 1..Len(Line(p))
          /\ Line(k)'[i] = Line(p)[a] /\ Line(k)'[j] = Line(p)[b] /\ D[k] \in Nat
      OBVIOUS
    <2> HIDE DEF p, a, b
    <2>2. a < b
      BY <2>1 DEF InOrder, Before
    <2> QED
      BY <1>1, <2>1, <2>2 DEF a, b
  <1>4. Coming' \subseteq Coming
    BY DEF Coming
  <1> QED
    BY <1>2, <1>3, <1>4

(* The delete_id of an object that goes is sent, after its other events.   *)
Closing(t) ==
    /\ \A i \in 1..Len(t) :
          \/ t[i].obj \in live'
          \/ \E j \in 1..Len(t) : i < j /\ t[j].ev = "delete_id" /\ t[j].arg = t[i].obj
    /\ \A x \in live :
          x \in live' \/ \E j \in 1..Len(t) : t[j].ev = "delete_id" /\ t[j].arg = x

(* The compositor sends t.                                                 *)
LEMMA Sent ==
  ASSUME Ranges, Ranges', Once, InOrder, Followed(wire), NEW t \in Seq(Event),
         wire' = wire \o t, UNCHANGED stack,
         \A i \in 1..Len(t) : Single(t[i]) => t[i] \notin Coming,
         \A i, j \in 1..Len(t) : t[i] = t[j] /\ Single(t[i]) => i = j,
         Before(t),
         \A i \in 1..Len(t) : \A e \in Coming : e.ev = "delete_id" => e.arg # t[i].obj,
         Closing(t)
  PROVE  /\ Once' /\ InOrder' /\ Followed(wire)'
         /\ \A e \in Event : e \in Coming' <=> e \in Coming \/ \E i \in 1..Len(t) : t[i] = e
  <1> DEFINE n == Len(wire)
  <1>1. /\ n \in Nat /\ Len(t) \in Nat /\ Len(wire') = n + Len(t)
        /\ \A i \in 1..n : wire'[i] = wire[i]
        /\ \A i \in 1..Len(t) : wire'[n + i] = t[i]
    <2>1. /\ Len(wire') = n + Len(t) /\ n \in Nat /\ Len(t) \in Nat
          /\ \A i \in 1..n + Len(t) : wire'[i] = IF i <= n THEN wire[i] ELSE t[i - n]
      BY ConcatProperties, LenProperties DEF Ranges
    <2> QED
      BY <2>1
  <1>2. \A i \in 1..Len(wire') : i \in 1..n \/ (i - n \in 1..Len(t) /\ wire'[i] = t[i - n])
    <2>1. ASSUME NEW i \in 1..Len(wire'), i \notin 1..n
          PROVE  i - n \in 1..Len(t) /\ wire'[i] = t[i - n]
      <3>1. i - n \in 1..Len(t) /\ n + (i - n) = i
        BY <1>1, <2>1
      <3> QED
        BY <1>1, <3>1
    <2> QED
      BY <1>1, <2>1
  <1> HIDE DEF n
  <1>3. /\ Lines' = Lines /\ 0 \in Lines
        /\ \A k \in Lines : k # 0 => Line(k)' = Line(k)
        /\ Line(0) = wire /\ Line(0)' = wire'
    BY Types DEF Lines, Line
  <1>4. \A k \in Lines : Len(Line(k)) \in Nat /\ \A i \in 1..Len(Line(k)) : Line(k)[i] \in Coming
    BY Types DEF Coming
  <1>n. n = Len(wire)
    BY DEF n
  <1>5. Once'
    <2> SUFFICES ASSUME NEW k \in Lines, NEW l \in Lines,
                        NEW i \in 1..Len(Line(k)'), NEW j \in 1..Len(Line(l)'),
                        Line(k)'[i] = Line(l)'[j], Single(Line(k)'[i])
                 PROVE  k = l /\ i = j
      BY <1>3 DEF Once, Single
    <2>1. CASE k # 0 /\ l # 0
      BY <1>3, <2>1 DEF Once
    <2>2. ASSUME NEW a \in 1..Len(wire'), NEW m \in Lines, m # 0, NEW b \in 1..Len(Line(m)),
                 wire'[a] = Line(m)[b]
          PROVE  ~Single(wire'[a])
      <3>1. Line(m)[b] \in Coming
        BY <1>4
      <3>2. CASE a \in 1..n
        BY <1>1, <1>3, <1>n, <2>2, <3>2 DEF Once
      <3>3. CASE a \notin 1..n
        BY <1>2, <2>2, <3>1, <3>3
      <3> QED
        BY <3>2, <3>3
    <2>3. ~(k = 0 /\ l # 0) /\ ~(k # 0 /\ l = 0)
      <3>1. CASE k = 0 /\ l # 0
        BY <1>3, <2>2, <3>1
      <3>2. CASE k # 0 /\ l = 0
        BY <1>3, <2>2, <3>2
      <3> QED
        BY <3>1, <3>2
    <2>4. CASE k = 0 /\ l = 0
      <3>1. CASE i \in 1..n /\ j \in 1..n
        <4>1. Line(k)' = wire' /\ Line(l)' = wire'
          BY <1>3, <2>4
        <4>2. wire'[i] = wire[i] /\ wire'[j] = wire[j] /\ wire'[i] = wire'[j] /\ Single(wire'[i])
          BY <1>1, <3>1, <4>1
        <4>3. /\ i \in 1..Len(Line(0)) /\ j \in 1..Len(Line(0))
              /\ Line(0)[i] = Line(0)[j] /\ Single(Line(0)[i])
          BY <1>3, <1>n, <3>1, <4>2
        <4> QED
          BY <1>3, <2>4, <4>3 DEF Once
      <3>2. CASE i \notin 1..n /\ j \notin 1..n
        <4>1. wire'[i] = wire'[j] /\ i \in 1..Len(wire') /\ j \in 1..Len(wire') /\ Single(wire'[i])
          BY <1>3, <2>4
        <4>2. /\ i - n \in 1..Len(t) /\ wire'[i] = t[i - n]
              /\ j - n \in 1..Len(t) /\ wire'[j] = t[j - n]
          BY <1>2, <3>2, <4>1
        <4>3. i - n = j - n
          BY <4>1, <4>2
        <4> QED
          BY <1>1, <2>4, <1>3, <4>3
      <3>3. ASSUME NEW a \in 1..n, NEW b \in 1..Len(wire'), b \notin 1..n, wire'[a] = wire'[b]
            PROVE  ~Single(wire'[a])
        <4>1. wire'[a] \in Coming
          BY <1>1, <1>3, <1>4, <1>n
        <4>2. b - n \in 1..Len(t) /\ wire'[b] = t[b - n]
          BY <1>2, <3>3
        <4> QED
          BY <3>3, <4>1, <4>2
      <3> QED
        BY <1>1, <1>3, <2>4, <3>1, <3>2, <3>3
    <2> QED
      BY <2>1, <2>3, <2>4
  <1>6. Before(wire')
    <2> SUFFICES ASSUME NEW i \in 1..Len(wire'), NEW j \in 1..Len(wire'),
                        wire'[j].ev = "delete_id",
                        wire'[i].obj = wire'[j].arg
                 PROVE  i < j
      BY DEF Before
    <2>1. CASE i \in 1..n /\ j \in 1..n
      BY <1>1, <1>3, <1>n, <2>1 DEF InOrder, Before
    <2>2. CASE i \in 1..n /\ j \notin 1..n
      BY <1>1, <2>2
    <2>3. CASE i \notin 1..n /\ j \in 1..n
      <3>1. wire'[j] \in Coming
        BY <1>1, <1>3, <1>4, <1>n, <2>3
      <3>2. i - n \in 1..Len(t) /\ wire'[i] = t[i - n]
        BY <1>2, <2>3
      <3> QED
        BY <3>1, <3>2
    <2>4. CASE i \notin 1..n /\ j \notin 1..n
      <3>1. i - n < j - n
        BY <1>2, <2>4 DEF Before
      <3> QED
        BY <1>1, <3>1
    <2> QED
      BY <2>1, <2>2, <2>3, <2>4
  <1>7. InOrder'
    <2> SUFFICES ASSUME NEW k \in Lines PROVE Before(Line(k)')
      BY <1>3 DEF InOrder
    <2>1. CASE k = 0
      BY <1>3, <1>6, <2>1
    <2>2. CASE k # 0
      BY <1>3, <2>2 DEF InOrder
    <2> QED
      BY <2>1, <2>2
  <1>8. Followed(wire)'
    <2> SUFFICES ASSUME NEW i \in 1..Len(wire'), wire'[i].obj \notin live'
                 PROVE  \E j \in 1..Len(wire') : i < j /\ wire'[j].ev = "delete_id"
                                                 /\ wire'[j].arg = wire'[i].obj
      BY DEF Followed
    <2>1. ASSUME NEW j \in 1..Len(t)
          PROVE  n + j \in 1..Len(wire') /\ wire'[n + j] = t[j] /\ (i \in 1..n => i < n + j)
      BY <1>1, <2>1, SMTT(30)
    <2>2. CASE i \in 1..n /\ wire[i].obj \in live
      <3>1. wire'[i] = wire[i]
        BY <1>1, <2>2
      <3>2. PICK j \in 1..Len(t) : t[j].ev = "delete_id" /\ t[j].arg = wire[i].obj
        BY <2>2, <3>1 DEF Closing
      <3> QED
        BY <2>1, <2>2, <3>1, <3>2
    <2>3. CASE i \in 1..n /\ wire[i].obj \notin live
      <3>1. PICK j \in 1..n : i < j /\ wire[j].ev = "delete_id" /\ wire[j].arg = wire[i].obj
        BY <1>1, <1>n, <2>3 DEF Followed
      <3>2. j \in 1..Len(wire') /\ wire'[j] = wire[j] /\ wire'[i] = wire[i]
        BY <1>1, <2>3
      <3> QED
        BY <3>1, <3>2
    <2>4. CASE i \notin 1..n
      <3> DEFINE h == i - n
      <3>1. h \in 1..Len(t) /\ wire'[i] = t[h] /\ i = n + h
        BY <1>1, <1>2, <2>4
      <3> HIDE DEF h
      <3>2. PICK j \in 1..Len(t) : h < j /\ t[j].ev = "delete_id" /\ t[j].arg = t[h].obj
        BY <3>1 DEF Closing
      <3>3. i < n + j
        BY <1>1, <3>1, <3>2
      <3> QED
        BY <2>1, <3>1, <3>2, <3>3
    <2> QED
      BY <2>2, <2>3, <2>4
  <1>9. \A e \in Event : e \in Coming' <=> e \in Coming \/ \E i \in 1..Len(t) : t[i] = e
    <2>1. ASSUME NEW e \in Coming' PROVE e \in Coming \/ \E i \in 1..Len(t) : t[i] = e
      <3>1. PICK k \in Lines : \E i \in 1..Len(Line(k)') : Line(k)'[i] = e
        BY <1>3, <2>1 DEF Coming
      <3>2. CASE k = 0
        <4>1. PICK i \in 1..Len(wire') : wire'[i] = e
          BY <1>3, <3>1, <3>2
        <4>2. CASE i \in 1..n
          BY <1>1, <1>3, <1>4, <1>n, <4>1, <4>2
        <4>3. CASE i \notin 1..n
          BY <1>2, <4>1, <4>3
        <4> QED
          BY <4>2, <4>3
      <3>3. CASE k # 0
        BY <1>3, <1>4, <3>1, <3>3
      <3> QED
        BY <3>2, <3>3
    <2>2. ASSUME NEW e \in Coming PROVE e \in Coming'
      <3>1. PICK k \in Lines : \E i \in 1..Len(Line(k)) : Line(k)[i] = e
        BY <2>2 DEF Coming
      <3>2. CASE k = 0
        <4>1. PICK i \in 1..n : wire[i] = e
          BY <1>3, <1>n, <3>1, <3>2
        <4>2. i \in 1..Len(wire') /\ wire'[i] = e
          BY <1>1, <4>1
        <4> QED
          BY <1>3, <2>2, <4>2 DEF Coming
      <3>3. CASE k # 0
        BY <1>3, <2>2, <3>1, <3>3 DEF Coming
      <3> QED
        BY <3>2, <3>3
    <2>3. ASSUME NEW i \in 1..Len(t) PROVE t[i] \in Coming'
      <3>1. n + i \in 1..Len(wire') /\ wire'[n + i] = t[i] /\ t[i] \in Event
        BY <1>1
      <3> QED
        BY <1>3, <3>1 DEF Coming
    <2> QED
      BY <2>1, <2>2, <2>3
  <1> QED
    BY <1>5, <1>7, <1>8, <1>9

-----------------------------------------------------------------------------
(* What the calls do to the sequences of events                            *)

LEMMA TopAndBelow ==
  ASSUME Ranges, stack # <<>>
  PROVE  /\ Len(stack) \in Nat \ {0} /\ Top = stack[Len(stack)] /\ Top \in Calls
         /\ Below \in Seq(Calls) /\ Len(Below) = Len(stack) - 1
         /\ \A i \in 1..Len(stack) - 1 : Below[i] = stack[i]
         /\ Len(stack) \in Lines /\ Line(Len(stack)) = Top.batch
  <1>1. Len(stack) \in Nat \ {0} /\ \A i \in 1..Len(stack) : stack[i] \in Calls
    BY EmptySeq DEF Ranges
  <1>2. /\ Below \in Seq(Calls) /\ Len(Below) = Len(stack) - 1
        /\ \A i \in 1..Len(stack) - 1 : Below[i] = stack[i]
    <2> DEFINE n == Len(stack) - 1
    <2>1. n \in Nat /\ \A i \in 1..n : stack[i] \in Calls
      BY <1>1
    <2>2. Below = SubSeq(stack, 1, n)
      BY DEF Below, Front
    <2> HIDE DEF n
    <2>3. /\ SubSeq(stack, 1, n) \in Seq(Calls)
          /\ Len(SubSeq(stack, 1, n)) = IF 1 <= n THEN n - 1 + 1 ELSE 0
          /\ \A i \in 1..n - 1 + 1 : SubSeq(stack, 1, n)[i] = stack[1 + i - 1]
      BY <2>1, SubSeqProperties
    <2>4. /\ Below \in Seq(Calls) /\ Len(Below) = n
          /\ \A i \in 1..n : Below[i] = stack[i]
      BY <2>1, <2>2, <2>3
    <2> QED
      BY <2>4 DEF n
  <1> QED
    BY <1>1, <1>2 DEF Top, Lines, Line

LEMMA OnTop ==
  ASSUME Ranges, stack # <<>>, NEW c \in Calls
  PROVE  /\ Append(Below, c) \in Seq(Calls) /\ Len(Append(Below, c)) = Len(stack)
         /\ \A i \in 1..Len(stack) :
               Append(Below, c)[i] = IF i = Len(stack) THEN c ELSE stack[i]
  <1>1. /\ Len(stack) \in Nat \ {0} /\ Below \in Seq(Calls) /\ Len(Below) = Len(stack) - 1
        /\ \A i \in 1..Len(stack) - 1 : Below[i] = stack[i]
    BY TopAndBelow
  <1>2. /\ Append(Below, c) \in Seq(Calls)
        /\ Len(Append(Below, c)) = Len(Below) + 1
        /\ \A i \in 1..Len(Below) : Append(Below, c)[i] = Below[i]
        /\ Append(Below, c)[Len(Below) + 1] = c
    BY <1>1, AppendProperties
  <1> QED
    BY <1>1, <1>2

(* Everything on the socket is for an object that is registered.           *)
LEMMA WireKnown ==
  ASSUME IInv, NEW i \in 1..Len(wire)
  PROVE  wire[i].obj \in objs
  <1>1. /\ \A j \in 1..Len(wire) : wire[j] \in Coming /\ Holds(wire[j])
        /\ live \subseteq objs
    BY Types DEF IInv, Agreed, Owned, AllTrue, Coming
  <1>2. CASE wire[i].obj \notin live
    <2>1. PICK j \in 1..Len(wire) : wire[j].ev = "delete_id" /\ wire[j].arg = wire[i].obj
      BY <1>2 DEF IInv, Followed
    <2> QED
      BY <1>1, <2>1 DEF Holds
  <1> QED
    BY <1>1, <1>2

(* A chunk of the socket goes, whole, to a call that has nothing to        *)
(* dispatch.                                                               *)
LEMMA ReadFlow ==
  ASSUME IInv, NEW below \in Seq(Calls), NEW reader \in Calls, Read(below, reader),
         \A k \in 1..Len(below) : below[k] = stack[k],
         Len(stack) \in {Len(below), Len(below) + 1},
         Len(stack) = Len(below) + 1 => stack[Len(stack)].batch = <<>>
  PROVE  /\ stack' \in Seq(Calls) /\ wire' \in Seq(Event)
         /\ Once' /\ InOrder' /\ Followed(wire)' /\ Coming' = Coming
  <1> DEFINE m == Len(below) + 1
  <1>1. /\ wire \in Seq(Event) /\ Len(wire) \in Nat \ {0} /\ Chunk \in 1..Len(wire)
        /\ wire' = SubSeq(wire, Chunk + 1, Len(wire))
    <2>1. wire \in Seq(Event) /\ wire # <<>> /\ pace.cap \in Nat \ {0}
      BY EventLoopAssumption DEF IInv, Ranges, Read, Readable
    <2>2. Len(wire) \in Nat \ {0}
      BY <2>1, EmptySeq
    <2>3. Chunk \in 1..Len(wire)
      BY <2>1, <2>2 DEF Chunk
    <2> QED
      BY <2>1, <2>2, <2>3 DEF Read
  <1> DEFINE read == SubSeq(wire, 1, Chunk)
  <1>2. stack' = Append(below, [reader EXCEPT !.batch = read])
    <2>1. PICK n \in 0..Chunk :
             Known(n) /\ stack' = Append(below, [reader EXCEPT !.batch = SubSeq(wire, 1, n)])
      BY DEF Read
    <2>2. n < Chunk => n + 1 \in 1..Len(wire)
      BY <1>1
    <2>3. ~(n < Chunk)
      BY <2>1, <2>2, WireKnown DEF Known
    <2>4. n = Chunk
      BY <1>1, <2>3
    <2> QED
      BY <2>1, <2>4
  <1>3. /\ read \in Seq(Event) /\ Len(read) = Chunk /\ \A i \in 1..Chunk : read[i] = wire[i]
        /\ wire' \in Seq(Event) /\ Len(wire') = Len(wire) - Chunk
        /\ \A i \in 1..Len(wire) - Chunk : wire'[i] = wire[i + Chunk]
    <2>1. /\ read \in Seq(Event) /\ Len(read) = Chunk /\ \A i \in 1..Chunk : read[i] = wire[i]
      BY <1>1, SubSeqProperties
    <2>2. \A i \in Chunk + 1..Len(wire) : wire[i] \in Event
      BY <1>1
    <2>3. /\ wire' \in Seq(Event)
          /\ Len(wire') = IF Chunk + 1 <= Len(wire) THEN Len(wire) - (Chunk + 1) + 1 ELSE 0
          /\ \A i \in 1..Len(wire) - (Chunk + 1) + 1 : wire'[i] = wire[Chunk + 1 + i - 1]
      BY <1>1, <2>2, SubSeqProperties
    <2> QED
      BY <1>1, <2>1, <2>3
  <1> HIDE DEF read
  <1>4. /\ [reader EXCEPT !.batch = read] \in Calls
        /\ [reader EXCEPT !.batch = read].batch = read
    BY <1>3 DEF Calls
  <1>5. /\ stack' \in Seq(Calls) /\ Len(stack') = m /\ m \in Nat \ {0}
        /\ \A k \in 1..m : k # m => stack'[k] = stack[k]
        /\ stack'[m].batch = read
    <2>1. Len(below) \in Nat
      OBVIOUS
    <2>2. /\ Append(below, [reader EXCEPT !.batch = read]) \in Seq(Calls)
          /\ Len(stack') = Len(below) + 1
          /\ \A i \in 1..Len(below) : stack'[i] = below[i]
          /\ stack'[Len(below) + 1] = [reader EXCEPT !.batch = read]
      BY <1>2, <1>4, AppendProperties
    <2> QED
      BY <1>2, <1>4, <2>1, <2>2
  <1>6. Len(stack) \in {m - 1, m} /\ (Len(stack) = m => stack[m].batch = <<>>)
    OBVIOUS
  <1> HIDE DEF m
  <1>7. Ranges'
    BY <1>3, <1>5 DEF Read, IInv, Ranges, server, objects
  <1>8. /\ Lines' = 0..m /\ Line(0)' = wire' /\ Line(m)' = read
        /\ \A k \in 1..m : k # m => Line(k)' = Line(k) /\ k \in Lines
        /\ 0 \in Lines /\ Line(0) = wire
    BY <1>5, <1>6, Types DEF Lines, Line, IInv
  <1> DEFINE K == [k \in 0..m |-> IF k = m THEN 0 ELSE k]
             D == [k \in 0..m |-> IF k = 0 THEN Chunk ELSE 0]
  <1>9. /\ \A k \in 0..m : K[k] \in Lines /\ D[k] \in Nat
        /\ K[0] = 0 /\ D[0] = Chunk /\ K[m] = 0 /\ D[m] = 0
        /\ \A k \in 1..m : k # m => K[k] = k /\ D[k] = 0
    BY <1>1, <1>5, <1>8
  <1>10. \A k \in Lines : \A i \in 1..Len(Line(k)) : Len(Line(k)) \in Nat
    BY Types DEF IInv
  <1> HIDE DEF K, D
  <1>11. ASSUME NEW k \in 0..m, NEW i \in 1..Len(Line(k)')
         PROVE  i + D[k] \in 1..Len(Line(K[k])) /\ Line(k)'[i] = Line(K[k])[i + D[k]]
    <2>1. CASE k = 0
      <3>1. i \in 1..Len(wire') /\ K[k] = 0 /\ D[k] = Chunk
        BY <1>8, <1>9, <1>11, <2>1
      <3>2. i + Chunk \in 1..Len(wire) /\ wire'[i] = wire[i + Chunk]
        <4>1. i \in 1..Len(wire) - Chunk /\ Len(wire) \in Nat /\ Chunk \in Nat
          BY <1>1, <1>3, <3>1
        <4>2. wire'[i] = wire[i + Chunk]
          BY <1>3, <4>1
        <4> QED
          BY <4>1, <4>2
      <3>3. Line(k)' = wire'
        BY <1>8, <2>1
      <3>4. Line(K[k]) = wire
        BY <1>8, <3>1
      <3> QED
        BY <3>1, <3>2, <3>3, <3>4
    <2>2. CASE k = m
      BY <1>1, <1>3, <1>8, <1>9, <1>11, <2>2
    <2>3. CASE k # 0 /\ k # m
      BY <1>5, <1>8, <1>9, <1>10, <1>11, <2>3
    <2> QED
      BY <2>1, <2>2, <2>3
  <1>12. ASSUME NEW k \in 0..m, NEW l \in 0..m, NEW i \in 1..Len(Line(k)'), NEW j \in 1..Len(Line(l)'),
                K[k] = K[l], i + D[k] = j + D[l]
         PROVE  k = l
    <2>1. CASE k = 0 /\ l = m
      BY <1>1, <1>3, <1>8, <1>9, <1>12, <2>1
    <2>2. CASE k = m /\ l = 0
      BY <1>1, <1>3, <1>8, <1>9, <1>12, <2>2
    <2>3. CASE ~(k = 0 /\ l = m) /\ ~(k = m /\ l = 0)
      BY <1>5, <1>9, <1>12, <2>3
    <2> QED
      BY <2>1, <2>2, <2>3
  <1>13. Once' /\ InOrder' /\ Coming' \subseteq Coming
    <2>1. Ranges /\ Once /\ InOrder
      BY DEF IInv
    <2>2. Part(K, D)
      BY <1>8, <1>9, <1>11, <1>12 DEF Part
    <2> QED
      BY <1>7, <2>1, <2>2, Parts
  <1>14. Coming \subseteq Coming'
    <2> SUFFICES ASSUME NEW e \in Event, NEW k \in Lines, NEW i \in 1..Len(Line(k)), Line(k)[i] = e
                 PROVE  \E l \in Lines' : \E j \in 1..Len(Line(l)') : Line(l)'[j] = e
      BY DEF Coming
    <2>1. CASE k = 0 /\ i \in 1..Chunk
      BY <1>3, <1>5, <1>8, <2>1
    <2>2. CASE k = 0 /\ i \notin 1..Chunk
      <3>1. i - Chunk \in 1..Len(wire') /\ wire'[i - Chunk] = e
        BY <1>1, <1>3, <1>8, <2>2
      <3> QED
        BY <1>5, <1>8, <3>1
    <2>3. CASE k # 0
      <3>1. k \in 1..m /\ k # m
        BY <1>5, <1>6, <2>3 DEF Lines, Line
      <3> QED
        BY <1>8, <3>1
    <2> QED
      BY <2>1, <2>2, <2>3
  <1>15. Followed(wire)'
    <2>1. live' = live
      BY DEF Read, server
    <2> SUFFICES ASSUME NEW i \in 1..Len(wire'), wire'[i].obj \notin live
                 PROVE  \E j \in 1..Len(wire') : i < j /\ wire'[j].ev = "delete_id"
                                                 /\ wire'[j].arg = wire'[i].obj
      BY <2>1 DEF Followed
    <2> DEFINE h == i + Chunk
    <2>2. h \in 1..Len(wire) /\ wire'[i] = wire[h]
      BY <1>1, <1>3
    <2> HIDE DEF h
    <2>3. PICK j \in 1..Len(wire) : /\ h < j /\ wire[j].ev = "delete_id"
                                    /\ wire[j].arg = wire[h].obj
      BY <2>2 DEF IInv, Followed
    <2> DEFINE k == j - Chunk
    <2>4. k \in 1..Len(wire') /\ i < k /\ j = k + Chunk
      BY <1>1, <1>3, <2>3 DEF h
    <2>5. wire'[k] = wire[j]
      BY <1>3, <2>4
    <2> HIDE DEF k
    <2> QED
      BY <2>2, <2>3, <2>4, <2>5
  <1> QED
    BY <1>3, <1>5, <1>13, <1>14, <1>15

(* Calls come and go with nothing to dispatch; with the daemon they all go. *)
LEMMA Unmoved ==
  ASSUME Ranges, Ranges', Once, InOrder,
         \A k \in Lines' : (k \in Lines /\ Line(k)' = Line(k)) \/ Line(k)' = <<>>
  PROVE  /\ Once' /\ InOrder' /\ Coming' \subseteq Coming
         /\ (\A k \in Lines : (k \in Lines' /\ Line(k)' = Line(k)) \/ Line(k) = <<>>)
               => Coming' = Coming
  <1>1. \A k \in Lines' : \A i \in 1..Len(Line(k)') : k \in Lines /\ Line(k)' = Line(k)
    BY EmptySeq
  <1>2. \A k \in Lines : \A i \in 1..Len(Line(k)) : Line(k) # <<>>
    BY EmptySeq
  <1>3. Once'
    BY <1>1 DEF Once
  <1>4. InOrder'
    BY <1>1 DEF InOrder, Before
  <1>5. Coming' \subseteq Coming
    BY <1>1 DEF Coming
  <1>6. ASSUME \A k \in Lines : (k \in Lines' /\ Line(k)' = Line(k)) \/ Line(k) = <<>>
        PROVE  Coming' = Coming
    <2>1. Coming \subseteq Coming'
      BY <1>2, <1>6 DEF Coming
    <2> QED
      BY <1>5, <2>1
  <1> QED
    BY <1>3, <1>4, <1>5, <1>6

(* An event is dispatched.                                                 *)
LEMMA ConsumeFlow ==
  ASSUME IInv, Ranges', stack # <<>>, Top.batch # <<>>, UNCHANGED <<wire, live>>,
         NEW c \in Calls, c.batch = Tail(Top.batch), stack' = Append(Below, c),
         NEW e, e = Head(Top.batch)
  PROVE  /\ Once' /\ InOrder' /\ Followed(wire)'
         /\ e \in Coming /\ Coming' \subseteq Coming
         /\ \A x \in Coming : x # e => x \in Coming'
         /\ Single(e) => e \notin Coming'
  <1>1. Ranges /\ Once /\ InOrder /\ Followed(wire)
    BY DEF IInv
  <1>m. PICK m \in Nat : m = Len(stack)
    BY <1>1, Types
  <1>2. /\ m \in Nat \ {0} /\ m \in Lines /\ Line(m) = Top.batch /\ Line(m) \in Seq(Event)
        /\ Line(m) # <<>>
    BY <1>1, <1>m, TopAndBelow, Types
  <1>3. /\ Len(stack') = m
        /\ \A k \in 1..m : stack'[k] = IF k = m THEN c ELSE stack[k]
    BY <1>1, <1>m, OnTop
  <1>4. /\ Lines' = 0..m /\ Lines = 0..m /\ Line(m)' = Tail(Line(m))
        /\ \A k \in 0..m : k # m => Line(k)' = Line(k)
    BY <1>2, <1>3, <1>m DEF Lines, Line
  <1>5. /\ Len(Line(m)) \in Nat \ {0} /\ Len(Line(m)') = Len(Line(m)) - 1
        /\ \A i \in 1..Len(Line(m)) - 1 : Line(m)'[i] = Line(m)[i + 1]
    BY <1>2, <1>4, EmptySeq, HeadTailProperties
  <1>6. e \in Event /\ e = Line(m)[1] /\ 1 \in 1..Len(Line(m))
    BY <1>2, <1>5
  <1> DEFINE K == [k \in 0..m |-> k]
             D == [k \in 0..m |-> IF k = m THEN 1 ELSE 0]
  <1>7. /\ \A k \in 0..m : K[k] = k /\ D[k] \in Nat
        /\ D[m] = 1 /\ \A k \in 0..m : k # m => D[k] = 0
    BY <1>2
  <1> HIDE DEF K, D
  <1>8. \A k \in Lines : Len(Line(k)) \in Nat
    BY <1>1, Types
  <1>9. ASSUME NEW k \in 0..m, NEW i \in 1..Len(Line(k)')
        PROVE  i + D[k] \in 1..Len(Line(k)) /\ Line(k)'[i] = Line(k)[i + D[k]]
    <2>1. CASE k = m
      <3>1. i \in 1..Len(Line(m)) - 1 /\ D[k] = 1
        BY <1>5, <1>7, <1>9, <2>1
      <3> QED
        BY <1>5, <2>1, <3>1
    <2>2. CASE k # m
      BY <1>4, <1>7, <1>8, <1>9, <2>2
    <2> QED
      BY <2>1, <2>2
  <1>10. Once' /\ InOrder' /\ Coming' \subseteq Coming
    <2>1. Part(K, D)
      BY <1>4, <1>7, <1>9 DEF Part
    <2> QED
      BY <1>1, <2>1, Parts
  <1>11. e \in Coming
    BY <1>2, <1>6 DEF Coming
  <1>12. ASSUME NEW x \in Coming, x # e PROVE x \in Coming'
    <2>1. PICK k \in Lines : \E i \in 1..Len(Line(k)) : Line(k)[i] = x
      BY <1>12 DEF Coming
    <2>2. PICK i \in 1..Len(Line(k)) : Line(k)[i] = x
      BY <2>1
    <2>3. CASE k = m
      <3>1. i # 1 /\ i \in 1..Len(Line(m)) /\ Line(m)[i] = x
        BY <1>6, <1>12, <2>2, <2>3
      <3>2. i - 1 \in 1..Len(Line(m)') /\ Line(m)'[i - 1] = x
        <4>1. i - 1 \in 1..Len(Line(m)) - 1 /\ (i - 1) + 1 = i
          BY <1>5, <3>1
        <4> QED
          BY <1>5, <3>1, <4>1
      <3> QED
        BY <1>2, <1>4, <1>12, <3>2 DEF Coming
    <2>4. CASE k # m
      BY <1>4, <1>12, <2>2, <2>4 DEF Coming
    <2> QED
      BY <2>3, <2>4
  <1>13. ASSUME Single(e), e \in Coming' PROVE FALSE
    <2>1. PICK k \in 0..m : \E i \in 1..Len(Line(k)') : Line(k)'[i] = e
      BY <1>4, <1>13 DEF Coming
    <2>2. PICK i \in 1..Len(Line(k)') : Line(k)'[i] = e
      BY <2>1
    <2> DEFINE a == i + D[k]
    <2>3. a \in 1..Len(Line(k)) /\ Line(k)[a] = e
      BY <1>9, <2>2
    <2> HIDE DEF a
    <2>4. k = m /\ a = 1
      BY <1>1, <1>4, <1>6, <1>13, <2>3 DEF Once
    <2> QED
      BY <1>5, <1>7, <2>4 DEF a
  <1> QED
    BY <1>1, <1>10, <1>11, <1>12, <1>13 DEF Followed

-----------------------------------------------------------------------------
(* The steps of the daemon                                                 *)

\* The rest of the invariant, once it is known what is on its way.
LEMMA SameWay ==
  ASSUME IInv, Ranges', Once', InOrder', Followed(wire)', Fresh', Coming' \subseteq Coming,
         UNCHANGED <<objects, bound, reqs, server>>,
         phase' # "dead" =>
            /\ phase # "dead" /\ (phase = "connect" => phase' = "connect")
            /\ \A e \in Coming : e.ev = "global" => e \in Coming'
  PROVE  IInv'
  <1>1. UNCHANGED <<objs, kind, surface, bound, reqs, live, announced>>
    BY DEF objects, server
  <1>2. Pending' = Pending /\ Condemned' = Condemned
    BY <1>1 DEF Pending, Condemned, Makes, Breaks
  <1>3. Agreed'
    <2>1. Owned'
      BY <1>1, <1>2 DEF IInv, Agreed, Owned, Makes
    <2>2. Doomed'
      BY <1>1 DEF IInv, Agreed, Doomed, Makes, Breaks
    <2>3. Paired'
      BY <1>1, <1>2 DEF IInv, Agreed, Paired, There
    <2> QED
      BY <2>1, <2>2, <2>3 DEF Agreed
  <1>4. AllTrue'
    BY <1>1, <1>2 DEF IInv, AllTrue, Holds
  <1>5. Bound'
    BY <1>1 DEF IInv, Bound
  <1>6. Reached'
    BY <1>1, <1>2 DEF IInv, Reached
  <1> QED
    BY <1>3, <1>4, <1>5, <1>6 DEF IInv

LEMMA DeadInv ==
  ASSUME IInv, Dead
  PROVE  IInv'
  <1>1. Ranges'
    BY EmptySeq DEF IInv, Ranges, Dead, server, objects
  <1>2. Lines' = {0} /\ Line(0)' = Line(0) /\ 0 \in Lines /\ wire' = wire /\ live' = live
    BY Types, EmptySeq DEF IInv, Dead, Lines, Line, server
  <1>3. Once' /\ InOrder' /\ Coming' \subseteq Coming
    BY <1>1, <1>2, Unmoved DEF IInv
  <1>4. Followed(wire)' /\ Fresh'
    BY <1>2 DEF IInv, Followed, Fresh, Dead
  <1> QED
    BY <1>1, <1>3, <1>4, SameWay DEF Dead

\* Ids that may be asked for, and what it is to have asked for them.
Free(asked) ==
    /\ asked \in Seq(Requests)
    /\ \A k \in 1..Len(asked) :
          /\ asked[k].req # "destroy" /\ asked[k].id \notin objs
          /\ asked[k].req = "registry" <=> asked[k].id = Registry
    /\ \A k, l \in 1..Len(asked) : asked[k].id = asked[l].id => k = l

Grown(asked) ==
    /\ objs \subseteq objs' /\ objs' \subseteq Ids /\ kind' \in [Ids -> Kinds]
    /\ \A x \in objs : kind'[x] = kind[x]
    /\ \A k \in 1..Len(asked) : kind'[asked[k].id] = asked[k].req /\ There(asked[k].id)'
    /\ \A x \in Ids : There(x) => There(x)'
    /\ \A x \in live \cup Pending : x \in (live \cup Pending)'
    /\ \A k \in 1..Len(asked) : asked[k].id \in Pending'

LEMMA Growth ==
  ASSUME IInv, NEW asked, Free(asked), Create(asked), UNCHANGED <<live, bound, announced>>
  PROVE  /\ reqs' \in Seq(Requests) /\ Grown(asked)
         /\ Owned' /\ Doomed'
         /\ \A e \in Event : Holds(e) => Holds(e)'
  <1> DEFINE n == Len(reqs)
             m == Len(asked)
  <1>1. /\ reqs \in Seq(Requests) /\ asked \in Seq(Requests) /\ n \in Nat /\ m \in Nat
        /\ DOMAIN asked = 1..m
        /\ \A k \in 1..m : asked[k] \in Requests
        /\ reqs' = reqs \o asked
    BY Types, LenProperties DEF IInv, Ranges, Free, Create
  <1>2. /\ reqs' \in Seq(Requests) /\ Len(reqs') = n + m
        /\ \A i \in 1..n + m : reqs'[i] = IF i <= n THEN reqs[i] ELSE asked[i - n]
    BY <1>1, ConcatProperties
  <1>3. /\ \A i \in 1..n : i \in 1..Len(reqs') /\ reqs'[i] = reqs[i]
        /\ \A i \in 1..Len(reqs') : i \in 1..n \/ (i - n \in 1..m /\ reqs'[i] = asked[i - n])
        /\ \A k \in 1..m : n + k \in 1..Len(reqs') /\ reqs'[n + k] = asked[k] /\ n + k \notin 1..n
    <2>1. \A i \in 1..n : i \in 1..Len(reqs') /\ reqs'[i] = reqs[i]
      BY <1>1, <1>2
    <2>2. ASSUME NEW i \in 1..Len(reqs'), i \notin 1..n
          PROVE  i - n \in 1..m /\ reqs'[i] = asked[i - n]
      BY <1>1, <1>2, <2>2
    <2>3. ASSUME NEW k \in 1..m
          PROVE  n + k \in 1..Len(reqs') /\ reqs'[n + k] = asked[k] /\ n + k \notin 1..n
      <3>1. n + k \in 1..n + m /\ ~(n + k <= n) /\ (n + k) - n = k
        BY <1>1, <2>3
      <3> QED
        BY <1>2, <3>1
    <2> QED
      BY <2>1, <2>2, <2>3
  <1>4. /\ \A k \in 1..m : /\ asked[k].req # "destroy" /\ asked[k].id \in Ids \ objs
                           /\ asked[k].req \in Kinds
                           /\ asked[k].req = "registry" <=> asked[k].id = Registry
        /\ \A k, l \in 1..m : asked[k].id = asked[l].id => k = l
    <2>1. \A k \in 1..m : asked[k].id \in Ids /\ (asked[k].req = "destroy" \/ asked[k].req \in Kinds)
      BY <1>1 DEF Requests, Kinds
    <2> QED
      BY <2>1 DEF Free
  <1>5. Named(asked) = {asked[k].id : k \in 1..m}
    BY <1>1 DEF Named
  <1>n. n = Len(reqs)
    OBVIOUS
  <1> HIDE DEF n, m
  <1>6. objs' = objs \cup Named(asked) /\ objs' \subseteq Ids
    BY <1>4, <1>5 DEF Create, IInv, Ranges
  <1>7. \A k \in 1..m : kind'[asked[k].id] = asked[k].req
    <2> SUFFICES ASSUME NEW k \in 1..m PROVE kind'[asked[k].id] = asked[k].req
      OBVIOUS
    <2> DEFINE x == asked[k].id
    <2>1. x \in Ids /\ x \in Named(asked)
      BY <1>4, <1>5
    <2>2. \E r \in ToSet(asked) : r.id = x
      BY <1>1 DEF ToSet
    <2> DEFINE q == CHOOSE r \in ToSet(asked) : r.id = x
    <2>3. q \in ToSet(asked) /\ q.id = x
      BY <2>2
    <2>4. PICK l \in 1..m : q = asked[l]
      BY <1>1, <2>3 DEF ToSet
    <2>5. l = k
      BY <1>4, <2>3, <2>4
    <2>6. kind'[x] = q.req
      BY <2>1 DEF Create
    <2> QED
      BY <2>4, <2>5, <2>6
  <1>8. /\ \A x \in Ids : x \notin Named(asked) => kind'[x] = kind[x]
        /\ DOMAIN kind' = Ids /\ kind' = [x \in Ids |-> kind'[x]]
    BY DEF Create
  <1>9. \A x \in objs : x \notin Named(asked) /\ kind'[x] = kind[x]
    BY <1>4, <1>5, <1>8 DEF IInv, Ranges
  <1>10. kind' \in [Ids -> Kinds]
    <2>1. \A x \in Ids : kind'[x] \in Kinds
      <3> SUFFICES ASSUME NEW x \in Ids PROVE kind'[x] \in Kinds
        OBVIOUS
      <3>1. CASE x \in Named(asked)
        BY <1>4, <1>5, <1>7, <3>1
      <3>2. CASE x \notin Named(asked)
        BY <1>8, <3>2 DEF IInv, Ranges
      <3> QED
        BY <3>1, <3>2
    <2> QED
      BY <1>8, <2>1
  <1>11. /\ \A i \in 1..n : (Makes(i)' <=> Makes(i)) /\ (Breaks(i)' <=> Breaks(i))
         /\ \A i \in 1..Len(reqs') : i \notin 1..n => Makes(i)' /\ ~Breaks(i)'
    <2>1. \A i \in 1..n : (Makes(i)' <=> Makes(i)) /\ (Breaks(i)' <=> Breaks(i))
      BY <1>3, <1>n DEF Makes, Breaks
    <2>2. \A i \in 1..Len(reqs') : i \notin 1..n => reqs'[i].req # "destroy"
      BY <1>3, <1>4
    <2> QED
      BY <2>1, <2>2 DEF Makes, Breaks
  <1>12. Condemned' = Condemned
    <2>1. \A x \in Condemned' : x \in Condemned
      BY <1>3, <1>11, <1>n DEF Condemned, Breaks
    <2>2. \A x \in Condemned : x \in Condemned'
      BY <1>3, <1>11, <1>n DEF Condemned, Breaks
    <2> QED
      BY <2>1, <2>2
  <1>13. Pending' = Pending \cup Named(asked)
    <2>1. ASSUME NEW x \in Pending' PROVE x \in Pending \cup Named(asked)
      <3>1. PICK i \in 1..Len(reqs') : Makes(i)' /\ reqs'[i].id = x
        BY <2>1 DEF Pending
      <3>2. CASE i \in 1..n
        BY <1>3, <1>11, <1>n, <2>1, <3>1, <3>2 DEF Pending
      <3>3. CASE i \notin 1..n
        BY <1>3, <1>5, <3>1, <3>3
      <3> QED
        BY <3>2, <3>3
    <2>2. \A x \in Pending : x \in Pending'
      BY <1>3, <1>11, <1>n DEF Pending, Makes
    <2>3. ASSUME NEW k \in 1..m PROVE asked[k].id \in Pending'
      <3>1. PICK i \in 1..Len(reqs') : reqs'[i].id = asked[k].id /\ i \notin 1..n
        BY <1>3
      <3>2. Makes(i)' /\ asked[k].id \in Ids
        BY <1>4, <1>11, <3>1
      <3> QED
        BY <3>1, <3>2 DEF Pending
    <2> QED
      BY <1>5, <2>1, <2>2, <2>3
  <1>14. /\ Display \in live /\ live \subseteq objs /\ Pending \subseteq objs \ live /\ live' = live
         /\ Condemned \subseteq objs
    <2>1. /\ Display \in live /\ live \subseteq objs /\ Pending \subseteq objs \ live
      BY DEF IInv, Agreed, Owned
    <2>2. ASSUME NEW x \in Condemned PROVE x \in objs
      <3>1. PICK i \in 1..Len(reqs) : Breaks(i) /\ reqs[i].id = x
        BY <2>2 DEF Condemned
      <3>2. \/ x \in live
            \/ \E j \in 1..Len(reqs) : Makes(j) /\ reqs[j].id = x
        BY <3>1 DEF IInv, Agreed, Doomed
      <3>3. x \in Ids
        BY <2>2 DEF Condemned
      <3>4. x \in live \/ x \in Pending
        BY <3>2, <3>3 DEF Pending
      <3> QED
        BY <2>1, <3>4
    <2> QED
      BY <2>1, <2>2
  <1>15. Named(asked) \subseteq Ids \ objs
    BY <1>4, <1>5
  <1>16. Grown(asked)
    <2>1. \A k \in 1..m : There(asked[k].id)'
      BY <1>5, <1>12, <1>13, <1>14, <1>15 DEF There
    <2>2. \A x \in Ids : There(x) => There(x)'
      BY <1>12, <1>13, <1>14 DEF There
    <2>3. /\ \A x \in live \cup Pending : x \in live' \cup Pending'
          /\ \A k \in 1..m : asked[k].id \in Pending'
      BY <1>5, <1>13, <1>14
    <2> QED
      BY <1>6, <1>7, <1>9, <1>10, <2>1, <2>2, <2>3 DEF Grown, m
  <1>17. Owned'
    <2>1. /\ \A i, j \in 1..n : Makes(i) /\ Makes(j) /\ reqs[i].id = reqs[j].id => i = j
          /\ \A i \in 1..n : Makes(i) => kind[reqs[i].id] = reqs[i].req
          /\ \A i \in 1..n : Makes(i) => reqs[i].id \in objs
          /\ \A i \in 1..n : reqs[i].req = "registry" => reqs[i].id = Registry
          /\ kind[Display] = "display" /\ Display \in objs
          /\ Registry \in live \cup Pending => kind[Registry] = "registry" /\ Registry \in objs
      <3>1. \A i \in 1..n : Makes(i) => reqs[i].id \in Pending
        <4>1. \A i \in 1..n : reqs[i] \in Requests
          BY <1>1, <1>n
        <4> QED
          BY <1>n, <4>1 DEF Pending, Requests
      <3> QED
        BY <1>14, <1>n, <3>1 DEF IInv, Agreed, Owned
    <2>2. ASSUME NEW i \in 1..Len(reqs'), NEW j \in 1..Len(reqs'), Makes(i)', Makes(j)',
                 reqs'[i].id = reqs'[j].id
          PROVE  i = j
      <3>1. CASE i \in 1..n /\ j \in 1..n
        BY <1>3, <1>11, <2>1, <2>2, <3>1
      <3>2. CASE i \notin 1..n /\ j \notin 1..n
        <4>1. i - n = j - n
          BY <1>3, <1>4, <2>2, <3>2, SMTT(30)
        <4> QED
          BY <1>1, <1>2, <4>1
      <3>3. CASE i \in 1..n /\ j \notin 1..n
        BY <1>3, <1>4, <1>11, <2>1, <2>2, <3>3
      <3>4. CASE i \notin 1..n /\ j \in 1..n
        BY <1>3, <1>4, <1>11, <2>1, <2>2, <3>4
      <3> QED
        BY <3>1, <3>2, <3>3, <3>4
    <2>3. ASSUME NEW i \in 1..Len(reqs'), Makes(i)' PROVE kind'[reqs'[i].id] = reqs'[i].req
      <3>1. CASE i \in 1..n
        BY <1>3, <1>9, <1>11, <2>1, <2>3, <3>1
      <3>2. CASE i \notin 1..n
        BY <1>3, <1>7, <3>2
      <3> QED
        BY <3>1, <3>2
    <2>4. \A i \in 1..Len(reqs') : reqs'[i].req = "registry" => reqs'[i].id = Registry
      BY <1>3, <1>4, <2>1, SMTT(30)
    <2>5. Pending' \subseteq objs' \ live'
      BY <1>6, <1>13, <1>14, <1>15
    <2>6. /\ Display \in live' /\ live' \subseteq objs' /\ kind'[Display] = "display"
      BY <1>6, <1>9, <1>14, <2>1
    <2>7. Registry \in live' \cup Pending' => kind'[Registry] = "registry"
      <3>1. CASE Registry \in live \cup Pending
        BY <1>9, <2>1, <3>1
      <3>2. CASE Registry \in Named(asked)
        BY <1>4, <1>5, <1>7, <3>2
      <3> QED
        BY <1>13, <1>14, <3>1, <3>2
    <2> QED
      BY <2>2, <2>3, <2>4, <2>5, <2>6, <2>7 DEF Owned
  <1>18. Doomed'
    <2>1. \A i \in 1..Len(reqs') : Breaks(i)' => i \in 1..n /\ Breaks(i)
      BY <1>11
    <2>2. /\ \A i, j \in 1..n : Breaks(i) /\ Breaks(j) /\ reqs[i].id = reqs[j].id => i = j
          /\ \A i \in 1..n : Breaks(i) =>
                /\ kind[reqs[i].id] \in {"surface", "layer"}
                /\ reqs[i].id \in objs
                /\ \/ reqs[i].id \in live
                   \/ \E j \in 1..n : Makes(j) /\ j < i /\ reqs[j].id = reqs[i].id
      <3>1. \A i \in 1..n : Breaks(i) => reqs[i].id \in Condemned
        <4>1. \A i \in 1..n : reqs[i] \in Requests
          BY <1>1, <1>n
        <4> QED
          BY <1>n, <4>1 DEF Condemned, Requests
      <3> QED
        BY <1>14, <1>n, <3>1 DEF IInv, Agreed, Doomed
    <2>3. ASSUME NEW i \in 1..Len(reqs'), Breaks(i)'
          PROVE  /\ kind'[reqs'[i].id] \in {"surface", "layer"}
                 /\ \/ reqs'[i].id \in live'
                    \/ \E j \in 1..Len(reqs') : Makes(j)' /\ j < i /\ reqs'[j].id = reqs'[i].id
      <3>1. i \in 1..n /\ Breaks(i) /\ reqs'[i] = reqs[i]
        BY <1>3, <2>1, <2>3
      <3>2. kind'[reqs'[i].id] \in {"surface", "layer"}
        BY <1>9, <2>2, <3>1
      <3>3. CASE reqs[i].id \in live
        BY <1>14, <3>1, <3>2, <3>3
      <3>4. CASE reqs[i].id \notin live
        <4>1. PICK j \in 1..n : Makes(j) /\ j < i /\ reqs[j].id = reqs[i].id
          BY <2>2, <3>1, <3>4
        <4>2. j \in 1..Len(reqs') /\ Makes(j)' /\ reqs'[j].id = reqs'[i].id
          BY <1>3, <1>11, <3>1, <4>1
        <4> QED
          BY <3>2, <4>1, <4>2
      <3> QED
        BY <3>3, <3>4
    <2>4. ASSUME NEW i \in 1..Len(reqs'), NEW j \in 1..Len(reqs'), Breaks(i)', Breaks(j)',
                 reqs'[i].id = reqs'[j].id
          PROVE  i = j
      BY <1>3, <2>1, <2>2, <2>4
    <2> QED
      BY <2>3, <2>4 DEF Doomed
  <1>19. \A e \in Event : Holds(e) => Holds(e)'
    <2>1. \A x \in live : kind'[x] = kind[x]
      BY <1>9, <1>14
    <2> QED
      BY <1>6, <1>13, <1>14, <1>15, <2>1 DEF Holds
  <1> QED
    BY <1>2, <1>16, <1>17, <1>18, <1>19

\* Layer surfaces stay what they were while others are asked for.
LEMMA StillPaired ==
  ASSUME IInv, NEW asked, Grown(asked), surface' = surface
  PROVE  Paired'
  <1>1. \A x \in Ids : There(x) => There(x)' /\ kind'[x] = kind[x]
    <2>1. \A x \in Ids : There(x) => x \in objs
      BY DEF IInv, Agreed, Owned, There
    <2> QED
      BY <2>1 DEF Grown
  <1>2. \A l \in Ids : surface[l] # 0 => surface[l] \in Ids
    BY DEF IInv, Ranges
  <1> QED
    BY <1>1, <1>2 DEF IInv, Agreed, Paired

\* xdwl_roundtrip() is called.
LEMMA RoundtripInv ==
  ASSUME IInv, Fresh', phase' # "dead", phase # "dead",
         phase' \in {"connect", "bind", "restore", "loop", "dead"},
         surface' \in [Ids -> Ids \cup {0}],
         UNCHANGED <<bound, wire, server>>,
         NEW below \in Seq(Calls), Len(below) = Len(stack),
         \A k \in 1..Len(below) : below[k].batch = stack[k].batch,
         NEW asked, Free(asked), Roundtrip(below, asked),
         Registry \in objs \cup Named(asked), phase = "connect" => Registry \in Named(asked)
  PROVE  Grown(asked) /\ (Paired' => IInv')
  <1>1. PICK cb \in Ids :
           /\ Lowest(cb, objs \cup Named(asked))
           /\ Create(Append(asked, New("callback", cb)))
           /\ stack' = Append(below, Waiting(cb))
    BY DEF Roundtrip
  <1> DEFINE r == New("callback", cb)
             all == Append(asked, r)
             n == Len(asked)
  <1>2. r \in Requests /\ r.req = "callback" /\ r.id = cb
    BY DEF New, Requests, Created
  <1> HIDE DEF r
  <1>3. /\ asked \in Seq(Requests) /\ n \in Nat /\ all \in Seq(Requests) /\ Len(all) = n + 1
        /\ \A k \in 1..n : all[k] = asked[k]
        /\ all[n + 1] = r
    BY <1>2, AppendProperties DEF Free
  <1> HIDE DEF all, n
  <1>4. \A k \in 1..Len(all) : k \in 1..n \/ k = n + 1
    BY <1>3
  <1>5. cb \notin objs /\ cb # Registry /\ \A k \in 1..n : asked[k].id # cb
    <2>1. DOMAIN asked = 1..n
      BY <1>3, LenProperties DEF n
    <2> QED
      BY <1>1, <2>1 DEF Lowest, Named
  <1>6. Free(all)
    <2>1. /\ \A k \in 1..n : /\ asked[k].req # "destroy" /\ asked[k].id \notin objs
                             /\ asked[k].req = "registry" <=> asked[k].id = Registry
          /\ \A k, l \in 1..n : asked[k].id = asked[l].id => k = l
      BY DEF Free, n
    <2>2. ASSUME NEW k \in 1..Len(all)
          PROVE  /\ all[k].req # "destroy" /\ all[k].id \notin objs
                 /\ all[k].req = "registry" <=> all[k].id = Registry
      BY <1>2, <1>3, <1>4, <1>5, <2>1
    <2>3. ASSUME NEW k \in 1..Len(all), NEW l \in 1..Len(all), all[k].id = all[l].id
          PROVE  k = l
      <3>1. CASE k \in 1..n /\ l \in 1..n
        BY <1>3, <2>1, <2>3, <3>1
      <3>2. CASE ~(k \in 1..n /\ l \in 1..n)
        BY <1>2, <1>3, <1>4, <1>5, <2>3, <3>2
      <3> QED
        BY <3>1, <3>2
    <2> QED
      BY <1>3, <2>2, <2>3 DEF Free
  <1>7. Create(all) /\ UNCHANGED <<live, bound, announced>>
    BY <1>1 DEF all, r, server
  <1>8. /\ reqs' \in Seq(Requests) /\ Grown(all)
        /\ Owned' /\ Doomed'
        /\ \A e \in Event : Holds(e) => Holds(e)'
    BY <1>6, <1>7, Growth
  <1>9. Grown(asked)
    <2>1. \A k \in 1..n : k \in 1..Len(all) /\ all[k] = asked[k]
      BY <1>3
    <2> QED
      BY <1>8, <2>1 DEF Grown, n
  <1>10. Waiting(cb) \in Calls /\ Waiting(cb).batch = <<>>
    BY EmptySeq DEF Waiting, Calls
  <1>11. /\ stack' \in Seq(Calls) /\ Len(stack') = Len(stack) + 1 /\ Len(stack) \in Nat
         /\ \A k \in 1..Len(stack) : stack'[k].batch = stack[k].batch
         /\ stack'[Len(stack) + 1].batch = <<>>
    <2>1. Len(stack) \in Nat
      BY Types DEF IInv
    <2>2. /\ Append(below, Waiting(cb)) \in Seq(Calls)
          /\ Len(Append(below, Waiting(cb))) = Len(below) + 1
          /\ \A i \in 1..Len(below) : Append(below, Waiting(cb))[i] = below[i]
          /\ Append(below, Waiting(cb))[Len(below) + 1] = Waiting(cb)
      BY <1>10, AppendProperties
    <2> QED
      BY <1>1, <1>10, <2>1, <2>2
  <1>12. Ranges'
    <2>1. UNCHANGED <<bound, wire, live, announced, pace>>
      BY DEF server
    <2>2. objs' \subseteq Ids /\ kind' \in [Ids -> Kinds]
      BY <1>8 DEF Grown
    <2> QED
      BY <1>8, <1>11, <2>1, <2>2 DEF IInv, Ranges
  <1>13. PICK m \in Nat : m = Len(stack)
    BY <1>11
  <1>14. /\ Lines = 0..m /\ Lines' = 0..m + 1
         /\ \A k \in 0..m : Line(k)' = Line(k)
         /\ Line(m + 1)' = <<>>
    BY <1>11, <1>13 DEF Lines, Line
  <1>15. Once' /\ InOrder' /\ Coming' = Coming
    <2>1. \A k \in Lines' : (k \in Lines /\ Line(k)' = Line(k)) \/ Line(k)' = <<>>
      BY <1>14
    <2>2. \A k \in Lines : k \in Lines' /\ Line(k)' = Line(k)
      BY <1>14
    <2> QED
      BY <1>12, <2>1, <2>2, Unmoved DEF IInv
  <1>16. Followed(wire)'
    BY DEF IInv, Followed, server
  <1>17. AllTrue'
    BY <1>8, <1>15 DEF IInv, AllTrue, Coming
  <1>18. Bound'
    BY <1>15 DEF IInv, Bound, server
  <1>19. Reached'
    <2>1. Registry \in Named(asked) => Registry \in Pending'
      <3>1. DOMAIN asked = 1..n
        BY <1>3, LenProperties DEF n
      <3> QED
        BY <1>9, <3>1 DEF Grown, Named, n
    <2>2. Registry \in live \cup Pending => Registry \in live' \cup Pending'
      BY <1>9 DEF Grown
    <2> QED
      BY <2>1, <2>2 DEF IInv, Reached
  <1> QED
    BY <1>8, <1>9, <1>12, <1>15, <1>16, <1>17, <1>18, <1>19 DEF IInv, Agreed

LEMMA BeginInv ==
  ASSUME IInv, Begin
  PROVE  IInv'
  <1>1. stack = <<>> /\ objs = {Display} /\ phase' = "bind" /\ phase # "dead"
    BY DEF IInv, Fresh, Begin
  <1>2. PICK id \in Ids : Lowest(id, objs) /\ Roundtrip(<<>>, <<New("registry", id)>>)
    BY DEF Begin
  <1>3. id = Registry
    <2>1. id # Display /\ \A i \in Ids \ {Display} : id <= i
      BY <1>1, <1>2 DEF Lowest
    <2>2. MaxId \in Nat
      BY EventLoopAssumption
    <2> QED
      BY <2>1, <2>2 DEF Ids, Display, Registry
  <1>b. PICK below \in Seq(Calls) : below = <<>>
    BY EmptySeq
  <1>4. /\ Roundtrip(below, <<New("registry", id)>>)
        /\ Len(below) = Len(stack) /\ \A k \in 1..Len(below) : below[k].batch = stack[k].batch
    BY <1>1, <1>2, <1>b, EmptySeq
  <1> DEFINE asked == <<New("registry", id)>>
  <1>5. Free(asked)
    BY <1>2, <1>3 DEF Free, New, Requests, Created, Lowest
  <1>a. Registry \in Named(asked)
    BY <1>3 DEF Named, New
  <1>6. Fresh' /\ surface' = surface /\ surface' \in [Ids -> Ids \cup {0}]
    BY <1>1 DEF Fresh, Begin, IInv, Ranges
  <1> HIDE DEF asked
  <1>7. Grown(asked) /\ (Paired' => IInv')
    BY <1>1, <1>4, <1>5, <1>6, <1>a, RoundtripInv DEF Begin, asked
  <1> QED
    BY <1>6, <1>7, StillPaired

\* The top call leaves the step of its handler behind.
LEMMA Onward ==
  ASSUME IInv, NEW step, Doing(step)
  PROVE  /\ Rest \in Seq(Calls) /\ Len(Rest) = Len(stack)
         /\ \A k \in 1..Len(Rest) : Rest[k].batch = stack[k].batch
         /\ phase \notin {"connect", "dead"} /\ stack # <<>> /\ Registry \in objs
  <1> DEFINE c == [Top EXCEPT !.todo = Tail(@)]
  <1>1. Ranges /\ stack # <<>> /\ Top.todo # <<>>
    BY DEF IInv, Doing
  <1>2. Top \in Calls /\ Top = stack[Len(stack)]
    BY <1>1, TopAndBelow
  <1>3. c \in Calls /\ c.batch = Top.batch
    <2>1. Tail(Top.todo) \in Seq(Steps)
      BY <1>1, <1>2 DEF Calls
    <2> QED
      BY <1>2, <2>1 DEF Calls
  <1>4. Rest = Append(Below, c)
    BY DEF Rest
  <1> HIDE DEF c
  <1>5. /\ Rest \in Seq(Calls) /\ Len(Rest) = Len(stack)
        /\ \A i \in 1..Len(stack) : Rest[i] = IF i = Len(stack) THEN c ELSE stack[i]
    BY <1>1, <1>3, <1>4, OnTop
  <1> QED
    BY <1>1, <1>2, <1>3, <1>5 DEF IInv, Fresh, Reached, Agreed, Owned

LEMMA CreateObjectInv ==
  ASSUME IInv, CreateObject
  PROVE  IInv'
  <1>1. PICK id \in Ids : Lowest(id, objs) /\ Roundtrip(Rest, <<New("object", id)>>)
    BY DEF CreateObject
  <1>2. /\ Rest \in Seq(Calls) /\ Len(Rest) = Len(stack)
        /\ \A k \in 1..Len(Rest) : Rest[k].batch = stack[k].batch
        /\ phase \notin {"connect", "dead"} /\ Registry \in objs
    BY Onward DEF CreateObject
  <1> DEFINE asked == <<New("object", id)>>
  <1>3. Free(asked)
    BY <1>1, <1>2 DEF Free, New, Requests, Created, Lowest
  <1> HIDE DEF asked
  <1>4. /\ phase' = phase /\ surface' = surface /\ UNCHANGED <<bound, wire, server>>
        /\ surface' \in [Ids -> Ids \cup {0}]
        /\ phase' \in {"connect", "bind", "restore", "loop", "dead"}
        /\ Fresh'
    BY <1>2 DEF CreateObject, IInv, Ranges, Fresh
  <1>5. Grown(asked) /\ (Paired' => IInv')
    BY <1>1, <1>2, <1>3, <1>4, RoundtripInv DEF asked
  <1> QED
    BY <1>4, <1>5, StillPaired

LEMMA CreateLayerInv ==
  ASSUME IInv, CreateLayer
  PROVE  IInv'
  <1>1. PICK s \in Ids : /\ Lowest(s, objs)
                         /\ \E l \in Ids :
                               /\ Lowest(l, objs \cup {s})
                               /\ Roundtrip(Rest, <<New("surface", s), New("layer", l)>>)
                               /\ surface' = [surface EXCEPT ![l] = s]
    BY DEF CreateLayer
  <1>2. PICK l \in Ids : /\ Lowest(l, objs \cup {s})
                         /\ Roundtrip(Rest, <<New("surface", s), New("layer", l)>>)
                         /\ surface' = [surface EXCEPT ![l] = s]
    BY <1>1
  <1>3. /\ Rest \in Seq(Calls) /\ Len(Rest) = Len(stack)
        /\ \A k \in 1..Len(Rest) : Rest[k].batch = stack[k].batch
        /\ phase \notin {"connect", "dead"} /\ Registry \in objs
    BY Onward DEF CreateLayer
  <1>4. s \notin objs /\ l \notin objs /\ l # s
    BY <1>1, <1>2 DEF Lowest
  <1> DEFINE asked == <<New("surface", s), New("layer", l)>>
  <1>5. /\ Len(asked) = 2 /\ asked \in Seq(Requests)
        /\ asked[1].req = "surface" /\ asked[1].id = s /\ asked[2].req = "layer" /\ asked[2].id = l
    BY DEF New, Requests, Created
  <1>6. Roundtrip(Rest, asked)
    BY <1>2
  <1> HIDE DEF asked
  <1>7. Free(asked)
    BY <1>3, <1>4, <1>5 DEF Free
  <1>8. /\ surface \in [Ids -> Ids \cup {0}] /\ surface' \in [Ids -> Ids \cup {0}]
        /\ surface'[l] = s /\ \A m \in Ids : m # l => surface'[m] = surface[m]
    BY <1>2 DEF IInv, Ranges
  <1>9. /\ phase' = phase /\ UNCHANGED <<bound, wire, server>>
        /\ phase' \in {"connect", "bind", "restore", "loop", "dead"}
        /\ Fresh'
    BY <1>3 DEF CreateLayer, IInv, Ranges, Fresh
  <1>10. Grown(asked) /\ (Paired' => IInv')
    BY <1>3, <1>6, <1>7, <1>8, <1>9, RoundtripInv
  <1>11. \A x \in Ids : There(x) => There(x)' /\ kind'[x] = kind[x] /\ x # s
    <2>1. \A x \in Ids : There(x) => x \in objs
      BY DEF IInv, Agreed, Owned, There
    <2> QED
      BY <1>4, <1>10, <2>1 DEF Grown
  <1>12. kind'[s] = "surface" /\ There(s)' /\ kind'[l] = "layer" /\ There(l)'
    <2>1. 1 \in 1..Len(asked) /\ 2 \in 1..Len(asked)
      BY <1>5
    <2> QED
      BY <1>5, <1>10, <2>1 DEF Grown
  <1>13. /\ \A m \in Ids : surface[m] # 0 =>
              /\ kind[m] = "layer" /\ There(m) /\ surface[m] \in Ids
              /\ kind[surface[m]] = "surface" /\ There(surface[m])
         /\ \A m, k \in Ids : surface[m] # 0 /\ surface[m] = surface[k] => m = k
    BY <1>8 DEF IInv, Agreed, Paired
  <1>14. Paired'
    <2>1. ASSUME NEW m \in Ids, surface'[m] # 0
          PROVE  /\ kind'[m] = "layer" /\ There(m)'
                 /\ \E x \in Ids : surface'[m] = x /\ kind'[x] = "surface" /\ There(x)'
      <3>1. CASE m = l
        BY <1>8, <1>12, <3>1
      <3>2. CASE m # l
        <4>1. surface'[m] = surface[m]
          BY <1>8, <3>2
        <4>2. kind'[m] = "layer" /\ There(m)'
          BY <1>11, <1>13, <2>1, <4>1
        <4>3. \E x \in Ids : surface'[m] = x /\ kind'[x] = "surface" /\ There(x)'
          <5>1. PICK x \in Ids : surface[m] = x /\ kind[x] = "surface" /\ There(x)
            BY <1>13, <2>1, <4>1
          <5> QED
            BY <1>11, <4>1, <5>1
        <4> QED
          BY <4>1, <4>2, <4>3
      <3> QED
        BY <3>1, <3>2
    <2>2. ASSUME NEW m \in Ids, NEW k \in Ids, surface'[m] # 0, surface'[m] = surface'[k]
          PROVE  m = k
      BY <1>8, <1>11, <1>13, <2>2
    <2> QED
      BY <2>1, <2>2 DEF Paired
  <1> QED
    BY <1>10, <1>14

LEMMA DrawSavedInv ==
  ASSUME IInv, DrawSaved
  PROVE  IInv'
  <1>1. /\ Rest \in Seq(Calls) /\ Len(Rest) = Len(stack)
        /\ \A k \in 1..Len(Rest) : Rest[k].batch = stack[k].batch
        /\ phase \notin {"connect", "dead"} /\ Registry \in objs
    BY Onward DEF DrawSaved
  <1>2. /\ phase' = phase /\ surface' = surface /\ UNCHANGED <<bound, wire, server>>
        /\ surface' \in [Ids -> Ids \cup {0}]
        /\ phase' \in {"connect", "bind", "restore", "loop", "dead"}
        /\ Fresh'
    BY <1>1 DEF DrawSaved, IInv, Ranges, Fresh
  <1>3. CASE Roundtrip(Rest, <<>>)
    <2> DEFINE asked == <<>>
    <2>1. Free(asked)
      BY EmptySeq DEF Free
    <2> HIDE DEF asked
    <2>2. Grown(asked) /\ (Paired' => IInv')
      BY <1>1, <1>2, <1>3, <2>1, RoundtripInv DEF asked
    <2> QED
      BY <1>2, <2>2, StillPaired
  <1>4. CASE stack' = Rest /\ UNCHANGED <<objs, kind, reqs>>
    <2>1. PICK m \in Nat : m = Len(stack)
      BY Types DEF IInv
    <2>2. Lines = 0..m /\ Lines' = 0..m /\ \A k \in 0..m : Line(k)' = Line(k)
      BY <1>1, <1>2, <1>4, <2>1 DEF Lines, Line
    <2>3. Ranges'
      BY <1>1, <1>2, <1>4 DEF IInv, Ranges, server
    <2>4. Once' /\ InOrder' /\ Coming' = Coming
      BY <2>2, <2>3, Unmoved DEF IInv
    <2>5. Followed(wire)' /\ UNCHANGED <<objects, bound, reqs, server>>
      BY <1>2, <1>4 DEF IInv, Followed, objects, server
    <2> QED
      BY <1>1, <1>2, <2>3, <2>4, <2>5, SameWay
  <1> QED
    BY <1>3, <1>4 DEF DrawSaved

LEMMA DrawInv ==
  ASSUME IInv, Draw
  PROVE  IInv'
  <1>1. /\ stack = <<>> /\ phase \in {"restore", "loop"} /\ phase' = phase
        /\ Registry \in objs
    BY DEF Draw, IInv, Reached, Agreed, Owned
  <1>b. PICK below \in Seq(Calls) : below = <<>>
    BY EmptySeq
  <1> DEFINE asked == <<>>
  <1>2. /\ Roundtrip(below, asked)
        /\ Len(below) = Len(stack) /\ \A k \in 1..Len(below) : below[k].batch = stack[k].batch
    BY <1>1, <1>b, EmptySeq DEF Draw
  <1>3. Free(asked)
    BY EmptySeq DEF Free
  <1> HIDE DEF asked
  <1>4. Fresh' /\ surface' = surface /\ surface' \in [Ids -> Ids \cup {0}]
    BY <1>1 DEF Fresh, Draw, IInv, Ranges
  <1>5. Grown(asked) /\ (Paired' => IInv')
    BY <1>1, <1>2, <1>3, <1>4, RoundtripInv DEF Draw
  <1> QED
    BY <1>4, <1>5, StillPaired

LEMMA ListenInv ==
  ASSUME IInv, Listen
  PROVE  IInv'
  <1>1. /\ stack = <<>> /\ phase' = "loop" /\ phase = "restore"
        /\ UNCHANGED <<objects, stack, bound, reqs, wire, server>>
    BY DEF Listen
  <1>2. Lines' = Lines /\ \A k \in Lines : Line(k)' = Line(k)
    BY <1>1 DEF Lines, Line
  <1>3. Ranges'
    BY <1>1 DEF IInv, Ranges, objects, server
  <1>4. Once' /\ InOrder' /\ Coming' = Coming
    BY <1>2, <1>3, Unmoved DEF IInv
  <1>5. Followed(wire)' /\ Fresh'
    BY <1>1 DEF IInv, Followed, Fresh, server
  <1> QED
    BY <1>1, <1>3, <1>4, <1>5, SameWay

LEMMA ReceiveInv ==
  ASSUME IInv, Receive
  PROVE  IInv'
  <1>1. Ranges /\ stack # <<>> /\ Read(Below, Top) /\ Top.batch = <<>>
    BY DEF Receive, IInv
  <1>2. /\ Top \in Calls /\ Below \in Seq(Calls) /\ Len(stack) = Len(Below) + 1
        /\ \A k \in 1..Len(Below) : Below[k] = stack[k]
        /\ stack[Len(stack)] = Top
    BY <1>1, TopAndBelow
  <1>3. /\ stack' \in Seq(Calls) /\ wire' \in Seq(Event)
        /\ Once' /\ InOrder' /\ Followed(wire)' /\ Coming' = Coming
    BY <1>1, <1>2, ReadFlow
  <1>4. UNCHANGED <<objects, phase, bound, reqs, server>>
    BY <1>1 DEF Read
  <1>5. Ranges'
    BY <1>1, <1>3, <1>4 DEF Ranges, server, objects
  <1>6. phase \notin {"connect", "dead"} /\ Fresh'
    BY <1>1, <1>4 DEF IInv, Fresh
  <1> QED
    BY <1>3, <1>4, <1>5, <1>6, SameWay

LEMMA PollInv ==
  ASSUME IInv, Poll
  PROVE  IInv'
  <1>1. Ranges /\ stack = <<>> /\ Read(<<>>, Reading) /\ phase = "loop"
    BY DEF Poll, IInv
  <1>b. PICK below \in Seq(Calls) : below = <<>>
    BY EmptySeq
  <1>2. /\ Reading \in Calls /\ Read(below, Reading)
        /\ Len(below) = 0 /\ \A k \in 1..Len(below) : below[k] = stack[k]
        /\ Len(stack) \in {Len(below), Len(below) + 1} /\ Len(stack) # Len(below) + 1
    BY <1>1, <1>b, EmptySeq DEF Reading, Calls
  <1>3. /\ stack' \in Seq(Calls) /\ wire' \in Seq(Event)
        /\ Once' /\ InOrder' /\ Followed(wire)' /\ Coming' = Coming
    BY <1>1, <1>2, ReadFlow
  <1>4. UNCHANGED <<objects, phase, bound, reqs, server>>
    BY <1>1 DEF Read
  <1>5. Ranges'
    BY <1>1, <1>3, <1>4 DEF Ranges, server, objects
  <1>6. phase \notin {"connect", "dead"} /\ Fresh'
    BY <1>1, <1>4 DEF Fresh
  <1> QED
    BY <1>3, <1>4, <1>5, <1>6, SameWay

\* The event that is dispatched is on its way.
LEMMA Dispatched ==
  ASSUME IInv, stack # <<>>, Top.batch # <<>>
  PROVE  Head(Top.batch) \in Coming /\ Head(Top.batch) \in Event /\ Holds(Head(Top.batch))
  <1>1. Len(stack) \in Lines /\ Line(Len(stack)) = Top.batch /\ Top.batch # <<>>
    BY TopAndBelow DEF IInv
  <1>2. Top.batch \in Seq(Event)
    BY <1>1, Types DEF IInv
  <1>3. 1 \in 1..Len(Top.batch) /\ Top.batch[1] = Head(Top.batch)
    BY <1>1, <1>2, EmptySeq
  <1>4. Head(Top.batch) \in Coming
    BY <1>1, <1>2, <1>3 DEF Coming
  <1> QED
    BY <1>4 DEF IInv, AllTrue, Coming

\* An event is dispatched, and what the flow of events is then.
LEMMA Consumed ==
  ASSUME IInv, NEW e, stack # <<>>, Top.batch # <<>>, e = Head(Top.batch),
         NEW todo \in Seq(Steps), Consume(e, todo), UNCHANGED <<phase, wire, server>>,
         objs' \subseteq Ids, kind' \in [Ids -> Kinds], surface' \in [Ids -> Ids \cup {0}],
         reqs' \in Seq(Requests), bound' \in [Globals -> Nat]
  PROVE  /\ Ranges' /\ Once' /\ InOrder' /\ Followed(wire)'
         /\ phase \notin {"connect", "dead"} /\ Fresh'
         /\ e \in Event /\ e \in Coming /\ Holds(e) /\ Coming' \subseteq Coming
         /\ \A x \in Coming : x # e => x \in Coming'
         /\ Single(e) => e \notin Coming'
  <1> DEFINE c == [Top EXCEPT !.batch = Tail(@), !.wait = @ /\ e.obj # Top.cb, !.todo = todo]
  <1>1. Ranges /\ stack' = Append(Below, c)
    BY DEF IInv, Consume
  <1>2. Top \in Calls /\ Tail(Top.batch) \in Seq(Event)
    <2>1. Top \in Calls
      BY <1>1, TopAndBelow
    <2>2. Top.batch \in Seq(Event)
      BY <2>1 DEF Calls
    <2> QED
      BY <1>1, <2>1, <2>2, HeadTailProperties
  <1>3. c \in Calls /\ c.batch = Tail(Top.batch)
    <2>1. (Top.wait /\ e.obj # Top.cb) \in BOOLEAN
      OBVIOUS
    <2> QED
      BY <1>2, <2>1 DEF Calls
  <1> HIDE DEF c
  <1>4. stack' \in Seq(Calls) /\ stack' # <<>>
    <2>1. Below \in Seq(Calls)
      BY <1>1, TopAndBelow
    <2> QED
      BY <1>1, <1>3, <2>1, AppendProperties
  <1>5. Ranges'
    BY <1>1, <1>4 DEF Ranges, server
  <1>6. phase \notin {"connect", "dead"} /\ Fresh'
    BY DEF IInv, Fresh
  <1>7. UNCHANGED <<wire, live>>
    BY DEF server
  <1>8. /\ Once' /\ InOrder' /\ Followed(wire)'
        /\ e \in Coming /\ Coming' \subseteq Coming
        /\ \A x \in Coming : x # e => x \in Coming'
        /\ Single(e) => e \notin Coming'
    BY <1>1, <1>3, <1>5, <1>7, ConsumeFlow
  <1>9. e \in Event /\ Holds(e)
    BY <1>8 DEF IInv, AllTrue, Coming
  <1> QED
    BY <1>5, <1>6, <1>8, <1>9

LEMMA DispatchOtherInv ==
  ASSUME IInv, stack # <<>>, Top.batch # <<>>, DispatchOther(Head(Top.batch))
  PROVE  IInv'
  <1> DEFINE e == Head(Top.batch)
  <1>1. /\ e.ev \in First \cup Second /\ Consume(e, <<>>)
        /\ UNCHANGED <<objects, phase, bound, reqs, wire, server>>
    BY DEF DispatchOther
  <1> HIDE DEF e
  <1>2. /\ <<>> \in Seq(Steps) /\ objs' \subseteq Ids /\ kind' \in [Ids -> Kinds]
        /\ surface' \in [Ids -> Ids \cup {0}] /\ reqs' \in Seq(Requests)
        /\ bound' \in [Globals -> Nat]
    BY <1>1 DEF IInv, Ranges, objects
  <1>3. /\ Ranges' /\ Once' /\ InOrder' /\ Followed(wire)'
        /\ phase \notin {"connect", "dead"} /\ Fresh'
        /\ Coming' \subseteq Coming /\ \A x \in Coming : x # e => x \in Coming'
    BY <1>1, <1>2, Consumed DEF e
  <1>4. e.ev # "global"
    BY <1>1 DEF First, Second
  <1> QED
    BY <1>1, <1>3, <1>4, SameWay

LEMMA DispatchGlobalInv ==
  ASSUME IInv, stack # <<>>, Top.batch # <<>>, DispatchGlobal(Head(Top.batch))
  PROVE  IInv'
  <1> DEFINE e == Head(Top.batch)
  <1>1. /\ e.ev = "global" /\ Consume(e, Handlers[e.arg])
        /\ bound' = [bound EXCEPT ![e.arg] = @ + 1]
        /\ UNCHANGED <<objects, phase, reqs, wire, server>>
    BY DEF DispatchGlobal
  <1>e. e \in Event
    BY Dispatched
  <1> HIDE DEF e
  <1>2. e.arg \in Globals /\ Handlers[e.arg] \in Seq(Steps)
    BY <1>1, <1>e, EventLoopAssumption DEF Event, First, Second
  <1>3. /\ bound \in [Globals -> Nat] /\ bound' \in [Globals -> Nat]
        /\ bound'[e.arg] = bound[e.arg] + 1
        /\ \A g \in Globals : g # e.arg => bound'[g] = bound[g]
    BY <1>1, <1>2 DEF IInv, Ranges
  <1>u. /\ objs' \subseteq Ids /\ kind' \in [Ids -> Kinds]
        /\ surface' \in [Ids -> Ids \cup {0}] /\ reqs' \in Seq(Requests)
        /\ UNCHANGED <<objs, kind, surface, reqs, live, announced>>
    BY <1>1 DEF IInv, Ranges, objects, server
  <1>4. /\ Ranges' /\ Once' /\ InOrder' /\ Followed(wire)'
        /\ phase \notin {"connect", "dead"} /\ Fresh'
        /\ e \in Coming /\ Holds(e) /\ Coming' \subseteq Coming
        /\ \A x \in Coming : x # e => x \in Coming'
        /\ Single(e) => e \notin Coming'
    BY <1>1, <1>2, <1>3, <1>u, Consumed DEF e
  <1>5. e.arg \in announced /\ bound[e.arg] = 0 /\ e \notin Coming'
    BY <1>1, <1>4 DEF Holds, Single
  <1>6. \A x \in Coming' : x.ev = "global" => x.arg # e.arg
    <2> SUFFICES ASSUME NEW x \in Coming', x.ev = "global", x.arg = e.arg PROVE x = e
      BY <1>5
    <2> DEFINE E == [ev : {"global"}, obj : {Registry}, arg : Globals]
    <2>1. x \in Event
      BY DEF Coming
    <2>2. x \in E /\ e \in E
      BY <1>1, <1>e, <2>1 DEF Event, First, Second
    <2> QED
      BY <2>2
  <1>p. Pending' = Pending /\ Condemned' = Condemned
    BY <1>u DEF Pending, Condemned, Makes, Breaks
  <1>7. Agreed'
    <2>1. Owned'
      BY <1>u, <1>p DEF IInv, Agreed, Owned, Makes
    <2>2. Doomed'
      BY <1>u DEF IInv, Agreed, Doomed, Makes, Breaks
    <2>3. Paired'
      BY <1>u, <1>p DEF IInv, Agreed, Paired, There
    <2> QED
      BY <2>1, <2>2, <2>3 DEF Agreed
  <1>8. AllTrue'
    <2> SUFFICES ASSUME NEW x \in Coming' PROVE Holds(x)'
      BY DEF AllTrue
    <2>1. Holds(x) /\ x \in Event
      BY <1>4 DEF IInv, AllTrue, Coming
    <2>2. x.ev = "global" => x.arg \in Globals /\ x.arg # e.arg
      BY <1>6, <2>1 DEF Event, First, Second
    <2>3. x.ev = "global" => bound'[x.arg] = 0
      BY <1>3, <2>1, <2>2 DEF Holds
    <2> QED
      BY <1>u, <1>p, <2>1, <2>3 DEF Holds
  <1>9. Bound'
    <2>1. \A g \in Globals : bound'[g] \in {0, 1} /\ (bound'[g] = 1 => g \in announced)
      BY <1>3, <1>5 DEF IInv, Bound
    <2>2. ASSUME NEW g \in announced
          PROVE  bound'[g] = 1 \/ \E x \in Coming' : x.ev = "global" /\ x.arg = g
      <3>1. CASE g = e.arg
        BY <1>3, <1>5, <3>1
      <3>2. CASE g # e.arg
        <4>1. bound'[g] = bound[g]
          BY <1>3, <3>2 DEF IInv, Ranges
        <4> QED
          BY <1>4, <3>2, <4>1 DEF IInv, Bound
      <3> QED
        BY <3>1, <3>2
    <2>3. announced' = announced /\ live' = live
      BY <1>u
    <2>4. announced # {} => Registry \in live
      BY DEF IInv, Bound
    <2> QED
      BY <2>1, <2>2, <2>3, <2>4 DEF Bound
  <1>10. Reached'
    BY <1>1, <1>u, <1>p DEF IInv, Reached
  <1> QED
    BY <1>4, <1>7, <1>8, <1>9, <1>10 DEF IInv

\* A delete_id is only dispatched for an id that is registered.
LEMMA DispatchDeleteIdInv ==
  ASSUME IInv, stack # <<>>, Top.batch # <<>>, DispatchDeleteId(Head(Top.batch))
  PROVE  IInv' /\ phase' = phase
  <1> DEFINE e == Head(Top.batch)
  <1>1. /\ e.ev = "delete_id" /\ e \in Event
        /\ e.arg \in objs \ (live \cup Pending)
    BY Dispatched DEF Holds, DispatchDeleteId
  <1>2. /\ objs' = objs \ {e.arg} /\ Consume(e, <<>>)
        /\ UNCHANGED <<kind, surface, phase, bound, reqs, wire, server>>
    BY <1>1 DEF DispatchDeleteId
  <1> HIDE DEF e
  <1>3. /\ <<>> \in Seq(Steps) /\ objs' \subseteq Ids /\ kind' \in [Ids -> Kinds]
        /\ surface' \in [Ids -> Ids \cup {0}] /\ reqs' \in Seq(Requests)
        /\ bound' \in [Globals -> Nat]
    BY <1>2 DEF IInv, Ranges
  <1>4. /\ Ranges' /\ Once' /\ InOrder' /\ Followed(wire)'
        /\ phase \notin {"connect", "dead"} /\ Fresh'
        /\ Coming' \subseteq Coming
        /\ \A x \in Coming : x # e => x \in Coming'
        /\ Single(e) => e \notin Coming'
    BY <1>2, <1>3, Consumed DEF e
  <1>5. \A x \in Coming' : x.ev = "delete_id" => x.arg # e.arg
    BY <1>1, <1>4 DEF Coming, Event, Single, First, Second
  <1>u. UNCHANGED <<kind, surface, bound, reqs, live, announced, phase>>
    BY <1>2 DEF server
  <1>6. Pending' = Pending /\ Condemned' = Condemned
    BY <1>u DEF Pending, Condemned, Makes, Breaks
  <1>7. Agreed'
    <2>1. Owned'
      BY <1>1, <1>2, <1>u, <1>6 DEF IInv, Agreed, Owned, Makes
    <2>2. Doomed'
      BY <1>u DEF IInv, Agreed, Doomed, Makes, Breaks
    <2>3. Paired'
      BY <1>u, <1>6 DEF IInv, Agreed, Paired, There
    <2> QED
      BY <2>1, <2>2, <2>3 DEF Agreed
  <1>8. AllTrue'
    <2> SUFFICES ASSUME NEW x \in Coming' PROVE Holds(x)'
      BY DEF AllTrue
    <2>1. Holds(x)
      BY <1>4 DEF IInv, AllTrue
    <2> QED
      BY <1>2, <1>5, <1>6, <1>u, <2>1 DEF Holds
  <1>9. Bound'
    <2>1. \A x \in Coming : x.ev = "global" => x \in Coming'
      BY <1>1, <1>4
    <2> QED
      BY <1>u, <2>1 DEF IInv, Bound
  <1>10. Reached'
    BY <1>u, <1>6 DEF IInv, Reached
  <1> QED
    BY <1>2, <1>4, <1>7, <1>8, <1>9, <1>10 DEF IInv

LEMMA DispatchConfigureInv ==
  ASSUME IInv, stack # <<>>, Top.batch # <<>>, DispatchConfigure(Head(Top.batch))
  PROVE  IInv'
  <1> DEFINE e == Head(Top.batch)
  <1>1. /\ e.ev \in First /\ Consume(e, <<>>)
        /\ UNCHANGED <<surface, phase, bound, wire, server>>
        /\ \/ UNCHANGED <<objs, kind, reqs>>
           \/ \E id \in Ids : Lowest(id, objs) /\ Create(<<New("buffer", id)>>)
           \/ \E p \in Ids :
                 /\ Lowest(p, objs)
                 /\ \E id \in Ids :
                       /\ Lowest(id, objs \cup {p})
                       /\ Create(<<New("buffer", p), New("buffer", id)>>)
    BY DEF DispatchConfigure, Heard
  <1> HIDE DEF e
  <1>2. /\ <<>> \in Seq(Steps) /\ e.ev # "global"
        /\ surface' \in [Ids -> Ids \cup {0}] /\ bound' \in [Globals -> Nat]
    BY <1>1 DEF IInv, Ranges, First
  <1>r. Registry \in objs
    BY DEF IInv, Fresh, Reached, Agreed, Owned
  <1>3. CASE UNCHANGED <<objs, kind, reqs>>
    <2>1. /\ objs' \subseteq Ids /\ kind' \in [Ids -> Kinds] /\ reqs' \in Seq(Requests)
          /\ UNCHANGED <<objects, bound, reqs, server>>
      BY <1>1, <1>3 DEF IInv, Ranges, objects
    <2>2. /\ Ranges' /\ Once' /\ InOrder' /\ Followed(wire)'
          /\ phase \notin {"connect", "dead"} /\ Fresh'
          /\ Coming' \subseteq Coming /\ \A x \in Coming : x # e => x \in Coming'
      BY <1>1, <1>2, <2>1, Consumed DEF e
    <2> QED
      BY <1>1, <1>2, <2>1, <2>2, SameWay
  <1>4. ASSUME NEW asked, Free(asked), Create(asked) PROVE IInv'
    <2>1. UNCHANGED <<live, bound, announced>>
      BY <1>1 DEF server
    <2>2. /\ reqs' \in Seq(Requests) /\ Grown(asked)
          /\ Owned' /\ Doomed'
          /\ \A x \in Event : Holds(x) => Holds(x)'
      BY <1>4, <2>1, Growth
    <2>3. objs' \subseteq Ids /\ kind' \in [Ids -> Kinds]
      BY <2>2 DEF Grown
    <2>4. /\ Ranges' /\ Once' /\ InOrder' /\ Followed(wire)'
          /\ phase \notin {"connect", "dead"} /\ Fresh'
          /\ Coming' \subseteq Coming /\ \A x \in Coming : x # e => x \in Coming'
      BY <1>1, <1>2, <2>2, <2>3, Consumed DEF e
    <2>5. Paired'
      BY <1>1, <2>2, StillPaired
    <2>6. AllTrue'
      BY <2>2, <2>4 DEF IInv, AllTrue, Coming
    <2>7. Bound'
      <3>1. \A x \in Coming : x.ev = "global" => x \in Coming'
        BY <1>2, <2>4
      <3> QED
        BY <1>1, <2>1, <3>1 DEF IInv, Bound
    <2>8. Reached'
      BY <1>1, <2>2 DEF IInv, Reached, Grown
    <2> QED
      BY <2>2, <2>4, <2>5, <2>6, <2>7, <2>8 DEF IInv, Agreed
  <1>5. ASSUME NEW id \in Ids, Lowest(id, objs), Create(<<New("buffer", id)>>) PROVE IInv'
    <2> DEFINE asked == <<New("buffer", id)>>
    <2>1. Free(asked)
      BY <1>5, <1>r DEF Free, New, Requests, Created, Lowest
    <2> QED
      BY <1>4, <1>5, <2>1
  <1>6. ASSUME NEW p \in Ids, Lowest(p, objs), NEW id \in Ids, Lowest(id, objs \cup {p}),
               Create(<<New("buffer", p), New("buffer", id)>>)
        PROVE  IInv'
    <2> DEFINE asked == <<New("buffer", p), New("buffer", id)>>
    <2>1. p \notin objs /\ id \notin objs /\ id # p
      BY <1>6 DEF Lowest
    <2>2. /\ Len(asked) = 2 /\ asked \in Seq(Requests)
          /\ asked[1].req = "buffer" /\ asked[1].id = p
          /\ asked[2].req = "buffer" /\ asked[2].id = id
      BY DEF New, Requests, Created
    <2>3. Create(asked)
      BY <1>6
    <2> HIDE DEF asked
    <2>4. Free(asked)
      BY <1>r, <2>1, <2>2 DEF Free
    <2> QED
      BY <1>4, <2>3, <2>4
  <1> QED
    BY <1>1, <1>3, <1>5, <1>6

\* Two objects that are there are asked to be destroyed.
LEMMA DestroyInv ==
  ASSUME IInv, NEW l \in Ids, surface[l] # 0,
         reqs' = reqs \o <<New("destroy", l), New("destroy", surface[l])>>,
         surface' = [surface EXCEPT ![l] = 0], UNCHANGED <<objs, kind, live, bound, announced>>
  PROVE  /\ reqs' \in Seq(Requests) /\ surface' \in [Ids -> Ids \cup {0}]
         /\ Agreed' /\ Pending' = Pending
  <1> DEFINE n == Len(reqs)
  <1>1. PICK s \in Ids : s = surface[l]
    BY DEF IInv, Ranges
  <1>2. /\ surface \in [Ids -> Ids \cup {0}] /\ surface' \in [Ids -> Ids \cup {0}]
        /\ surface'[l] = 0 /\ \A m \in Ids : m # l => surface'[m] = surface[m]
    BY DEF IInv, Ranges, Ids
  <1>3. /\ kind[l] = "layer" /\ There(l) /\ kind[s] = "surface" /\ There(s)
        /\ \A m \in Ids : surface[m] # 0 =>
              /\ kind[m] = "layer" /\ There(m)
              /\ \E x \in Ids : surface[m] = x /\ kind[x] = "surface" /\ There(x)
        /\ \A m, k \in Ids : surface[m] # 0 /\ surface[m] = surface[k] => m = k
    <2>1. /\ kind[l] = "layer" /\ There(l)
          /\ kind[surface[l]] = "surface" /\ There(surface[l])
          /\ \A m, k \in Ids : surface[m] # 0 /\ surface[m] = surface[k] => m = k
      BY DEF IInv, Agreed, Paired
    <2>2. ASSUME NEW m \in Ids, surface[m] # 0
          PROVE  /\ kind[m] = "layer" /\ There(m)
                 /\ \E x \in Ids : surface[m] = x /\ kind[x] = "surface" /\ There(x)
      <3>1. surface[m] \in Ids
        BY <1>2, <2>2
      <3> QED
        BY <2>2, <3>1 DEF IInv, Agreed, Paired
    <2> QED
      BY <1>1, <2>1, <2>2
  <1>4. l # s
    BY <1>3
  <1> DEFINE t == <<New("destroy", l), New("destroy", s)>>
  <1>5. /\ Len(t) = 2 /\ t \in Seq(Requests)
        /\ t[1].req = "destroy" /\ t[1].id = l /\ t[2].req = "destroy" /\ t[2].id = s
    BY DEF New, Requests, Created
  <1>6. reqs \in Seq(Requests) /\ n \in Nat /\ reqs' = reqs \o t
    BY <1>1, Types DEF IInv, Ranges
  <1> HIDE DEF t
  <1>7. /\ reqs' \in Seq(Requests) /\ Len(reqs') = n + 2
        /\ \A i \in 1..n + 2 : reqs'[i] = IF i <= n THEN reqs[i] ELSE t[i - n]
    BY <1>5, <1>6, ConcatProperties
  <1>8. PICK a \in Nat : a = n + 1
    BY <1>6
  <1>9. PICK b \in Nat : b = n + 2
    BY <1>6
  <1>10. /\ \A i \in 1..n : i \in 1..Len(reqs') /\ reqs'[i] = reqs[i] /\ i < a /\ i < b
         /\ \A i \in 1..Len(reqs') : i \in 1..n \/ i = a \/ i = b
         /\ a \in 1..Len(reqs') /\ b \in 1..Len(reqs') /\ a \notin 1..n /\ b \notin 1..n /\ a # b
         /\ reqs'[a] = t[1] /\ reqs'[b] = t[2]
    <2>1. a - n = 1 /\ b - n = 2 /\ a \in 1..n + 2 /\ b \in 1..n + 2 /\ ~(a <= n) /\ ~(b <= n)
      BY <1>6, <1>8, <1>9
    <2>2. reqs'[a] = t[1] /\ reqs'[b] = t[2]
      BY <1>7, <2>1
    <2>3. \A i \in 1..n : i \in 1..n + 2 /\ i <= n /\ i < a /\ i < b
      BY <1>6, <1>8, <1>9
    <2>4. \A i \in 1..n + 2 : i \in 1..n \/ i = a \/ i = b
      BY <1>6, <1>8, <1>9
    <2> QED
      BY <1>6, <1>7, <1>8, <1>9, <2>1, <2>2, <2>3, <2>4
  <1>n. n = Len(reqs)
    OBVIOUS
  <1> HIDE DEF n
  <1>11. /\ \A i \in 1..n : (Makes(i)' <=> Makes(i)) /\ (Breaks(i)' <=> Breaks(i))
         /\ \A i \in 1..Len(reqs') : i \notin 1..n => ~Makes(i)' /\ Breaks(i)'
    <2>1. \A i \in 1..n : (Makes(i)' <=> Makes(i)) /\ (Breaks(i)' <=> Breaks(i))
      BY <1>10, <1>n DEF Makes, Breaks
    <2>2. \A i \in 1..Len(reqs') : i \notin 1..n => reqs'[i].req = "destroy"
      BY <1>5, <1>10
    <2> QED
      BY <2>1, <2>2 DEF Makes, Breaks
  <1>12. Pending' = Pending
    <2>1. \A x \in Pending' : x \in Pending
      BY <1>10, <1>11, <1>n DEF Pending, Makes
    <2>2. \A x \in Pending : x \in Pending'
      BY <1>10, <1>11, <1>n DEF Pending, Makes
    <2> QED
      BY <2>1, <2>2
  <1>13. Condemned' = Condemned \cup {l, s}
    <2>1. ASSUME NEW x \in Condemned' PROVE x \in Condemned \cup {l, s}
      <3>1. PICK i \in 1..Len(reqs') : Breaks(i)' /\ reqs'[i].id = x
        BY <2>1 DEF Condemned
      <3>2. CASE i \in 1..n
        <4>1. Breaks(i) /\ reqs[i].id = x /\ x \in Ids
          BY <1>10, <1>11, <2>1, <3>1, <3>2 DEF Condemned
        <4> QED
          BY <1>n, <3>2, <4>1 DEF Condemned
      <3>3. CASE i \notin 1..n
        BY <1>5, <1>10, <3>1, <3>3
      <3> QED
        BY <3>2, <3>3
    <2>2. ASSUME NEW x \in Condemned PROVE x \in Condemned'
      <3>1. PICK i \in 1..n : Breaks(i) /\ reqs[i].id = x
        BY <1>n, <2>2 DEF Condemned
      <3>2. i \in 1..Len(reqs') /\ Breaks(i)' /\ reqs'[i].id = x /\ x \in Ids
        BY <1>10, <1>11, <2>2, <3>1 DEF Condemned
      <3> QED
        BY <3>2 DEF Condemned
    <2>3. l \in Condemned' /\ s \in Condemned'
      <3>1. Breaks(a)' /\ reqs'[a].id = l /\ Breaks(b)' /\ reqs'[b].id = s
        BY <1>5, <1>10, <1>11
      <3> QED
        BY <1>10, <3>1 DEF Condemned
    <2> QED
      BY <2>1, <2>2, <2>3
  <1>14. Owned'
    <2>1. /\ \A i, j \in 1..n : Makes(i) /\ Makes(j) /\ reqs[i].id = reqs[j].id => i = j
          /\ \A i \in 1..n : Makes(i) => kind[reqs[i].id] = reqs[i].req
          /\ \A i \in 1..n : reqs[i].req = "registry" => reqs[i].id = Registry
      BY <1>n DEF IInv, Agreed, Owned
    <2>2. \A i \in 1..Len(reqs') : Makes(i)' => i \in 1..n /\ Makes(i) /\ reqs'[i] = reqs[i]
      BY <1>10, <1>11
    <2>3. /\ \A i, j \in 1..Len(reqs') : Makes(i)' /\ Makes(j)' /\ reqs'[i].id = reqs'[j].id => i = j
          /\ \A i \in 1..Len(reqs') : Makes(i)' => kind[reqs'[i].id] = reqs'[i].req
      <3>1. ASSUME NEW i \in 1..Len(reqs'), NEW j \in 1..Len(reqs'), Makes(i)', Makes(j)',
                   reqs'[i].id = reqs'[j].id
            PROVE  i = j
        BY <2>1, <2>2, <3>1
      <3>2. ASSUME NEW i \in 1..Len(reqs'), Makes(i)' PROVE kind[reqs'[i].id] = reqs'[i].req
        BY <2>1, <2>2, <3>2
      <3> QED
        BY <3>1, <3>2
    <2>4. \A i \in 1..Len(reqs') : reqs'[i].req = "registry" => reqs'[i].id = Registry
      BY <1>5, <1>10, <2>1
    <2> QED
      BY <1>12, <2>3, <2>4 DEF IInv, Agreed, Owned
  <1>15. \A x \in Ids : There(x) => x \notin Condemned /\ (x \in live \/ x \in Pending)
    BY DEF There
  <1>16. Doomed'
    <2>1. /\ \A i, j \in 1..n : Breaks(i) /\ Breaks(j) /\ reqs[i].id = reqs[j].id => i = j
          /\ \A i \in 1..n : Breaks(i) =>
                /\ kind[reqs[i].id] \in {"surface", "layer"}
                /\ \/ reqs[i].id \in live
                   \/ \E j \in 1..n : Makes(j) /\ j < i /\ reqs[j].id = reqs[i].id
      BY <1>n DEF IInv, Agreed, Doomed
    <2>2. \A i \in 1..n : Breaks(i) => reqs[i].id \in Condemned
      <3>1. \A i \in 1..n : reqs[i] \in Requests
        BY <1>6, <1>n
      <3>2. \A i \in 1..n : reqs[i].id \in Ids
        BY <3>1 DEF Requests
      <3> QED
        BY <1>n, <3>2 DEF Condemned
    <2>3. ASSUME NEW i \in 1..Len(reqs'), NEW j \in 1..Len(reqs'), Breaks(i)', Breaks(j)',
                 reqs'[i].id = reqs'[j].id
          PROVE  i = j
      <3>1. CASE i \in 1..n /\ j \in 1..n
        BY <1>10, <1>11, <2>1, <2>3, <3>1
      <3>2. CASE i \notin 1..n /\ j \notin 1..n
        BY <1>4, <1>5, <1>10, <2>3, <3>2
      <3>3. ASSUME NEW x \in 1..n, Breaks(x) PROVE reqs[x].id # l /\ reqs[x].id # s
        BY <1>3, <1>15, <2>2, <3>3
      <3>4. CASE i \in 1..n /\ j \notin 1..n
        BY <1>5, <1>10, <1>11, <2>3, <3>3, <3>4
      <3>5. CASE i \notin 1..n /\ j \in 1..n
        BY <1>5, <1>10, <1>11, <2>3, <3>3, <3>5
      <3> QED
        BY <3>1, <3>2, <3>4, <3>5
    <2>4. ASSUME NEW i \in 1..Len(reqs'), Breaks(i)'
          PROVE  /\ kind[reqs'[i].id] \in {"surface", "layer"}
                 /\ \/ reqs'[i].id \in live
                    \/ \E j \in 1..Len(reqs') : Makes(j)' /\ j < i /\ reqs'[j].id = reqs'[i].id
      <3>1. CASE i \in 1..n
        <4>1. Breaks(i) /\ reqs'[i] = reqs[i]
          BY <1>10, <1>11, <2>4, <3>1
        <4>2. CASE reqs[i].id \in live
          BY <2>1, <3>1, <4>1, <4>2
        <4>3. CASE reqs[i].id \notin live
          <5>1. PICK j \in 1..n : Makes(j) /\ j < i /\ reqs[j].id = reqs[i].id
            BY <2>1, <3>1, <4>1, <4>3
          <5>2. j \in 1..Len(reqs') /\ Makes(j)' /\ reqs'[j].id = reqs'[i].id
            BY <1>10, <1>11, <4>1, <5>1
          <5> QED
            BY <2>1, <3>1, <4>1, <5>1, <5>2
        <4> QED
          BY <4>2, <4>3
      <3>2. CASE i \notin 1..n
        <4>1. PICK x \in {l, s} : reqs'[i].id = x /\ (i = a \/ i = b)
          BY <1>5, <1>10, <3>2
        <4>2. kind[x] \in {"surface", "layer"} /\ (x \in live \/ x \in Pending)
          BY <1>3, <1>15, <4>1
        <4>3. CASE x \in live
          BY <4>1, <4>2, <4>3
        <4>4. CASE x \in Pending
          <5>1. PICK j \in 1..n : Makes(j) /\ reqs[j].id = x
            BY <1>n, <4>4 DEF Pending
          <5>2. j \in 1..Len(reqs') /\ Makes(j)' /\ j < i /\ reqs'[j].id = reqs'[i].id
            BY <1>10, <1>11, <4>1, <5>1
          <5> QED
            BY <4>1, <4>2, <5>2
        <4> QED
          BY <4>2, <4>3, <4>4
      <3> QED
        BY <3>1, <3>2
    <2> QED
      BY <2>3, <2>4 DEF Doomed
  <1>17. Paired'
    <2>1. \A x \in Ids : There(x) /\ x # l /\ x # s => There(x)'
      BY <1>12, <1>13 DEF There
    <2>2. ASSUME NEW m \in Ids, surface'[m] # 0
          PROVE  /\ kind[m] = "layer" /\ There(m)'
                 /\ \E x \in Ids : surface'[m] = x /\ kind[x] = "surface" /\ There(x)'
      <3>1. m # l /\ surface'[m] = surface[m]
        BY <1>2, <2>2
      <3>2. kind[m] = "layer" /\ There(m)'
        BY <1>3, <2>1, <2>2, <3>1
      <3>3. PICK x \in Ids : surface[m] = x /\ kind[x] = "surface" /\ There(x)
        BY <1>3, <2>2, <3>1
      <3>4. x # s /\ x # l
        BY <1>1, <1>3, <2>2, <3>1, <3>3
      <3> QED
        BY <2>1, <3>1, <3>2, <3>3, <3>4
    <2>3. ASSUME NEW m \in Ids, NEW k \in Ids, surface'[m] # 0, surface'[m] = surface'[k]
          PROVE  m = k
      BY <1>2, <1>3, <2>3
    <2> QED
      BY <2>2, <2>3 DEF Paired
  <1> QED
    BY <1>2, <1>7, <1>12, <1>14, <1>16, <1>17 DEF Agreed

LEMMA DispatchClosedInv ==
  ASSUME IInv, stack # <<>>, Top.batch # <<>>, DispatchClosed(Head(Top.batch))
  PROVE  IInv' /\ (phase' = phase \/ gone)
  <1> DEFINE e == Head(Top.batch)
  <1>1. e \in Event /\ e.ev \in Second /\ e.obj \in objs /\ surface[e.obj] # 0
    BY Dispatched DEF DispatchClosed, Heard
  <1>2. PICK l \in Ids : l = e.obj
    BY <1>1 DEF IInv, Ranges
  <1>3. surface[l] \in objs
    <2>1. There(surface[l])
      BY <1>1, <1>2 DEF IInv, Agreed, Paired
    <2> QED
      BY <2>1 DEF IInv, Agreed, Owned, There
  <1>4. CASE gone
    BY <1>4, DeadInv DEF DispatchClosed
  <1>5. CASE ~gone
    <2>1. /\ reqs' = reqs \o <<New("destroy", l), New("destroy", surface[l])>>
          /\ surface' = [surface EXCEPT ![l] = 0]
          /\ Consume(e, <<>>)
          /\ UNCHANGED <<objs, kind, phase, draws, bound, wire, server>>
      BY <1>2, <1>3, <1>5 DEF DispatchClosed
    <2>2. UNCHANGED <<objs, kind, live, bound, announced>> /\ phase' = phase
      BY <2>1 DEF server
    <2> HIDE DEF e
    <2>3. /\ reqs' \in Seq(Requests) /\ surface' \in [Ids -> Ids \cup {0}]
          /\ Agreed' /\ Pending' = Pending
      BY <1>1, <1>2, <2>1, <2>2, DestroyInv
    <2>4. /\ <<>> \in Seq(Steps) /\ objs' \subseteq Ids /\ kind' \in [Ids -> Kinds]
          /\ bound' \in [Globals -> Nat] /\ e.ev # "global"
      BY <1>1, <2>1 DEF IInv, Ranges, Second
    <2>5. /\ Ranges' /\ Once' /\ InOrder' /\ Followed(wire)'
          /\ phase \notin {"connect", "dead"} /\ Fresh'
          /\ Coming' \subseteq Coming /\ \A x \in Coming : x # e => x \in Coming'
      BY <2>1, <2>3, <2>4, Consumed DEF e
    <2>6. AllTrue'
      BY <2>2, <2>3, <2>5 DEF IInv, AllTrue, Holds
    <2>7. Bound'
      <3>1. \A x \in Coming : x.ev = "global" => x \in Coming'
        BY <2>4, <2>5
      <3> QED
        BY <2>2, <3>1 DEF IInv, Bound
    <2>8. Reached'
      BY <2>2, <2>3 DEF IInv, Reached
    <2> QED
      BY <2>2, <2>3, <2>5, <2>6, <2>7, <2>8 DEF IInv
  <1> QED
    BY <1>4, <1>5

LEMMA ReturnInv ==
  ASSUME IInv, Return
  PROVE  IInv'
  <1>1. /\ Ranges /\ stack # <<>> /\ Top.batch = <<>> /\ stack' = Below
        /\ UNCHANGED <<objects, bound, reqs, wire, server>>
    BY DEF IInv, Return
  <1>2. PICK m \in Nat : m = Len(stack)
    BY <1>1, Types
  <1>3. /\ m # 0 /\ stack' \in Seq(Calls) /\ Len(stack') = m - 1
        /\ \A i \in 1..m - 1 : stack'[i] = stack[i]
        /\ m \in Lines /\ Line(m) = <<>>
    BY <1>1, <1>2, TopAndBelow
  <1>4. phase \notin {"connect", "dead"} /\ phase' \in {phase, "restore"}
    BY <1>1 DEF IInv, Fresh, Return
  <1>5. Ranges' /\ Fresh'
    BY <1>1, <1>3, <1>4 DEF Ranges, Fresh, server, objects
  <1>6. /\ Lines = 0..m /\ Lines' = 0..m - 1
        /\ \A k \in 0..m - 1 : Line(k)' = Line(k)
    BY <1>1, <1>2, <1>3 DEF Lines, Line
  <1>7. Once' /\ InOrder' /\ Coming' = Coming
    <2>1. \A k \in Lines' : k \in Lines /\ Line(k)' = Line(k)
      BY <1>6
    <2>2. \A k \in Lines : (k \in Lines' /\ Line(k)' = Line(k)) \/ Line(k) = <<>>
      BY <1>3, <1>6
    <2> QED
      BY <1>1, <1>5, <2>1, <2>2, Unmoved DEF IInv
  <1>8. Followed(wire)'
    BY <1>1 DEF IInv, Followed, server
  <1> QED
    BY <1>1, <1>4, <1>5, <1>7, <1>8, SameWay
-----------------------------------------------------------------------------
(* The steps of the compositor                                             *)

\* The request that is handled, and those that are left.
LEMMA Taken ==
  ASSUME IInv, reqs # <<>>, reqs' = Tail(reqs), UNCHANGED kind, NEW r, r = Head(reqs)
  PROVE  /\ r \in Requests /\ reqs' \in Seq(Requests)
         /\ \A i, j \in 1..Len(reqs') :
               /\ Makes(i)' /\ Makes(j)' /\ reqs'[i].id = reqs'[j].id => i = j
               /\ Breaks(i)' /\ Breaks(j)' /\ reqs'[i].id = reqs'[j].id => i = j
         /\ \A i \in 1..Len(reqs') : Makes(i)' => kind[reqs'[i].id] = reqs'[i].req
         /\ \A i \in 1..Len(reqs') : reqs'[i].req = "registry" => reqs'[i].id = Registry
         /\ \A i \in 1..Len(reqs') : Breaks(i)' =>
               /\ kind[reqs'[i].id] \in {"surface", "layer"}
               /\ \/ reqs'[i].id \in live /\ (r.req = "destroy" => reqs'[i].id # r.id)
                  \/ r.req # "destroy" /\ reqs'[i].id = r.id
                  \/ \E j \in 1..Len(reqs') : Makes(j)' /\ j < i /\ reqs'[j].id = reqs'[i].id
         /\ r.req # "destroy" =>
               /\ r.id \in Pending /\ kind[r.id] = r.req
               /\ r.req = "registry" => r.id = Registry
               /\ Pending' = Pending \ {r.id} /\ Condemned' = Condemned
         /\ r.req = "destroy" =>
               /\ r.id \in live /\ r.id \in Condemned /\ kind[r.id] \in {"surface", "layer"}
               /\ Pending' = Pending /\ Condemned' = Condemned \ {r.id}
  <1> DEFINE n == Len(reqs')
  <1>1. reqs \in Seq(Requests)
    BY DEF IInv, Ranges
  <1>2. /\ r \in Requests /\ reqs' \in Seq(Requests)
        /\ n = Len(reqs) - 1 /\ Len(reqs) \in Nat \ {0} /\ n \in Nat
        /\ \A i \in 1..n : reqs'[i] = reqs[i + 1]
    BY <1>1, EmptySeq, HeadTailProperties
  <1>3. r = reqs[1] /\ 1 \in 1..Len(reqs) /\ r.id \in Ids
    BY <1>1, <1>2 DEF Requests
  <1>4. /\ \A i \in 1..n : \E k \in 1..Len(reqs) : k = i + 1 /\ k # 1 /\ reqs'[i] = reqs[k]
        /\ \A k \in 1..Len(reqs) : k = 1 \/ \E i \in 1..n : k = i + 1 /\ reqs'[i] = reqs[k]
    <2>1. ASSUME NEW i \in 1..n
          PROVE  \E k \in 1..Len(reqs) : k = i + 1 /\ k # 1 /\ reqs'[i] = reqs[k]
      <3>1. i + 1 \in 1..Len(reqs) /\ i + 1 # 1
        BY <1>2
      <3> QED
        BY <1>2, <3>1
    <2>2. ASSUME NEW k \in 1..Len(reqs), k # 1
          PROVE  \E i \in 1..n : k = i + 1 /\ reqs'[i] = reqs[k]
      <3>1. PICK i \in 1..n : k = i + 1
        <4>1. k - 1 \in 1..n /\ k = (k - 1) + 1
          BY <1>2, <2>2
        <4> QED
          BY <4>1
      <3> QED
        BY <1>2, <3>1
    <2> QED
      BY <2>1, <2>2
  <1>5. /\ \A i \in 1..n : (Makes(i)' <=> reqs'[i].req # "destroy")
                           /\ (Breaks(i)' <=> reqs'[i].req = "destroy")
        /\ \A k \in 1..Len(reqs) : (Makes(k) <=> reqs[k].req # "destroy")
                                   /\ (Breaks(k) <=> reqs[k].req = "destroy")
    BY DEF Makes, Breaks
  <1>6. /\ \A i \in 1..n : reqs'[i].id \in Ids
        /\ \A k \in 1..Len(reqs) : reqs[k].id \in Ids
    <2>1. (\A i \in 1..n : reqs'[i] \in Requests) /\ \A k \in 1..Len(reqs) : reqs[k] \in Requests
      BY <1>1, <1>2
    <2> QED
      BY <2>1 DEF Requests
  <1>n. n = Len(reqs')
    OBVIOUS
  <1> HIDE DEF n
  <1>7. /\ \A i, j \in 1..Len(reqs) : Makes(i) /\ Makes(j) /\ reqs[i].id = reqs[j].id => i = j
        /\ \A i, j \in 1..Len(reqs) : Breaks(i) /\ Breaks(j) /\ reqs[i].id = reqs[j].id => i = j
        /\ \A i \in 1..Len(reqs) : Makes(i) => kind[reqs[i].id] = reqs[i].req
        /\ \A i \in 1..Len(reqs) : reqs[i].req = "registry" => reqs[i].id = Registry
        /\ \A i \in 1..Len(reqs) : Breaks(i) =>
              /\ kind[reqs[i].id] \in {"surface", "layer"}
              /\ \/ reqs[i].id \in live
                 \/ \E j \in 1..Len(reqs) : Makes(j) /\ j < i /\ reqs[j].id = reqs[i].id
    BY DEF IInv, Agreed, Owned, Doomed
  <1>8. ASSUME NEW i \in 1..n, NEW j \in 1..n, reqs'[i].id = reqs'[j].id,
               (Makes(i)' /\ Makes(j)') \/ (Breaks(i)' /\ Breaks(j)')
        PROVE  i = j
    <2>1. PICK k \in 1..Len(reqs) : k = i + 1 /\ reqs'[i] = reqs[k]
      BY <1>4
    <2>2. PICK l \in 1..Len(reqs) : l = j + 1 /\ reqs'[j] = reqs[l]
      BY <1>4
    <2>3. reqs[k].id = reqs[l].id /\ ((Makes(k) /\ Makes(l)) \/ (Breaks(k) /\ Breaks(l)))
      BY <1>5, <1>8, <2>1, <2>2
    <2>4. k = l
      BY <1>7, <2>3
    <2> QED
      BY <2>1, <2>2, <2>4
  <1>9. ASSUME NEW i \in 1..n
        PROVE  /\ Makes(i)' => kind[reqs'[i].id] = reqs'[i].req
               /\ reqs'[i].req = "registry" => reqs'[i].id = Registry
    <2>1. PICK k \in 1..Len(reqs) : k = i + 1 /\ reqs'[i] = reqs[k]
      BY <1>4
    <2> QED
      BY <1>5, <1>7, <2>1
  <1>10. ASSUME NEW i \in 1..n, Breaks(i)'
         PROVE  /\ kind[reqs'[i].id] \in {"surface", "layer"}
                /\ \/ reqs'[i].id \in live /\ (r.req = "destroy" => reqs'[i].id # r.id)
                   \/ r.req # "destroy" /\ reqs'[i].id = r.id
                   \/ \E j \in 1..n : Makes(j)' /\ j < i /\ reqs'[j].id = reqs'[i].id
    <2>1. PICK k \in 1..Len(reqs) : k = i + 1 /\ k # 1 /\ reqs'[i] = reqs[k]
      BY <1>4
    <2>2. Breaks(k)
      BY <1>5, <1>10, <2>1
    <2>3. r.req = "destroy" => reqs[k].id # r.id
      BY <1>3, <1>5, <1>7, <2>1, <2>2
    <2>4. kind[reqs[k].id] \in {"surface", "layer"}
      BY <1>7, <2>2
    <2>5. CASE reqs[k].id \in live
      BY <2>1, <2>3, <2>4, <2>5
    <2>6. CASE reqs[k].id \notin live
      <3>1. PICK l \in 1..Len(reqs) : Makes(l) /\ l < k /\ reqs[l].id = reqs[k].id
        BY <1>7, <2>2, <2>6
      <3>2. CASE l = 1
        BY <1>3, <1>5, <2>1, <2>4, <3>1, <3>2
      <3>3. CASE l # 1
        <4>1. PICK j \in 1..n : l = j + 1 /\ reqs'[j] = reqs[l]
          BY <1>4, <3>3
        <4>2. Makes(j)' /\ j < i /\ reqs'[j].id = reqs'[i].id
          BY <1>5, <2>1, <3>1, <4>1
        <4> QED
          BY <2>1, <2>4, <4>2
      <3> QED
        BY <3>2, <3>3
    <2> QED
      BY <2>5, <2>6
  <1>11. \A x : x \in Pending' <=> x \in Ids /\ \E i \in 1..n : reqs'[i].req # "destroy" /\ reqs'[i].id = x
    BY <1>5, <1>n DEF Pending
  <1>12. \A x : x \in Pending <=> x \in Ids /\ \E k \in 1..Len(reqs) : reqs[k].req # "destroy" /\ reqs[k].id = x
    BY <1>5 DEF Pending
  <1>13. \A x : x \in Condemned' <=> x \in Ids /\ \E i \in 1..n : reqs'[i].req = "destroy" /\ reqs'[i].id = x
    BY <1>5, <1>n DEF Condemned
  <1>14. \A x : x \in Condemned <=> x \in Ids /\ \E k \in 1..Len(reqs) : reqs[k].req = "destroy" /\ reqs[k].id = x
    BY <1>5 DEF Condemned
  <1>15. Pending' = IF r.req # "destroy" THEN Pending \ {r.id} ELSE Pending
    <2>1. ASSUME NEW x \in Pending' PROVE x \in Pending /\ (r.req # "destroy" => x # r.id)
      <3>1. PICK i \in 1..n : reqs'[i].req # "destroy" /\ reqs'[i].id = x
        BY <1>11, <2>1
      <3>2. PICK k \in 1..Len(reqs) : k # 1 /\ reqs'[i] = reqs[k]
        BY <1>4
      <3> QED
        BY <1>3, <1>5, <1>6, <1>7, <1>12, <3>1, <3>2
    <2>2. ASSUME NEW x \in Pending, r.req # "destroy" => x # r.id PROVE x \in Pending'
      <3>1. PICK k \in 1..Len(reqs) : reqs[k].req # "destroy" /\ reqs[k].id = x
        BY <1>12, <2>2
      <3>2. k # 1
        BY <1>3, <2>2, <3>1
      <3>3. PICK i \in 1..n : reqs'[i] = reqs[k]
        BY <1>4, <3>2
      <3>4. reqs'[i].req = reqs[k].req /\ reqs'[i].id = reqs[k].id
        BY <3>3
      <3>5. reqs'[i].req # "destroy" /\ reqs'[i].id = x
        BY <3>1, <3>4
      <3> QED
        BY <1>11, <1>12, <2>2, <3>5
    <2> QED
      BY <2>1, <2>2
  <1>16. Condemned' = IF r.req = "destroy" THEN Condemned \ {r.id} ELSE Condemned
    <2>1. ASSUME NEW x \in Condemned' PROVE x \in Condemned /\ (r.req = "destroy" => x # r.id)
      <3>1. PICK i \in 1..n : reqs'[i].req = "destroy" /\ reqs'[i].id = x
        BY <1>13, <2>1
      <3>2. PICK k \in 1..Len(reqs) : k # 1 /\ reqs'[i] = reqs[k]
        BY <1>4
      <3> QED
        BY <1>3, <1>5, <1>6, <1>7, <1>14, <3>1, <3>2
    <2>2. ASSUME NEW x \in Condemned, r.req = "destroy" => x # r.id PROVE x \in Condemned'
      <3>1. PICK k \in 1..Len(reqs) : reqs[k].req = "destroy" /\ reqs[k].id = x
        BY <1>14, <2>2
      <3>2. k # 1
        BY <1>3, <2>2, <3>1
      <3>3. PICK i \in 1..n : reqs'[i] = reqs[k]
        BY <1>4, <3>2
      <3>4. reqs'[i].req = "destroy" /\ reqs'[i].id = x
        BY <3>1, <3>3
      <3> QED
        BY <1>13, <1>14, <2>2, <3>4
    <2> QED
      BY <2>1, <2>2
  <1>17. ASSUME r.req # "destroy"
         PROVE  /\ r.id \in Pending /\ kind[r.id] = r.req
                /\ r.req = "registry" => r.id = Registry
    BY <1>3, <1>5, <1>7, <1>12, <1>17
  <1>18. ASSUME r.req = "destroy"
         PROVE  /\ r.id \in live /\ r.id \in Condemned
                /\ kind[r.id] \in {"surface", "layer"}
    <2>1. ~\E j \in 1..Len(reqs) : j < 1
      BY <1>2
    <2> QED
      BY <1>3, <1>5, <1>7, <1>14, <1>18, <2>1
  <1>19. r.req # "destroy" =>
            /\ r.id \in Pending /\ kind[r.id] = r.req
            /\ r.req = "registry" => r.id = Registry
            /\ Pending' = Pending \ {r.id} /\ Condemned' = Condemned
    BY <1>15, <1>16, <1>17
  <1>20. r.req = "destroy" =>
            /\ r.id \in live /\ r.id \in Condemned /\ kind[r.id] \in {"surface", "layer"}
            /\ Pending' = Pending /\ Condemned' = Condemned \ {r.id}
    BY <1>15, <1>16, <1>18
  <1>21. \A i, j \in 1..n :
            /\ Makes(i)' /\ Makes(j)' /\ reqs'[i].id = reqs'[j].id => i = j
            /\ Breaks(i)' /\ Breaks(j)' /\ reqs'[i].id = reqs'[j].id => i = j
    BY <1>8
  <1>22. /\ \A i \in 1..n : Makes(i)' => kind[reqs'[i].id] = reqs'[i].req
         /\ \A i \in 1..n : reqs'[i].req = "registry" => reqs'[i].id = Registry
    BY <1>9
  <1>23. \A i \in 1..n : Breaks(i)' =>
            /\ kind[reqs'[i].id] \in {"surface", "layer"}
            /\ \/ reqs'[i].id \in live /\ (r.req = "destroy" => reqs'[i].id # r.id)
               \/ r.req # "destroy" /\ reqs'[i].id = r.id
               \/ \E j \in 1..n : Makes(j)' /\ j < i /\ reqs'[j].id = reqs'[i].id
    BY <1>10
  <1> QED
    BY <1>2, <1>19, <1>20, <1>21, <1>22, <1>23, <1>n

\* The compositor has it, or has it no more.
LEMMA Handled ==
  ASSUME IInv, reqs # <<>>, reqs' = Tail(reqs), UNCHANGED daemon, NEW r, r = Head(reqs),
         live' = IF r.req = "destroy" THEN live \ {r.id}
                 ELSE IF r.req = "callback" THEN live ELSE live \cup {r.id}
  PROVE  /\ r \in Requests /\ r.id \in Ids /\ r.id \in objs
         /\ reqs' \in Seq(Requests) /\ live' \subseteq Ids
         /\ Agreed' /\ Reached' /\ Fresh'
         /\ Registry \in live => Registry \in live'
         /\ r.req = "destroy" => r.id \in live
         /\ r.req # "destroy" => r.id \notin live /\ r.id \in Pending /\ kind[r.id] = r.req
         /\ r.req \in {"destroy", "callback"} => r.id \notin live' \cup Pending'
         /\ r.req = "registry" => r.id = Registry
         /\ \A e \in Event :
               Holds(e) /\ (e.ev = "global" => e.arg \in announced') => Holds(e)'
  <1>1. UNCHANGED <<objs, kind, surface, phase, stack, bound>>
    BY DEF daemon, objects
  <1> DEFINE R == 1..Len(reqs')
  <1>2. /\ r \in Requests /\ reqs' \in Seq(Requests)
        /\ \A i, j \in R :
              /\ Makes(i)' /\ Makes(j)' /\ reqs'[i].id = reqs'[j].id => i = j
              /\ Breaks(i)' /\ Breaks(j)' /\ reqs'[i].id = reqs'[j].id => i = j
        /\ \A i \in R : Makes(i)' => kind[reqs'[i].id] = reqs'[i].req
        /\ \A i \in R : reqs'[i].req = "registry" => reqs'[i].id = Registry
        /\ \A i \in R : Breaks(i)' =>
              /\ kind[reqs'[i].id] \in {"surface", "layer"}
              /\ \/ reqs'[i].id \in live /\ (r.req = "destroy" => reqs'[i].id # r.id)
                 \/ r.req # "destroy" /\ reqs'[i].id = r.id
                 \/ \E j \in R : Makes(j)' /\ j < i /\ reqs'[j].id = reqs'[i].id
        /\ r.req # "destroy" =>
              /\ r.id \in Pending /\ kind[r.id] = r.req
              /\ r.req = "registry" => r.id = Registry
              /\ Pending' = Pending \ {r.id} /\ Condemned' = Condemned
        /\ r.req = "destroy" =>
              /\ r.id \in live /\ r.id \in Condemned /\ kind[r.id] \in {"surface", "layer"}
              /\ Pending' = Pending /\ Condemned' = Condemned \ {r.id}
    BY <1>1, Taken
  <1> HIDE DEF R
  <1>3. /\ Display \in live /\ live \subseteq objs /\ Pending \subseteq objs \ live
        /\ kind[Display] = "display" /\ objs \subseteq Ids
        /\ Registry \in live \cup Pending => kind[Registry] = "registry"
    BY DEF IInv, Agreed, Owned, Ranges
  <1>4. /\ r.id \in Ids /\ r.id \in objs
        /\ r.req # "destroy" => r.id \notin live
    BY <1>2, <1>3
  <1>5. /\ live' \subseteq objs /\ Pending' \subseteq objs \ live' /\ Display \in live'
        /\ live' \cup Pending' \subseteq live \cup Pending
    BY <1>2, <1>3
  <1>6. /\ Registry \in live => Registry \in live'
        /\ Registry \in live \cup Pending => Registry \in live' \cup Pending'
    <2>1. r.id = Registry /\ Registry \in live \cup Pending => r.req = "registry"
      BY <1>2, <1>3
    <2> QED
      BY <1>2, <1>3, <2>1
  <1>7. \A x \in Ids : kind[x] \in {"surface", "layer", "object"} /\ x \in live /\ x \notin live'
                       => r.req = "destroy" /\ x = r.id
    BY <1>2
  <1>8. Owned'
    BY <1>1, <1>2, <1>3, <1>5 DEF Owned, R
  <1>9. Doomed'
    <2>1. ASSUME NEW i \in R, Breaks(i)'
          PROVE  /\ kind[reqs'[i].id] \in {"surface", "layer"}
                 /\ \/ reqs'[i].id \in live'
                    \/ \E j \in R : Makes(j)' /\ j < i /\ reqs'[j].id = reqs'[i].id
      <3>1. kind[reqs'[i].id] \in {"surface", "layer"}
        BY <1>2, <2>1
      <3>2. CASE reqs'[i].id \in live /\ (r.req = "destroy" => reqs'[i].id # r.id)
        BY <3>1, <3>2
      <3>3. CASE r.req # "destroy" /\ reqs'[i].id = r.id
        <4>1. r.req # "callback"
          BY <1>2, <3>1, <3>3
        <4> QED
          BY <3>1, <3>3, <4>1
      <3> QED
        BY <1>2, <2>1, <3>1, <3>2, <3>3
    <2> QED
      BY <1>1, <1>2, <2>1 DEF Doomed, R
  <1>10. \A x \in Ids : There(x) /\ kind[x] \in {"surface", "layer"} => There(x)'
    <2> SUFFICES ASSUME NEW x \in Ids, There(x), kind[x] \in {"surface", "layer"} PROVE There(x)'
      OBVIOUS
    <2>1. x \in live \cup Pending /\ x \notin Condemned
      BY DEF There
    <2>2. CASE r.req = "destroy"
      BY <1>2, <2>1, <2>2 DEF There
    <2>3. CASE r.req # "destroy"
      BY <1>2, <2>1, <2>3 DEF There
    <2> QED
      BY <2>2, <2>3
  <1>11. Paired'
    <2>1. \A l \in Ids : surface[l] # 0 => surface[l] \in Ids
      BY DEF IInv, Ranges
    <2> QED
      BY <1>1, <1>10, <2>1 DEF IInv, Agreed, Paired
  <1>12. ASSUME NEW e \in Event, Holds(e), e.ev = "global" => e.arg \in announced'
         PROVE  Holds(e)'
    <2>1. e.ev = "info" => e.obj \in live' /\ kind'[e.obj] = "object"
      BY <1>1, <1>2, <1>12 DEF Holds
    <2>2. e.ev = "global" => Registry \in live' /\ e.arg \in announced' /\ bound'[e.arg] = 0
      BY <1>1, <1>6, <1>12 DEF Holds
    <2>3. e.ev = "delete_id" => e.arg \in objs' \ (live' \cup Pending')
      BY <1>1, <1>5, <1>12 DEF Holds
    <2> QED
      BY <2>1, <2>2, <2>3 DEF Holds
  <1>13. Reached' /\ Fresh'
    BY <1>1, <1>6 DEF IInv, Reached, Fresh
  <1>14. live' \subseteq Ids
    BY <1>3, <1>5
  <1>15. r.req \in {"destroy", "callback"} => r.id \notin live' \cup Pending'
    BY <1>2, <1>3, <1>4
  <1> QED
    BY <1>2, <1>4, <1>6, <1>8, <1>9, <1>11, <1>12, <1>13, <1>14, <1>15 DEF Agreed

\* One event is sent that is not on its way.
LEMMA SentOne ==
  ASSUME IInv, Ranges', NEW x \in Event, Single(x) => x \notin Coming,
         x.obj \in live', x.ev = "delete_id" => x.arg # x.obj,
         \A e \in Coming : e.ev = "delete_id" => e.arg # x.obj,
         \A y \in live : y \in live' \/ (x.ev = "delete_id" /\ x.arg = y),
         wire' = wire \o <<x>>, UNCHANGED stack
  PROVE  /\ Once' /\ InOrder' /\ Followed(wire)'
         /\ \A e \in Event : e \in Coming' <=> e \in Coming \/ e = x
  <1> DEFINE t == <<x>>
  <1>1. t \in Seq(Event) /\ Len(t) = 1 /\ 1 \in 1..Len(t) /\ \A i \in 1..Len(t) : i = 1 /\ t[i] = x
    OBVIOUS
  <1>2. wire' = wire \o t
    OBVIOUS
  <1> HIDE DEF t
  <1>3. Before(t)
    BY <1>1 DEF Before
  <1>4. Closing(t)
    BY <1>1 DEF Closing
  <1>5. Ranges /\ Once /\ InOrder /\ Followed(wire)
    BY DEF IInv
  <1>6. /\ \A i \in 1..Len(t) : Single(t[i]) => t[i] \notin Coming
        /\ \A i, j \in 1..Len(t) : t[i] = t[j] /\ Single(t[i]) => i = j
        /\ \A i \in 1..Len(t) : \A e \in Coming : e.ev = "delete_id" => e.arg # t[i].obj
    BY <1>1
  <1>7. /\ Once' /\ InOrder' /\ Followed(wire)'
        /\ \A e \in Event : e \in Coming' <=> e \in Coming \/ \E i \in 1..Len(t) : t[i] = e
    BY <1>1, <1>2, <1>3, <1>4, <1>5, <1>6, Sent
  <1>8. \A e : (\E i \in 1..Len(t) : t[i] = e) <=> e = x
    BY <1>1
  <1> QED
    BY <1>7, <1>8

\* None is sent.
LEMMA SentNone ==
  ASSUME IInv, Ranges', live \subseteq live', wire' = wire, UNCHANGED stack
  PROVE  Once' /\ InOrder' /\ Followed(wire)' /\ Coming' = Coming
  <1>1. Lines' = Lines /\ \A k \in Lines : Line(k)' = Line(k)
    BY DEF Lines, Line
  <1>2. Once' /\ InOrder' /\ Coming' = Coming
    BY <1>1, Unmoved DEF IInv
  <1> QED
    BY <1>2 DEF IInv, Followed

LEMMA HandleNewInv ==
  ASSUME IInv, reqs # <<>>, reqs' = Tail(reqs), UNCHANGED <<daemon, pace>>,
         NEW r, r = Head(reqs), r.req \in {"object", "surface", "layer", "buffer"},
         HandleNew(r.req, r.id)
  PROVE  IInv'
  <1>1. live' = live \cup {r.id} /\ announced' = announced /\ wire' = wire \o Greeting(r.req, r.id)
    BY DEF HandleNew
  <1>2. /\ r.id \in Ids /\ reqs' \in Seq(Requests) /\ live' \subseteq Ids
        /\ Agreed' /\ Reached' /\ Fresh'
        /\ r.id \in Pending /\ kind[r.id] = r.req
        /\ \A e \in Event : Holds(e) /\ (e.ev = "global" => e.arg \in announced') => Holds(e)'
        /\ Registry \in live => Registry \in live'
    BY <1>1, Handled
  <1>3. UNCHANGED <<objs, kind, surface, stack, phase, bound, announced, pace>>
    BY <1>1 DEF daemon, objects
  <1>4. \A e \in Coming : Holds(e)'
    <2>1. \A e \in Coming : e \in Event /\ Holds(e)
      BY DEF IInv, AllTrue, Coming
    <2>2. \A e \in Event : Holds(e) /\ e.ev = "global" => e.arg \in announced'
      BY <1>1 DEF Holds
    <2> QED
      BY <1>2, <2>1, <2>2
  <1>5. ASSUME wire' \in Seq(Event) PROVE Ranges'
    BY <1>2, <1>3, <1>5 DEF IInv, Ranges
  <1>6. ASSUME AllTrue', Once', InOrder', Followed(wire)', Ranges', Coming \subseteq Coming'
        PROVE  IInv'
    <2>1. Bound'
      BY <1>2, <1>3, <1>6 DEF IInv, Bound
    <2> QED
      BY <1>2, <1>6, <2>1 DEF IInv
  <1>7. ASSUME NEW ev, ev \in {"info", "configure"}, ev = "info" => r.req = "object",
               wire' = wire \o <<Tell(ev, r.id)>>
        PROVE  IInv'
    <2> DEFINE x == Tell(ev, r.id)
    <2>1. x \in Event /\ x.ev = ev /\ x.obj = r.id
      BY <1>2, <1>7 DEF Tell, Event, First, Second
    <2>2. wire' \in Seq(Event)
      BY <1>7, <2>1 DEF IInv, Ranges
    <2>3. wire' = wire \o <<x>>
      BY <1>7
    <2> HIDE DEF x
    <2>4. /\ ~Single(x) /\ x.obj \in live' /\ x.ev # "delete_id"
          /\ \A e \in Coming : e.ev = "delete_id" => e.arg # x.obj
          /\ \A y \in live : y \in live'
      <3>1. \A e \in Coming : e.ev = "delete_id" => e.arg \notin Pending
        BY DEF IInv, AllTrue, Holds
      <3> QED
        BY <1>1, <1>2, <1>7, <2>1, <3>1 DEF Single
    <2>5. Ranges'
      BY <1>5, <2>2
    <2>6. /\ Once' /\ InOrder' /\ Followed(wire)'
          /\ \A e \in Event : e \in Coming' <=> e \in Coming \/ e = x
      BY <1>3, <2>1, <2>3, <2>4, <2>5, SentOne
    <2>7. Holds(x)'
      BY <1>1, <1>2, <1>3, <1>7, <2>1 DEF Holds
    <2>8. AllTrue' /\ Coming \subseteq Coming'
      BY <1>4, <2>6, <2>7 DEF AllTrue, Coming
    <2> QED
      BY <1>6, <2>5, <2>6, <2>8
  <1>8. CASE r.req = "object"
    <2>1. wire' = wire \o <<Tell("info", r.id)>>
      BY <1>1, <1>8 DEF Greeting
    <2> QED
      BY <1>7, <1>8, <2>1
  <1>9. CASE r.req = "layer"
    <2>1. wire' = wire \o <<Tell("configure", r.id)>>
      BY <1>1, <1>9 DEF Greeting
    <2> QED
      BY <1>7, <1>9, <2>1
  <1>10. CASE r.req \in {"surface", "buffer"}
    <2>1. wire' = wire
      <3>1. Greeting(r.req, r.id) = <<>>
        BY <1>10 DEF Greeting
      <3> QED
        BY <1>1, <3>1, ConcatEmptySeq DEF IInv, Ranges
    <2>2. wire' \in Seq(Event)
      BY <2>1 DEF IInv, Ranges
    <2>3. Ranges'
      BY <1>5, <2>2
    <2>4. Once' /\ InOrder' /\ Followed(wire)' /\ Coming' = Coming
      BY <1>1, <1>3, <2>1, <2>3, SentNone
    <2>5. AllTrue'
      BY <1>4, <2>4 DEF AllTrue
    <2> QED
      BY <1>6, <2>3, <2>4, <2>5
  <1> QED
    BY <1>8, <1>9, <1>10

LEMMA HandleSyncInv ==
  ASSUME IInv, reqs # <<>>, reqs' = Tail(reqs), UNCHANGED <<daemon, pace>>,
         NEW r, r = Head(reqs), r.req = "callback", HandleSync(r.id)
  PROVE  IInv'
  <1> DEFINE x == Tell("done", r.id)
             y == DeleteId(r.id)
             t == <<x, y>>
  <1>1. live' = live /\ announced' = announced /\ wire' = wire \o t
    BY DEF HandleSync
  <1>2. /\ r.id \in Ids /\ r.id \in objs /\ reqs' \in Seq(Requests) /\ live' \subseteq Ids
        /\ Agreed' /\ Reached' /\ Fresh'
        /\ r.id \in Pending /\ r.id \notin live' \cup Pending'
        /\ \A e \in Event : Holds(e) /\ (e.ev = "global" => e.arg \in announced') => Holds(e)'
    BY <1>1, Handled
  <1>3. UNCHANGED <<objs, kind, surface, stack, phase, bound, announced, pace>>
    BY <1>1 DEF daemon, objects
  <1>4. /\ x \in Event /\ x.ev = "done" /\ x.obj = r.id
        /\ y \in Event /\ y.ev = "delete_id" /\ y.obj = Display /\ y.arg = r.id
    BY <1>2 DEF Event, Tell, DeleteId, First, Second, Display, Ids
  <1> HIDE DEF x, y
  <1>5. /\ t \in Seq(Event) /\ Len(t) = 2 /\ t[1] = x /\ t[2] = y
        /\ \A i \in 1..Len(t) : i = 1 \/ i = 2
        /\ 1 \in 1..Len(t) /\ 2 \in 1..Len(t)
    BY <1>4
  <1> HIDE DEF t
  <1>6. wire' \in Seq(Event)
    BY <1>1, <1>5, ConcatProperties DEF IInv, Ranges
  <1>7. Ranges'
    BY <1>2, <1>3, <1>6 DEF IInv, Ranges
  <1>8. Display \in live /\ Display # r.id
    BY <1>1, <1>2 DEF IInv, Agreed, Owned
  <1>9. Before(t)
    BY <1>4, <1>5, <1>8 DEF Before
  <1>10. Closing(t)
    <2>1. 1 < 2
      OBVIOUS
    <2> QED
      BY <1>1, <1>4, <1>5, <1>8, <2>1 DEF Closing
  <1>11. \A e \in Coming : e \in Event /\ Holds(e)
    BY DEF IInv, AllTrue, Coming
  <1>12. y \notin Coming /\ \A e \in Coming : e.ev = "delete_id" => e.arg # r.id /\ e.arg # Display
    BY <1>2, <1>4, <1>8, <1>11 DEF Holds
  <1>13. /\ \A i \in 1..Len(t) : Single(t[i]) => t[i] \notin Coming
         /\ \A i, j \in 1..Len(t) : t[i] = t[j] /\ Single(t[i]) => i = j
         /\ \A i \in 1..Len(t) : \A e \in Coming : e.ev = "delete_id" => e.arg # t[i].obj
    BY <1>4, <1>5, <1>12 DEF Single
  <1>14. Ranges /\ Once /\ InOrder /\ Followed(wire) /\ stack' = stack
    BY <1>3 DEF IInv
  <1>15. /\ Once' /\ InOrder' /\ Followed(wire)'
         /\ \A e \in Event : e \in Coming' <=> e \in Coming \/ \E i \in 1..Len(t) : t[i] = e
    BY <1>1, <1>5, <1>7, <1>9, <1>10, <1>13, <1>14, Sent
  <1>16. AllTrue'
    <2> SUFFICES ASSUME NEW e \in Coming' PROVE Holds(e)'
      BY DEF AllTrue
    <2>1. e \in Coming \/ e = x \/ e = y
      BY <1>5, <1>15 DEF Coming
    <2>2. CASE e \in Coming
      <3>1. e.ev = "global" => e.arg \in announced'
        BY <1>1, <1>11, <2>2 DEF Holds
      <3> QED
        BY <1>2, <1>11, <2>2, <3>1
    <2>3. CASE e = x
      BY <1>4, <2>3 DEF Holds
    <2>4. CASE e = y
      BY <1>2, <1>3, <1>4, <2>4 DEF Holds
    <2> QED
      BY <2>1, <2>2, <2>3, <2>4
  <1>17. Bound'
    <2>1. \A e \in Coming : e \in Coming'
      BY <1>15 DEF Coming
    <2> QED
      BY <1>1, <1>3, <2>1 DEF IInv, Bound
  <1> QED
    BY <1>2, <1>7, <1>15, <1>16, <1>17 DEF IInv

LEMMA HandleDestroyInv ==
  ASSUME IInv, reqs # <<>>, reqs' = Tail(reqs), UNCHANGED <<daemon, pace>>,
         NEW r, r = Head(reqs), r.req = "destroy", HandleDestroy(r.id)
  PROVE  IInv'
  <1> DEFINE x == DeleteId(r.id)
  <1>1. live' = live \ {r.id} /\ announced' = announced /\ wire' = wire \o <<x>>
    BY DEF HandleDestroy
  <1>2. /\ r.id \in Ids /\ r.id \in objs /\ reqs' \in Seq(Requests) /\ live' \subseteq Ids
        /\ Agreed' /\ Reached' /\ Fresh'
        /\ r.id \in live /\ r.id \notin live' \cup Pending'
        /\ \A e \in Event : Holds(e) /\ (e.ev = "global" => e.arg \in announced') => Holds(e)'
        /\ Registry \in live => Registry \in live'
    BY <1>1, Handled
  <1>3. UNCHANGED <<objs, kind, surface, stack, phase, bound, announced, pace>>
    BY <1>1 DEF daemon, objects
  <1>4. x \in Event /\ x.ev = "delete_id" /\ x.obj = Display /\ x.arg = r.id
    BY <1>2 DEF Event, DeleteId, First, Second, Display, Ids
  <1>5. wire' \in Seq(Event)
    BY <1>1, <1>4 DEF IInv, Ranges
  <1> HIDE DEF x
  <1>6. Ranges'
    BY <1>2, <1>3, <1>5 DEF IInv, Ranges
  <1>7. Display \in live /\ Display \in live'
    BY <1>2 DEF IInv, Agreed, Owned
  <1>8. \A e \in Coming : e \in Event /\ Holds(e)
    BY DEF IInv, AllTrue, Coming
  <1>9. /\ x \notin Coming /\ x.obj \in live' /\ x.arg # x.obj
        /\ \A e \in Coming : e.ev = "delete_id" => e.arg # x.obj
        /\ \A y \in live : y \in live' \/ (x.ev = "delete_id" /\ x.arg = y)
    BY <1>1, <1>2, <1>4, <1>7, <1>8 DEF Holds
  <1>10. /\ Once' /\ InOrder' /\ Followed(wire)'
         /\ \A e \in Event : e \in Coming' <=> e \in Coming \/ e = x
    BY <1>1, <1>3, <1>4, <1>6, <1>9, SentOne
  <1>11. AllTrue'
    <2> SUFFICES ASSUME NEW e \in Coming' PROVE Holds(e)'
      BY DEF AllTrue
    <2>1. CASE e \in Coming
      <3>1. e.ev = "global" => e.arg \in announced'
        BY <1>1, <1>8, <2>1 DEF Holds
      <3> QED
        BY <1>2, <1>8, <2>1, <3>1
    <2>2. CASE e = x
      BY <1>2, <1>3, <1>4, <2>2 DEF Holds
    <2> QED
      BY <1>10, <2>1, <2>2 DEF Coming
  <1>12. Bound'
    <2>1. \A e \in Coming : e \in Coming'
      BY <1>10 DEF Coming
    <2> QED
      BY <1>1, <1>2, <1>3, <2>1 DEF IInv, Bound
  <1> QED
    BY <1>2, <1>6, <1>10, <1>11, <1>12 DEF IInv

\* An order of a finite set lists each of its elements once.
LEMMA OrderOnce ==
  ASSUME NEW S, IsFiniteSet(S), NEW order \in Orders(S)
  PROVE  /\ Cardinality(S) \in Nat /\ order \in [1..Cardinality(S) -> S]
         /\ \A s \in S : \E i \in 1..Cardinality(S) : order[i] = s
         /\ \A i, j \in 1..Cardinality(S) : order[i] = order[j] => i = j
  <1>1. Cardinality(S) \in Nat
    BY FS_CardinalityType
  <1>2. order \in [1..Cardinality(S) -> S] /\ ToSet(order) = S
    BY DEF Orders
  <1>3. \A s \in S : \E i \in 1..Cardinality(S) : order[i] = s
    BY <1>2 DEF ToSet
  <1>4. order \in Surjection(1..Cardinality(S), S)
    BY <1>2, <1>3 DEF Surjection
  <1>5. IsFiniteSet(1..Cardinality(S)) /\ Cardinality(1..Cardinality(S)) = Cardinality(S)
    BY <1>1, FS_Interval
  <1>6. order \in Injection(1..Cardinality(S), S)
    BY <1>4, <1>5, FS_Surjection
  <1>7. \A i, j \in 1..Cardinality(S) : order[i] = order[j] => i = j
    BY <1>2, <1>6 DEF Injection, IsInjective
  <1> QED
    BY <1>1, <1>2, <1>3, <1>7

LEMMA HandleRegistryInv ==
  ASSUME IInv, reqs # <<>>, reqs' = Tail(reqs), UNCHANGED <<daemon, pace>>,
         NEW r, r = Head(reqs), r.req = "registry", HandleRegistry(r.id)
  PROVE  IInv'
  <1>1. /\ live' = live \cup {r.id} /\ announced' \in SUBSET Globals
        /\ \E order \in Orders(announced') :
              wire' = wire \o [i \in DOMAIN order |-> Announce(order[i])]
    BY DEF HandleRegistry
  <1>2. PICK new \in SUBSET Globals : new = announced'
    BY <1>1
  <1>3. PICK order \in Orders(new) : wire' = wire \o [i \in DOMAIN order |-> Announce(order[i])]
    BY <1>1, <1>2
  <1>4. IsFiniteSet(new)
    BY FS_Subset, EventLoopAssumption
  <1>5. PICK n \in Nat : n = Cardinality(new)
    BY <1>4, FS_CardinalityType
  <1>6. /\ order \in [1..n -> new]
        /\ \A g \in new : \E i \in 1..n : order[i] = g
        /\ \A i, j \in 1..n : order[i] = order[j] => i = j
    BY <1>4, <1>5, OrderOnce
  <1> DEFINE t == [i \in 1..n |-> Announce(order[i])]
  <1>7. wire' = wire \o t
    BY <1>3, <1>6
  <1>8. \A g \in Globals : /\ Announce(g) \in Event
                           /\ Announce(g).ev = "global" /\ Announce(g).obj = Registry
                           /\ Announce(g).arg = g
    BY DEF Announce, Event
  <1>9. /\ t \in Seq(Event) /\ Len(t) = n
        /\ \A i \in 1..Len(t) : order[i] \in new /\ t[i] = Announce(order[i])
    BY <1>6, <1>8
  <1> HIDE DEF t
  <1>10. /\ r.id = Registry /\ reqs' \in Seq(Requests) /\ live' \subseteq Ids
         /\ Agreed' /\ Reached' /\ Fresh'
         /\ r.id \notin live /\ r.id \in Pending
         /\ \A e \in Event : Holds(e) /\ (e.ev = "global" => e.arg \in announced') => Holds(e)'
    BY <1>1, Handled
  <1>11. UNCHANGED <<objs, kind, surface, stack, phase, bound, pace>>
    BY DEF daemon, objects
  <1>12. \A e \in Coming : e \in Event /\ Holds(e)
    BY DEF IInv, AllTrue, Coming
  <1>13. /\ announced = {} /\ \A g \in Globals : bound[g] = 0
         /\ \A e \in Coming : e.ev # "global" /\ (e.ev = "delete_id" => e.arg # Registry)
    BY <1>10, <1>12 DEF IInv, Bound, Holds
  <1>14. wire' \in Seq(Event)
    BY <1>7, <1>9, ConcatProperties DEF IInv, Ranges
  <1>15. Ranges'
    BY <1>1, <1>10, <1>11, <1>14 DEF IInv, Ranges
  <1>16. ASSUME NEW i \in 1..Len(t)
         PROVE  t[i].ev = "global" /\ t[i].obj = Registry /\ t[i].arg = order[i]
    <2>1. order[i] \in Globals /\ t[i] = Announce(order[i])
      BY <1>9
    <2> QED
      BY <1>8, <2>1
  <1>17. Before(t) /\ Closing(t)
    BY <1>1, <1>10, <1>16 DEF Before, Closing
  <1>18. /\ \A i \in 1..Len(t) : t[i] \notin Coming
         /\ \A i, j \in 1..Len(t) : t[i] = t[j] => i = j
    <2>1. ASSUME NEW i \in 1..Len(t), NEW j \in 1..Len(t), t[i] = t[j] PROVE i = j
      <3>1. i \in 1..n /\ j \in 1..n /\ order[i] = order[j]
        BY <1>9, <1>16, <2>1
      <3> QED
        BY <1>6, <3>1
    <2> QED
      BY <1>13, <1>16, <2>1
  <1>19. Ranges /\ Once /\ InOrder /\ Followed(wire) /\ stack' = stack
    BY <1>11 DEF IInv
  <1>20. /\ \A i \in 1..Len(t) : Single(t[i]) => t[i] \notin Coming
         /\ \A i, j \in 1..Len(t) : t[i] = t[j] /\ Single(t[i]) => i = j
         /\ \A i \in 1..Len(t) : \A e \in Coming : e.ev = "delete_id" => e.arg # t[i].obj
    BY <1>13, <1>16, <1>18
  <1>21. /\ Once' /\ InOrder' /\ Followed(wire)'
         /\ \A e \in Event : e \in Coming' <=> e \in Coming \/ \E i \in 1..Len(t) : t[i] = e
    BY <1>7, <1>9, <1>15, <1>17, <1>19, <1>20, Sent
  <1>22. Registry \in live'
    BY <1>1, <1>10
  <1>23. AllTrue'
    <2> SUFFICES ASSUME NEW e \in Coming' PROVE Holds(e)'
      BY DEF AllTrue
    <2>1. CASE e \in Coming
      BY <1>10, <1>12, <1>13, <2>1
    <2>2. CASE e \notin Coming
      <3>1. PICK i \in 1..Len(t) : t[i] = e
        BY <1>21, <2>2 DEF Coming
      <3>2. e.ev = "global" /\ e.arg \in new /\ e.arg \in Globals
        BY <1>9, <1>16, <3>1
      <3> QED
        BY <1>2, <1>11, <1>13, <1>22, <3>2 DEF Holds
    <2> QED
      BY <2>1, <2>2
  <1>24. Bound'
    <2>1. \A g \in new : \E e \in Coming' : e.ev = "global" /\ e.arg = g
      <3> SUFFICES ASSUME NEW g \in new PROVE Announce(g) \in Coming'
        BY <1>8
      <3>1. PICK i \in 1..Len(t) : order[i] = g
        BY <1>6, <1>9
      <3> QED
        BY <1>8, <1>9, <1>21, <3>1
    <2> QED
      BY <1>2, <1>11, <1>13, <1>22, <2>1 DEF Bound
  <1> QED
    BY <1>10, <1>15, <1>21, <1>23, <1>24 DEF IInv

LEMMA HandleInv ==
  ASSUME IInv, Handle
  PROVE  IInv'
  <1> DEFINE r == Head(reqs)
  <1>1. reqs # <<>> /\ reqs' = Tail(reqs) /\ UNCHANGED <<daemon, pace>>
    BY DEF Handle
  <1>2. \/ r.req = "registry" /\ HandleRegistry(r.id)
        \/ r.req \in {"object", "surface", "layer", "buffer"} /\ HandleNew(r.req, r.id)
        \/ r.req = "callback" /\ HandleSync(r.id)
        \/ r.req = "destroy" /\ HandleDestroy(r.id)
    BY DEF Handle
  <1> QED
    BY <1>1, <1>2, HandleRegistryInv, HandleNewInv, HandleSyncInv, HandleDestroyInv

\* The compositor says something of its own accord.
LEMMA ToldInv ==
  ASSUME IInv, NEW x \in Event, x.ev \notin {"delete_id", "info"}, x.obj \in live,
         x.ev = "global" => /\ x.arg \notin announced
                            /\ announced' = announced \cup {x.arg} /\ Registry \in live,
         x.ev # "global" => announced' = announced,
         wire' = Append(wire, x), UNCHANGED <<daemon, reqs, live, pace>>
  PROVE  IInv'
  <1>1. UNCHANGED <<objs, kind, surface, stack, phase, bound, reqs, live, pace>>
    BY DEF daemon, objects
  <1>2. \A e \in Coming : e \in Event /\ Holds(e)
    BY DEF IInv, AllTrue, Coming
  <1>3. x.ev = "global" => x \notin Coming /\ x.arg \in Globals /\ bound[x.arg] = 0
    <2>1. x.ev = "global" => x.arg \in Globals
      BY DEF Event, First, Second
    <2> QED
      BY <1>2, <2>1 DEF Holds, IInv, Bound
  <1>4. wire' \in Seq(Event) /\ wire' = wire \o <<x>>
    BY AppendProperties, AppendIsConcat DEF IInv, Ranges
  <1>5. announced' \subseteq Globals
    BY <1>3 DEF IInv, Ranges
  <1>6. Ranges'
    BY <1>1, <1>4, <1>5 DEF IInv, Ranges
  <1>7. Single(x) => x \notin Coming
    BY <1>3 DEF Single
  <1>8. \A e \in Coming : e.ev = "delete_id" => e.arg # x.obj
    BY <1>2 DEF Holds
  <1>9. /\ Once' /\ InOrder' /\ Followed(wire)'
        /\ \A e \in Event : e \in Coming' <=> e \in Coming \/ e = x
    BY <1>1, <1>4, <1>6, <1>7, <1>8, SentOne
  <1>10. Pending' = Pending /\ Condemned' = Condemned
    BY <1>1 DEF Pending, Condemned, Makes, Breaks
  <1>11. Agreed'
    <2>1. Owned'
      BY <1>1, <1>10 DEF IInv, Agreed, Owned, Makes
    <2>2. Doomed'
      BY <1>1 DEF IInv, Agreed, Doomed, Makes, Breaks
    <2>3. Paired'
      BY <1>1, <1>10 DEF IInv, Agreed, Paired, There
    <2> QED
      BY <2>1, <2>2, <2>3 DEF Agreed
  <1>12. AllTrue'
    <2> SUFFICES ASSUME NEW e \in Coming' PROVE Holds(e)'
      BY DEF AllTrue
    <2>0. announced \subseteq announced'
      OBVIOUS
    <2>1. CASE e \in Coming
      BY <1>1, <1>2, <1>10, <2>0, <2>1 DEF Holds
    <2>2. CASE e = x
      BY <1>1, <1>3, <2>2 DEF Holds
    <2> QED
      BY <1>9, <2>1, <2>2 DEF Coming
  <1>13. Bound'
    <2>1. (\A e \in Coming : e \in Coming') /\ x \in Coming'
      BY <1>9 DEF Coming
    <2>2. announced' # {} => Registry \in live'
      BY <1>1 DEF IInv, Bound
    <2>3. \A g \in Globals : bound'[g] \in {0, 1} /\ (bound'[g] = 1 => g \in announced')
      BY <1>1 DEF IInv, Bound
    <2>4. ASSUME phase' # "dead", NEW g \in announced'
          PROVE  bound'[g] = 1 \/ \E e \in Coming' : e.ev = "global" /\ e.arg = g
      <3>1. CASE g \in announced
        BY <1>1, <2>1, <2>4, <3>1 DEF IInv, Bound
      <3>2. CASE g \notin announced
        BY <2>1, <2>4, <3>2
      <3> QED
        BY <3>1, <3>2
    <2> QED
      BY <2>2, <2>3, <2>4 DEF Bound
  <1>14. Fresh' /\ Reached'
    BY <1>1, <1>10 DEF IInv, Fresh, Reached
  <1> QED
    BY <1>6, <1>9, <1>11, <1>12, <1>13, <1>14 DEF IInv

LEMMA HotplugInv ==
  ASSUME IInv, Hotplug
  PROVE  IInv'
  <1>1. PICK g \in Globals \ announced :
           announced' = announced \cup {g} /\ wire' = Append(wire, Announce(g))
    BY DEF Hotplug
  <1> DEFINE x == Announce(g)
  <1>2. x \in Event /\ x.ev = "global" /\ x.arg = g /\ x.obj = Registry
    BY DEF Announce, Event
  <1>3. Registry \in live /\ UNCHANGED <<daemon, reqs, live, pace>> /\ wire' = Append(wire, x)
    BY <1>1 DEF Hotplug
  <1> HIDE DEF x
  <1> QED
    BY <1>1, <1>2, <1>3, ToldInv

LEMMA SendInv ==
  ASSUME IInv, Send
  PROVE  IInv'
  <1>1. PICK id \in live, ev \in Unasked : wire' = Append(wire, Tell(ev, id))
    BY DEF Send
  <1> DEFINE x == Tell(ev, id)
  <1>2. ev \in {"enter", "leave", "configure", "closed"} /\ id \in Ids
    BY EventLoopAssumption DEF IInv, Ranges
  <1>3. x \in Event /\ x.ev = ev /\ x.obj = id
    BY <1>2 DEF Tell, Event, First, Second
  <1>4. UNCHANGED <<daemon, reqs, live, pace, announced>> /\ wire' = Append(wire, x)
    BY <1>1 DEF Send
  <1> HIDE DEF x
  <1> QED
    BY <1>2, <1>3, <1>4, ToldInv

LEMMA SameInv ==
  ASSUME IInv, UNCHANGED <<daemon, reqs, wire, live, announced, pace>>
  PROVE  IInv'
  <1>1. UNCHANGED <<objs, kind, surface, stack, phase, bound, reqs, wire, live, announced, pace>>
    BY DEF daemon, objects
  <1>2. Ranges'
    BY <1>1 DEF IInv, Ranges
  <1>3. Lines' = Lines /\ \A k \in Lines : Line(k)' = Line(k)
    BY <1>1 DEF Lines, Line
  <1>4. Once' /\ InOrder' /\ Coming' = Coming
    BY <1>2, <1>3, Unmoved DEF IInv
  <1>5. Pending' = Pending /\ Condemned' = Condemned
    BY <1>1 DEF Pending, Condemned, Makes, Breaks
  <1>6. Agreed'
    <2>1. Owned'
      BY <1>1, <1>5 DEF IInv, Agreed, Owned, Makes
    <2>2. Doomed'
      BY <1>1 DEF IInv, Agreed, Doomed, Makes, Breaks
    <2>3. Paired'
      BY <1>1, <1>5 DEF IInv, Agreed, Paired, There
    <2> QED
      BY <2>1, <2>2, <2>3 DEF Agreed
  <1>7. AllTrue'
    BY <1>1, <1>4, <1>5 DEF IInv, AllTrue, Holds
  <1>8. Bound'
    BY <1>1, <1>4 DEF IInv, Bound
  <1>9. Followed(wire)' /\ Fresh' /\ Reached'
    BY <1>1, <1>5 DEF IInv, Followed, Fresh, Reached
  <1> QED
    BY <1>2, <1>4, <1>6, <1>7, <1>8, <1>9 DEF IInv

LEMMA InitInv == Init => IInv
  <1> SUFFICES ASSUME Init PROVE IInv
    OBVIOUS
  <1>1. 1 \in Ids /\ Display = 1 /\ Registry # Display
    BY EventLoopAssumption DEF Ids, Display, Registry
  <1>2. Ranges
    <2>1. kind \in [Ids -> Kinds]
      BY DEF Init, Kinds, Created
    <2> QED
      BY <1>1, <2>1, EmptySeq DEF Init, Ranges
  <1>3. Lines = {0} /\ Line(0) = <<>> /\ Coming = {}
    <2>1. Lines = {0} /\ Line(0) = <<>>
      BY EmptySeq DEF Init, Lines, Line
    <2> QED
      BY <2>1, EmptySeq DEF Coming
  <1>4. Once /\ InOrder /\ AllTrue /\ Followed(wire)
    BY <1>3, EmptySeq DEF Once, InOrder, Before, AllTrue, Followed, Init
  <1>5. Len(reqs) = 0 /\ Pending = {}
    BY EmptySeq DEF Init, Pending, Makes
  <1>6. Owned
    BY <1>1, <1>5 DEF Init, Owned, Makes
  <1>7. Doomed /\ Paired
    BY <1>5 DEF Init, Doomed, Paired, Breaks
  <1>8. Bound /\ Fresh /\ Reached
    BY DEF Init, Bound, Fresh, Reached
  <1> QED
    BY <1>2, <1>4, <1>6, <1>7, <1>8 DEF IInv, Agreed

LEMMA DispatchInv ==
  ASSUME IInv, Dispatch
  PROVE  IInv'
  <1> DEFINE e == Head(Top.batch)
  <1>1. stack # <<>> /\ Top.batch # <<>>
    BY DEF Dispatch
  <1>2. \/ DispatchUnknown(e) \/ DispatchStray(e)
        \/ DispatchGlobal(e) \/ DispatchDeleteId(e)
        \/ DispatchConfigure(e) \/ DispatchConfigureFails(e) \/ DispatchClosed(e)
        \/ DispatchOther(e)
    BY DEF Dispatch
  <1>3. CASE DispatchUnknown(e) \/ DispatchStray(e) \/ DispatchConfigureFails(e)
    BY <1>3, DeadInv DEF DispatchUnknown, DispatchStray, DispatchConfigureFails
  <1> QED
    BY <1>1, <1>2, <1>3, DispatchGlobalInv, DispatchDeleteIdInv, DispatchConfigureInv,
       DispatchClosedInv, DispatchOtherInv

LEMMA NextInv == IInv /\ [Next]_vars => IInv'
  <1> SUFFICES ASSUME IInv, [Next]_vars PROVE IInv'
    OBVIOUS
  <1>1. CASE CreateUnequipped \/ DrawFails \/ SendGone
    BY <1>1, DeadInv DEF CreateUnequipped, DrawFails, SendGone
  <1>2. CASE Begin \/ CreateObject \/ CreateLayer
    BY <1>2, BeginInv, CreateObjectInv, CreateLayerInv
  <1>3. CASE DrawSaved \/ Draw \/ Listen
    BY <1>3, DrawSavedInv, DrawInv, ListenInv
  <1>4. CASE Receive \/ Poll \/ Dispatch \/ Return
    BY <1>4, ReceiveInv, PollInv, DispatchInv, ReturnInv
  <1>5. CASE Handle \/ Hotplug \/ Send
    BY <1>5, HandleInv, HotplugInv, SendInv
  <1>6. CASE Go
    BY <1>6, SameInv DEF Go
  <1>7. CASE UNCHANGED vars
    BY <1>7, SameInv DEF vars, server
  <1> QED
    BY <1>1, <1>2, <1>3, <1>4, <1>5, <1>6, <1>7 DEF Next, Daemon

(* The invariant holds for any globals, handlers, ids, paces and nesting of *)
(* calls: no step of the daemon or of the compositor breaks what the two    *)
(* agree on.                                                                *)
THEOREM Invariance == Spec => []IInv
  BY InitInv, NextInv, PTL DEF Spec

-----------------------------------------------------------------------------
(* What the invariant says                                                 *)

(* No request takes an id the compositor still uses or destroys what is    *)
(* not there, every delete_id names a registered id and comes once, and an *)
(* event names its object as long as the delete_id is still behind it.     *)
THEOREM Agreement == Spec => []IdsAgree
  <1>1. IInv => IdsAgree
    <2> SUFFICES ASSUME IInv PROVE IdsAgree
      OBVIOUS
    <2>1. Ranges /\ DOMAIN wire = 1..Len(wire) /\ DOMAIN reqs = 1..Len(reqs)
      BY LenProperties DEF IInv, Ranges
    <2>2. /\ \A k \in Lines : \A i \in 1..Len(Line(k)) : Line(k)[i] \in Coming
          /\ \A k \in Lines : DOMAIN Line(k) = 1..Len(Line(k))
          /\ 0 \in Lines /\ Line(0) = wire
      BY <2>1, Types DEF Coming
    <2>3. DOMAIN stack = 1..Len(stack) /\ \A i \in DOMAIN stack : i \in Lines /\ Line(i) = stack[i].batch
      BY <2>1, Types, LenProperties DEF Ranges, Lines, Line
    <2>4. \A e \in Coming : Holds(e)
      BY DEF IInv, AllTrue
    <2>5. /\ \A i \in Creating : i \in 1..Len(reqs) /\ Makes(i)
          /\ \A i \in 1..Len(reqs) : Makes(i) => i \in Creating
          /\ \A i \in Destroying : i \in 1..Len(reqs) /\ Breaks(i)
          /\ \A i \in Creating : reqs[i].id \in Pending
      <3>1. \A i \in 1..Len(reqs) : reqs[i].id \in Ids
        <4>1. \A i \in 1..Len(reqs) : reqs[i] \in Requests
          BY <2>1 DEF Ranges
        <4> QED
          BY <4>1 DEF Requests
      <3> QED
        BY <2>1, <3>1 DEF Creating, Destroying, Makes, Breaks, Pending
    <2>6. NewIdsFresh
      BY <2>5 DEF IInv, Agreed, Owned, NewIdsFresh
    <2>7. DestroyedOnce
      BY <2>5 DEF IInv, Agreed, Doomed, DestroyedOnce
    <2>8. DeleteIdRegistered
      <3>1. \A e \in Undispatched : e \in Coming
        BY <2>2, <2>3 DEF Undispatched, ToSet
      <3>2. \A e \in ToSet(wire) : e \in Coming
        BY <2>1, <2>2 DEF ToSet
      <3>3. \A i, j \in DOMAIN wire : wire[i].ev = "delete_id" /\ wire[i] = wire[j] => i = j
        BY <2>1, <2>2 DEF IInv, Once, Single
      <3> QED
        BY <2>4, <3>1, <3>2, <3>3 DEF DeleteIdRegistered, Holds
    <2>9. EventNamesObject
      <3> SUFFICES ASSUME NEW s \in {wire} \cup {stack[i].batch : i \in DOMAIN stack},
                          NEW i \in DOMAIN s, NEW j \in DOMAIN s,
                          s[j].ev = "delete_id", s[i].obj = s[j].arg
                   PROVE  /\ i < j
                          /\ s[i].obj \in objs \ live
                          /\ \A k \in Creating : reqs[k].id # s[i].obj
        BY DEF EventNamesObject
      <3>1. PICK k \in Lines : s = Line(k)
        BY <2>2, <2>3
      <3>2. i \in 1..Len(Line(k)) /\ j \in 1..Len(Line(k))
        BY <2>2, <3>1
      <3>3. i < j
        BY <3>1, <3>2 DEF IInv, InOrder, Before
      <3>4. Holds(s[j])
        BY <2>2, <2>4, <3>1, <3>2
      <3> QED
        BY <2>5, <3>3, <3>4 DEF Holds
    <2> QED
      BY <2>6, <2>7, <2>8, <2>9 DEF IdsAgree
  <1> QED
    BY <1>1, Invariance, PTL

(* A global is bound at most once, and when the daemon has nothing left to *)
(* do, every global that was announced has been.                           *)
THEOREM BoundOnce == Spec => []EachBoundOnce
  <1>1. IInv => EachBoundOnce
    <2> SUFFICES ASSUME IInv PROVE EachBoundOnce
      OBVIOUS
    <2>1. \A g \in Globals : bound[g] <= 1
      BY DEF IInv, Bound
    <2>2. ASSUME phase = "loop", stack = <<>>, wire = <<>>, NEW g \in announced
          PROVE  bound[g] = 1
      <3>1. Lines = {0} /\ Line(0) = <<>>
        BY <2>2, EmptySeq DEF Lines, Line
      <3>2. Coming = {}
        BY <3>1, EmptySeq DEF Coming
      <3> QED
        BY <2>2, <3>2 DEF IInv, Bound
    <2> QED
      BY <2>1, <2>2 DEF EachBoundOnce
  <1> QED
    BY <1>1, Invariance, PTL

\* An event that meets no object, or another one, was sent to an object that is
\* deleted: none of the registry's, the display's or a bound object's is.
LEMMA Late ==
  ASSUME IInv, NEW e \in Event, Holds(e), e.obj \notin objs \/ Stray(e)
  PROVE  LateEvent(e)
  <1>1. Display \in objs /\ live \subseteq objs /\ kind[Display] = "display"
    BY DEF IInv, Agreed, Owned
  <1>2. e.ev # "info"
    BY <1>1 DEF Holds, Stray, Sender
  <1>3. e.ev # "global"
    <2>1. e.ev = "global" => e.obj = Registry
      BY DEF Event, First, Second
    <2>2. Registry \in live => kind[Registry] = "registry"
      BY DEF IInv, Agreed, Owned
    <2> QED
      BY <1>1, <2>1, <2>2 DEF Holds, Stray, Sender
  <1>4. e.ev # "delete_id"
    <2>1. e.ev = "delete_id" => e.obj = Display
      BY DEF Event, First, Second
    <2> QED
      BY <1>1, <2>1 DEF Stray, Sender
  <1>5. e.ev \in {"global", "delete_id", "done", "info", "enter", "configure", "leave", "closed"}
    BY DEF Event, First, Second
  <1> QED
    BY <1>2, <1>3, <1>4, <1>5 DEF LateEvent

\* A layer surface answers configure, and an event of an object that had its id
\* before.
LEMMA Answering ==
  ASSUME IInv, NEW e \in Event, Holds(e), Heard(e, First)
  PROVE  e.ev = "configure" \/ LateEvent(e)
  <1>1. e.obj \in Ids /\ e.obj \in objs /\ surface[e.obj] # 0 /\ e.ev \in First
    BY DEF Heard, IInv, Ranges
  <1>2. kind[e.obj] = "layer"
    BY <1>1 DEF IInv, Agreed, Paired
  <1>3. e.ev # "configure" => Stray(e)
    BY <1>1, <1>2 DEF Stray, Sender, First
  <1> QED
    BY <1>3, Late

(* The daemon ends because the compositor is gone, because a handler needs *)
(* a global that has not been bound, because a wallpaper or a buffer       *)
(* cannot be had, or at an event whose object has been deleted by a nested *)
(* call; never at an event of a global or a bound object nor at a          *)
(* delete_id, and never because closed does not find a surface.            *)
THEOREM Death == Spec => DeathExplained
  <1> DEFINE Explained ==
          phase # "dead" /\ phase' = "dead" =>
             \/ gone
             \/ Doing("layer") /\ \E g \in Needed : bound[g] = 0
             \/ Doing("draw") \/ (phase \in {"restore", "loop"} /\ stack = <<>>)
             \/ /\ stack # <<>> /\ Top.todo = <<>> /\ Top.batch # <<>>
                /\ LET e == Head(Top.batch) IN e.ev = "configure" \/ LateEvent(e)
  <1>1. ASSUME IInv, [Next]_vars PROVE [Explained]_vars
    <2> SUFFICES ASSUME phase # "dead", phase' = "dead"
                 PROVE  \/ gone
                        \/ Doing("layer") /\ \E g \in Needed : bound[g] = 0
                        \/ Doing("draw") \/ (phase \in {"restore", "loop"} /\ stack = <<>>)
                        \/ /\ stack # <<>> /\ Top.todo = <<>> /\ Top.batch # <<>>
                           /\ LET e == Head(Top.batch) IN e.ev = "configure" \/ LateEvent(e)
      OBVIOUS
    <2>1. CASE CreateUnequipped
      <3>1. Doing("layer") /\ ~Equipped
        BY <2>1 DEF CreateUnequipped
      <3>2. PICK g \in Needed : ~(bound[g] > 0)
        BY <3>1 DEF Equipped
      <3>3. bound[g] = 0
        <4>1. g \in Globals
          BY <3>2, EventLoopAssumption
        <4>2. bound[g] \in {0, 1}
          BY <1>1, <4>1 DEF IInv, Bound
        <4> QED
          BY <3>2, <4>2
      <3> QED
        BY <3>1, <3>2, <3>3
    <2>2. CASE DrawFails
      BY <2>2 DEF DrawFails
    <2>3. CASE SendGone
      BY <2>3 DEF SendGone
    <2>4. CASE Dispatch
      <3> DEFINE e == Head(Top.batch)
      <3>1. stack # <<>> /\ Top.todo = <<>> /\ Top.batch # <<>>
        BY <2>4 DEF Dispatch
      <3>2. e \in Event /\ Holds(e)
        BY <1>1, <3>1, Dispatched
      <3>3. CASE DispatchUnknown(e) \/ DispatchStray(e)
        <4>1. e.obj \notin objs \/ Stray(e)
          BY <3>3 DEF DispatchUnknown, DispatchStray
        <4>2. LateEvent(e)
          BY <1>1, <3>2, <4>1, Late
        <4> QED
          BY <3>1, <4>2
      <3>4. CASE DispatchDeleteId(e)
        <4>1. phase' = phase
          BY <1>1, <3>1, <3>4, DispatchDeleteIdInv
        <4> QED
          BY <4>1
      <3>5. CASE DispatchConfigureFails(e)
        <4>1. Heard(e, First)
          BY <3>5 DEF DispatchConfigureFails
        <4>2. e.ev = "configure" \/ LateEvent(e)
          BY <1>1, <3>2, <4>1, Answering
        <4> QED
          BY <3>1, <4>2
      <3>6. CASE DispatchClosed(e)
        BY <1>1, <3>1, <3>6, DispatchClosedInv
      <3>7. CASE DispatchGlobal(e) \/ DispatchConfigure(e) \/ DispatchOther(e)
        BY <3>7 DEF DispatchGlobal, DispatchConfigure, DispatchOther
      <3> QED
        BY <2>4, <3>3, <3>4, <3>5, <3>6, <3>7 DEF Dispatch
    <2>5. CASE Begin \/ CreateObject \/ CreateLayer \/ DrawSaved \/ Draw \/ Listen
      BY <2>5 DEF Begin, CreateObject, CreateLayer, DrawSaved, Draw, Listen
    <2>6. CASE Receive \/ Poll
      BY <2>6 DEF Receive, Poll, Read
    <2>7. CASE Return
      BY <2>7 DEF Return
    <2>8. CASE Handle \/ Hotplug \/ Send \/ Go \/ UNCHANGED vars
      BY <2>8 DEF Handle, Hotplug, Send, Go, vars, daemon
    <2> QED
      BY <1>1, <2>1, <2>2, <2>3, <2>4, <2>5, <2>6, <2>7, <2>8 DEF Next, Daemon
  <1>2. Spec => [][Explained]_vars
    <2> HIDE DEF Explained
    <2> QED
      BY <1>1, Invariance, PTL DEF Spec
  <1> QED
    BY <1>2 DEF DeathExplained

=============================================================================

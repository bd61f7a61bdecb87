----------------------------- MODULE EventLoop -----------------------------
(***************************************************************************)
(* How xdwlwd talks to the compositor: requests that create and destroy    *)
(* objects, the ids these take, xdwl_roundtrip() and xdwl_dispatch(), and  *)
(* handlers that call xdwl_roundtrip() themselves.  The handler of         *)
(* wl_registry.global does so once for each thing it binds or creates, so  *)
(* that roundtrips nest: an inner one reads and dispatches whatever the    *)
(* socket holds, also what an outer one is waiting for, and gives ids back *)
(* whose events an outer one has still to dispatch.                        *)
(*                                                                         *)
(* The compositor (external) handles requests in order, answers wl_display *)
(* .sync with done and delete_id, announces globals in any order and at    *)
(* any time, closes layer surfaces, and may go.  From a socket whose       *)
(* compositor is gone nothing more is received, which is no error: a call  *)
(* that waits reads again and again, the poll loop polls again and again,  *)
(* and the model stutters.  Requests that neither create nor destroy an    *)
(* object are left out, but for the SIGPIPE they may raise.                *)
(***************************************************************************)
EXTENDS Integers, Sequences, SequencesExt, FiniteSets

CONSTANTS Globals,    \* what the compositor may announce
          Handlers,   \* what the handler of each global does, in steps
          Needed,     \* the globals that a layer surface takes
          MaxId,      \* ids run up to this bound (1024 in the code)
          Unasked,    \* the events that the compositor may send for no request
          Paces       \* what a run may be like: cap events fit in the buffer of
                      \* one recvmsg(), "together" says that the compositor has
                      \* handled every request before the daemon reads; sends
                      \* bounds the events for no request, draws the wallpapers
                      \* drawn from main(), and the compositor may go if "goes"

Ids == 1..MaxId
Display == 1
Registry == 2

\* An object is bound or created, a surface and its layer surface are, or the
\* output's saved wallpaper is drawn.
Steps == {"object", "layer", "draw"}

ASSUME EventLoopAssumption ==
    /\ IsFiniteSet(Globals)
    /\ Handlers \in [Globals -> Seq(Steps)]
    /\ Needed \subseteq Globals
    /\ MaxId \in Nat \ {0}
    /\ Unasked \subseteq {"enter", "leave", "configure", "closed"}
    /\ Paces \subseteq [cap : Nat \ {0}, together : BOOLEAN, sends : Nat, draws : Nat,
                        goes : BOOLEAN]

VARIABLES
    objs,       \* ids registered in the daemon
    kind,       \* what was last registered under each id
    surface,    \* the surface of each layer surface that has its listener, else 0
    stack,      \* calls of xdwl_roundtrip() and xdwl_dispatch(), innermost last
    phase,      \* "connect", "bind" (in bind_globals), "restore", "loop" or "dead"
    draws,      \* how many wallpapers main() has drawn
    bound,      \* history: how often each global has been bound
    reqs,       \* requests on their way to the compositor
    wire,       \* events on their way to the daemon
    live,       \* ids of the compositor's objects for this daemon
    announced,  \* globals the daemon has been or will be told of
    sends,      \* how many events have been sent for no request
    gone,       \* the compositor has closed the connection
    pace        \* one of Paces, throughout

objects == <<objs, kind, surface>>
daemon == <<objects, stack, phase, draws, bound>>
server == <<live, announced, sends, gone, pace>>
vars == <<daemon, reqs, wire, server>>

\* The kinds of objects.  A request names what it creates, or destroys.
Created == {"registry", "callback", "object", "surface", "layer", "buffer"}
Kinds == Created \cup {"display"}
Requests == [req : Created \cup {"destroy"}, id : Ids]

\* An event names the object it is sent to and what it is about.  The first
\* events of their interfaces have opcode 0, the second ones 1.
First == {"done", "info", "enter", "configure"}
Second == {"leave", "closed"}
Event == [ev : {"global"}, obj : {Registry}, arg : Globals]
         \cup [ev : First \cup Second, obj : Ids, arg : {0}]
         \cup [ev : {"delete_id"}, obj : {Display}, arg : Ids]

Sender == [global |-> "registry", delete_id |-> "display", done |-> "callback",
           info |-> "object", enter |-> "surface", leave |-> "surface",
           configure |-> "layer", closed |-> "layer"]

\* What a call works on: cb is the callback it waits for and wait whether it
\* still does, batch the events it has received and not yet dispatched, todo
\* what the handler it is in has still to do.
Waiting(cb) == [cb |-> cb, wait |-> TRUE, batch |-> <<>>, todo |-> <<>>]
Reading     == [cb |-> 0, wait |-> FALSE, batch |-> <<>>, todo |-> <<>>]

Init ==
    /\ objs = {Display}
    /\ kind = [i \in Ids |-> IF i = Display THEN "display" ELSE "buffer"]
    /\ surface = [i \in Ids |-> 0]
    /\ stack = <<>>
    /\ phase = "connect"
    /\ draws = 0
    /\ bound = [g \in Globals |-> 0]
    /\ reqs = <<>>
    /\ wire = <<>>
    /\ live = {Display}
    /\ announced = {}
    /\ sends = 0
    /\ gone = FALSE
    /\ pace \in Paces

-----------------------------------------------------------------------------
(* Objects                                                                 *)

\* Mutant: ids are counted from 0.
Lowest_FromZero(id, taken) == id + 1 \in Ids \ taken /\ \A i \in Ids \ taken : id + 1 <= i

\* xdwl_object_register() takes the lowest free id of the pool.
Lowest(id, taken) == id \in Ids \ taken /\ \A i \in Ids \ taken : id <= i

New(what, id) == [req |-> what, id |-> id]
Named(asked) == {asked[k].id : k \in DOMAIN asked}

\* Objects are registered and asked for.
Create(asked) ==
    /\ objs' = objs \cup Named(asked)
    /\ kind' = [i \in Ids |-> IF i \in Named(asked)
                              THEN (CHOOSE r \in ToSet(asked) : r.id = i).req
                              ELSE kind[i]]
    /\ reqs' = reqs \o asked

-----------------------------------------------------------------------------
(* The daemon                                                              *)

Top == stack[Len(stack)]
Below == Front(stack)

\* xdwl_roundtrip() is called, after requests, from the calls "below".
Roundtrip(below, asked) ==
    /\ ~gone
    /\ \E cb \in Ids :
          /\ Lowest(cb, objs \cup Named(asked))
          /\ Create(Append(asked, New("callback", cb)))
          /\ stack' = Append(below, Waiting(cb))

Dead ==
    /\ phase' = "dead"
    /\ stack' = <<>>
    /\ UNCHANGED <<objects, draws, bound, reqs, wire, server>>

\* bind_globals()
Begin ==
    /\ phase = "connect"
    /\ phase' = "bind"
    /\ \E id \in Ids : Lowest(id, objs) /\ Roundtrip(<<>>, <<New("registry", id)>>)
    /\ UNCHANGED <<surface, draws, bound, wire, server>>

\* The handler that the top call is in comes to a step, and leaves it behind.
Doing(step) == stack # <<>> /\ Top.todo # <<>> /\ Head(Top.todo) = step
Rest == Append(Below, [Top EXCEPT !.todo = Tail(@)])

CreateObject ==
    /\ Doing("object")
    /\ \E id \in Ids : Lowest(id, objs) /\ Roundtrip(Rest, <<New("object", id)>>)
    /\ UNCHANGED <<surface, phase, draws, bound, wire, server>>

\* wl_compositor.create_surface and zwlr_layer_shell_v1.get_layer_surface find
\* their objects by name.
Equipped == \A g \in Needed : bound[g] > 0

\* create_surface() and create_layer_surface()
CreateLayer ==
    /\ Doing("layer")
    /\ Equipped
    /\ \E s \in Ids :
          /\ Lowest(s, objs)
          /\ \E l \in Ids :
                /\ Lowest(l, objs \cup {s})
                /\ Roundtrip(Rest, <<New("surface", s), New("layer", l)>>)
                /\ surface' = [surface EXCEPT ![l] = s]
    /\ UNCHANGED <<phase, draws, bound, wire, server>>

\* An output without them makes the daemon exit.
CreateUnequipped ==
    /\ Doing("layer")
    /\ ~Equipped
    /\ Dead

\* apply() shows what has been drawn, with a roundtrip.  Nothing may be saved
\* for the output.
DrawSaved ==
    /\ Doing("draw")
    /\ \/ Roundtrip(Rest, <<>>)
       \/ stack' = Rest /\ UNCHANGED <<objs, kind, reqs>>
    /\ UNCHANGED <<surface, phase, draws, bound, wire, server>>

\* main() draws, for what is saved before the poll loop and for a request in it.
Draw ==
    /\ phase \in {"restore", "loop"}
    /\ stack = <<>>
    /\ draws < pace.draws
    /\ draws' = draws + 1
    /\ Roundtrip(<<>>, <<>>)
    /\ UNCHANGED <<surface, phase, bound, wire, server>>

\* A saved image that cannot be drawn makes the daemon exit, and an output
\* without a buffer ends it.
DrawFails ==
    /\ \/ Doing("draw")
       \/ phase \in {"restore", "loop"} /\ stack = <<>> /\ draws < pace.draws
    /\ Dead

Listen ==
    /\ phase = "restore"
    /\ stack = <<>>
    /\ phase' = "loop"
    /\ UNCHANGED <<objects, stack, draws, bound, reqs, wire, server>>

\* SIGPIPE ends a daemon that sends to a compositor that is gone.
SendGone ==
    /\ gone
    /\ \/ phase = "connect"
       \/ \E step \in Steps : Doing(step) /\ (step = "layer" => Equipped)
       \/ phase \in {"restore", "loop"} /\ stack = <<>> /\ draws < pace.draws
    /\ Dead

Readable == wire # <<>> /\ (pace.together => reqs = <<>> \/ gone)
Chunk == IF Len(wire) <= pace.cap THEN Len(wire) ELSE pace.cap

\* What xdwl_recv_events() keeps of what it reads: everything up to the first
\* event for an object that is not registered.
Known(n) ==
    /\ \A i \in 1..n : wire[i].obj \in objs
    /\ n < Chunk => wire[n + 1].obj \notin objs

\* The call "reader" gets it to dispatch.
Read(below, reader) ==
    /\ Readable
    /\ \E n \in 0..Chunk :
          /\ Known(n)
          /\ stack' = Append(below, [reader EXCEPT !.batch = SubSeq(wire, 1, n)])
    /\ wire' = SubSeq(wire, Chunk + 1, Len(wire))
    /\ UNCHANGED <<objects, phase, draws, bound, reqs, server>>

\* A roundtrip that has dispatched all it had reads again until its callback
\* has fired.
Receive ==
    /\ stack # <<>>
    /\ Top.batch = <<>> /\ Top.todo = <<>> /\ Top.wait
    /\ Read(Below, Top)

\* The poll loop: xdwl_dispatch() reads once.
Poll ==
    /\ phase = "loop"
    /\ stack = <<>>
    /\ Read(<<>>, Reading)

\* Mutant: a roundtrip unregisters its callback on the way out.
Return_Unregister ==
    /\ stack # <<>>
    /\ Top.batch = <<>> /\ Top.todo = <<>> /\ ~Top.wait
    /\ stack' = Below
    /\ objs' = objs \ {Top.cb}
    /\ phase' = IF Below = <<>> /\ phase = "bind" THEN "restore" ELSE phase
    /\ UNCHANGED <<kind, surface, draws, bound, reqs, wire, server>>

\* Mutant: a roundtrip returns as soon as its callback has fired.
Return_AtOnce ==
    /\ stack # <<>>
    /\ Top.todo = <<>> /\ ~Top.wait
    /\ stack' = Below
    /\ phase' = IF Below = <<>> /\ phase = "bind" THEN "restore" ELSE phase
    /\ UNCHANGED <<objects, draws, bound, reqs, wire, server>>

\* The batch is dispatched to its end before a call returns.
Return ==
    /\ stack # <<>>
    /\ Top.batch = <<>> /\ Top.todo = <<>> /\ ~Top.wait
    /\ stack' = Below
    /\ phase' = IF Below = <<>> /\ phase = "bind" THEN "restore" ELSE phase
    /\ UNCHANGED <<objects, draws, bound, reqs, wire, server>>

-----------------------------------------------------------------------------
(* An event e is dispatched                                                *)

\* Mutant: the callback is looked for only in the last event of a batch.
Consume_LastOnly(e, todo) ==
    stack' = Append(Below, [Top EXCEPT !.batch = Tail(@),
                                       !.wait = @ /\ ~(e.obj = Top.cb /\ Len(Top.batch) = 1),
                                       !.todo = todo])

\* The event leaves the batch, and the call stops waiting if it was for the
\* object of its callback.
Consume(e, todo) ==
    stack' = Append(Below, [Top EXCEPT !.batch = Tail(@),
                                       !.wait = @ /\ e.obj # Top.cb,
                                       !.todo = todo])

\* xdwl_dispatch_message() fails, the calls return -1, the daemon exits.
DispatchUnknown(e) ==
    /\ e.obj \notin objs
    /\ Dead

\* The event was sent to an object that has been deleted since, and meets the
\* one that has taken its id.
Stray(e) == kind[e.obj] # Sender[e.ev]

\* It is read by the tables of that object, which may lack it.
DispatchStray(e) ==
    /\ e.obj \in objs
    /\ Stray(e)
    /\ Dead

\* The handler of the global goes on in its steps.
DispatchGlobal(e) ==
    /\ e.obj \in objs
    /\ e.ev = "global"
    /\ Consume(e, Handlers[e.arg])
    /\ bound' = [bound EXCEPT ![e.arg] = @ + 1]
    /\ UNCHANGED <<objects, phase, draws, reqs, wire, server>>

\* handle_wl_display_delete_id() gives the id back and asserts that it was
\* registered.
DispatchDeleteId(e) ==
    /\ e.ev = "delete_id"
    /\ IF e.arg \in objs
       THEN /\ objs' = objs \ {e.arg}
            /\ Consume(e, <<>>)
            /\ UNCHANGED <<kind, surface, phase, draws, bound, reqs, wire, server>>
       ELSE Dead

\* The listener of a layer surface has a handler for each opcode.
Heard(e, opcode) == e.obj \in objs /\ surface[e.obj] # 0 /\ e.ev \in opcode

\* handle_zwlr_layer_surface_v1_configure() may need a buffer, the first time
\* also a pool.  wl_shm is taken to be bound.
DispatchConfigure(e) ==
    /\ Heard(e, First)
    /\ ~gone
    /\ \/ UNCHANGED <<objs, kind, reqs>>
       \/ \E id \in Ids : Lowest(id, objs) /\ Create(<<New("buffer", id)>>)
       \/ \E p \in Ids :
             /\ Lowest(p, objs)
             /\ \E id \in Ids :
                   /\ Lowest(id, objs \cup {p})
                   /\ Create(<<New("buffer", p), New("buffer", id)>>)
    /\ Consume(e, <<>>)
    /\ UNCHANGED <<surface, phase, draws, bound, wire, server>>

\* There is no memory for it, or nobody to acknowledge to.
DispatchConfigureFails(e) ==
    /\ Heard(e, First)
    /\ Dead

\* Mutant: the listener is left.
DispatchClosed_KeepsListener(e) ==
    /\ Heard(e, Second)
    /\ IF gone \/ surface[e.obj] \notin objs
       THEN Dead
       ELSE /\ reqs' = reqs \o <<New("destroy", e.obj), New("destroy", surface[e.obj])>>
            /\ Consume(e, <<>>)
            /\ UNCHANGED <<objects, phase, draws, bound, wire, server>>

\* handle_zwlr_layer_surface_v1_closed() destroys the layer surface, its surface
\* and its listener.  The ids stay registered until delete_id.
DispatchClosed(e) ==
    /\ Heard(e, Second)
    /\ IF gone \/ surface[e.obj] \notin objs
       THEN Dead
       ELSE /\ reqs' = reqs \o <<New("destroy", e.obj), New("destroy", surface[e.obj])>>
            /\ surface' = [surface EXCEPT ![e.obj] = 0]
            /\ Consume(e, <<>>)
            /\ UNCHANGED <<objs, kind, phase, draws, bound, wire, server>>

\* No other handler touches what is modelled here; most events have none.
DispatchOther(e) ==
    /\ e.obj \in objs
    /\ surface[e.obj] = 0
    /\ e.ev \in First \cup Second
    /\ Consume(e, <<>>)
    /\ UNCHANGED <<objects, phase, draws, bound, reqs, wire, server>>

Dispatch ==
    /\ stack # <<>>
    /\ Top.todo = <<>>
    /\ Top.batch # <<>>
    /\ LET e == Head(Top.batch) IN
       \/ DispatchUnknown(e) \/ DispatchStray(e)
       \/ DispatchGlobal(e) \/ DispatchDeleteId(e)
       \/ DispatchConfigure(e) \/ DispatchConfigureFails(e) \/ DispatchClosed(e)
       \/ DispatchOther(e)

-----------------------------------------------------------------------------
(* The compositor                                                          *)

Announce(g) == [ev |-> "global", obj |-> Registry, arg |-> g]
Tell(ev, id) == [ev |-> ev, obj |-> id, arg |-> 0]
DeleteId(id) == [ev |-> "delete_id", obj |-> Display, arg |-> id]

\* The globals there are when the registry is created, in any order.
Orders(S) == {s \in [1..Cardinality(S) -> S] : ToSet(s) = S}

HandleRegistry(id) ==
    /\ live' = live \cup {id}
    /\ announced' \in SUBSET Globals
    /\ \E order \in Orders(announced') :
          wire' = wire \o [i \in DOMAIN order |-> Announce(order[i])]

\* What the compositor says of a new object.
Greeting(what, id) ==
    CASE what = "object" -> <<Tell("info", id)>>
      [] what = "layer" -> <<Tell("configure", id)>>
      [] OTHER -> <<>>

HandleNew(what, id) ==
    /\ live' = live \cup {id}
    /\ wire' = wire \o Greeting(what, id)
    /\ UNCHANGED announced

HandleSync(id) ==
    /\ wire' = wire \o <<Tell("done", id), DeleteId(id)>>
    /\ UNCHANGED <<live, announced>>

\* The object is there: see DestroyedOnce below.
HandleDestroy(id) ==
    /\ live' = live \ {id}
    /\ wire' = wire \o <<DeleteId(id)>>
    /\ UNCHANGED announced

Handle ==
    /\ ~gone
    /\ reqs # <<>>
    /\ reqs' = Tail(reqs)
    /\ LET r == Head(reqs) IN
       \/ r.req = "registry" /\ HandleRegistry(r.id)
       \/ r.req \in {"object", "surface", "layer", "buffer"} /\ HandleNew(r.req, r.id)
       \/ r.req = "callback" /\ HandleSync(r.id)
       \/ r.req = "destroy" /\ HandleDestroy(r.id)
    /\ UNCHANGED <<daemon, sends, gone, pace>>

\* A monitor is plugged in.
Hotplug ==
    /\ ~gone /\ Registry \in live
    /\ \E g \in Globals \ announced :
          /\ announced' = announced \cup {g}
          /\ wire' = Append(wire, Announce(g))
    /\ UNCHANGED <<daemon, reqs, live, sends, gone, pace>>

\* Surfaces enter and leave outputs, layer surfaces get other sizes and are
\* closed, at any time.
Send ==
    /\ ~gone /\ sends < pace.sends
    /\ sends' = sends + 1
    /\ \E id \in live, ev \in Unasked :
          /\ kind[id] = Sender[ev]
          /\ wire' = Append(wire, Tell(ev, id))
    /\ UNCHANGED <<daemon, reqs, live, announced, gone, pace>>

\* What it has sent can still be read.
Go ==
    /\ pace.goes /\ ~gone
    /\ gone' = TRUE
    /\ UNCHANGED <<daemon, reqs, wire, live, announced, sends, pace>>

-----------------------------------------------------------------------------
Daemon == \/ Begin
          \/ CreateObject \/ CreateLayer \/ CreateUnequipped
          \/ DrawSaved \/ DrawFails \/ Draw \/ Listen \/ SendGone
          \/ Receive \/ Poll \/ Dispatch \/ Return

Next == Daemon \/ Handle \/ Hotplug \/ Send \/ Go

Spec == Init /\ [][Next]_vars

\* The daemon runs, and the compositor handles what it is sent.
FairSpec == Spec /\ WF_vars(Daemon) /\ WF_vars(Handle)

-----------------------------------------------------------------------------
Undispatched == UNION {ToSet(stack[i].batch) : i \in DOMAIN stack}
Creating == {i \in DOMAIN reqs : reqs[i].req # "destroy"}
Destroying == DOMAIN reqs \ Creating

(* Both sides agree on the ids, although an id goes to a new object as soon *)
(* as it is given back, by whichever call reads its delete_id:              *)
(*   - no request on its way creates an object under an id that the         *)
(*     compositor still uses;                                               *)
(*   - none destroys an object that the compositor does not have, nor one   *)
(*     that is destroyed already, although its id is registered until the   *)
(*     delete_id comes and closed may be read as another event or twice;    *)
(*   - every id given back is registered, and is given back once, as        *)
(*     assert(xdwl_object_unregister(proxy, object_id) == 0) demands;       *)
(*   - an event names its object as long as the delete_id of this comes     *)
(*     after it on the socket or in the same batch: no nested call can have *)
(*     given the id up by then, nor another object have taken it.           *)
NewIdsFresh ==
    /\ \A i \in Creating : reqs[i].id \notin live
    /\ \A i, j \in Creating : reqs[i].id = reqs[j].id => i = j

DestroyedOnce ==
    /\ \A i \in Destroying :
          \/ reqs[i].id \in live
          \/ \E j \in Creating : j < i /\ reqs[j].id = reqs[i].id
    /\ \A i, j \in Destroying : reqs[i].id = reqs[j].id => i = j

DeleteIdRegistered ==
    /\ \A e \in Undispatched \cup ToSet(wire) : e.ev = "delete_id" => e.arg \in objs
    /\ \A i, j \in DOMAIN wire : wire[i].ev = "delete_id" /\ wire[i] = wire[j] => i = j

EventNamesObject ==
    \A s \in {wire} \cup {stack[i].batch : i \in DOMAIN stack} :
        \A i, j \in DOMAIN s :
            s[j].ev = "delete_id" /\ s[i].obj = s[j].arg =>
                /\ i < j
                /\ s[i].obj \in objs \ live
                /\ \A k \in Creating : reqs[k].id # s[i].obj

IdsAgree == NewIdsFresh /\ DestroyedOnce /\ DeleteIdRegistered /\ EventNamesObject

(* What ends the daemon, beside a compositor that is gone:                  *)
(*   - a handler that needs a global may run before that global is bound,   *)
(*     even if it was announced later;                                      *)
(*   - a wallpaper that cannot be drawn;                                    *)
(*   - a layer surface that is configured, and there is no memory;          *)
(*   - an event of a callback, a layer surface or a surface whose delete_id *)
(*     a nested call has read before it: the id is unknown, or another      *)
(*     object's.                                                            *)
(* Nothing else does: no global and no event of an object that is bound, no *)
(* delete_id, and no closed that finds its layer surface.                   *)
LateEvent(e) ==
    /\ e.ev \in {"done", "configure", "closed", "enter", "leave"}
    /\ e.obj \notin objs \/ Stray(e)

DeathExplained ==
    [][phase # "dead" /\ phase' = "dead" =>
         \/ gone
         \/ Doing("layer") /\ \E g \in Needed : bound[g] = 0
         \/ Doing("draw") \/ (phase \in {"restore", "loop"} /\ stack = <<>>)
         \/ /\ stack # <<>> /\ Top.todo = <<>> /\ Top.batch # <<>>
            /\ LET e == Head(Top.batch) IN e.ev = "configure" \/ LateEvent(e)]_vars

(* Every global that was announced is bound once: none is lost in a batch  *)
(* that a nested call leaves behind.                                       *)
EachBoundOnce ==
    /\ \A g \in Globals : bound[g] <= 1
    /\ phase = "loop" /\ stack = <<>> /\ wire = <<>> =>
           \A g \in announced : bound[g] = 1

(* Start-up ends, in the poll loop or with an exit: every roundtrip, however *)
(* deep, returns, and so do those of the wallpapers that were saved.         *)
StartupEnds == <>(phase \in {"loop", "dead"})

(* It does as long as the compositor stays, answers before the daemon reads *)
(* and the buffer holds it all: then no call waits for a done that an inner *)
(* one has taken.                                                           *)
Plenty == Cardinality(Globals) + 3 * MaxId + pace.sends
PromptStartupEnds ==
    pace.together /\ pace.cap >= Plenty => <>(phase \in {"loop", "dead"} \/ gone)

=============================================================================

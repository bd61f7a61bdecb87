------------------------------ MODULE Outputs ------------------------------
(***************************************************************************)
(* Monitors that come, go and change size under a running xdwlwd: the list *)
(* of struct output, the surfaces, the layer surfaces whose listeners hold *)
(* a pointer into that list, the buffers and the memory behind them.       *)
(*                                                                         *)
(* Most requests name their object by interface (id 0), which stands for   *)
(* the newest one registered; wl_shm_pool is looked up that way too, so    *)
(* that there is one pool for ever.                                        *)
(*                                                                         *)
(* A step is one event from the compositor or one request of a user, with  *)
(* everything the handler does and all its roundtrips: EventLoop says when *)
(* those come through.  The globals that are not outputs are bound.        *)
(***************************************************************************)
EXTENDS Naturals, Sequences, FiniteSets, FiniteSetsExt

CONSTANTS Monitors,   \* named; a monitor keeps its name when it is replugged
          Sizes,      \* numbers of pixels, of a mode or of a surface: each
                      \* stands for one width and height
          Settings,   \* wallpapers that can be asked for and drawn
          None,       \* no wallpaper
          MaxPlugs,   \* how often monitors may be plugged in
          MaxMems     \* files the daemon can open: each buffer takes one, and
                      \* keeps it

ASSUME OutputsAssumption ==
    /\ Sizes \subseteq Nat \ {0}
    /\ None \notin Settings
    /\ MaxPlugs \in Nat /\ MaxMems \in Nat

VARIABLES
    plugged,  \* the monitors the compositor has
    plugs,    \* how often one has been plugged in
    outs,     \* struct output; ptr tells apart those of one name
    open,     \* surfaces with their layer surface: surf counts them, mon is
              \* where it is shown, ptr the struct its listener points to,
              \* shows what was committed to it last
    closing,  \* surfaces that are destroyed and still registered
    mems,     \* the sizes of the shared memory files, in order of creation
    pool,     \* what is drawn in the first of them
    torn,     \* of them: part of the mapping was unmapped with another's
    state,    \* "up", "error" (the compositor hung up), "crash", or "exit"
    moded     \* history: monitors whose mode changed while plugged in

monitors == <<plugged, plugs>>
buffers == <<mems, pool, torn>>
vars == <<monitors, outs, open, closing, buffers, state, moded>>

Struct == [ptr : 1..MaxPlugs, name : Monitors, size : Sizes,
           mem : 1..MaxMems, surf : 1..MaxPlugs, set : Settings \cup {None}]

Surface == [surf : 1..MaxPlugs, mon : Monitors, ptr : 1..MaxPlugs,
            shows : Settings \cup {None}]

Init ==
    /\ plugged = {} /\ plugs = 0
    /\ outs = {}
    /\ open = {} /\ closing = {}
    /\ mems = <<>> /\ pool = None /\ torn = {}
    /\ state = "up"
    /\ moded = {}

-----------------------------------------------------------------------------
(* Buffers                                                                 *)

\* xdwl_object_get_by_name(): the newest that is registered.
Newest(surfaces) == Max({l.surf : l \in surfaces} \cup closing)

\* The only wl_shm_pool is on the first file.
Pool == 1

\* A configure event of another size unmaps the buffer.  The code compares
\* widths and heights: two shapes of as many pixels are one size here.
Resized(o, c) == IF o.size = c THEN o ELSE [o EXCEPT !.size = c, !.mem = 0]

\* Mutant: o->buffer is not set.
Buffered_Unset(o) == o

\* create_output_buffer(): a file for the output, and a wl_buffer from the
\* pool.
Buffered(o) == IF o.mem = 0 THEN [o EXCEPT !.mem = Len(mems) + 1] ELSE o
Files(o) == IF o.mem = 0 THEN Append(mems, o.size) ELSE mems

\* Mutant: the size of the pool is counted in pixels, not bytes.
Refused_InPixels(o) == o.mem = 0

\* The compositor refuses a buffer that its pool has no room for.
Refused(o) == o.mem = 0 /\ mems # <<>> /\ o.size > mems[Pool]

\* shm_open() fails when no descriptor is left.
Exhausted(o) == o.mem = 0 /\ Len(mems) = MaxMems

\* destroy_output_buffer() unmaps as many bytes as the output has now.  If its
\* mode has changed since they were mapped, these may be more, and belong to
\* the memory of other outputs or to anything else.
Overreaches(o, c) == o.size # c /\ o.mem # 0 /\ o.size > mems[o.mem]
Torn(o, c) ==
    {torn \cup hit : hit \in IF Overreaches(o, c)
                            THEN SUBSET {p.mem : p \in {q \in outs : q.name # o.name}}
                            ELSE {{}}}

\* The two ways in which a new size ends the daemon.
Ends(o, c) ==
    \/ Exhausted(Resized(o, c)) /\ state' = "exit"
    \/ Overreaches(o, c) /\ state' = "crash"

\* Mutant: what is attached is not committed.
Paint_NoCommit(o, files, surfaces) ==
    /\ pool' = IF o.mem = Pool THEN o.set ELSE pool
    /\ open' = surfaces
    /\ UNCHANGED state

\* What is drawn leaves the memory of the output.
Strays(o, files) == o.size > files[o.mem] \/ o.mem \in torn

\* draw_*_on_output() and apply(): the wallpaper goes into the output's own
\* memory, its wl_buffer to the newest surface, which then shows the pool.
\* Drawing outside the memory is undefined: it crashes, or meets what happens
\* to be mapped there.  A request to a surface that is destroyed is an error.
Paint(o, files, surfaces) ==
    \/ /\ Strays(o, files)
       /\ state' = "crash"
       /\ open' = surfaces
       /\ UNCHANGED pool
    \/ /\ \/ pool' = IF o.mem = Pool THEN o.set ELSE pool
          \/ o.mem \in torn /\ UNCHANGED pool
          \/ Strays(o, files) /\ pool' = o.set
       /\ open' = {IF l.surf = Newest(surfaces) THEN [l EXCEPT !.shows = pool'] ELSE l :
                      l \in surfaces}
       /\ state' = IF surfaces = {} /\ closing = {} THEN "up"
                   ELSE IF Newest(surfaces) \in closing THEN "error" ELSE "up"

-----------------------------------------------------------------------------
(* Events and requests                                                     *)

Named(m) == {o \in outs : o.name = m}

\* Mutants: the struct found under the name is ignored; or is copied but for
\* its size; or is copied with its address.
Adopt_Nothing(new, old) == new
Adopt_NotSize(new, old) == [old EXCEPT !.ptr = new.ptr, !.size = new.size]
Adopt_InPlace(new, old) == old

\* handle_wl_output_name(): a monitor seen before gets its struct back, at a
\* new address.
Adopt(new, old) == [old EXCEPT !.ptr = new.ptr]

\* Mutant: the struct of a replugged monitor stays in the list.
Replaced_Kept(m) == {}

\* xdwl_list_remove(): the struct at the old address goes.
Replaced(m) == Named(m)

\* The struct of a monitor when its mode and name have arrived and it has a
\* surface.
Started(m, mode) ==
    LET new   == [ptr |-> plugs + 1, name |-> m, size |-> mode,
                  mem |-> 0, surf |-> 0, set |-> None]
        known == IF Named(m) = {} THEN new
                 ELSE Adopt(new, CHOOSE o \in Named(m) : TRUE)
    IN  [known EXCEPT !.surf = plugs + 1]

Pluggable(m) == state = "up" /\ m \notin plugged /\ plugs < MaxPlugs

\* handle_wl_registry_global() for a wl_output: it gets a layer surface, that
\* is configured with the logical size, and a wallpaper kept from before is
\* drawn.
Plug(m, mode, c) ==
    /\ Pluggable(m)
    /\ plugged' = plugged \cup {m}
    /\ plugs' = plugs + 1
    /\ LET o   == Resized(Started(m, mode), c)
           now == open \cup {[surf |-> plugs', mon |-> m, ptr |-> plugs', shows |-> None]}
       IN  /\ ~Exhausted(o)
           /\ torn' \in Torn(Started(m, mode), c)
           /\ outs' = (outs \ Replaced(m)) \cup {Buffered(o)}
           /\ mems' = Files(o)
           /\ IF Refused(o) \/ o.set = None
              THEN /\ open' = now
                   /\ state' = IF Refused(o) THEN "error" ELSE "up"
                   /\ UNCHANGED pool
              ELSE Paint(Buffered(o), mems', now)
    /\ UNCHANGED <<closing, moded>>

PlugEnds(m, mode, c) ==
    /\ Pluggable(m)
    /\ Ends(Started(m, mode), c)
    /\ UNCHANGED <<monitors, outs, open, closing, buffers, moded>>

\* handle_zwlr_layer_surface_v1_configure(): the acknowledgement goes to the
\* newest layer surface, and is an error if another one was configured.
Configure(l, c) ==
    /\ state = "up"
    /\ l \in open
    /\ \E o \in outs :
          /\ o.ptr = l.ptr
          /\ torn' \in Torn(o, c)
          /\ LET r == Resized(o, c) IN
             /\ ~Exhausted(r)
             /\ outs' = (outs \ {o}) \cup {Buffered(r)}
             /\ mems' = Files(r)
             /\ state' = IF Newest(open) # l.surf \/ Refused(r) THEN "error" ELSE "up"
    /\ UNCHANGED <<monitors, open, closing, pool, moded>>

ConfigureEnds(l, c) ==
    /\ state = "up"
    /\ l \in open
    /\ \E o \in outs : o.ptr = l.ptr /\ Ends(o, c)
    /\ UNCHANGED <<monitors, outs, open, closing, buffers, moded>>

\* handle_wl_output_mode() of a monitor that stays.
Mode(m, mode) ==
    /\ state = "up"
    /\ m \in plugged
    /\ outs' = {IF o.name = m THEN [o EXCEPT !.size = mode] ELSE o : o \in outs}
    /\ moded' = moded \cup {m}
    /\ UNCHANGED <<monitors, open, closing, buffers, state>>

\* The wl_surface of the struct that the listener of l points to.
Owned(l) == {o.surf : o \in {p \in outs : p.ptr = l.ptr}}

\* handle_zwlr_layer_surface_v1_closed(): both surfaces are destroyed, the
\* struct stays.
Close(l) ==
    /\ state = "up"
    /\ l \in open
    /\ open' = open \ {l}
    /\ closing' = closing \cup Owned(l)
    /\ UNCHANGED <<monitors, outs, buffers, state, moded>>

\* The monitor's layer surface is closed.  wl_registry.global_remove has no
\* handler: what is left of a monitor is its struct.
Unplug(m) ==
    /\ state = "up"
    /\ m \in plugged
    /\ plugged' = plugged \ {m}
    /\ open' = {l \in open : l.mon # m}
    /\ closing' = closing \cup UNION {Owned(l) : l \in open \ open'}
    /\ UNCHANGED <<plugs, outs, buffers, state, moded>>

\* The delete_id events of what was destroyed.
Deleted ==
    /\ state = "up"
    /\ closing # {}
    /\ closing' = {}
    /\ UNCHANGED <<monitors, outs, open, buffers, state, moded>>

\* A request for one of the outputs in the list, plugged in or not.
Set(o, s) ==
    /\ state = "up"
    /\ o \in outs
    /\ LET painted == [o EXCEPT !.set = s] IN
       /\ outs' = (outs \ {o}) \cup {painted}
       /\ Paint(painted, mems, open)
    /\ UNCHANGED <<monitors, closing, mems, torn, moded>>

-----------------------------------------------------------------------------
Next ==
    \/ \E m \in Monitors, mode, c \in Sizes : Plug(m, mode, c) \/ PlugEnds(m, mode, c)
    \/ \E m \in Monitors : Unplug(m)
    \/ \E m \in Monitors, mode \in Sizes : Mode(m, mode)
    \/ \E l \in open : Close(l)
    \/ \E l \in open, c \in Sizes : Configure(l, c) \/ ConfigureEnds(l, c)
    \/ \E o \in outs, s \in Settings : Set(o, s)
    \/ Deleted

Spec == Init /\ [][Next]_vars

-----------------------------------------------------------------------------
TypeOK ==
    /\ plugged \subseteq Monitors /\ moded \subseteq Monitors
    /\ plugs \in 0..MaxPlugs
    /\ outs \subseteq Struct /\ \A o \in outs : o.mem \in 1..Len(mems)
    /\ open \subseteq Surface /\ \A l \in open : l.mon \in plugged
    /\ closing \subseteq 1..MaxPlugs
    /\ mems \in Seq(Sizes) /\ Len(mems) <= MaxMems
    /\ pool \in Settings \cup {None}
    /\ torn \subseteq 1..MaxMems
    /\ state \in {"up", "error", "crash", "exit"}

(* A monitor has one struct output however often it is replugged, and a    *)
(* monitor that is plugged in has one.                                     *)
OneStructEach ==
    /\ \A o, p \in outs : o.name = p.name => o = p
    /\ \A m \in plugged : Named(m) # {}

(* The listener of a layer surface that is open points to a struct in the  *)
(* list, that of the monitor it is shown on: replugging frees the old one. *)
ListenersLive ==
    \A l \in open : \E o \in outs : o.ptr = l.ptr /\ o.name = l.mon /\ o.surf = l.surf

(* An output is as large as the memory it is drawn into, unless its mode   *)
(* has changed while it was plugged in.  Without such a change no memory is *)
(* unmapped that is in use, and nothing is drawn outside it.               *)
DrawInBounds ==
    /\ \A o \in outs : o.size = mems[o.mem] \/ o.name \in moded
    /\ torn # {} \/ state = "crash" => moded # {}

(* As long as one buffer is all that was ever allocated, its output shows  *)
(* the wallpaper it was set to, replugged or not.                          *)
OnlyBufferShows ==
    state = "up" /\ Len(mems) = 1 =>
        \A l \in open : \A o \in outs : o.ptr = l.ptr => l.shows = o.set

(* The compositor hangs up on the daemon only when there is a second       *)
(* buffer or surface, or one that is destroyed and not yet gone.  And it   *)
(* ends by itself only when it has opened all the files it can.            *)
ErrorExplained ==
    /\ state = "error" => Len(mems) > 1 \/ Cardinality(open) > 1 \/ closing # {}
    /\ state = "exit" => Len(mems) = MaxMems

(* Plugging and unplugging monitors never changes a wallpaper setting.     *)
PlugKeepsSettings ==
    [][plugged' # plugged =>
           \A o \in outs : \E p \in outs' : p.name = o.name /\ p.set = o.set]_vars

(* README: "set picture.png as wallpaper (centered) on all monitors": each *)
(* monitor shows the wallpaper it was set to.                              *)
EveryOutputShows ==
    state = "up" =>
        \A l \in open : \A o \in outs : o.ptr = l.ptr => l.shows = o.set

=============================================================================

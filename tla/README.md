# A TLA+ model of xdwlw

`xdwlwd` is a wallpaper daemon for wlroots compositors, `xdwlw` the command that
talks to it, and `libxdwayland` the Wayland client library it is built on. This
directory holds TLA+ modules that model their logic, TLC configurations that
check them on small instances, and proofs for TLAPS. It was written from the C
sources; `PROJECT.json` says for each definition which lines it models.

## 1. The system

| Component | Source | State | Operations | Module |
|---|---|---|---|---|
| daemon lifecycle | `src/src/xdwlwd.c` (main, xdwlw_exit), `src/src/xdwlw-ipc.c` (start, close) | `sfd`, the socket, the socket path, signal handlers | start, initialise, exit from the main path or from a handler | Lifecycle, SocketName |
| IPC conversation | `src/src/xdwlw-ipc.c`, `src/src/xdwlw.c`, poll loop of `xdwlwd.c` | the listening socket and its backlog, one accepted connection `cfd` | connect, send, accept, receive, reply and close | Ipc |
| command line, IPC codec, error codes | `xdwlw.c` (main), `xdwlw-ipc.c` (buf_*, send, recv, listen), `xdwlw-error.c` | options, a 512-byte buffer, one error code and message | parse options, encode, decode, exit status | Command, Codec |
| wallpaper requests and cache | `xdwlwd.c` (main, write_to_cache, read_from_cache, draw_*) | `color`, `image_path`, `image_mode` of each output, files in `~/.cache/xdwlw` | set colour, set image, kill, restore at start | Wallpaper |
| image scaling | `xdwlwd.c` (draw_image_on_output, resize_image_nni) | none | scale, crop, stretch | Scaling |
| outputs, surfaces and buffers | `xdwlwd.c` (event handlers, create_*, apply) | the list of `struct output`, surfaces, buffers, shared memory, listeners | monitors plugged in, unplugged, resized; configure; closed; draw | Outputs |
| Wayland event loop | `xdwayland-client.c` (roundtrip, dispatch), handlers of `xdwlwd.c` | the stack of calls, events read and not dispatched, ids in use | roundtrip, dispatch, handlers that call roundtrip | EventLoop |
| object registry, collections | `xdwayland-client.c` (register, unregister, get_by_*, listeners), `xdwayland-collections.c` | bitmaps of ids, maps of objects and listeners, sequence number | register, unregister, lookup by id and by name, destroy | Registry, ObjectMap |
| wire marshalling | `xdwayland-utils.c`, `xdwayland-client.c` (send_request, recv_events, dispatch_message) | the stream, a 4096-byte buffer | marshal a request; cut, unmarshal and dispatch events | Wire |
| generated bindings, generator | `xdwayland-core.[ch]`, `xdwayland-scanner.py`, `protocols/` | none | one function for each request, one slot for each event | Core, CoreHeader, Scanner |
| vendored | `stb_image.h` | | | not modelled |

How they interact. `xdwlw` connects to a Unix socket, sends one message, waits
for one reply and exits. `xdwlwd` is one thread: `poll()` on the listening
socket and on the Wayland socket. A request walks the list of outputs; each
output's fields are set, its file is written, its buffer is drawn and handed to
the compositor with a roundtrip. Wayland events come in through
`xdwl_dispatch()` in the poll loop, and through `xdwl_roundtrip()`, which
handlers call themselves. Requests go through the wrappers of the bindings,
which name an object by id or, with id 0, by interface; the registry resolves
both. Signals run `xdwlw_exit()` on top of anything. The cache files connect
one daemon to the next.

What is hard in it:

* **interleaving**: several daemons on one path; a signal inside
  `xdwlw_exit()`; clients that vanish between any two steps; roundtrips inside
  handlers of events of another roundtrip;
* **ordering**: several replies are sent for one request and the first wins;
  `done` and `delete_id` reordered by nested dispatch; globals announced in any
  order;
* **stale state**: objects found by name when a newer one exists; a pointer in
  a listener when its struct is moved; a string shared by outputs; an id taken
  again; a buffer unmapped with a size that is no longer its own; an error code
  that outlives its error;
* **partial failure and crashes**: one output of several fails; a crash between
  emptying and writing a file; a saved image that can no longer be loaded; a
  compositor that goes;
* **limits**: descriptors that leak, the backlog, ids that run out, two buffers
  nobody checks the length of, events that a read cuts in two, rounding.

What makes each component correct, in one line each: a running daemon can be
reached and nobody takes its path away; an acknowledged request was carried out
and every request is answered; what is served is what the user asked for, and
what is printed is about this request; memory, file and screen agree; every
pixel drawn is one of the image's; every monitor has one struct, live listeners
and memory as large as it draws; every roundtrip ends and every announced
global is bound once; an id names one object and what comes for it reaches its
own listener; the compositor reads a request as it was meant, and an event
reaches its handler whole, once and in order.

## 2. The modules

A component has a module with its constants, variables, one action for each
operation, the specification and its properties; an `MC` module and `.cfg`
files for TLC; and where there are proofs, a `...Proofs` module. Definitions
whose names have an underscore (`Return_AtOnce`, `Adopt_InPlace`) are *mutants*:
each stands for a plausible mistake in the code that a property has to notice.
They are not part of the specification. (Names like `wl_display` and
`xdwl_display_functions` are those of the bindings.)

### Lifecycle, SocketName

`Lifecycle` is `main()` up to the poll loop, `ipc_server_start()`,
`xdwlw_exit()` and `ipc_server_close()`, for a set of daemons with one path. A
daemon has a control point `pc`, its socket `fd`, and the global `sfd`, which is
set only when `ipc_server_start()` returns: until then `xdwlw_exit()` closes
and unlinks nothing. `Signal` enters `xdwlw_exit()` from any point, itself
included; a signal is blocked while its own handler runs, the other is not.
Since `xdwlw_exit()` ends in `exit()` the interrupted code is never resumed, so
one control point is enough. `Crash` is any death without `xdwlw_exit()`.

`SocketName` is the abstract promise: the path has at most one owner, only the
owner serves, and only the owner lets go of it when it no longer serves.
`Lifecycle` implements it under `owner <- sock_path` and `serving <-` the
daemons whose socket is listening (`KeepsName`).

### Ipc

The conversations. `queue` is the backlog (`listen(fd, n)` lets `n + 1` wait),
`ends` the server side of each connection, `inbox` and `outbox` what is in the
socket, `reset` who gets ECONNRESET. `Reply` is `ipc_server_send()`: it sends
and closes, so a second reply for a request goes nowhere, and a first one to a
client that is gone raises SIGPIPE (`Down`). `ReadNothing` is the client that
leaves before it sends: its message is of an unknown type, which nobody answers
or closes. `Accept` has priority over `Dispatch`, as in the code's
`if ... else if`. An output of the request has another name (`OutputOther`),
fails (`OutputFails`), or is drawn, and drawing ends in a roundtrip
(`OutputDraws`, and `OutputDrawn` when it returns), as handling events may
(`Dispatch`, `Dispatched`). `work` and `mismatch` are history. A user whose
`xdwlw` has ended may run it `Again`.

### Command, Codec, Scaling

`Command` is one command after another from option to exit status, against a
daemon with one output. The options are read one at a time; `opts` are the
locals of `main()`, of which `image_path` has no initial value, so it starts as
any member of `Uninitialised`. `Codec` writes the messages into a buffer, a
field at the offset the fields before it have left, and reads at an offset what
was written there; a message that does not fit is the end of whoever wrote it (`exit = -1`,
`daemon = "undefined"`). Options given without the argument they dereference
end `xdwlw` the same way. On the daemon's side `failed` and `errmsg` are the
two error codes and the message, which are set and never cleared until the
exit; `ExitStatus` is what `xdwlw_exit()` makes of them.

`Scaling` is the arithmetic of `draw_image_on_output()` and
`resize_image_nni()`: a float is an integer times a power of two, rounded to 24
bits, ties to even, so that quotient, product and `round()` are those of the
program for sizes up to 4096, of which every scaled size is exact as a float.
TLC's integers have room for the products of sizes below 128. `Drawn` says which pixels of the scaled image the crop reads.
A negative float converted to `size_t` is any value.

### Wallpaper

A request, output by output: `Mismatch` (another name), `Assign` (fields, and
`fopen("wb")` empties the file), `Write` (the file is closed), `Draw` or
`DrawFails`, `Finish`. A crash may come between any two. `mem` is the setting
in the three fields, `block` and `dangling` say which `malloc`ed string
`image_path` is and whether it has been freed, `cache` the files, `drawn` the
buffers. `Start`, `Restore` and `RestoreNothing` are the next daemon reading
them back. `ReadBack` is what the missing NUL of a saved path makes of it: the
path itself, if what follows in the buffer happens to be 0, or one with stray
bytes. `Touch` removes an image file or puts it back.

### Outputs

Events and requests that change struct outputs, surfaces, buffers and
listeners. Most requests name their object by interface, which the library
resolves to the newest one registered (`Newest`), and so is the `wl_shm_pool`
(`Pool`), of which there is only ever one. `Plug` is all of
`handle_wl_registry_global()` for a `wl_output` with everything it calls:
mode, name (a known monitor gets its struct copied to a new address and the old
one removed), surface, layer surface, the first configure event with its
buffer, and the redraw of a wallpaper from before. A step is one event or one
request with all its roundtrips; that those come through is `EventLoop`'s
subject. Sizes are numbers of pixels; what a surface shows is one setting.

`mems` are the shared memory files, one for each buffer ever made: their
descriptors are never closed, and the next buffer after `MaxMems` makes the
daemon exit (`Exhausted`, `state = "exit"`). `destroy_output_buffer()` unmaps
with the output's present size; when a mode event has made that larger than the
mapping, it takes memory of its neighbours with it (`Overreaches`, `torn`), or
something the daemon cannot live without (`Ends`). Drawing that leaves the
mapping crashes or overwrites what it meets (`Strays`).

### EventLoop

`stack` holds the calls of `xdwl_roundtrip()` and `xdwl_dispatch()`, each with
the callback it waits for (`cb`, `wait`), the events it has read and not
dispatched (`batch`) and what the handler it is in has still to do (`todo`).
The handler of a global goes through `Handlers[g]`: an `"object"` is bound or
created, a `"layer"` is a surface with its layer surface and listener, a
`"draw"` what `apply_saved_wallpapers()` shows; each ends in a roundtrip. A
layer takes the globals `Needed`; if one is not bound yet the daemon exits
(`CreateUnequipped`). `phase` follows start-up: `bind_globals()`, the wallpapers
that `main()` restores (`Draw`), the poll loop.

An event meets what its id stands for when it is dispatched, which need not be
what it was sent to: nobody (`DispatchUnknown`), another object whose tables may
not have it (`Stray`), or one that has (`Heard`). `configure` may register a
pool and a buffer, or end the daemon. `closed` asks for the layer surface and
its surface to be destroyed and drops the listener; the ids stay registered
until their `delete_id`s come. `surface` records which layer surfaces have
their listener, and their surfaces.

The compositor is external: it handles requests in order, announces globals in
any order and at any time, answers `sync` with `done` and `delete_id` and
`destroy` with `delete_id`, sends events nobody asked for (`Unasked`), and may
go (`Go`): then nothing more is received, which is no error, and the next
request raises SIGPIPE (`SendGone`). `pace` is one of `Paces`: how many events
one `recvmsg()` takes, whether the compositor is so fast that it has handled
every request before the daemon reads, and bounds. A read splits between events
only; splits inside one are in `Wire`. `wl_shm` is taken to be bound when a
layer surface is configured.

### Registry, ObjectMap

`xdwl_object_register()` and its companions over a bitmap of `Bits` ids.
`objects` and `listeners` are hash maps in which a second pair under a key hides
the first until it is removed (`IsById`, `ObjectsWithout`); `IsByName` is the
search for the newest. Ids of the server are negative numbers here; whether one
is taken is asked of the wrong bitmap beyond its end, with an answer that is
never "yes", so that the same id may be registered twice. `RegisterFull` is the
bitmap that has no clear bit: growth computes its size from 0, `realloc()`
frees the bitmap, the registration answers 0, its callers compare with -1 and
add their listener to an older object. From then on (`state = "lost"`) the
bitmap may read as anything (`MayTake`).

`ObjectMap` is the abstract promise: a new object gets an id not in use, and
what comes for an id reaches the handler made for its present object, or none.
`Registry` implements it (`ImplementsObjectMap`) until the pool is lost.

### Wire, Core, CoreHeader, Scanner

`Core` and `CoreHeader` are the tables of `xdwayland-core.c` and `.h`, entry by
entry: signatures and argument counts of each request with the opcode its
wrapper passes, events, slots and prototypes. `Scanner` is how the generator
makes the same from a description, applied to the two interfaces of
`wlr-layer-shell`. `Wire` runs them: `Call` marshals a request of the header by
the table's signature (`BodySize` declares, `Written` writes, by different
rules for strings). `Send` and `Receive` are the stream of events in words of
four bytes, of which a read takes at most `BufWords`; `Dispatch` takes the
message at `at`, unmarshals it (`Arguments`) and goes on by the size in its
header (`After`), `DispatchRest` meets what a read has cut. The code lists the
messages before it dispatches them, but its list holds places in the buffer,
so that what a step sees is the same. A message is kept as which word of which
argument each word is, so that a word out of place is seen. That tables and
header fit together is an assumption on constants (`TablesAgree`), which TLC
evaluates for every entry.

## 3. What TLC checks

| Run | Instance | Distinct states | What it shows |
|---|---|---|---|
| `lifecycle` | 2 daemons | 9,568 | the path and the exit, with `KeepsName` (refinement) and `ExitCompletes` (liveness) |
| `ipc` | 3 clients, one a killer, 2 outputs, backlog 1, 2 descriptors | 59,118 | replies, exit statuses, leaks, and that clients are answered and events handled |
| `command` | 3 commands of up to 3 options, 8 images, a monitor of 64 x 48 | 403,260 | options, precedence, message lengths, answers, exit status, pixels |
| `wallpaper` | 2 outputs, 2 colours, 1 image, 2 modes, every request | 117,582 | durability, agreement, acknowledgement, restart |
| `outputs` | 2 monitors, 2 sizes, 2 settings, 3 plugs, 3 descriptors | 561,633 | structs, listeners, memory, wallpaper settings of monitors that come and go |
| `event_loop` | 2 globals and an output that needs one of them, 4 paces, layer surfaces closed at any time, a compositor that may go | 1,884,648 | ids, binding, what ends the daemon, that start-up ends |
| `registry` | 2 ids, 3 interfaces, 4 registrations | 5,547,338 | lookups, and that the registry implements `ObjectMap` |
| `wire` | every request and event of the bindings, strings of 0 to 4 bytes, streams of 3 events, a buffer of 14 words | 146,868 | marshalling, framing, unmarshalling, dispatch |
| `wallpaper_shared` | as `wallpaper` | violation | finding 1 |
| `wallpaper_named` | as `wallpaper` | violation | finding 5 |
| `event_loop_hang` | as `event_loop`, a compositor that is not always faster and stays | violation | finding 3 |
| `outputs_all` | as `outputs` | violation | finding 4 |

The properties, each stated and explained above its definition:

* *Lifecycle*: `RunningReachable`, `StaleExplained`, `ExitCompletes`,
  `KeepsName`;
* *Ipc*: `AckMeansServed`, `ExitStatusExplained`, `OnlyVanishedLeak`,
  `Answered`, `EventsHandled`;
* *Command*: `RequestExplained`, `OverflowExplained`, `AnswerIsTrue`,
  `DrawnInBounds`, `KilledStatus`;
* *Wallpaper*: `Durable`, `MemoryMatchesCache`, `AnswerExplained`,
  `StartFailsExplained`;
* *Outputs*: `OneStructEach`, `ListenersLive`, `DrawInBounds`,
  `OnlyBufferShows`, `ErrorExplained`, `PlugKeepsSettings`;
* *EventLoop*: `IdsAgree`, `EachBoundOnce`, `DeathExplained`,
  `PromptStartupEnds`;
* *Registry*: `AnswerLeads`, `ImplementsObjectMap`;
* *Wire*: `RequestAsProtocol`, `ListenedIntact`, `StreamKept`,
  `UndefinedExplained`;
* and `TypeOK` where a module has one.

Many are of the form "a bad outcome has one of these causes" (those named
`...Explained`, `OnlyVanishedLeak`, `DrawnInBounds`, `KilledStatus`). The stronger property would be false of this code; these say
exactly how far it goes, and fail if one more cause is added. For instance:
nothing but a name longer than the buffer has room for, or a long option
without `=`, crashes `xdwlw` (`OverflowExplained`); no event of a global or of
a bound object and no `delete_id` ends the daemon in its event loop, only one
of a callback, surface or layer surface that a nested call has seen deleted, a
missing global, a wallpaper or buffer that cannot be had, or a compositor that
is gone (`DeathExplained`); an event is lost only after a read
that filled the buffer (`StreamKept`); memory in use is unmapped only after a
mode event for a monitor that stays (`DrawInBounds`).

### Bounds, and why they are enough

* Daemons: what one does to another through the path needs two. The proofs hold
  for any number.
* Clients: the one served, one that waits behind it and one that kills. With
  `Backlog = 1` two fill the backlog; with `MaxFds = 2` two that vanish use the
  descriptors up, so `Exhausted` is reached. `Outputs = 2` lets the first fail
  and the second succeed, and the other way round.
* Command: three options are an image, its mode and an output; three commands
  are one that fails, one that succeeds and a kill. Names lie on both sides of
  each limit: 64 and 65 for an output, 493 and 494 for the answer of the
  daemon, 501 and 502 for the request of `xdwlw`. The images are one that
  covers the monitor, larger, narrower, and those that rounding leaves a column
  or a row short. All are smaller than 128, as TLC's integers have 32 bits; the
  proof has no such bound.
* Wallpaper: two outputs to differ, two colours to replace one another, one
  image that can be missing, a mode that is known (`"C"`) and one that is not.
* EventLoop: two globals that are only bound, and an output with an object, a
  layer, which needs `compositor`, and a wallpaper (in the code it has a second
  object, which does nothing the first does not). `MaxId = 20` is never reached.
  `cap = 2` makes reads split everywhere; `cap = 100` never splits. Each pace
  has its bounds, so that together they stay within TLC's reach: two events for
  no request reach the daemon as `closed` with a late event behind it or as
  `closed` twice, one is enough when reads split; one wallpaper drawn from
  `main()` nests what is left on the socket once more. `enter` and `configure`
  are not sent unasked in the instance: they are read as `leave` and as the
  first `configure` are. The proofs have none of these bounds.
* Outputs: `MaxPlugs = 3` is two monitors with one replugged, or one replugged
  twice; `MaxMems = 3` lets an output be resized after both have a buffer, and
  then runs out. `Monitors` and `Settings` are symmetric: the module compares
  them for equality only and no liveness is checked there.
* Registry: with `Bits = 2` and four registrations ids are reused, the bitmap
  fills up, is lost, and registrations go on after that. Of the interfaces one
  is listened to and never destroyed, one listened to and destroyed, one
  neither.
* Wire: padding depends on the length modulo four, so lengths from 0 to 4 are
  all cases, and one that needs a second word. `BufWords = 14` instead of 1024
  cuts streams of two or three events at every kind of word. Streams of
  several events are made of four of them (`MCSeveral`), every event is sent
  alone.

Deadlock is not checked: daemons end, clients finish, commands and
registrations are used up, a monitor may stay as it is.

### Fairness

Only what the scheduler or the loop itself gives is assumed. `Lifecycle`: weak
fairness of each daemon's own steps, not of starting one, of `Leave`, of signals
or of crashes. `Ipc`: weak fairness of those steps of the daemon that wait for
nobody, and of a client that can read its reply or sees the connection end;
none of `OutputDrawn` or `Dispatched`, as a roundtrip may never return (finding
3, or a compositor that is gone), none of `SendRequest`, as a client may connect
and say nothing, and none of `Connect`, `Again`, `Vanish`, `Stop` or `Post`.
`Answered` and `EventsHandled` therefore name what can keep the daemon for
ever: `[]Suspended`, or descriptors that are used up; for events also clients
that keep coming. `EventLoop`: weak fairness of the daemon and of the compositor
handling requests; none of `Hotplug`, `Send` or `Go`. The others have no
liveness: that a request is answered depends on roundtrips, and is `Ipc`'s
subject. Nothing is strongly fair.

`StartupEnds` is false without an assumption on the compositor's speed.
`PromptStartupEnds` states the assumption under which it holds as part of the
property: every request is handled before the daemon reads, and one read takes
all there is.

### Findings

1. `NoDoubleFree`: an image set on "all" gives every output the same string;
   the next request, or a kill, frees it once for each
   (`src/src/xdwlwd.c:748`).
2. `StartFailsExplained`: the NUL of a saved path is not written, the path read
   back may have stray bytes, and the daemon then does not start
   (`src/src/xdwlwd.c:629`). The property names this cause; without that clause
   TLC finds it violated.
3. `StartupEnds`: a roundtrip inside a handler takes the `done` of the one
   outside, which waits for ever, unless the compositor is always faster
   (`xdwayland-client.c:590`).
4. `EveryOutputShows`: with two monitors a wallpaper goes to the surface created
   last, from the memory of the first output (`src/src/xdwlwd.c:497`, `:158`).
5. `NamedOutputSet`: with two monitors a request for one of them (`-o eDP-1`) is
   carried out, and the client prints "unknown output" and exits with 1, as
   every output of another name answers with that error
   (`src/src/xdwlwd.c:759`, for a colour `:728`; `src/README.md:15-16` shows
   exactly this use).

The explained properties contain more that a maintainer may want to change:
`ipc_client_recv()` tests `recv()` for 0
only, so that `xdwlw` exits with 0 although its request was never read
(`xdwlw-ipc.c:85`, `ExitStatusExplained`); a client that connects and says
nothing, or a roundtrip that does not return, keeps everyone else waiting
(`xdwlw-ipc.c:176`, `xdwlwd.c:500`, `Answered`); an event that waits behind a
handler's roundtrip may meet an object that is gone and end the daemon
(`xdwayland-client.c:36`, `DeathExplained`); a mode without an image sends an
uninitialised pointer (`xdwlw.c:132`, `RequestExplained`); `ffffffff` is a
colour nobody can ask for; a string argument whose length leaves one byte in
its last word is declared four bytes longer than it is written
(`xdwayland-utils.c:182`, `RequestAsProtocol`); the crop of a centred image may
read a row or a column past the scaled image (`xdwlwd.c:417`,
`DrawnInBounds`).

## 4. What is proved

TLAPS checks these for every value of the constants, from the named assumptions
on them (`NoOwnerAssumption`, `IpcAssumption`, `WallpaperAssumption`,
`OutputsAssumption`, `RegistryAssumption`, `EventLoopAssumption`,
`CommandAssumption`, `DrawingAssumption`, `WireAssumption`, and `TablesAgree` on
the bindings), which TLC evaluates in the runs.

* `LifecycleProofs`: `TypeCorrect`, `Reachable`, `StaleSocketExplained`,
  `UnlinkedByOwner`, `Implements`. The inductive invariant `IInv` adds that
  whoever bound the path and has not passed its own `unlink()` owns it
  (`Owned`), which states the socket can be in at each control point
  (`Located`), when `sfd` knows the descriptor (`Known`), and what a half-done
  exit leaves (`Unfinished`). It is needed because `RunningReachable` says
  nothing of a daemon at `unlink`, the one that could break it. `Implements`
  maps each step to a step of `SocketName` or a stutter. `UnlinkedByOwner`
  (`OnlyOwnerUnlinks`) is an action property that follows from the same
  invariant; it is proved only: in the run `KeepsName` covers it.
* `IpcProofs`: `Acknowledgement` (`AckMeansServed`), `TypeCorrect`, `ExitStatus`
  (`ExitStatusExplained`), `Leaks` (`OnlyVanishedLeak`). The first invariant
  (`IInv`) says that a connection that still exists has had no reply
  (`Unreplied`), so that a request that failed has lost its connection before
  the final acknowledgement (`InHand`), that those in the backlog are distinct
  and not in hand (`Waiting`), and that one not yet made has no descriptor
  (`Unstarted`). The second (`JInv`) adds that nothing is done for a request
  before it is read (`Unread`, `Served`), that a connection without a reply is
  closed by nothing but the end of the process (`Closed`), and that an open one
  is in hand, in the backlog, or forgotten with nothing done for it (`Held`).
* `CommandProofs`: `Requests` (`RequestExplained`), `Overflows`
  (`OverflowExplained`), `Answers` (`AnswerIsTrue`), `Killed` (`KilledStatus`),
  for any names, paths, images, modes and colours, and any value `image_path`
  starts with. What carries them are the lemmas about `Codec`: each message,
  whatever its fields, is read as it was written, and its size is the sum of
  theirs (`ImageArrives`, `ColorArrives`, `KillArrives`, `ReplyArrives`). The
  invariant ties the options to what was asked for (`Tied`), the message on its
  way to the options (`Asked`), and the answer on its way to the request it is
  about (`Answered`). How `Scaling` computes plays no part in this: a picture is
  one of `Drawn`.
  `Draws` (`DrawnInBounds`) is about how it computes, for every pair of sizes up
  to 4096: what is shown was drawn in one of the modes (`Kept`), the larger
  quotient is not below either (`LargerIs`), a quotient is off by half a unit of
  its last place (`QuotientIs`), a product by less than the 2^24th part
  (`ProductIs`), so that a scaled size is one short of the output's at most
  (`Enlarged`, `Covered`); a crop of what is not short stays within it
  (`CropWithin`).
* `WallpaperProofs`: `TypeCorrect`, `DurableAlways`, `Agreement`,
  `Acknowledgement`, `StartFailures`, `OnlySharedFreedTwice`. The invariant is a
  loop invariant: behind the position of the loop file and memory agree
  (`Synced`) and, while no error was sent, the request is on the screen
  (`Behind`); an error that was sent has its reason (`Erred`); the output at the position has no promise to break (`Entered`).
  `OnlySharedFreedTwice` is the other side
  of the first finding: as long as no request sets an image for two outputs at
  once (`Alone`, a hypothesis of the theorem), every `image_path` is a string of
  its own (`Own`) and `NoDoubleFree` holds.
* `OutputsProofs`: `TypeCorrect`, `OneStruct`, `Listeners`, `SettingsKept`,
  `InBounds`, `Errors`, `OnlyBuffer`. The invariant is the conjunction of the
  type invariant, `OneStructEach` and `ListenersLive`. The latter needs from
  `TypeCorrect` that no open surface belongs to a monitor that is not plugged
  in: when a monitor is plugged in again and its struct is freed, no listener
  is left that points to it. `InBounds` adds that a struct whose monitor has
  kept its mode is as large as its memory, so that `munmap()` and drawing are
  exact (`TornBy`, `Unequal`). `Errors` needs that the set of surfaces is
  finite, and that with one surface the newest is the one an event is for
  (`OnlySurface`). `OnlyBuffer` (`OnlyBufferShows`) needs that every struct has
  memory of its own, with a number that was given out (`Numbered`): one file
  means one struct, and one surface for it, which is the newest, with the pool
  that request and redraw draw to (`Alone`).
* `EventLoopProofs`: `Invariance`, `Agreement` (`IdsAgree`), `BoundOnce`
  (`EachBoundOnce`), `Death` (`DeathExplained`, an action property), for any
  globals and handlers, any buffer size and any depth of nested calls. The
  invariant is about sequences of events: the socket and the batch of each call
  on the stack are `Line`s. An id belongs to an object of the compositor or to
  one request on its way (`Owned`); what a request destroys is a surface or a
  layer surface that is there or asked for before, and is destroyed once
  (`Doomed`), because a layer surface that has its listener is not yet being
  destroyed, nor is its surface, which no other has (`Paired`); what every event
  on its way says of ids and globals is true (`AllTrue`); a `delete_id` and a
  `global` are in one place of one line (`Once`); an event of an object is never
  after its `delete_id` in a line (`InOrder`), and on the socket it has one
  behind it, once the object is not there (`Followed`); a global that was
  announced is bound or on its way (`Bound`), and the registry was asked for
  first and stays (`Reached`). `IdsAgree` alone is not inductive: without `Once`
  a second `delete_id` could free an id that has been taken again, without
  `Paired` a `closed` could destroy what is being destroyed, and without
  `Followed` what remains of a read that was split would be unknown. `Death`
  follows from what the invariant says of the event that is dispatched.
* `RegistryProofs`: `TypeCorrect`, `Unique`, `Own`, `Answers`, `Implements`. Its
  invariant links the three structures while the pool is intact (`Linked`): the
  bit of an id is set as long as an object or a listener has the id, and at
  most one listener has it, none once the object is destroyed. So a free id
  brings neither an older object nor somebody else's listener (`IdsUnique`,
  `OwnListener`, which are proved only), and a registration is an `Add` of
  `ObjectMap`. `Answers` needs only that sequence numbers grow: a server's id
  that was taken already still leads to the newest.
* `WireProofs`: `RequestsAsLaidOut` (`RequestAsProtocol`),
  `HandlersGetTheirArguments` (`ListenedIntact`), `NothingLost` (`StreamKept`),
  `UndefinedOnlySo` (`UndefinedExplained`), for strings of any length, a buffer
  of any size and any number of events, given that the tables agree with the
  header. `FlattenSeq` and `Total` are recursive functions; the induction over
  them is done with sets of numbers (`Induction`, from the fact that every set
  of numbers has a least one), as the induction theorems of the library cannot
  be used. It gives that the k-th argument lies where `Total` says (`Place`) and
  what a request is (`MarshalIs`). The invariant: behind each header in the
  buffer or on the socket lies its message, as far as it goes (`Framed`); headers
  rise and what was handled came before them (`Later`); while no read has
  filled the buffer, what is to come is one run of whole messages (`Lossless`).
  `StreamKept` says the last only of the sum of buffer and socket, which no read
  that splits it between messages would preserve by itself.
Only model-checked: all liveness (`ExitCompletes`, `Answered`, `EventsHandled`,
`PromptStartupEnds`), which is out of the prover's reach.

## 5. What is not modelled, and why

* `stb_image.h`: vendored; whether an image loads is a property of the image
  (`Drawable`, `kind`).
* Comments and enums of the bindings and what the generator writes as text:
  they have no behaviour. The descriptions of the other protocols are read from
  the system (`/usr/share/wayland-protocols`, `Makefile`) and are not part of
  the repository.
* What is printed and logged. Of `xdwlw_error_set()` and its counterpart the
  code and the text are modelled where a reply or an exit status depends on
  them.
* In the collections, how buckets and nodes are linked, and the keys of the map
  that are strings, which the program does not use. Lists are sequences and
  sets in the modules that use them.
* Failed system calls other than those of the sockets and `shm_open()`:
  `ftruncate()`, `mmap()` and `fopen()` lead to `xdwlw_exit()`, which is `Leave`
  in `Lifecycle` and `Crash` in `Wallpaper`.
* The numbers of descriptors: that a descriptor takes the number of one that is
  closed a second time is not seen.
* In `Outputs`, two handlers nested in one another: a step is one event, and the
  globals that are not outputs are bound. `EventLoop` has the nesting and the
  order, without what the handlers do to the structs. A size is a number of
  pixels: `configure` compares width and height (`xdwlwd.c:215`), so that two
  shapes of as many pixels, which need no other memory but another stride, are
  not told apart.
* In `EventLoop`, requests that neither create nor destroy an object, and what a
  stray event makes of the tables of another object: an opcode may lie within
  them, or beyond (`Wire`).
* `wl_buffer.release` and `wl_display.error` of the compositor: the first has no
  handler, the second only prints.
* Images and outputs of more than 4096 by 4096, where a scaled size may not be
  exact as a float any more, and memory that cannot be had for a scaled image.

## 6. Plan

What is left: `Scaling` beyond 4096, up to the sizes `stb_image.h` takes, where
sizes are rounded as they become floats, with the proof extended to them; and
what of liveness follows from a measure that every step of a handler lowers, as
an invariant on that measure.

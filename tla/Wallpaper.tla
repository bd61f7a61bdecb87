----------------------------- MODULE Wallpaper -----------------------------
(***************************************************************************)
(* What xdwlwd does with a wallpaper request, output by output: the fields *)
(* of struct output, the strings image_path points to, the file of that    *)
(* output in ~/.cache/xdwlw, the output's buffer and the reply; and what a *)
(* later xdwlwd makes of the files.  The process may stop between any two  *)
(* steps that something outside it can tell apart.                         *)
(***************************************************************************)
EXTENDS Naturals, FiniteSets

CONSTANTS N,          \* the outputs are 1..N, in the order of the list
          Colors,     \* colours a user may ask for
          Paths,      \* image files a user may name
          Modes,      \* image modes a user may name
          GoodModes,  \* the modes draw_image_on_output() knows: C and F
          Requests,   \* the requests users make: a subset of AllRequests
          Garbled     \* the path read back with stray bytes at its end

Outputs == 1..N
Settings == [kind : {"color"}, color : Colors]
            \cup [kind : {"image"}, path : Paths, mode : Modes]
None == [kind |-> "none"]      \* no wallpaper: no file, or an empty one

\* to: the outputs the name of the request matches, all of them for "all"
\* and none for a name no output has.
AllRequests == [set : Settings, to : SUBSET Outputs]

ASSUME WallpaperAssumption ==
    /\ N \in Nat \ {0}
    /\ GoodModes \subseteq Modes
    /\ Requests \subseteq AllRequests
    /\ Garbled \notin Paths

NoRequest == [set |-> None, to |-> {}]

VARIABLES
    mem,       \* color, image_path and image_mode of each output, as a setting
    block,     \* what image_path points to: 0 (NULL), or the output for which
               \* the string was allocated
    dangling,  \* the outputs whose image_path points to freed memory
    cache,     \* the setting in each output's file, None when there is none
    drawn,     \* the setting in each output's buffer
    files,     \* the image files stb_image can load
    stage,     \* "down", "restore", "idle", "match", "write", "draw", "ack"
    at,        \* the output the loop has come to
    req,       \* the latest request
    reply,     \* its first reply, the one its client gets
    failure,   \* history: "none", "start" or "double free", of this process
    promise    \* history: what was last drawn for a user, and not replaced

memory == <<mem, block, dangling>>
vars == <<memory, cache, drawn, files, stage, at, req, reply, failure, promise>>

Everywhere(x) == [o \in Outputs |-> x]

Init ==
    /\ mem = Everywhere(None) /\ block = Everywhere(0) /\ dangling = {}
    /\ cache = Everywhere(None)
    /\ drawn = Everywhere(None)
    /\ files = Paths
    /\ stage = "down"
    /\ at = 1
    /\ req = NoRequest
    /\ reply = "none"
    /\ failure = "none"
    /\ promise = Everywhere(None)

-----------------------------------------------------------------------------
(* Helpers                                                                 *)

\* draw_image_on_output() fails when the file cannot be loaded or the mode is
\* neither C nor F; draw_color_on_output() never fails.
Drawable(s) == s.kind = "image" => s.path \in files /\ s.mode \in GoodModes

\* write_to_cache() leaves out the NUL that the length of the string counts,
\* so read_from_cache() goes on into an uninitialised buffer.
ReadBack(s) ==
    IF s.kind = "image" THEN {s, [s EXCEPT !.path = Garbled]} ELSE {s}

\* The others whose image_path is the string that is freed for o.
Sharing(o) == {p \in Outputs \ {o} : block[o] # 0 /\ block[p] = block[o]}

\* Mutant: the loop leaves its position past the end of the list.
Advance_PastEnd(next, last) ==
    /\ stage' = IF at < N THEN next ELSE last
    /\ at' = at + 1

\* The loop over the list goes on, or is over.
Advance(next, last) ==
    IF at < N THEN stage' = next /\ at' = at + 1
              ELSE stage' = last /\ at' = 1

\* Only the first ipc_server_send() of a request finds its connection open.
Answer(r) == reply' = IF reply = "none" THEN r ELSE reply

Die(why) ==
    /\ stage' = "down"
    /\ at' = 1
    /\ failure' = why

-----------------------------------------------------------------------------
(* Start: every output's file is read and the setting in it drawn          *)

Start ==
    /\ stage = "down"
    /\ stage' = "restore" /\ at' = 1
    /\ mem' = Everywhere(None) /\ block' = Everywhere(0) /\ dangling' = {}
    /\ drawn' = Everywhere(None)
    /\ req' = NoRequest /\ reply' = "none" /\ failure' = "none"
    /\ UNCHANGED <<cache, files, promise>>

\* Mutant: an entry that cannot be read is an error.
RestoreNothing_Fatal ==
    /\ stage = "restore"
    /\ cache[at] = None
    /\ Die("start")
    /\ UNCHANGED <<memory, cache, drawn, files, req, reply, promise>>

RestoreNothing ==
    /\ stage = "restore"
    /\ cache[at] = None
    /\ Advance("restore", "idle")
    /\ UNCHANGED <<memory, cache, drawn, files, req, reply, failure, promise>>

Restore ==
    /\ stage = "restore"
    /\ cache[at] # None
    /\ \E s \in ReadBack(cache[at]) :
          /\ mem' = [mem EXCEPT ![at] = s]
          /\ block' = [block EXCEPT ![at] = IF s.kind = "image" THEN at ELSE 0]
          /\ IF Drawable(s)
             THEN /\ drawn' = [drawn EXCEPT ![at] = s]
                  /\ Advance("restore", "idle")
                  /\ UNCHANGED failure
             ELSE /\ Die("start")
                  /\ UNCHANGED drawn
    /\ UNCHANGED <<dangling, cache, files, req, reply, promise>>

-----------------------------------------------------------------------------
(* A request                                                               *)

Receive(r) ==
    /\ stage = "idle"
    /\ req' = r
    /\ reply' = "none"
    /\ stage' = "match" /\ at' = 1
    /\ UNCHANGED <<memory, cache, drawn, files, failure, promise>>

\* An output of another name answers with an error and is left alone.
Mismatch ==
    /\ stage = "match"
    /\ at \notin req.to
    /\ Answer("ERR")
    /\ Advance("match", "ack")
    /\ UNCHANGED <<memory, cache, drawn, files, req, failure, promise>>

\* The setting replaces the old one and fopen(..., "wb") empties the file.
\* Every image_path that an image request sets is the message's one string.
SetFields(b) ==
    /\ mem' = [mem EXCEPT ![at] = req.set]
    /\ block' = [block EXCEPT ![at] = b]
    /\ dangling' = (dangling \cup Sharing(at)) \ {at}
    /\ cache' = [cache EXCEPT ![at] = None]
    /\ promise' = [promise EXCEPT ![at] = None]
    /\ stage' = "write"
    /\ UNCHANGED at

NewBlock ==
    LET earlier == {o \in req.to : o < at} IN
    IF req.set.kind = "color" THEN 0
    ELSE IF earlier = {} THEN at
    ELSE block[CHOOSE o \in earlier : TRUE]

Assign ==
    /\ stage = "match"
    /\ at \in req.to
    /\ at \notin dangling
    /\ SetFields(NewBlock)
    /\ UNCHANGED <<drawn, files, req, reply, failure>>

\* free() of a string that is free already is undefined: glibc aborts when
\* it notices, and otherwise the daemon goes on with a damaged heap.
AssignDoubleFree ==
    /\ stage = "match"
    /\ at \in req.to
    /\ at \in dangling
    /\ \/ Die("double free") /\ UNCHANGED <<memory, cache, promise>>
       \/ SetFields(NewBlock) /\ failure' = "double free"
    /\ UNCHANGED <<drawn, files, req, reply>>

\* Mutants: the output's old file contents are put back; or a setting is
\* saved only when its image can be loaded.
Write_Stale ==
    /\ stage = "write"
    /\ cache' = [cache EXCEPT ![at] = drawn[at]]
    /\ stage' = "draw"
    /\ UNCHANGED <<memory, drawn, files, at, req, reply, failure, promise>>

Write_IfLoadable ==
    /\ stage = "write"
    /\ cache' = [cache EXCEPT ![at] = IF Drawable(mem[at]) THEN mem[at] ELSE None]
    /\ stage' = "draw"
    /\ UNCHANGED <<memory, drawn, files, at, req, reply, failure, promise>>

\* The few bytes of the setting reach the file together, in fclose().
Write ==
    /\ stage = "write"
    /\ cache' = [cache EXCEPT ![at] = mem[at]]
    /\ stage' = "draw"
    /\ UNCHANGED <<memory, drawn, files, at, req, reply, failure, promise>>

\* The roundtrip of apply() lies in this step; that it may wait for ever is
\* EventLoop's matter, and nothing here says that the step is ever taken.
Draw ==
    /\ stage = "draw"
    /\ Drawable(mem[at])
    /\ drawn' = [drawn EXCEPT ![at] = mem[at]]
    /\ promise' = [promise EXCEPT ![at] = mem[at]]
    /\ Advance("match", "ack")
    /\ UNCHANGED <<memory, cache, files, req, reply, failure>>

\* Mutant: a failing draw goes unreported.
DrawFails_Silent ==
    /\ stage = "draw"
    /\ ~Drawable(mem[at])
    /\ Advance("match", "ack")
    /\ UNCHANGED <<memory, cache, drawn, files, req, reply, failure, promise>>

\* The failure is answered; fields and file keep the setting all the same.
DrawFails ==
    /\ stage = "draw"
    /\ ~Drawable(mem[at])
    /\ Answer("ERR")
    /\ Advance("match", "ack")
    /\ UNCHANGED <<memory, cache, drawn, files, req, failure, promise>>

Finish ==
    /\ stage = "ack"
    /\ Answer("ACK")
    /\ stage' = "idle"
    /\ UNCHANGED <<memory, cache, drawn, files, at, req, failure, promise>>

-----------------------------------------------------------------------------
(* The end                                                                 *)

\* A kill request: every image_path is freed, those that share a string too.
Kill ==
    /\ stage = "idle"
    /\ Die(IF \E o \in Outputs : o \in dangling \/ Sharing(o) # {}
           THEN "double free" ELSE failure)
    /\ UNCHANGED <<memory, cache, drawn, files, req, reply, promise>>

\* Any other way to stop.
Crash ==
    /\ stage # "down"
    /\ Die(failure)
    /\ UNCHANGED <<memory, cache, drawn, files, req, reply, promise>>

\* The user removes an image file, or puts one back.
Touch(p) ==
    /\ files' = (files \ {p}) \cup ({p} \ files)
    /\ UNCHANGED <<memory, cache, drawn, stage, at, req, reply, failure, promise>>

Serve ==
    \/ Mismatch \/ Assign \/ AssignDoubleFree \/ Write \/ Draw \/ DrawFails \/ Finish

Next ==
    \/ Start \/ RestoreNothing \/ Restore
    \/ \E r \in Requests : Receive(r)
    \/ Serve \/ Kill \/ Crash
    \/ \E p \in Paths : Touch(p)

Spec == Init /\ [][Next]_vars

-----------------------------------------------------------------------------
\* A path read back wrong is held only until it fails to load.
Held == Settings \cup {None}
        \cup [kind : {"image"}, path : {Garbled}, mode : Modes]

TypeOK ==
    /\ mem \in [Outputs -> Held]
    /\ cache \in [Outputs -> Settings \cup {None}]
    /\ drawn \in [Outputs -> Settings \cup {None}]
    /\ promise \in [Outputs -> Settings \cup {None}]
    /\ block \in [Outputs -> 0..N] /\ dangling \subseteq Outputs
    /\ files \subseteq Paths
    /\ stage \in {"down", "restore", "idle", "match", "write", "draw", "ack"}
    /\ at \in Outputs
    /\ req \in AllRequests \cup {NoRequest}
    /\ reply \in {"none", "ACK", "ERR"}
    /\ failure \in {"none", "start", "double free"}

(* A wallpaper that was put on the screen for a user stays in the output's *)
(* file until a newer request takes that output over: no crash, restart,   *)
(* failed request or request for another output loses it.                  *)
Durable == \A o \in Outputs : promise[o] # None => cache[o] = promise[o]

(* Between requests the file of every output says what the daemon would    *)
(* show: also after requests that failed, and after a restart.             *)
MemoryMatchesCache == stage = "idle" => \A o \in Outputs : cache[o] = mem[o]

(* A client told ACK finds its wallpaper on every output and in every      *)
(* output's file.  One told of an error either named some outputs and not  *)
(* others, or has an output that does not show what it asked for: no       *)
(* request for all outputs that was carried out is reported as a failure.  *)
AnswerExplained ==
    stage = "idle" =>
        /\ reply = "ACK" =>
              \A o \in Outputs : drawn[o] = req.set /\ cache[o] = req.set
        /\ reply = "ERR" =>
              req.to # Outputs \/ \E o \in req.to : promise[o] # req.set

(* An image string is freed once.                                          *)
NoDoubleFree == failure # "double free"

(* The daemon gives up starting only over an output whose saved image it   *)
(* cannot use, or whose saved path it has read back with stray bytes: a    *)
(* colour, an absent file or one a crash left empty is no obstacle.        *)
StartFailsExplained ==
    [][failure' = "start" /\ failure # "start" =>
          \E o \in Outputs :
              /\ cache[o].kind = "image"
              /\ ~Drawable(cache[o]) \/ mem'[o].path = Garbled]_vars

-----------------------------------------------------------------------------
(* What the repository says and the code does not do                       *)

(* src/README.md: a wallpaper is set "only on the eDP-1 monitor" by naming *)
(* it, so an error means that no output has the name, or that an output of *)
(* that name does not show what was asked for.                             *)
NamedOutputSet ==
    stage = "idle" /\ reply = "ERR" =>
        req.to = {} \/ \E o \in req.to : promise[o] # req.set

=============================================================================

------------------------------ MODULE Command ------------------------------
(***************************************************************************)
(* One command after another, from the options of xdwlw to its exit        *)
(* status: options are read one by one, the request is encoded, xdwlwd     *)
(* decodes it and draws on its output, its reply is encoded and decoded;   *)
(* and at a kill the exit status of xdwlwd.  That connections fail, that   *)
(* there are several outputs and that files outlive the daemon is the      *)
(* matter of Ipc and Wallpaper.                                            *)
(***************************************************************************)
EXTENDS Codec, Scaling

CONSTANTS Images,       \* arguments of -i: what realpath() makes of each
          Outputs,      \* arguments of -o
          Colors,       \* arguments of -c, as ints: ffffffff is -1
          Modes,        \* first characters of the arguments of -m: "" of an empty one
          Monitor,      \* the output of the daemon: [name, w, h]
          Uninitialised,\* what an image_path that was not set may hold
          MaxOptions, MaxCommands   \* bounds: options of a command, commands

Empty == Str(0, <<"empty">>)
NoOutput == Str(0, <<"none">>)
All == Str(3, <<"all">>)
NoMode == ""
NoColor == -1
NoError == Str(0, <<"no error">>)
NoMessage == [type |-> "none"]
NoPicture == [kind |-> "none"]

\* A name is a string of Codec.  An argument of -i is refused when it is longer
\* than PATH_MAX or realpath() fails; the file it names is a picture or not.
\* realpath() gives no empty name, and getopt_long() no NULL for -o.
ASSUME CommandAssumption ==
    /\ \A i \in Images :
          i.kind \in {"picture", "text", "refused"} /\ i.name.len \in Nat \ {0}
    /\ \A name \in Outputs : name.len \in Nat /\ name # NoOutput
    /\ \A junk \in Uninitialised : junk.len \in Nat
    /\ Empty \in Uninitialised

\* A path names one file.  The sizes are those that Scaling is about.
ASSUME DrawingAssumption ==
    /\ \A i, j \in Images : i.name = j.name => i = j
    /\ \A i \in Images : i.kind = "picture" => i.w \in Sizes /\ i.h \in Sizes
    /\ Monitor.w \in Sizes /\ Monitor.h \in Sizes

VARIABLES stage,    \* "idle", "options", "serve", "answer"
          opts,     \* kill, output_name, image_path, image_mode, color
          asked,    \* history: the options that were given
          count,    \* options and commands so far
          buffer,   \* the message on its way
          exit,     \* of xdwlw: 0, 1, or -1 when it has crashed
          printed,  \* the error it has printed
          picture,  \* what the output shows
          failed,   \* xdwlw_errcode and xdwl_errcode of the daemon are set
          errmsg,   \* xdwlw_errmsg
          daemon,   \* "up", "undefined", or its exit status
          did       \* history: the request it served last

client == <<stage, opts, asked, count, exit, printed>>
server == <<picture, failed, errmsg, daemon, did>>
vars == <<client, buffer, server>>

-----------------------------------------------------------------------------
(* xdwlw                                                                   *)

\* image_path is the one option that has no initial value.
Run ==
    /\ stage = "idle" /\ daemon = "up"
    /\ count.commands < MaxCommands
    /\ stage' = "options"
    /\ \E junk \in Uninitialised :
          opts' = [kill |-> FALSE, output |-> NoOutput, path |-> junk, mode |-> NoMode, color |-> NoColor]
    /\ asked' = {}
    /\ count' = [options |-> 0, commands |-> count.commands + 1]
    /\ printed' = NoError
    /\ did' = NoMessage
    /\ UNCHANGED <<buffer, exit, picture, failed, errmsg, daemon>>

Exit(status) == stage' = "idle" /\ exit' = status
Undefined == Exit(-1)

Leave(status) ==
    /\ Exit(status)
    /\ UNCHANGED <<opts, asked, count, printed, buffer, server>>

Set(option, field, value) ==
    /\ opts' = [opts EXCEPT ![field] = value]
    /\ asked' = asked \cup {option}
    /\ count' = [count EXCEPT !.options = @ + 1]
    /\ UNCHANGED <<stage, exit, printed, buffer, server>>

More == stage = "options" /\ count.options < MaxOptions

OptionHelp == More /\ Leave(0)
OptionKill == More /\ Set("kill", "kill", TRUE)

OptionImage(i) ==
    /\ More
    /\ IF i.kind = "refused" THEN Leave(1) ELSE Set("image", "path", i.name)

OptionColor(c) == More /\ Set("color", "color", c)

\* Mutant: any length is taken.
OptionOutput_AnyLength(name) == More /\ Set("output", "output", name)

OptionOutput(name) ==
    /\ More
    /\ IF name.len > 64 THEN Leave(1) ELSE Set("output", "output", name)

OptionMode(m) == More /\ Set("mode", "mode", m)

\* --image, --color, --output and --mode take their argument after "=" only:
\* without it optarg is NULL, which all of them dereference.
OptionLong ==
    /\ More
    /\ Undefined
    /\ asked' = asked \cup {"long"}
    /\ UNCHANGED <<opts, count, printed, buffer, server>>

Output == IF opts.output = NoOutput THEN All ELSE opts.output

\* Mutant: a colour goes before an image.
Request_ColorFirst ==
    IF opts.color # NoColor
    THEN [type |-> "SET_COLOR", output |-> Output, color |-> opts.color]
    ELSE IF opts.path # Empty /\ opts.mode # NoMode
    THEN [type |-> "SET_IMAGE", output |-> Output, mode |-> opts.mode, path |-> opts.path]
    ELSE IF opts.kill THEN [type |-> "KILL"] ELSE NoMessage

Request ==
    IF opts.path # Empty /\ opts.mode # NoMode
    THEN [type |-> "SET_IMAGE", output |-> Output, mode |-> opts.mode, path |-> opts.path]
    ELSE IF opts.color # NoColor
    THEN [type |-> "SET_COLOR", output |-> Output, color |-> opts.color]
    ELSE IF opts.kill THEN [type |-> "KILL"] ELSE NoMessage

\* All options are read and none, or none that suffices, was given.
Usage ==
    /\ stage = "options"
    /\ Request = NoMessage
    /\ Leave(1)

\* A message longer than the buffer is written past its end.  If that does not
\* stop xdwlw, what it sends fills the buffer of xdwlwd, which then has no NUL.
Send ==
    /\ stage = "options"
    /\ Request # NoMessage
    /\ IF Fits(Encode(Request))
       THEN /\ buffer' = Encode(Request)
            /\ stage' = "serve"
            /\ UNCHANGED <<opts, asked, count, exit, printed, server>>
       ELSE /\ Undefined
            /\ daemon' \in {"up", "undefined"}
            /\ UNCHANGED <<opts, asked, count, printed, buffer, picture, failed, errmsg, did>>

Receive ==
    /\ stage = "answer"
    /\ LET reply == DecodeReply(buffer) IN
       IF reply.type = "ERR" THEN printed' = reply.msg /\ Exit(1)
                             ELSE Exit(0) /\ UNCHANGED printed
    /\ buffer' = Blank
    /\ UNCHANGED <<opts, asked, count, server>>

-----------------------------------------------------------------------------
(* xdwlwd                                                                  *)

Failed(text, s) == Str(text + s.len, <<"failed", s.which[1]>>)
\* Mutant: the reply is prefixed once more.
OpenFailed_Twice(path) == Failed(23, path)

OpenFailed(path) == Failed(15, path)
InvalidMode(m) == Failed(20, Str(1, <<m>>))
UnknownOutput(name) == Failed(16, name)

Message(s) == [type |-> "ERR", msg |-> IF s.len > ErrorMax THEN Str(ErrorMax, s.which) ELSE s]

\* ipc_server_send() of the first reply: for a second the connection is closed.
\* A reply longer than the buffer is written past its end.
Reply(reply) ==
    /\ IF Fits(EncodeReply(reply))
       THEN buffer' = EncodeReply(reply) /\ stage' = "answer" /\ UNCHANGED <<daemon, exit>>
       ELSE /\ buffer' = Blank
            /\ daemon' = "undefined"
            /\ stage' = "idle" /\ exit' \in 0..1
    /\ UNCHANGED <<opts, asked, count, printed>>

File(path) == {i \in Images : i.name = path}
Loads(path) == \E i \in File(path) : i.kind = "picture"
Drawn(m, i) == IF m = "C" THEN Center(i, Monitor) ELSE Fit(i, Monitor)

Serving(type) == stage = "serve" /\ Decode(buffer).type = type
Matches(name) == name \in {All, Monitor.name}
Refuse(name) == Reply(Message(UnknownOutput(name))) /\ UNCHANGED <<picture, failed, errmsg>>

ServeColor ==
    /\ Serving("SET_COLOR")
    /\ LET msg == Decode(buffer) IN
       /\ did' = msg
       /\ IF Matches(msg.output)
          THEN /\ picture' = [kind |-> "color", color |-> msg.color]
               /\ Reply([type |-> "ACK"])
               /\ UNCHANGED <<failed, errmsg>>
          ELSE Refuse(msg.output)

\* Mutant: the mode is looked at by the caller only.
ServeImage_AnyMode ==
    /\ Serving("SET_IMAGE")
    /\ LET msg == Decode(buffer) IN
       /\ did' = msg
       /\ IF ~Matches(msg.output) THEN Refuse(msg.output)
          ELSE IF ~Loads(msg.path)
          THEN /\ errmsg' = OpenFailed(msg.path) /\ failed' = [failed EXCEPT !.xdwlw = TRUE]
               /\ Reply(Message(errmsg'))
               /\ UNCHANGED picture
          ELSE /\ \E i \in File(msg.path) : \E draw \in Drawn(msg.mode, i) :
                     picture' = [kind |-> "image", of |-> i, draw |-> draw]
               /\ Reply([type |-> "ACK"])
               /\ UNCHANGED <<errmsg, failed>>

\* draw_image_on_output(): the file is loaded before the mode is looked at.
ServeImage ==
    /\ Serving("SET_IMAGE")
    /\ LET msg == Decode(buffer) IN
       /\ did' = msg
       /\ IF ~Matches(msg.output) THEN Refuse(msg.output)
          ELSE IF ~Loads(msg.path) \/ msg.mode \notin {"C", "F"}
          THEN /\ errmsg' = IF ~Loads(msg.path) THEN OpenFailed(msg.path) ELSE InvalidMode(msg.mode)
               /\ failed' = [failed EXCEPT !.xdwlw = TRUE]
               /\ Reply(Message(errmsg'))
               /\ UNCHANGED picture
          ELSE /\ \E i \in File(msg.path) : \E draw \in Drawn(msg.mode, i) :
                     picture' = [kind |-> "image", of |-> i, draw |-> draw]
               /\ Reply([type |-> "ACK"])
               /\ UNCHANGED <<errmsg, failed>>

\* Mutant: the codes are read after they have been printed, and cleared.
ExitStatus_Printed == "0"

\* xdwlw_exit() takes the codes before it prints, and clears, them.
ExitStatus == IF failed.xdwlw \/ failed.xdwl THEN "1" ELSE "0"

ServeKill ==
    /\ Serving("KILL")
    /\ did' = Decode(buffer)
    /\ buffer' = EncodeReply([type |-> "ACK"])
    /\ stage' = "answer"
    /\ daemon' = ExitStatus
    /\ UNCHANGED <<opts, asked, count, exit, printed, picture, failed, errmsg>>

\* xdwl_error_set() in an event that is not taken for a failure: one for an
\* object that is no longer registered.
StrayEvent ==
    /\ stage = "idle" /\ daemon = "up"
    /\ ~failed.xdwl
    /\ failed' = [failed EXCEPT !.xdwl = TRUE]
    /\ UNCHANGED <<client, buffer, picture, errmsg, daemon, did>>

-----------------------------------------------------------------------------
Init ==
    /\ stage = "idle"
    /\ opts = [kill |-> FALSE, output |-> NoOutput, path |-> Empty, mode |-> NoMode, color |-> NoColor]
    /\ asked = {} /\ count = [options |-> 0, commands |-> 0]
    /\ buffer = Blank /\ exit = 0 /\ printed = NoError
    /\ picture = NoPicture
    /\ failed = [xdwlw |-> FALSE, xdwl |-> FALSE] /\ errmsg = NoError
    /\ daemon = "up" /\ did = NoMessage

Next ==
    \/ Run \/ Usage \/ Send \/ Receive
    \/ OptionHelp \/ OptionKill \/ OptionLong
    \/ \E i \in Images : OptionImage(i)
    \/ \E c \in Colors : OptionColor(c)
    \/ \E name \in Outputs : OptionOutput(name)
    \/ \E m \in Modes : OptionMode(m)
    \/ ServeColor \/ ServeImage \/ ServeKill \/ StrayEvent

Spec == Init /\ [][Next]_vars

-----------------------------------------------------------------------------
(* Properties                                                              *)

\* What xdwlwd serves is what the user asked for: every field arrives as the
\* option gave it, an image goes before a colour and a colour before a kill.
\* There are two exceptions.  A mode without an image sends whatever image_path
\* held when main() began, if its first byte was not 0; and the colour ffffffff,
\* like the empty mode, is taken for none.
RequestExplained ==
    LET Mode == "mode" \in asked /\ opts.mode # NoMode
        WantsImage == "image" \in asked /\ Mode
        WantsColor == "color" \in asked /\ opts.color # NoColor
        Stale == "image" \notin asked /\ Mode /\ opts.path # Empty
    IN  /\ did.type \in {"SET_IMAGE", "SET_COLOR"} =>
              did.output = IF "output" \in asked THEN opts.output ELSE All
        /\ did.type = "SET_IMAGE" =>
              /\ WantsImage \/ Stale
              /\ did.path = opts.path /\ did.mode = opts.mode
        /\ did.type = "SET_COLOR" =>
              /\ WantsColor /\ ~WantsImage /\ ~Stale
              /\ did.color = opts.color
        /\ did.type = "KILL" => "kill" \in asked /\ ~WantsImage /\ ~WantsColor /\ ~Stale

\* Both buffers have 512 bytes and neither end looks at the length.  All the
\* ways past the end: of xdwlw, a request for a file whose name leaves the
\* buffer no room; of xdwlwd, the answer that such a file does not open, whose
\* words are longer than the request's other fields.  (A long option without
\* "=" is the only other way to crash xdwlw.)
OverflowExplained ==
    /\ stage = "idle" /\ exit = -1 /\ "long" \notin asked =>
          opts.path.len + Output.len > 504
    /\ daemon = "undefined" =>
          \/ opts.path.len + Output.len > 504
          \/ did.type = "SET_IMAGE" /\ did.path.len > 493 /\ ~Loads(did.path)

\* An error that xdwlw prints is about this very request and is not left from
\* an earlier one, although xdwlwd keeps one buffer for its error messages and
\* never empties it; and a request that ends well has changed what the output
\* shows to what it asked for (xdwlw_error_set(), main()).
AnswerIsTrue ==
    stage = "idle" /\ did # NoMessage =>
        /\ exit = 1 /\ daemon = "up" =>
              \/ printed = UnknownOutput(did.output) /\ ~Matches(did.output)
              \/ /\ did.type = "SET_IMAGE" /\ Matches(did.output)
                 /\ \/ printed = OpenFailed(did.path) /\ ~Loads(did.path)
                    \/ /\ printed = InvalidMode(did.mode) /\ Loads(did.path)
                       /\ did.mode \notin {"C", "F"}
        /\ exit = 0 /\ daemon = "up" =>
              \/ did.type = "SET_COLOR" /\ picture = [kind |-> "color", color |-> did.color]
              \/ /\ did.type = "SET_IMAGE"
                 /\ did.mode \in {"C", "F"}
                 /\ picture.kind = "image" /\ picture.of.name = did.path
                 /\ picture.draw \in Drawn(did.mode, picture.of)

\* IMAGE_MODE_CENTER and IMAGE_MODE_FIT fill the output from the image's own
\* pixels: every pixel read by the crop is one of the scaled image, every pixel
\* read by the scaling one of the image.  The one exception: float rounding may
\* cut a column or a row off the scaled image; then nothing is drawn, or the
\* crop reads into the next row, past the end at the last.
DrawnInBounds ==
    stage = "answer" /\ picture.kind = "image" =>
        LET d == picture.draw
            i == picture.of
            r == IF d \in Fit(i, Monitor) THEN [w |-> Monitor.w, h |-> Monitor.h]
                                          ELSE Scaled(i, Monitor)
        IN  /\ r.w < Monitor.w \/ r.h < Monitor.h \/
                  /\ d.written = Monitor.w * Monitor.h
                  /\ d.first >= 0 /\ d.last < d.size
            /\ r.w >= Monitor.w - 1 /\ r.h >= Monitor.h - 1
            /\ d.written \in {0, Monitor.w * Monitor.h}
            /\ Sources(i.w, r.w) \subseteq 0..(i.w - 1) /\ Sources(i.h, r.h) \subseteq 0..(i.h - 1)

\* What xdwlwd exits with at a kill tells of its whole life: 1 once an image has
\* not been drawn or the library has failed, even if every request since was
\* served (xdwlw_exit()).  A request for an unknown output leaves no such trace.
KilledStatus ==
    daemon \in {"0", "1"} =>
        (daemon = "1" <=> errmsg # NoError \/ failed.xdwl)
=============================================================================

--------------------------- MODULE CommandProofs ---------------------------
(***************************************************************************)
(* What Command promises holds for every set of arguments, every output    *)
(* and whatever image_path held before it was set.                         *)
(*                                                                         *)
(* The argument: a request is made of the options, which are tied to what  *)
(* was asked for; what is decoded is what was encoded, field by field,     *)
(* whatever the fields are; so the request that was served is the one that *)
(* the options, unchanged since, still make.  The reply on its way is      *)
(* about that request, and its size follows from the words it is made of.  *)
(* How an image is scaled (Scaling) plays no part in this.                 *)
(*                                                                         *)
(* That the drawing stays within the image is arithmetic: a quotient or a  *)
(* product that is rounded to 24 bits is off by less than what would take  *)
(* two pixels from any size (Scaled and after).                            *)
(***************************************************************************)
EXTENDS Command, TLAPS, WellFoundedInduction

-----------------------------------------------------------------------------
(* Codec: what is read where it was written is what was written            *)

Written(b) == b.end \in Nat /\ \A o \in DOMAIN b.at : o \in Nat /\ o < b.end

LEMMA BlankWritten == Written(Blank) /\ Blank.end = 0
  BY DEF Blank, Written

(* A write adds its value where the buffer ended and leaves the rest.      *)
LEMMA WriteAdds ==
  ASSUME NEW b, Written(b), NEW size \in Nat \ {0}, NEW v
  PROVE  /\ Written(Write(b, size, v))
         /\ Write(b, size, v).end = b.end + size
         /\ b.end \in DOMAIN Write(b, size, v).at
         /\ Write(b, size, v).at[b.end] = v
         /\ \A o \in DOMAIN b.at :
               o \in DOMAIN Write(b, size, v).at /\ Write(b, size, v).at[o] = b.at[o]
  BY DEF Write, Written

(* So does a string, which leaves its length, with the NUL, and itself.    *)
LEMMA StringAdds ==
  ASSUME NEW b, Written(b), NEW s, s.len \in Nat
  PROVE  /\ Written(String(b, s))
         /\ String(b, s).end = b.end + s.len + 3
         /\ {b.end, b.end + 2} \subseteq DOMAIN String(b, s).at
         /\ String(b, s).at[b.end] = s.len + 1
         /\ String(b, s).at[b.end + 2] = s
         /\ \A o \in DOMAIN b.at : o \in DOMAIN String(b, s).at /\ String(b, s).at[o] = b.at[o]
<1> DEFINE w == Write(b, 2, s.len + 1)
           x == Write(w, s.len + 1, s)
<1>1. /\ Written(w) /\ w.end = b.end + 2 /\ b.end \in DOMAIN w.at /\ w.at[b.end] = s.len + 1
      /\ \A o \in DOMAIN b.at : o \in DOMAIN w.at /\ w.at[o] = b.at[o]
  BY WriteAdds
<1>2. s.len + 1 \in Nat \ {0}
  OBVIOUS
<1> HIDE DEF w
<1>3. /\ Written(x) /\ x.end = w.end + (s.len + 1) /\ w.end \in DOMAIN x.at /\ x.at[w.end] = s
      /\ \A o \in DOMAIN w.at : o \in DOMAIN x.at /\ x.at[o] = w.at[o]
  BY <1>1, <1>2, WriteAdds
<1>4. String(b, s) = x
  BY DEF String, x, w
<1>5. b.end \in Nat
  BY DEF Written
<1> HIDE DEF x
<1>6. x.end = b.end + s.len + 3
  BY <1>1, <1>3, <1>5
<1> QED
  BY <1>1, <1>3, <1>4, <1>6

(* The requests and the replies.                                           *)
ImageRequest(output, mode, path) ==
    [type |-> "SET_IMAGE", output |-> output, mode |-> mode, path |-> path]
ColorRequest(output, color) == [type |-> "SET_COLOR", output |-> output, color |-> color]
KillRequest == [type |-> "KILL"]
ErrReply(msg) == [type |-> "ERR", msg |-> msg]
AckReply == [type |-> "ACK"]

(* A request for an image is read back as it was sent, and is as long as   *)
(* its strings and 8 bytes.                                                *)
LEMMA ImageArrives ==
  ASSUME NEW output, NEW mode, NEW path, output.len \in Nat, path.len \in Nat
  PROVE  /\ Decode(Encode(ImageRequest(output, mode, path))) = ImageRequest(output, mode, path)
         /\ Encode(ImageRequest(output, mode, path)).end = output.len + path.len + 8
<1> DEFINE msg == ImageRequest(output, mode, path)
           a == Write(Blank, 1, "SET_IMAGE")
           b == String(a, output)
           c == Write(b, 1, mode)
           d == String(c, path)
           n == output.len + 4
<1>1. Encode(msg) = d
  BY DEF Encode, ImageRequest, U8
<1>2. /\ Written(a) /\ a.end = 1 /\ 0 \in DOMAIN a.at /\ a.at[0] = "SET_IMAGE"
  BY BlankWritten, WriteAdds
<1> HIDE DEF a
<1>3. /\ Written(b) /\ b.end = n /\ {1, 3} \subseteq DOMAIN b.at /\ 0 \in DOMAIN b.at
      /\ b.at[1] = output.len + 1 /\ b.at[3] = output /\ b.at[0] = "SET_IMAGE"
  BY <1>2, StringAdds
<1> HIDE DEF b
<1>4. /\ Written(c) /\ c.end = n + 1 /\ {0, 1, 3, n} \subseteq DOMAIN c.at
      /\ c.at[1] = output.len + 1 /\ c.at[3] = output /\ c.at[0] = "SET_IMAGE"
      /\ c.at[n] = mode
  BY <1>3, WriteAdds
<1> HIDE DEF c
<1>5. /\ Written(d) /\ d.end = (n + 1) + path.len + 3
      /\ d.at[(n + 1) + 2] = path
      /\ \A o \in DOMAIN c.at : d.at[o] = c.at[o]
  BY <1>4, StringAdds
<1>6. /\ d.at[0] = "SET_IMAGE" /\ d.at[1] = output.len + 1 /\ d.at[3] = output
      /\ d.at[n] = mode
  BY <1>4, <1>5
<1> HIDE DEF d
<1>7. AfterString(d, 1) = n
  BY <1>6 DEF AfterString, ReadNumber
<1>8. /\ ReadNumber(d, 0) = "SET_IMAGE" /\ ReadString(d, 1) = output
      /\ ReadNumber(d, n) = mode /\ ReadString(d, n + 1) = path
  BY <1>5, <1>6 DEF ReadNumber, ReadString
<1> HIDE DEF n
<1>9. Decode(d) = msg
  BY <1>7, <1>8 DEF Decode, ImageRequest
<1>10. d.end = output.len + path.len + 8
  BY <1>5 DEF n
<1> QED
  BY <1>1, <1>9, <1>10

(* So is one for a colour.                                                 *)
LEMMA ColorArrives ==
  ASSUME NEW output, NEW color, output.len \in Nat
  PROVE  /\ Decode(Encode(ColorRequest(output, color))) = ColorRequest(output, color)
         /\ Encode(ColorRequest(output, color)).end = output.len + 8
<1> DEFINE msg == ColorRequest(output, color)
           a == Write(Blank, 1, "SET_COLOR")
           b == String(a, output)
           c == Write(b, 4, color)
           n == output.len + 4
<1>1. Encode(msg) = c
  BY DEF Encode, ColorRequest, U8, U32
<1>2. /\ Written(a) /\ a.end = 1 /\ 0 \in DOMAIN a.at /\ a.at[0] = "SET_COLOR"
  BY BlankWritten, WriteAdds
<1> HIDE DEF a
<1>3. /\ Written(b) /\ b.end = n /\ {1, 3} \subseteq DOMAIN b.at /\ 0 \in DOMAIN b.at
      /\ b.at[1] = output.len + 1 /\ b.at[3] = output /\ b.at[0] = "SET_COLOR"
  BY <1>2, StringAdds
<1> HIDE DEF b
<1>4. /\ c.end = n + 4
      /\ c.at[1] = output.len + 1 /\ c.at[3] = output /\ c.at[0] = "SET_COLOR"
      /\ c.at[n] = color
  BY <1>3, WriteAdds
<1> HIDE DEF c
<1>5. AfterString(c, 1) = n
  BY <1>4 DEF AfterString, ReadNumber
<1>6. ReadNumber(c, 0) = "SET_COLOR" /\ ReadString(c, 1) = output /\ ReadNumber(c, n) = color
  BY <1>4 DEF ReadNumber, ReadString
<1> HIDE DEF n
<1>7. Decode(c) = msg
  BY <1>5, <1>6 DEF Decode, ColorRequest
<1>8. c.end = output.len + 8
  BY <1>4 DEF n
<1> QED
  BY <1>1, <1>7, <1>8

(* And a kill.                                                             *)
LEMMA KillArrives == Decode(Encode(KillRequest)) = KillRequest /\ Encode(KillRequest).end = 1
<1> DEFINE a == Write(Blank, 1, "KILL")
<1>1. a.end = 1 /\ a.at[0] = "KILL"
  BY BlankWritten, WriteAdds
<1>2. Encode(KillRequest) = a
  BY DEF Encode, KillRequest, U8
<1> HIDE DEF a
<1> QED
  BY <1>1, <1>2 DEF Decode, KillRequest, ReadNumber

(* A reply is read back as it was sent.                                    *)
LEMMA ReplyArrives ==
  ASSUME NEW msg, msg.len \in Nat
  PROVE  /\ DecodeReply(EncodeReply(ErrReply(msg))) = ErrReply(msg)
         /\ EncodeReply(ErrReply(msg)).end = msg.len + 4
         /\ DecodeReply(EncodeReply(AckReply)) = AckReply
         /\ EncodeReply(AckReply).end = 1
<1> DEFINE a == Write(Blank, 1, "ERR")
           b == String(a, msg)
           c == Write(Blank, 1, "ACK")
<1>1. EncodeReply(ErrReply(msg)) = b /\ EncodeReply(AckReply) = c
  BY DEF EncodeReply, ErrReply, AckReply, U8
<1>2. /\ Written(a) /\ a.end = 1 /\ 0 \in DOMAIN a.at /\ a.at[0] = "ERR"
      /\ c.end = 1 /\ c.at[0] = "ACK"
  BY BlankWritten, WriteAdds
<1> HIDE DEF a, c
<1>3. b.end = msg.len + 4 /\ b.at[0] = "ERR" /\ b.at[3] = msg
  BY <1>2, StringAdds
<1> HIDE DEF b
<1>4. DecodeReply(b) = ErrReply(msg) /\ DecodeReply(c) = AckReply
  BY <1>2, <1>3 DEF DecodeReply, ReadNumber, ReadString, ErrReply, AckReply
<1> QED
  BY <1>1, <1>2, <1>3, <1>4

-----------------------------------------------------------------------------
(* The inductive invariant                                                 *)

Ranges ==
    /\ stage \in {"idle", "options", "serve", "answer"}
    /\ opts \in [kill : BOOLEAN, output : Outputs \cup {NoOutput},
                 path : Uninitialised \cup {i.name : i \in Images},
                 mode : Modes \cup {NoMode}, color : Colors \cup {NoColor}]
    /\ failed \in [xdwlw : BOOLEAN, xdwl : BOOLEAN]

\* An option holds what was asked for, or nothing.
Tied ==
    /\ opts.output.len <= 64
    /\ "output" \in asked <=> opts.output # NoOutput
    /\ "image" \in asked => opts.path # Empty
    /\ opts.mode # NoMode => "mode" \in asked
    /\ opts.color # NoColor => "color" \in asked
    /\ opts.kill => "kill" \in asked

\* The request on its way, or served, is the one the options make.
Asked ==
    /\ stage = "options" => did = NoMessage
    /\ stage = "serve" => did = NoMessage /\ Request # NoMessage /\ buffer = Encode(Request)
    /\ did # NoMessage => did = Request
    /\ stage = "answer" => did # NoMessage

\* Why a request may be refused, and what one that is not has changed.
Refused(msg) ==
    \/ msg = UnknownOutput(did.output) /\ ~Matches(did.output)
    \/ /\ did.type = "SET_IMAGE" /\ Matches(did.output)
       /\ \/ msg = OpenFailed(did.path) /\ ~Loads(did.path)
          \/ /\ msg = InvalidMode(did.mode) /\ Loads(did.path)
             /\ did.mode \notin {"C", "F"}

Shown ==
    \/ did.type = "SET_COLOR" /\ picture = [kind |-> "color", color |-> did.color]
    \/ /\ did.type = "SET_IMAGE"
       /\ did.mode \in {"C", "F"}
       /\ picture.kind = "image" /\ picture.of.name = did.path
       /\ picture.draw \in Drawn(did.mode, picture.of)

\* The answer on its way is true.
Answered ==
    LET reply == DecodeReply(buffer)
    IN  stage = "answer" =>
            \/ reply.type = "ERR" /\ Refused(reply.msg)
            \/ reply = AckReply /\ (daemon = "up" => Shown)

\* A daemon that has ended serves nothing; a request is on its way to one that
\* is up.
Ended ==
    /\ daemon \in {"up", "undefined", "0", "1"}
    /\ stage \in {"options", "serve"} => daemon = "up"
    /\ daemon = "undefined" => stage = "idle"

Codes == failed.xdwlw <=> errmsg # NoError

IInv ==
    /\ Ranges /\ Tied /\ Asked /\ Answered /\ Ended /\ Codes
    /\ OverflowExplained /\ AnswerIsTrue /\ KilledStatus

-----------------------------------------------------------------------------
LEMMA Lengths ==
  ASSUME Ranges, Tied
  PROVE  /\ opts.path.len \in Nat
         /\ Output.len \in 0..64
         /\ Output = IF "output" \in asked THEN opts.output ELSE All
<1>1. opts.output \in Outputs \cup {NoOutput} /\ opts.path \in Uninitialised \cup {i.name : i \in Images}
  BY DEF Ranges
<1>2. NoOutput.len = 0 /\ All.len = 3
  BY DEF NoOutput, All, Str
<1>3. opts.path.len \in Nat /\ opts.output.len \in Nat
  BY <1>1, <1>2, CommandAssumption
<1> QED
  BY <1>2, <1>3 DEF Output, Tied

(* What the options make, and that it arrives as it is.                    *)
LEMMA RequestArrives ==
  ASSUME Ranges, Tied, Request # NoMessage
  PROVE  /\ Decode(Encode(Request)) = Request
         /\ \/ Request = ImageRequest(Output, opts.mode, opts.path)
            \/ Request = ColorRequest(Output, opts.color)
            \/ Request = KillRequest
         /\ ~Fits(Encode(Request)) => opts.path.len + Output.len > 504
<1>1. \/ Request = ImageRequest(Output, opts.mode, opts.path)
      \/ Request = ColorRequest(Output, opts.color)
      \/ Request = KillRequest
  BY DEF Request, ImageRequest, ColorRequest, KillRequest
<1>2. CASE Request = ImageRequest(Output, opts.mode, opts.path)
  BY <1>2, Lengths, ImageArrives DEF Fits, MAX_SOCK_BUFFER_SIZE
<1>3. CASE Request = ColorRequest(Output, opts.color)
  BY <1>3, Lengths, ColorArrives DEF Fits, MAX_SOCK_BUFFER_SIZE
<1>4. CASE Request = KillRequest
  BY <1>4, KillArrives DEF Fits, MAX_SOCK_BUFFER_SIZE
<1> QED
  BY <1>1, <1>2, <1>3, <1>4

(* What is being served.                                                   *)
LEMMA ServesRequest ==
  ASSUME IInv, NEW type, Serving(type)
  PROVE  /\ stage = "serve" /\ daemon = "up"
         /\ Decode(buffer) = Request /\ Request # NoMessage /\ Request.type = type
  BY RequestArrives DEF IInv, Serving, Asked, Ended

(* A reply that refuses: it arrives as it is, or was too long.             *)
LEMMA ErrSent ==
  ASSUME NEW msg, msg.len \in Nat, Reply(Message(msg)), daemon = "up"
  PROVE  /\ UNCHANGED <<opts, asked, count, printed>>
         /\ \/ /\ stage' = "answer" /\ UNCHANGED <<daemon, exit>>
               /\ DecodeReply(buffer') = ErrReply(msg)
            \/ /\ msg.len > 508
               /\ stage' = "idle" /\ daemon' = "undefined" /\ exit' \in 0..1
<1>1. CASE msg.len > ErrorMax
  <2> DEFINE cut == Str(ErrorMax, msg.which)
  <2>1. Message(msg) = ErrReply(cut)
    BY <1>1 DEF Message, ErrReply
  <2>2. cut.len = 1023 /\ msg.len > 508
    BY <1>1 DEF Str, ErrorMax
  <2> HIDE DEF cut
  <2>3. ~Fits(EncodeReply(Message(msg)))
    BY <2>1, <2>2, ReplyArrives DEF Fits, MAX_SOCK_BUFFER_SIZE
  <2> QED
    BY <2>2, <2>3 DEF Reply
<1>2. CASE ~(msg.len > ErrorMax)
  <2>1. Message(msg) = ErrReply(msg)
    BY <1>2 DEF Message, ErrReply
  <2>2. /\ DecodeReply(EncodeReply(Message(msg))) = ErrReply(msg)
        /\ ~Fits(EncodeReply(Message(msg))) => msg.len > 508
    BY <2>1, ReplyArrives DEF Fits, MAX_SOCK_BUFFER_SIZE
  <2> QED
    BY <2>2 DEF Reply
<1> QED
  BY <1>1, <1>2

LEMMA AckSent ==
  ASSUME Reply([type |-> "ACK"])
  PROVE  /\ UNCHANGED <<opts, asked, count, printed, daemon, exit>>
         /\ stage' = "answer"
         /\ DecodeReply(buffer') = AckReply
<1>1. (Str(0, 0)).len \in Nat
  BY DEF Str
<1>2. DecodeReply(EncodeReply(AckReply)) = AckReply /\ EncodeReply(AckReply).end = 1
  BY <1>1, ReplyArrives
<1>3. Fits(EncodeReply(AckReply))
  BY <1>2 DEF Fits, MAX_SOCK_BUFFER_SIZE
<1> QED
  BY <1>2, <1>3 DEF Reply, AckReply

LEMMA InitIInv == Init => IInv
<1> SUFFICES ASSUME Init PROVE IInv
  OBVIOUS
<1>1. Ranges
  BY CommandAssumption DEF Init, Ranges
<1>2. Tied
  BY DEF Init, Tied, NoOutput, Str
<1> QED
  BY <1>1, <1>2 DEF Init, IInv, Asked, Answered, Ended, Codes, OverflowExplained, AnswerIsTrue, KilledStatus

(* A command that sends nothing.                                           *)
LEMMA LeaveKeeps ==
  ASSUME IInv, stage = "options", NEW status \in 0..1, Leave(status)
  PROVE  IInv'
  BY DEF IInv, Leave, Exit, server, Ranges, Tied, Asked, Answered, Ended, Codes,
         OverflowExplained, AnswerIsTrue, KilledStatus

(* An option that is taken.                                                *)
LEMMA SetKeeps ==
  ASSUME IInv, stage = "options", NEW option, NEW field, NEW value,
         Set(option, field, value), Ranges', Tied'
  PROVE  IInv'
  BY DEF IInv, Set, server, Asked, Answered, Ended, Codes,
         OverflowExplained, AnswerIsTrue, KilledStatus

(* Options: each is tied to what was asked for.                            *)
LEMMA OptionsKeep ==
  ASSUME IInv,
         \/ OptionHelp \/ OptionKill \/ OptionLong
         \/ \E i \in Images : OptionImage(i)
         \/ \E c \in Colors : OptionColor(c)
         \/ \E name \in Outputs : OptionOutput(name)
         \/ \E m \in Modes : OptionMode(m)
  PROVE  IInv'
<1> USE DEF More
<1>0. Ranges /\ Tied
  BY DEF IInv
<1>1. CASE OptionHelp
  BY <1>1, LeaveKeeps DEF OptionHelp
<1>2. CASE OptionKill
  <2>1. stage = "options" /\ Set("kill", "kill", TRUE)
    BY <1>2 DEF OptionKill
  <2>2. Ranges' /\ Tied'
    BY <1>0, <2>1 DEF Set, Ranges, Tied, server
  <2> QED
    BY <2>1, <2>2, SetKeeps
<1>3. CASE OptionLong
  BY <1>3, <1>0 DEF OptionLong, IInv, Undefined, Exit, server, Ranges, Tied, Asked, Answered,
         Ended, Codes, OverflowExplained, AnswerIsTrue, KilledStatus
<1>4. CASE \E i \in Images : OptionImage(i)
  <2>1. PICK i \in Images : OptionImage(i)
    BY <1>4
  <2>2. CASE i.kind = "refused"
    BY <2>1, <2>2, LeaveKeeps DEF OptionImage
  <2>3. CASE i.kind # "refused"
    <3>1. stage = "options" /\ Set("image", "path", i.name)
      BY <2>1, <2>3 DEF OptionImage
    <3>2. i.name # Empty
      BY CommandAssumption DEF Empty, Str
    <3>3. Ranges' /\ Tied'
      BY <1>0, <3>1, <3>2 DEF Set, Ranges, Tied, server
    <3> QED
      BY <3>1, <3>3, SetKeeps
  <2> QED
    BY <2>2, <2>3
<1>5. CASE \E c \in Colors : OptionColor(c)
  <2>1. PICK c \in Colors : OptionColor(c)
    BY <1>5
  <2>2. stage = "options" /\ Set("color", "color", c)
    BY <2>1 DEF OptionColor
  <2>3. Ranges' /\ Tied'
    BY <1>0, <2>2 DEF Set, Ranges, Tied, server
  <2> QED
    BY <2>2, <2>3, SetKeeps
<1>6. CASE \E name \in Outputs : OptionOutput(name)
  <2>1. PICK name \in Outputs : OptionOutput(name)
    BY <1>6
  <2>2. CASE name.len > 64
    BY <2>1, <2>2, LeaveKeeps DEF OptionOutput
  <2>3. CASE ~(name.len > 64)
    <3>1. stage = "options" /\ Set("output", "output", name)
      BY <2>1, <2>3 DEF OptionOutput
    <3>2. name # NoOutput /\ name.len <= 64
      BY <2>3, CommandAssumption
    <3>3. Ranges' /\ Tied'
      BY <1>0, <3>1, <3>2 DEF Set, Ranges, Tied, server
    <3> QED
      BY <3>1, <3>3, SetKeeps
  <2> QED
    BY <2>2, <2>3
<1>7. CASE \E m \in Modes : OptionMode(m)
  <2>1. PICK m \in Modes : OptionMode(m)
    BY <1>7
  <2>2. stage = "options" /\ Set("mode", "mode", m)
    BY <2>1 DEF OptionMode
  <2>3. Ranges' /\ Tied'
    BY <1>0, <2>2 DEF Set, Ranges, Tied, server
  <2> QED
    BY <2>2, <2>3, SetKeeps
<1> QED
  BY <1>1, <1>2, <1>3, <1>4, <1>5, <1>6, <1>7

LEMMA RunKeeps ==
  ASSUME IInv, Run
  PROVE  IInv'
<1>1. Ranges'
  BY DEF IInv, Run, Ranges
<1>2. Tied'
  BY DEF IInv, Run, Tied, NoOutput, Str
<1> QED
  BY <1>1, <1>2 DEF IInv, Run, Asked, Answered, Ended, Codes, OverflowExplained,
                    AnswerIsTrue, KilledStatus

LEMMA SendKeeps ==
  ASSUME IInv, Send
  PROVE  IInv'
<1>1. UNCHANGED <<opts, asked, failed, errmsg, picture, did, printed>> /\ Request # NoMessage
      /\ stage = "options" /\ did = NoMessage /\ daemon = "up"
  BY DEF IInv, Send, server, Asked, Ended
<1>2. Ranges' /\ Tied' /\ Codes'
  BY <1>1 DEF IInv, Send, Undefined, Exit, Ranges, Tied, Codes
<1>3. Request' = Request /\ Output' = Output
  BY <1>1 DEF Request, Output
<1>4. CASE Fits(Encode(Request))
  BY <1>1, <1>2, <1>3, <1>4 DEF IInv, Send, server, Asked, Answered, Ended, Codes,
         OverflowExplained, AnswerIsTrue, KilledStatus
<1>5. CASE ~Fits(Encode(Request))
  <2>1. opts.path.len + Output.len > 504
    BY <1>1, <1>5, RequestArrives DEF IInv
  <2> QED
    BY <1>1, <1>2, <1>3, <1>5, <2>1 DEF IInv, Send, Undefined, Exit, Asked, Answered, Ended,
         OverflowExplained, AnswerIsTrue, KilledStatus
<1> QED
  BY <1>4, <1>5

LEMMA ReceiveKeeps ==
  ASSUME IInv, Receive
  PROVE  IInv'
<1>1. UNCHANGED <<opts, asked, failed, errmsg, picture, did, daemon>> /\ stage = "answer"
      /\ stage' = "idle" /\ exit' \in 0..1 /\ daemon # "undefined"
  BY DEF IInv, Receive, Exit, server, Ended
<1>2. Ranges' /\ Tied' /\ Codes' /\ Ended' /\ Answered'
  BY <1>1 DEF IInv, Ranges, Tied, Codes, Ended, Answered
<1>3. Asked' /\ OverflowExplained' /\ KilledStatus'
  BY <1>1 DEF IInv, Asked, OverflowExplained, KilledStatus, Request, Output
<1>4. \/ exit' = 1 /\ Refused(printed')
      \/ exit' = 0 /\ (daemon = "up" => Shown)
  BY <1>1 DEF Receive, Exit, IInv, Answered, AckReply
<1>5. AnswerIsTrue'
  BY <1>1, <1>4 DEF AnswerIsTrue, Refused, Shown, Matches, Loads, File, Drawn
<1> QED
  BY <1>2, <1>3, <1>5 DEF IInv

LEMMA StrayKeeps ==
  ASSUME IInv, StrayEvent
  PROVE  IInv'
<1>1. UNCHANGED <<stage, opts, asked, count, exit, printed, buffer, picture, errmsg, daemon, did>>
      /\ stage = "idle" /\ daemon = "up" /\ failed' = [failed EXCEPT !.xdwl = TRUE]
  BY DEF StrayEvent, client
<1>2. Ranges' /\ Codes'
  BY <1>1 DEF IInv, Ranges, Codes
<1> QED
  BY <1>1, <1>2 DEF IInv, Tied, Asked, Answered, Ended, OverflowExplained, AnswerIsTrue,
                    KilledStatus, Request, Output, Loads, File, Matches, Drawn

(* What a step that serves the request leaves to be shown.                 *)
LEMMA ServeKeeps ==
  ASSUME IInv, stage = "serve", daemon = "up", Request # NoMessage,
         did' = Request, UNCHANGED <<opts, asked, count, printed>>,
         Ranges', Codes', Answered', Ended',
         stage' = "answer" \/ (stage' = "idle" /\ exit' \in 0..1),
         OverflowExplained', KilledStatus',
         stage' = "idle" => daemon' # "up"
  PROVE  IInv'
<1>1. Tied'
  BY DEF IInv, Tied
<1>2. Request' = Request
  BY DEF Request, Output
<1>3. Asked'
  BY <1>2 DEF Asked
<1>4. AnswerIsTrue'
  BY DEF AnswerIsTrue
<1> QED
  BY <1>1, <1>3, <1>4 DEF IInv

(* What is served has the output, the mode, the path and the colour that   *)
(* the options have.                                                       *)
LEMMA Fields ==
  ASSUME IInv, NEW type, Serving(type)
  PROVE  /\ type \in {"SET_IMAGE", "SET_COLOR"} => Request.output = Output /\ Output.len \in 0..64
         /\ type = "SET_IMAGE" => Request.path = opts.path /\ opts.path.len \in Nat
<1>1. Request.type = type /\ Request # NoMessage
  BY ServesRequest
<1>2. Output.len \in 0..64 /\ opts.path.len \in Nat
  BY Lengths DEF IInv
<1>3. \/ Request = ImageRequest(Output, opts.mode, opts.path)
      \/ Request = ColorRequest(Output, opts.color)
      \/ Request = KillRequest
  BY <1>1, RequestArrives DEF IInv
<1> QED
  BY <1>1, <1>2, <1>3 DEF ImageRequest, ColorRequest, KillRequest

(* No output answers to the name.                                          *)
LEMMA RefuseKeeps ==
  ASSUME IInv, NEW type \in {"SET_IMAGE", "SET_COLOR"}, Serving(type), did' = Request,
         Refuse(Request.output), ~Matches(Request.output)
  PROVE  IInv'
<1> DEFINE msg == UnknownOutput(Request.output)
<1>1. stage = "serve" /\ daemon = "up" /\ Request # NoMessage /\ Request.type = type
  BY ServesRequest
<1>2. msg.len \in Nat /\ msg.len <= 508
  BY Fields DEF UnknownOutput, Failed, Str
<1>3. /\ UNCHANGED <<opts, asked, count, printed, daemon, exit, picture, failed, errmsg>>
      /\ stage' = "answer" /\ DecodeReply(buffer') = ErrReply(msg)
  BY <1>1, <1>2, ErrSent DEF Refuse
<1>4. Answered'
  BY <1>3 DEF Answered, Refused, ErrReply, Matches
<1>5. Ranges' /\ Codes' /\ Ended' /\ OverflowExplained' /\ KilledStatus'
  BY <1>1, <1>3 DEF IInv, Ranges, Codes, Ended, OverflowExplained, KilledStatus
<1> QED
  BY <1>1, <1>3, <1>4, <1>5, ServeKeeps

LEMMA ColorKeeps ==
  ASSUME IInv, ServeColor
  PROVE  IInv'
<1>1. /\ Serving("SET_COLOR") /\ did' = Request
      /\ IF Matches(Request.output)
         THEN /\ picture' = [kind |-> "color", color |-> Request.color]
              /\ Reply([type |-> "ACK"])
              /\ UNCHANGED <<failed, errmsg>>
         ELSE Refuse(Request.output)
  BY ServesRequest DEF ServeColor
<1>2. stage = "serve" /\ daemon = "up" /\ Request # NoMessage /\ Request.type = "SET_COLOR"
  BY <1>1, ServesRequest
<1>3. CASE Matches(Request.output)
  <2>1. /\ UNCHANGED <<opts, asked, count, printed, daemon, exit, failed, errmsg>>
        /\ stage' = "answer" /\ DecodeReply(buffer') = AckReply
        /\ picture' = [kind |-> "color", color |-> did'.color] /\ did'.type = "SET_COLOR"
    BY <1>1, <1>2, <1>3, AckSent
  <2>2. Answered'
    BY <2>1 DEF Answered, Shown
  <2>3. Ranges' /\ Codes' /\ Ended' /\ OverflowExplained' /\ KilledStatus'
    BY <1>2, <2>1 DEF IInv, Ranges, Codes, Ended, OverflowExplained, KilledStatus
  <2> QED
    BY <1>1, <1>2, <2>1, <2>2, <2>3, ServeKeeps
<1>4. CASE ~Matches(Request.output)
  BY <1>1, <1>4, RefuseKeeps
<1> QED
  BY <1>3, <1>4

LEMMA ImageKeeps ==
  ASSUME IInv, ServeImage
  PROVE  IInv'
<1> DEFINE bad == ~Loads(Request.path) \/ Request.mode \notin {"C", "F"}
           msg == IF ~Loads(Request.path) THEN OpenFailed(Request.path) ELSE InvalidMode(Request.mode)
<1>1. /\ Serving("SET_IMAGE") /\ did' = Request
      /\ IF ~Matches(Request.output) THEN Refuse(Request.output)
         ELSE IF bad
         THEN /\ errmsg' = msg
              /\ failed' = [failed EXCEPT !.xdwlw = TRUE]
              /\ Reply(Message(errmsg'))
              /\ UNCHANGED picture
         ELSE /\ \E i \in File(Request.path) : \E draw \in Drawn(Request.mode, i) :
                    picture' = [kind |-> "image", of |-> i, draw |-> draw]
              /\ Reply([type |-> "ACK"])
              /\ UNCHANGED <<errmsg, failed>>
  BY ServesRequest DEF ServeImage
<1>2. stage = "serve" /\ daemon = "up" /\ Request # NoMessage /\ Request.type = "SET_IMAGE"
  BY <1>1, ServesRequest
<1>3. Request.path = opts.path /\ Request.output = Output /\ opts.path.len \in Nat
  BY <1>1, Fields
<1>4. CASE ~Matches(Request.output)
  BY <1>1, <1>4, RefuseKeeps
<1>5. CASE Matches(Request.output) /\ bad
  <2>1. /\ msg.len \in Nat \ {0}
        /\ msg.len > 508 => Request.path.len > 493 /\ ~Loads(Request.path)
    BY <1>3 DEF OpenFailed, InvalidMode, Failed, Str
  <2>2. Reply(Message(msg)) /\ errmsg' = msg /\ UNCHANGED picture /\ failed' = [failed EXCEPT !.xdwlw = TRUE]
    BY <1>1, <1>5
  <2>3. msg \in {OpenFailed(Request.path), InvalidMode(Request.mode)}
        /\ (~Loads(Request.path) => msg = OpenFailed(Request.path))
        /\ (Loads(Request.path) => msg = InvalidMode(Request.mode) /\ Request.mode \notin {"C", "F"})
    BY <1>5
  <2> HIDE DEF msg, bad
  <2>4. errmsg' # NoError
    <3>1. NoError.len = 0
      BY DEF NoError, Str
    <3>2. msg # NoError
      BY <2>1, <3>1
    <3> QED
      BY <2>2, <3>2
  <2>5. \/ msg.len > 508 /\ stage' = "idle" /\ daemon' = "undefined" /\ exit' \in 0..1
        \/ stage' = "answer" /\ UNCHANGED <<daemon, exit>> /\ DecodeReply(buffer') = ErrReply(msg)
    BY <1>2, <2>1, <2>2, ErrSent
  <2>6. UNCHANGED <<opts, asked, count, printed>>
    BY <1>2, <2>1, <2>2, ErrSent
  <2>7. Ranges' /\ Codes'
    <3>1. failed' \in [xdwlw : BOOLEAN, xdwl : BOOLEAN] /\ failed'.xdwlw
      BY <2>2 DEF IInv, Ranges
    <3>2. Ranges'
      BY <2>5, <2>6, <3>1 DEF IInv, Ranges
    <3> QED
      BY <2>4, <3>1, <3>2 DEF Codes
  <2>8. did'.path = Request.path /\ did'.type = "SET_IMAGE"
    BY <1>1, <1>2
  <2>9. CASE stage' = "answer" /\ UNCHANGED <<daemon, exit>> /\ DecodeReply(buffer') = ErrReply(msg)
    <3>1. Answered'
      BY <1>1, <1>5, <2>3, <2>8, <2>9 DEF Answered, Refused, ErrReply, Matches, Loads, File
    <3>2. Ended' /\ OverflowExplained' /\ KilledStatus'
      BY <1>2, <2>6, <2>9 DEF Ended, OverflowExplained, KilledStatus
    <3> QED
      BY <1>1, <1>2, <2>6, <2>7, <2>9, <3>1, <3>2, ServeKeeps
  <2>10. CASE msg.len > 508 /\ stage' = "idle" /\ daemon' = "undefined" /\ exit' \in 0..1
    <3>1. Ended' /\ Answered' /\ KilledStatus'
      BY <2>10 DEF Ended, Answered, KilledStatus
    <3>2. OverflowExplained'
      BY <2>1, <2>8, <2>10 DEF OverflowExplained, Loads, File
    <3> QED
      BY <1>1, <1>2, <2>6, <2>7, <2>10, <3>1, <3>2, ServeKeeps
  <2> QED
    BY <2>5, <2>9, <2>10
<1>6. CASE Matches(Request.output) /\ ~bad
  <2>0. Reply([type |-> "ACK"]) /\ UNCHANGED <<failed, errmsg>>
    BY <1>1, <1>6
  <2>1. /\ UNCHANGED <<opts, asked, count, printed, daemon, exit, failed, errmsg>>
        /\ stage' = "answer" /\ DecodeReply(buffer') = AckReply
    BY <2>0, AckSent
  <2>2. PICK i \in File(Request.path) : \E draw \in Drawn(Request.mode, i) :
               picture' = [kind |-> "image", of |-> i, draw |-> draw]
    BY <1>1, <1>6
  <2>3. PICK draw \in Drawn(Request.mode, i) :
               picture' = [kind |-> "image", of |-> i, draw |-> draw]
    BY <2>2
  <2>4. i.name = Request.path /\ Request.mode \in {"C", "F"}
    BY <1>6, <2>2 DEF File
  <2>5. Shown'
    BY <1>1, <1>2, <2>3, <2>4 DEF Shown, Drawn
  <2>6. Answered'
    BY <2>1, <2>5 DEF Answered
  <2>7. Ranges' /\ Codes' /\ Ended' /\ OverflowExplained' /\ KilledStatus'
    BY <1>2, <2>1 DEF IInv, Ranges, Codes, Ended, OverflowExplained, KilledStatus
  <2> QED
    BY <1>1, <1>2, <2>1, <2>6, <2>7, ServeKeeps
<1> QED
  BY <1>4, <1>5, <1>6

LEMMA KillKeeps ==
  ASSUME IInv, ServeKill
  PROVE  IInv'
<1>1. stage = "serve" /\ daemon = "up" /\ Request # NoMessage /\ did' = Request
  BY ServesRequest DEF ServeKill
<1>2. /\ UNCHANGED <<opts, asked, count, printed, exit, picture, failed, errmsg>>
      /\ stage' = "answer" /\ daemon' = ExitStatus
  BY DEF ServeKill
<1>3. DecodeReply(buffer') = AckReply
  <2>1. (Str(0, 0)).len \in Nat
    BY DEF Str
  <2> QED
    BY <2>1, ReplyArrives DEF ServeKill, AckReply
<1>4. daemon' \in {"0", "1"} /\ (daemon' = "1" <=> errmsg # NoError \/ failed.xdwl)
  BY <1>2 DEF ExitStatus, IInv, Codes, Ranges
<1>5. Answered'
  BY <1>3, <1>4 DEF Answered
<1>6. Ranges' /\ Codes' /\ Ended' /\ OverflowExplained' /\ KilledStatus'
  BY <1>2, <1>4 DEF IInv, Ranges, Codes, Ended, OverflowExplained, KilledStatus
<1> QED
  BY <1>1, <1>2, <1>5, <1>6, ServeKeeps

LEMMA NextIInv == IInv /\ [Next]_vars => IInv'
<1> SUFFICES ASSUME IInv, [Next]_vars PROVE IInv'
  OBVIOUS
<1>1. CASE Usage
  BY <1>1, LeaveKeeps DEF Usage
<1>2. CASE UNCHANGED vars
  BY <1>2 DEF vars, client, server, IInv, Ranges, Tied, Asked, Answered, Ended, Codes,
              OverflowExplained, AnswerIsTrue, KilledStatus, Request, Output, Refused, Shown,
              Matches, Loads, File, Drawn
<1> QED
  BY <1>1, <1>2, OptionsKeep, RunKeeps, SendKeeps, ReceiveKeeps, ColorKeeps, ImageKeeps,
     KillKeeps, StrayKeeps DEF Next

LEMMA Invariance == Spec => []IInv
  BY InitIInv, NextIInv, PTL DEF Spec

-----------------------------------------------------------------------------
(* What xdwlwd serves is what the user asked for, whatever the options and *)
(* their order (main() of xdwlw, both ends of xdwlw-ipc.c).                *)
THEOREM Requests == Spec => []RequestExplained
<1>1. IInv => RequestExplained
  <2> SUFFICES ASSUME IInv PROVE RequestExplained
    OBVIOUS
  <2>1. CASE did = NoMessage
    BY <2>1 DEF RequestExplained, NoMessage
  <2>2. CASE did # NoMessage
    <3>1. did = Request /\ Request # NoMessage
      BY <2>2 DEF IInv, Asked
    <3>2. Tied /\ Output = IF "output" \in asked THEN opts.output ELSE All
      BY Lengths DEF IInv
    <3> QED
      BY <3>1, <3>2 DEF RequestExplained, Request, Tied, NoMessage
  <2> QED
    BY <2>1, <2>2
<1> QED
  BY <1>1, Invariance, PTL

(* The ways past the end of either buffer are those of OverflowExplained:  *)
(* for every length of a name (ipc_client_send(), ipc_server_send()).      *)
THEOREM Overflows == Spec => []OverflowExplained
<1>1. IInv => OverflowExplained
  BY DEF IInv
<1> QED
  BY <1>1, Invariance, PTL

(* An answer is about the request it answers, and true of the output.      *)
THEOREM Answers == Spec => []AnswerIsTrue
<1>1. IInv => AnswerIsTrue
  BY DEF IInv
<1> QED
  BY <1>1, Invariance, PTL

(* The exit status of a killed daemon tells of its whole life.             *)
THEOREM Killed == Spec => []KilledStatus
<1>1. IInv => KilledStatus
  BY DEF IInv
<1> QED
  BY <1>1, Invariance, PTL

-----------------------------------------------------------------------------
(* Induction over the natural numbers, for the numbers of a set.           *)
LEMMA Induction ==
  ASSUME NEW P, 0 \in P, \A n \in Nat : n \in P => n + 1 \in P
  PROVE  \A n \in Nat : n \in P
<1> SUFFICES ASSUME NEW x \in Nat, x \notin P PROVE FALSE
  OBVIOUS
<1> DEFINE T == Nat \ P
<1>1. IsWellFoundedOn(OpToRel(<, Nat), Nat)
  BY NatLessThanWellFounded
<1>2. PICK m \in T : \A k \in T : <<k, m>> \notin OpToRel(<, Nat)
  <2>1. T \subseteq Nat /\ T # {}
    OBVIOUS
  <2> HIDE DEF T
  <2> QED
    BY <1>1, <2>1, WFMin
<1>3. m # 0 /\ m - 1 \in Nat /\ m - 1 < m
  OBVIOUS
<1>4. m - 1 \in P
  BY <1>2, <1>3 DEF OpToRel
<1> QED
  BY <1>3, <1>4

-----------------------------------------------------------------------------
(* Power: the powers of 2                                                  *)

IsPowers(f, n) == f = [k \in 0..n |-> IF k = 0 THEN 1 ELSE 2 * f[k - 1]]

LEMMA PowersExist ==
  ASSUME NEW n \in Nat
  PROVE  \E f : IsPowers(f, n)
<1> DEFINE P == {m \in Nat : \E f : IsPowers(f, m)}
<1>1. 0 \in P
  <2>1. IsPowers([k \in 0..0 |-> 1], 0)
    BY DEF IsPowers
  <2> QED
    BY <2>1
<1>2. ASSUME NEW m \in Nat, m \in P PROVE m + 1 \in P
  <2>1. PICK f : IsPowers(f, m)
    BY <1>2
  <2> DEFINE g == [k \in 0..(m + 1) |-> IF k = m + 1 THEN 2 * f[m] ELSE f[k]]
  <2>2. \A k \in 0..m : g[k] = f[k] /\ f[k] = IF k = 0 THEN 1 ELSE 2 * f[k - 1]
    <3>1. \A k \in 0..m : k # m + 1 /\ k \in 0..(m + 1)
      OBVIOUS
    <3>2. \A k \in 0..m : g[k] = f[k]
      BY <3>1
    <3> HIDE DEF g
    <3> QED
      BY <2>1, <3>2 DEF IsPowers
  <2>3. g[m + 1] = 2 * f[m]
    OBVIOUS
  <2>4. \A k \in 0..(m + 1) : g[k] = IF k = 0 THEN 1 ELSE 2 * g[k - 1]
    <3> SUFFICES ASSUME NEW k \in 0..(m + 1)
                 PROVE  g[k] = IF k = 0 THEN 1 ELSE 2 * g[k - 1]
      OBVIOUS
    <3>1. CASE k = m + 1
      <4>1. k # 0 /\ k - 1 \in 0..m /\ k - 1 = m
        BY <3>1
      <4>2. g[k - 1] = f[m]
        BY <2>2, <4>1
      <4> HIDE DEF g
      <4> QED
        BY <2>3, <3>1, <4>1, <4>2
    <3>2. CASE k # m + 1
      <4>1. k \in 0..m /\ (k # 0 => k - 1 \in 0..m)
        BY <3>2
      <4> HIDE DEF g
      <4> QED
        BY <2>2, <4>1
    <3> QED
      BY <3>1, <3>2
  <2>5. g = [k \in 0..(m + 1) |-> IF k = 0 THEN 1 ELSE 2 * g[k - 1]]
    <3>1. DOMAIN g = 0..(m + 1) /\ g = [k \in 0..(m + 1) |-> g[k]]
      OBVIOUS
    <3> HIDE DEF g
    <3> QED
      BY <2>4, <3>1
  <2> HIDE DEF g
  <2>6. IsPowers(g, m + 1)
    BY <2>5 DEF IsPowers
  <2> QED
    BY <2>6
<1> HIDE DEF P
<1>3. n \in P
  BY <1>1, <1>2, Induction
<1> QED
  BY <1>3 DEF P

LEMMA PowerStep ==
  /\ Power(0) = 1
  /\ \A k \in 0..148 : Power(k + 1) = 2 * Power(k)
<1>1. \E f : f = [k \in Exponents |-> IF k = 0 THEN 1 ELSE 2 * f[k - 1]]
  <2>1. PICK f : IsPowers(f, 149)
    BY PowersExist
  <2> QED
    BY <2>1 DEF IsPowers, Exponents
<1>2. Powers = [k \in Exponents |-> IF k = 0 THEN 1 ELSE 2 * Powers[k - 1]]
  BY <1>1 DEF Powers
<1>3. \A k \in Exponents : Powers[k] = IF k = 0 THEN 1 ELSE 2 * Powers[k - 1]
  BY <1>2
<1>4. 0 \in Exponents /\ \A k \in 0..148 : k + 1 \in Exponents /\ k + 1 # 0 /\ (k + 1) - 1 = k
  BY DEF Exponents
<1> QED
  BY <1>3, <1>4 DEF Power

LEMMA PowerType ==
  \A k \in Exponents : Power(k) \in Nat \ {0}
<1> DEFINE P == {k \in Nat : k \in Exponents => Power(k) \in Nat \ {0}}
<1>1. 0 \in P
  BY PowerStep
<1>2. ASSUME NEW k \in Nat, k \in P PROVE k + 1 \in P
  <2> SUFFICES ASSUME k + 1 \in Exponents PROVE Power(k + 1) \in Nat \ {0}
    OBVIOUS
  <2>1. k \in 0..148 /\ k \in Exponents
    BY DEF Exponents
  <2>2. Power(k) \in Nat \ {0} /\ Power(k + 1) = 2 * Power(k)
    BY <1>2, <2>1, PowerStep
  <2> QED
    BY <2>2
<1> HIDE DEF P
<1>3. \A k \in Nat : k \in P
  BY <1>1, <1>2, Induction
<1> QED
  BY <1>3 DEF P, Exponents

LEMMA PowerGrows ==
  \A j, k \in Exponents : j < k => 2 * Power(j) <= Power(k)
<1> SUFFICES ASSUME NEW j \in Exponents
             PROVE  \A k \in Exponents : j < k => 2 * Power(j) <= Power(k)
  OBVIOUS
<1> DEFINE P == {k \in Nat : k \in Exponents /\ j < k => 2 * Power(j) <= Power(k)}
<1>1. 0 \in P
  BY DEF Exponents
<1>2. ASSUME NEW k \in Nat, k \in P PROVE k + 1 \in P
  <2> SUFFICES ASSUME k + 1 \in Exponents, j < k + 1 PROVE 2 * Power(j) <= Power(k + 1)
    OBVIOUS
  <2>1. k \in 0..148 /\ k \in Exponents /\ (j = k \/ j < k)
    BY DEF Exponents
  <2>2. Power(k) \in Nat /\ Power(j) \in Nat /\ Power(k + 1) = 2 * Power(k)
    BY <2>1, PowerStep, PowerType
  <2>3. CASE j = k
    BY <2>2, <2>3
  <2>4. CASE j < k
    <3>1. 2 * Power(j) <= Power(k)
      BY <1>2, <2>1, <2>4
    <3> QED
      BY <2>2, <3>1
  <2> QED
    BY <2>1, <2>3, <2>4
<1> HIDE DEF P
<1>3. \A k \in Nat : k \in P
  BY <1>1, <1>2, Induction
<1> QED
  BY <1>3 DEF P, Exponents

(* Ten more doublings.                                                     *)
LEMMA PowerTen ==
  ASSUME NEW k \in 0..139
  PROVE  Power(k + 10) = 1024 * Power(k)
<1>1. Power(k) \in Nat
  BY PowerType DEF Exponents
<1>2. /\ Power(k + 1) = 2 * Power(k)     /\ Power(k + 2) = 2 * Power(k + 1)
      /\ Power(k + 3) = 2 * Power(k + 2) /\ Power(k + 4) = 2 * Power(k + 3)
      /\ Power(k + 5) = 2 * Power(k + 4) /\ Power(k + 6) = 2 * Power(k + 5)
      /\ Power(k + 7) = 2 * Power(k + 6) /\ Power(k + 8) = 2 * Power(k + 7)
      /\ Power(k + 9) = 2 * Power(k + 8) /\ Power(k + 10) = 2 * Power(k + 9)
  <2>1. \A j \in 0..9 : k + j \in 0..148 /\ (k + j) + 1 = k + (j + 1) /\ k + 0 = k
    OBVIOUS
  <2>2. \A j \in 0..9 : Power(k + (j + 1)) = 2 * Power(k + j)
    <3> TAKE j \in 0..9
    <3>1. PICK i \in 0..148 : i = k + j /\ i + 1 = k + (j + 1)
      BY <2>1
    <3>2. Power(i + 1) = 2 * Power(i)
      BY PowerStep
    <3> QED
      BY <3>1, <3>2
  <2> QED
    BY <2>1, <2>2
<1> QED
  BY <1>1, <1>2

(* 2^60 has room for whatever is scaled here.                              *)
Bits23 == 8388608
Bits37 == 137438953472

LEMMA BitsAre ==
  /\ Bits23 \in Nat \ {0} /\ Bits37 \in Nat \ {0} /\ Bits24 \in Nat \ {0}
  /\ Bits24 = 2 * Bits23 /\ Bits24 \div 2 = Bits23
  /\ Bits23 > 4096 /\ Bits37 > 4096
  BY SMT DEF Bits23, Bits24, Bits37

LEMMA PowerSixty == Power(60) = Bits23 * Bits37
<1>1. /\ Power(0 + 10) = 1024 * Power(0)   /\ Power(10 + 10) = 1024 * Power(10)
      /\ Power(20 + 10) = 1024 * Power(20) /\ Power(30 + 10) = 1024 * Power(30)
      /\ Power(40 + 10) = 1024 * Power(40) /\ Power(50 + 10) = 1024 * Power(50)
  BY PowerTen
<1>2. 0 + 10 = 10 /\ 10 + 10 = 20 /\ 20 + 10 = 30 /\ 30 + 10 = 40 /\ 40 + 10 = 50 /\ 50 + 10 = 60
  OBVIOUS
<1> QED
  BY SMT, <1>1, <1>2, PowerStep DEF Bits23, Bits37

(* The least exponent that will do.                                        *)
LEMMA Least ==
  ASSUME NEW S, S \subseteq Exponents, S # {}
  PROVE  \E k \in S : \A j \in S : k <= j
<1>1. IsWellFoundedOn(OpToRel(<, Nat), Nat)
  BY NatLessThanWellFounded
<1>2. S \subseteq Nat
  BY DEF Exponents
<1>3. PICK k \in S : \A j \in S : <<j, k>> \notin OpToRel(<, Nat)
  BY <1>1, <1>2, WFMin
<1>4. \A j \in S : ~(j < k)
  BY <1>2, <1>3 DEF OpToRel
<1> QED
  BY <1>2, <1>4

-----------------------------------------------------------------------------
(* Rounding                                                                *)

Close(r, n, d) == 2 * (r * d) >= 2 * n - d /\ 2 * (r * d) <= 2 * n + d

(* What is rounded is off by half a unit at most.                          *)
LEMMA NearestIs ==
  ASSUME NEW n \in Nat, NEW d \in Nat \ {0}
  PROVE  /\ Nearest(n, d) \in Nat
         /\ Nearest(n, d) \in {n \div d, n \div d + 1}
         /\ Close(Nearest(n, d), n, d)
<1> DEFINE q == n \div d
           r == n % d
<1>1. q \in Nat /\ r \in Nat /\ r < d
  OBVIOUS
<1>2. n = d * q + r
  OBVIOUS
<1>3. Nearest(n, d) = (IF 2 * r > d \/ (2 * r = d /\ q % 2 = 1) THEN q + 1 ELSE q)
  BY DEF Nearest
<1> HIDE DEF q, r
<1>4. (q + 1) * d = d * q + d /\ q * d = d * q /\ d * q \in Nat
  BY <1>1
<1> DEFINE dq == d * q
<1> HIDE DEF dq
<1>5. /\ dq \in Nat /\ n = dq + r /\ (q + 1) * d = dq + d /\ q * d = dq
  BY <1>2, <1>4 DEF dq
<1>6. CASE 2 * r > d \/ (2 * r = d /\ q % 2 = 1)
  <2>1. Nearest(n, d) = q + 1 /\ 2 * r >= d
    BY <1>1, <1>3, <1>6
  <2>2. 2 * ((q + 1) * d) >= 2 * n - d /\ 2 * ((q + 1) * d) <= 2 * n + d
    BY <1>1, <1>5, <2>1
  <2> QED
    BY <1>1, <2>1, <2>2 DEF q, Close
<1>7. CASE ~(2 * r > d \/ (2 * r = d /\ q % 2 = 1))
  <2>1. Nearest(n, d) = q /\ 2 * r <= d
    BY <1>1, <1>3, <1>7
  <2>2. 2 * (q * d) >= 2 * n - d /\ 2 * (q * d) <= 2 * n + d
    BY <1>1, <1>5, <2>1
  <2> QED
    BY <1>1, <2>1, <2>2 DEF q, Close
<1> QED
  BY <1>6, <1>7

LEMMA NearestOne ==
  ASSUME NEW n \in Nat
  PROVE  Nearest(n, 1) = n
<1>1. n \div 1 = n /\ n % 1 = 0
  OBVIOUS
<1> QED
  BY <1>1 DEF Nearest

(* A float: its significant bits, and where its point is.                  *)
Float(f) == f.m \in Bits23..Bits24 /\ f.k \in Exponents

Raised(p, k) == p * Power(k)

LEMMA RaisedType ==
  ASSUME NEW p \in Nat, NEW k \in Exponents
  PROVE  Raised(p, k) \in Nat
<1> DEFINE x == Power(k)
<1>1. x \in Nat
  BY PowerType
<1> HIDE DEF x
<1>2. p * x \in Nat
  BY <1>1
<1> QED
  BY <1>2 DEF x, Raised

Span == 1..Bits37

LEMMA SizesSpan == \A n \in Sizes : n \in Span /\ n \in 0..Bits37 /\ n \in Nat \ {0}
  BY BitsAre DEF Sizes, Span

LEMMA SizesBound == \A n \in Sizes : n <= 4096
  BY DEF Sizes

Divided(f, p, q) ==
    /\ Float(f)
    /\ 2 * (f.m * q) >= 2 * (p * Power(f.k)) - q
    /\ p * Power(f.k) >= Bits23 * q

(* A quotient of sizes is a float, off by half a unit of its last place.   *)
LEMMA QuotientIs ==
  ASSUME NEW p \in Sizes, NEW q \in Span
  PROVE  Divided(Quotient(p, q), p, q)
<1>0. p \in Nat \ {0} /\ p <= 4096 /\ q \in Nat \ {0} /\ q <= Bits37
  BY BitsAre, SizesSpan, SizesBound DEF Span
<1> DEFINE S == {k \in Exponents : p * Power(k) >= Bits23 * q}
           Fits24(k) == (p * Power(k)) \div q \in (Bits24 \div 2)..(Bits24 - 1)
<1>1. 60 \in S
  <2>1. p * Power(60) >= Bits23 * q
    <3> DEFINE all == Bits23 * Bits37
    <3>1. all \in Nat /\ all >= Bits23 * q /\ Power(60) = all
      BY <1>0, PowerSixty, BitsAre
    <3> HIDE DEF all
    <3> DEFINE low == Bits23 * q
    <3>2. low \in Nat /\ low <= all
      BY <1>0, <3>1, BitsAre
    <3> HIDE DEF low
    <3>3. p * all >= low
      BY <1>0, <3>1, <3>2
    <3> QED
      BY <3>1, <3>3 DEF low
  <2> QED
    BY <2>1 DEF Exponents
<1>2. PICK l \in S : \A j \in S : l <= j
  <2>1. S \subseteq Exponents /\ S # {}
    BY <1>1
  <2> HIDE DEF S
  <2> QED
    BY <2>1, Least
<1>2a. l \in Exponents /\ p * Power(l) >= Bits23 * q
  BY <1>2
<1>3. l # 0
  <2>1. p < Bits23 * q /\ p * Power(0) = p /\ Bits23 * q \in Nat
    BY <1>0, PowerStep, BitsAre
  <2>2. 0 \notin S
    BY <1>0, <2>1
  <2> QED
    BY <1>2, <2>2
<1>4. l - 1 \in 0..148 /\ l - 1 \in Exponents /\ ~(l <= l - 1) /\ (l - 1) + 1 = l
  BY <1>3 DEF Exponents
<1>5. p * Power(l - 1) < Bits23 * q
  <2>1. l - 1 \notin S
    BY <1>2, <1>4
  <2> DEFINE h == p * Power(l - 1)
  <2>2. h \in Nat /\ Bits23 * q \in Nat
    <3>1. p \in Nat /\ Bits23 * q \in Nat
      BY <1>0, BitsAre
    <3> QED
      BY <1>4, <3>1, RaisedType DEF Raised
  <2>3. ~(h >= Bits23 * q)
    BY <1>4, <2>1
  <2> HIDE DEF h
  <2>4. h < Bits23 * q
    BY <2>2, <2>3
  <2> QED
    BY <2>4 DEF h
<1> HIDE DEF S
<1>6. Power(l) = 2 * Power(l - 1) /\ Power(l - 1) \in Nat
  BY <1>4, PowerStep, PowerType
<1>7. p * Power(l) < Bits24 * q /\ p * Power(l) >= Bits23 * q /\ p * Power(l) \in Nat
  <2> DEFINE h == Power(l - 1)
  <2> HIDE DEF h
  <2>1. h \in Nat /\ p * h < Bits23 * q /\ Power(l) = 2 * h
    BY <1>5, <1>6 DEF h
  <2>2. p * (2 * h) = 2 * (p * h) /\ p * h \in Nat
    BY <1>0, <2>1
  <2> QED
    BY <1>0, <1>2a, <2>1, <2>2, BitsAre
<1>8. \A n \in Nat : n \div q \in Bits23..(Bits24 - 1) <=> n >= Bits23 * q /\ n < Bits24 * q
  <2> TAKE n \in Nat
  <2>1. n \div q \in Nat
    BY <1>0
  <2>2. n \div q >= Bits23 <=> n >= Bits23 * q
    BY <1>0, BitsAre
  <2>3. n \div q >= Bits24 <=> n >= Bits24 * q
    BY <1>0, BitsAre
  <2> QED
    BY <1>0, <2>1, <2>2, <2>3, BitsAre
<1>9. Fits24(l) /\ l \in Exponents
  BY <1>2a, <1>7, <1>8, BitsAre
<1> DEFINE k == CHOOSE k \in Exponents : Fits24(k)
<1>10. k \in Exponents /\ Fits24(k)
  BY <1>9
<1>11. Quotient(p, q) = [m |-> Nearest(p * Power(k), q), k |-> k]
  BY DEF Quotient
<1> HIDE DEF k
<1> DEFINE n == p * Power(k)
<1>12. n \in Nat
  <2>1. p \in Nat
    BY <1>0
  <2> QED
    BY <1>10, <2>1, RaisedType DEF Raised
<1>13. n \div q \in Bits23..(Bits24 - 1)
  BY <1>10, BitsAre
<1> HIDE DEF n
<1> HIDE DEF Fits24
<1>14. n >= Bits23 * q
  BY <1>8, <1>12, <1>13
<1>15. /\ Nearest(n, q) \in {n \div q, n \div q + 1}
       /\ Close(Nearest(n, q), n, q)
  BY <1>0, <1>12, NearestIs
<1>16. Nearest(n, q) \in Bits23..Bits24
  BY <1>13, <1>15, BitsAre
<1>17. Quotient(p, q).m = Nearest(n, q) /\ Quotient(p, q).k = k
  BY <1>11 DEF n
<1> QED
  BY <1>10, <1>14, <1>15, <1>16, <1>17 DEF Divided, Float, Close, n

(* fmax() gives one of the two, and the larger.                            *)
LEMMA LargerIs ==
  ASSUME NEW a, NEW b, Float(a), Float(b)
  PROVE  LET f == Larger(a, b) IN
         /\ f \in {a, b}
         /\ f.m * Power(a.k) >= a.m * Power(f.k)
         /\ f.m * Power(b.k) >= b.m * Power(f.k)
<1>1. \A c, d : Float(c) /\ Float(d) /\ c.k < d.k => c.m * Power(d.k) >= d.m * Power(c.k)
  <2> SUFFICES ASSUME NEW c, NEW d, Float(c), Float(d), c.k < d.k
               PROVE  c.m * Power(d.k) >= d.m * Power(c.k)
    OBVIOUS
  <2>1. 2 * Power(c.k) <= Power(d.k) /\ Power(c.k) \in Nat /\ Power(d.k) \in Nat
    BY PowerGrows, PowerType DEF Float
  <2> DEFINE x == Power(c.k)
             y == Power(d.k)
             m == c.m
             n == d.m
  <2>2. m \in Bits23..Bits24 /\ n \in Bits23..Bits24
    BY DEF Float
  <2>3. x \in Nat /\ y \in Nat /\ 2 * x <= y
    BY <2>1
  <2> HIDE DEF x, y, m, n
  <2>4. m * y >= Bits23 * y /\ n * x <= Bits24 * x
    BY <2>2, <2>3, BitsAre
  <2>5. m * y \in Nat /\ n * x \in Nat
    BY <2>2, <2>3, BitsAre
  <2>6. m * y >= n * x
    BY <2>3, <2>4, <2>5, BitsAre
  <2> QED
    BY <2>6 DEF x, y, m, n
<1>2. \A c, d : Float(c) /\ Float(d) /\ c.k = d.k /\ c.m >= d.m => c.m * Power(d.k) >= d.m * Power(c.k)
  <2> SUFFICES ASSUME NEW c, NEW d, Float(c), Float(d), c.k = d.k, c.m >= d.m
               PROVE  c.m * Power(d.k) >= d.m * Power(d.k)
    OBVIOUS
  <2>1. Power(d.k) \in Nat
    BY PowerType, BitsAre DEF Float
  <2> DEFINE x == Power(d.k)
             m == c.m
             n == d.m
  <2>2. m \in Nat /\ n \in Nat /\ m >= n /\ x \in Nat
    BY <2>1, BitsAre DEF Float
  <2> HIDE DEF x, m, n
  <2>3. m * x >= n * x
    BY <2>2
  <2> QED
    BY <2>3 DEF x, m, n
<1>3. a.m * Power(a.k) >= a.m * Power(a.k) /\ b.m * Power(b.k) >= b.m * Power(b.k)
  <2>1. /\ Power(a.k) \in Nat /\ Power(b.k) \in Nat
        /\ a.m \in Nat /\ b.m \in Nat
    BY PowerType, BitsAre DEF Float
  <2>2. a.m * Power(a.k) \in Nat /\ b.m * Power(b.k) \in Nat
    BY <2>1
  <2> QED
    BY <2>2
<1>4. CASE a.k < b.k \/ (a.k = b.k /\ a.m >= b.m)
  <2>1. Larger(a, b) = a
    BY <1>4 DEF Larger
  <2>2. a.m * Power(b.k) >= b.m * Power(a.k)
    BY <1>1, <1>2, <1>4
  <2> QED
    BY <1>3, <2>1, <2>2
<1>5. CASE ~(a.k < b.k \/ (a.k = b.k /\ a.m >= b.m))
  <2>1. Larger(a, b) = b
    BY <1>5 DEF Larger
  <2>2. b.k < a.k \/ (b.k = a.k /\ b.m >= a.m)
    <3>1. a.k \in Int /\ b.k \in Int /\ a.m \in Int /\ b.m \in Int
      BY BitsAre DEF Float, Exponents
    <3> QED
      BY <1>5, <3>1
  <2>3. b.m * Power(a.k) >= a.m * Power(b.k)
    BY <1>1, <1>2, <2>2
  <2> QED
    BY <1>3, <2>1, <2>3
<1> QED
  BY <1>4, <1>5

-----------------------------------------------------------------------------
(* The product                                                             *)

(* What a float loses of p: nothing that 24 bits of p would show.          *)
Lost(p, r) == \E e \in Nat : Bits24 * e <= p /\ r >= p - e /\ r <= p + e

(* A product is a natural number, close to the exact one.                  *)
LEMMA ProductIs ==
  ASSUME NEW n \in 0..Bits37, NEW f, Float(f)
  PROVE  Product(n, f) \in Nat /\ n * f.m \in Nat /\ Lost(n * f.m, Product(n, f))
<1> DEFINE p == n * f.m
<1>1. p \in Nat /\ p < Bits24 * Power(60)
  <2> DEFINE m == f.m
  <2>1. m \in Nat /\ m <= Bits24 /\ n \in Nat /\ n <= Bits37
    BY BitsAre DEF Float
  <2> HIDE DEF m
  <2>2. n * m \in Nat /\ n * m <= Bits37 * Bits24
    BY <2>1, BitsAre
  <2> DEFINE x == Power(60)
  <2>3. x \in Nat /\ x > Bits37
    <3>1. Bits23 * Bits37 \in Nat /\ Bits23 * Bits37 > Bits37
      BY BitsAre
    <3> QED
      BY <3>1, PowerSixty
  <2> HIDE DEF x
  <2>4. Bits37 * Bits24 \in Nat /\ Bits24 * x \in Nat /\ Bits37 * Bits24 < Bits24 * x
    BY <2>3, BitsAre
  <2>5. n * m \in Nat /\ n * m < Bits24 * x
    BY <2>2, <2>4
  <2> QED
    BY <2>5 DEF m, x
<1> HIDE DEF p
<1> DEFINE S == {s \in Exponents : p < Bits24 * Power(s)}
           Last(s) == /\ p \div Power(s) < Bits24
                      /\ s = 0 \/ p \div Power(s - 1) >= Bits24
<1>2. \A s \in Exponents : p \div Power(s) >= Bits24 <=> ~(p < Bits24 * Power(s))
  <2> TAKE s \in Exponents
  <2> DEFINE x == Power(s)
  <2>1. x \in Nat \ {0}
    BY PowerType
  <2> HIDE DEF x
  <2>2. p \div x >= Bits24 <=> p >= Bits24 * x
    BY <1>1, <2>1, BitsAre
  <2>3. Bits24 * x \in Nat
    BY <2>1, BitsAre
  <2>4. p \div x >= Bits24 <=> ~(p < Bits24 * x)
    BY <1>1, <2>2, <2>3
  <2> QED
    BY <2>4 DEF x
<1>3. \A s \in Exponents : p \div Power(s) < Bits24 <=> ~(p \div Power(s) >= Bits24)
  <2> TAKE s \in Exponents
  <2> DEFINE x == Power(s)
  <2>1. x \in Nat \ {0}
    BY PowerType
  <2> HIDE DEF x
  <2>2. p \div x \in Nat
    BY <1>1, <2>1
  <2>3. p \div x < Bits24 <=> ~(p \div x >= Bits24)
    BY <2>2, BitsAre
  <2> QED
    BY <2>3 DEF x
<1>4. PICK l \in Exponents : p < Bits24 * Power(l) /\ \A j \in Exponents : p < Bits24 * Power(j) => l <= j
  <2>1. 60 \in S /\ S \subseteq Exponents
    BY <1>1 DEF Exponents
  <2>2. PICK l \in S : \A j \in S : l <= j
    <3> HIDE DEF S
    <3> QED
      BY <2>1, Least
  <2> QED
    BY <2>2
<1>5. Last(l)
  <2>1. CASE l = 0
    BY <1>2, <1>3, <1>4, <2>1
  <2>2. CASE l # 0
    <3>1. l - 1 \in Exponents /\ ~(l <= l - 1)
      BY <2>2 DEF Exponents
    <3>2. p \div Power(l - 1) >= Bits24
      BY <1>2, <1>4, <3>1
    <3> QED
      BY <1>2, <1>3, <1>4, <3>2
  <2> QED
    BY <2>1, <2>2
<1> DEFINE s == CHOOSE s \in Exponents : Last(s)
<1>6. s \in Exponents /\ Last(s)
  BY <1>5
<1>7. Product(n, f) = Nearest(p, Power(s)) * Power(s)
  BY DEF Product, p
<1> HIDE DEF s
<1> DEFINE x == Power(s)
           r == Nearest(p, x)
<1>8. x \in Nat \ {0}
  BY <1>6, PowerType
<1>9. r \in Nat /\ Close(r, p, x)
  <2> HIDE DEF x
  <2> QED
    BY <1>1, <1>8, NearestIs
<1>10. Product(n, f) = r * x
  BY <1>7
<1>11. CASE s = 0
  <2>1. x = 1
    BY <1>11, PowerStep
  <2>2. r = p
    BY <1>1, <2>1, NearestOne
  <2> HIDE DEF x, r
  <2>3. r * x = p
    BY <1>1, <2>1, <2>2
  <2>4. Lost(p, p)
    <3>1. Bits24 * 0 <= p /\ p >= p - 0 /\ p <= p + 0
      BY <1>1, BitsAre
    <3> QED
      BY <3>1 DEF Lost
  <2> QED
    BY <1>1, <1>10, <2>3, <2>4 DEF p
<1>12. CASE s # 0
  <2> DEFINE h == Power(s - 1)
  <2>1. s - 1 \in Exponents /\ s - 1 \in 0..148 /\ (s - 1) + 1 = s
    BY <1>6, <1>12 DEF Exponents
  <2>2. h \in Nat \ {0} /\ x = 2 * h
    BY <2>1, PowerStep, PowerType
  <2>3. ~(p < Bits24 * h)
    <3>1. p \div Power(s - 1) >= Bits24
      BY <1>6, <1>12
    <3> QED
      BY <1>2, <2>1, <3>1
  <2> HIDE DEF x, r, h
  <2>4. Bits24 * h <= p
    <3>1. Bits24 * h \in Nat
      BY <2>2, BitsAre
    <3> QED
      BY <1>1, <2>3, <3>1
  <2>5. r * x \in Nat
    BY <1>8, <1>9
  <2>6. r * x >= p - h /\ r * x <= p + h
    BY <1>1, <1>9, <2>2, <2>5 DEF Close
  <2>7. Lost(p, r * x)
    <3> DEFINE y == r * x
    <3>1. h \in Nat /\ y >= p - h /\ y <= p + h
      BY <2>2, <2>6
    <3> HIDE DEF y
    <3>2. Lost(p, y)
      BY <2>4, <3>1 DEF Lost
    <3> QED
      BY <3>2 DEF y
  <2> QED
    BY <1>1, <1>10, <2>5, <2>7 DEF p
<1> QED
  BY <1>11, <1>12

-----------------------------------------------------------------------------
(* The scaled image                                                        *)

(* The scale s / K, not below a quotient x / A of c by a that is off by    *)
(* half a unit, makes of a no less than c but a 4096th.                    *)
LEMMA Enlarged ==
  ASSUME NEW a \in Nat, NEW c \in Nat, NEW A \in Nat \ {0}, NEW K \in Nat,
         NEW x \in Nat, NEW s \in Nat,
         s * A >= x * K, 2 * (x * a) >= 2 * (c * A) - a, A >= 2048 * a
  PROVE  4096 * (a * s) >= 4096 * (c * K) - K
<1>1. (a * s) * A >= (a * x) * K
  <2>1. a * (s * A) >= a * (x * K)
    <3> DEFINE u == s * A
               v == x * K
    <3>1. u \in Nat /\ v \in Nat /\ u >= v
      OBVIOUS
    <3> HIDE DEF u, v
    <3>2. a * u >= a * v
      BY <3>1
    <3> QED
      BY <3>2 DEF u, v
  <2>2. a * (s * A) = (a * s) * A /\ a * (x * K) = (a * x) * K
    OBVIOUS
  <2> QED
    BY <2>1, <2>2
<1> DEFINE y == a * x
           z == c * A
<1>2. y \in Nat /\ z \in Nat /\ 2 * y >= 2 * z - a
  OBVIOUS
<1> HIDE DEF y, z
<1>3. 2 * (y * K) >= 2 * (z * K) - a * K
  <2> DEFINE d == 2 * y + a
             g == 2 * z
  <2>1. d \in Nat /\ g \in Nat /\ d >= g
    BY <1>2
  <2>2. d * K = 2 * (y * K) + a * K /\ g * K = 2 * (z * K)
    BY <1>2
  <2> HIDE DEF d, g
  <2>3. d * K >= g * K
    BY <2>1
  <2>4. y * K \in Nat /\ z * K \in Nat /\ a * K \in Nat
    BY <1>2
  <2> QED
    BY <2>2, <2>3, <2>4
<1>4. 2048 * (a * K) <= A * K
  <2>1. (2048 * a) * K <= A * K
    <3> DEFINE u == 2048 * a
    <3>1. u \in Nat /\ u <= A
      OBVIOUS
    <3> HIDE DEF u
    <3>2. u * K <= A * K
      BY <3>1
    <3> QED
      BY <3>2 DEF u
  <2>2. (2048 * a) * K = 2048 * (a * K)
    OBVIOUS
  <2> QED
    BY <2>1, <2>2
<1> DEFINE b == a * s
           w == c * K
<1>5. b \in Nat /\ w \in Nat /\ z * K = w * A /\ b * A >= y * K
  <2>1. z * K = w * A
    BY DEF z
  <2>2. b * A >= y * K
    BY <1>1 DEF y
  <2> QED
    BY <2>1, <2>2
<1> HIDE DEF b, w
<1>6. 4096 * (b * A) >= 4096 * (w * A) - A * K
  <2> DEFINE ba == b * A
             yk == y * K
             wa == w * A
             ak == a * K
             aK == A * K
  <2>1. ba \in Nat /\ yk \in Nat /\ wa \in Nat /\ ak \in Nat /\ aK \in Nat
    BY <1>2, <1>5
  <2>2. ba >= yk /\ 2 * yk >= 2 * wa - ak /\ 2048 * ak <= aK
    BY <1>3, <1>4, <1>5
  <2> HIDE DEF ba, yk, wa, ak, aK
  <2>3. 4096 * ba >= 4096 * wa - aK
    BY <2>1, <2>2
  <2> QED
    BY <2>3 DEF ba, wa, aK
<1>7. 4096 * b >= 4096 * w - K
  <2> DEFINE u == 4096 * b + K
             v == 4096 * w
  <2>1. u \in Nat /\ v \in Nat
    BY <1>5
  <2>2. u * A >= v * A
    <3>1. u * A = 4096 * (b * A) + A * K /\ v * A = 4096 * (w * A)
      BY <1>5
    <3>2. b * A \in Nat /\ w * A \in Nat /\ A * K \in Nat
      BY <1>5
    <3> QED
      BY <1>6, <3>1, <3>2
  <2> HIDE DEF u, v
  <2>3. u >= v
    <3> SUFFICES ASSUME u < v PROVE FALSE
      BY <2>1
    <3>1. u + 1 <= v
      BY <2>1
    <3>2. (u + 1) * A <= v * A
      BY <2>1, <3>1
    <3>3. (u + 1) * A = u * A + A /\ u * A \in Nat /\ v * A \in Nat
      BY <2>1
    <3> QED
      BY <2>2, <3>2, <3>3
  <2> QED
    BY <1>5, <2>3 DEF u, v
<1> QED
  BY <1>7 DEF b, w

(* A size, scaled to cover c: one short of it at most.                     *)
LEMMA Covered ==
  ASSUME NEW a \in Sizes, NEW c \in Sizes, NEW f, Float(f),
         f.m * Power(Quotient(c, a).k) >= Quotient(c, a).m * Power(f.k)
  PROVE  Times(a, f) \in 0..Bits37 /\ Times(a, f) >= c - 1
<1> DEFINE x == Quotient(c, a)
           A == Power(x.k)
           K == Power(f.k)
           m == f.m
           n == x.m
           p == a * m
           r == Product(a, f)
<1>1. a \in 1..4096 /\ c \in 1..4096 /\ a \in 0..Bits37
  BY BitsAre DEF Sizes
<1>2. Float(x) /\ 2 * (n * a) >= 2 * (c * A) - a /\ c * A >= Bits23 * a
  <2>1. Divided(Quotient(c, a), c, a)
    BY SizesSpan, QuotientIs
  <2> QED
    BY <2>1 DEF Divided
<1>3. m * A >= n * K
  OBVIOUS
<1>4. r \in Nat /\ p \in Nat /\ Lost(p, r)
  BY <1>1, ProductIs
<1>5. Times(a, f) = r \div K
  BY DEF Times
<1>6. A \in Nat \ {0} /\ K \in Nat \ {0} /\ n \in Nat /\ m \in Nat /\ m <= Bits24
  <2>1. A \in Nat \ {0} /\ K \in Nat \ {0}
    BY <1>2, PowerType DEF Float
  <2>2. n \in Nat /\ m \in Nat /\ m <= Bits24
    BY <1>2, BitsAre DEF Float
  <2> QED
    BY <2>1, <2>2
<1> HIDE DEF x, A, K, m, n, r
<1>7. A >= 2048 * a
  <2>1. c * A <= 4096 * A /\ c * A \in Nat
    BY <1>1, <1>6
  <2> DEFINE y == c * A
  <2>2. y \in Nat /\ y <= 4096 * A /\ y >= Bits23 * a
    BY <1>2, <2>1
  <2> HIDE DEF y
  <2>3. 8388608 * a <= 4096 * A
    BY SMT, <1>1, <1>6, <2>2 DEF Bits23
  <2> QED
    BY SMT, <1>1, <1>6, <2>3
<1>8. 4096 * p >= 4096 * (c * K) - K
  <2>1. a \in Nat /\ c \in Nat
    BY SizesSpan
  <2>2. 2 * (n * a) >= 2 * (c * A) - a
    BY <1>2
  <2>3. 4096 * (a * m) >= 4096 * (c * K) - K
    BY <1>3, <1>6, <1>7, <2>1, <2>2, Enlarged
  <2> QED
    BY <2>3 DEF p
<1> HIDE DEF p
<1>9. PICK e \in Nat : Bits24 * e <= p /\ r >= p - e /\ r <= p + e
  BY <1>4 DEF Lost
<1> DEFINE w == c * K
<1>10. w \in Nat /\ w <= 4096 * K
  BY <1>1, <1>6
<1>11. (c - 1) * K = w - K
  BY <1>1, <1>6
<1> HIDE DEF w
<1>12. r >= w - K
  <2>1. 16777216 * e <= p
    BY SMT, <1>9 DEF Bits24
  <2>2. 4096 * p >= 4096 * w - K
    BY <1>8 DEF w
  <2> QED
    BY SMT, <1>4, <1>6, <1>9, <1>10, <2>1, <2>2
<1>13. r \div K \in Nat /\ r \div K <= r
  BY <1>4, <1>6
<1>14. r \div K >= c - 1
  <2> DEFINE j == c - 1
  <2>1. j \in Int /\ r >= j * K
    BY <1>1, <1>11, <1>12
  <2> HIDE DEF j
  <2>2. r \div K >= j
    BY <1>4, <1>6, <2>1
  <2> QED
    BY <2>2 DEF j
<1>15. r <= Bits37
  <2>1. p <= 4096 * Bits24
    <3>1. a * m <= 4096 * m
      BY <1>1, <1>6
    <3>2. 4096 * m <= 4096 * Bits24 /\ a * m \in Nat
      BY <1>1, <1>6, BitsAre
    <3> QED
      BY <1>6, <3>1, <3>2, BitsAre DEF p
  <2>2. p <= 4096 * 16777216 /\ 16777216 * e <= p
    BY SMT, <1>9, <2>1 DEF Bits24
  <2>3. r <= 137438953472
    BY SMT, <1>4, <1>9, <2>2
  <2> QED
    BY SMT, <2>3 DEF Bits37
<1> QED
  BY <1>5, <1>13, <1>14, <1>15, BitsAre, <1>4

(* IMAGE_MODE_CENTER scales to what covers the output, but for one column  *)
(* or row.                                                                 *)
LEMMA ScaledCovers ==
  ASSUME NEW i, NEW o, i.w \in Sizes, i.h \in Sizes, o.w \in Sizes, o.h \in Sizes
  PROVE  LET r == Scaled(i, o) IN
         /\ r.w \in 0..Bits37 /\ r.h \in 0..Bits37
         /\ r.w >= o.w - 1 /\ r.h >= o.h - 1
<1> DEFINE x == Quotient(o.w, i.w)
           y == Quotient(o.h, i.h)
           f == Larger(x, y)
<1>1. Float(x) /\ Float(y)
  <2>1. Divided(x, o.w, i.w) /\ Divided(y, o.h, i.h)
    BY SizesSpan, QuotientIs
  <2> QED
    BY <2>1 DEF Divided
<1>2. /\ f \in {x, y}
      /\ f.m * Power(x.k) >= x.m * Power(f.k)
      /\ f.m * Power(y.k) >= y.m * Power(f.k)
  <2> HIDE DEF x, y
  <2> QED
    BY <1>1, LargerIs
<1>3. Float(f)
  <2> HIDE DEF f
  <2> QED
    BY <1>1, <1>2
<1>4. Scaled(i, o) = [w |-> Times(i.w, f), h |-> Times(i.h, f)]
  BY DEF Scaled
<1> HIDE DEF f
<1>5. Times(i.w, f) \in 0..Bits37 /\ Times(i.w, f) >= o.w - 1
  BY <1>2, <1>3, Covered
<1>6. Times(i.h, f) \in 0..Bits37 /\ Times(i.h, f) >= o.h - 1
  BY <1>2, <1>3, Covered
<1> QED
  BY <1>4, <1>5, <1>6

(* What the loops read of a scaled image that covers the output is of it.  *)
LEMMA CropWithin ==
  ASSUME NEW w \in Nat, NEW h \in Nat, NEW c \in Nat \ {0}, NEW d \in Nat \ {0}, w >= c, h >= d,
         NEW left, NEW top, left = (w - c) \div 2, top = (h - d) \div 2
  PROVE  /\ left # Wrapped /\ top # Wrapped
         /\ top * w + left >= 0
         /\ (top + d - 1) * w + left + c - 1 < w * h
<1>1. /\ left \in Nat /\ left <= w - c
      /\ top \in Nat /\ top <= h - d
  OBVIOUS
<1> DEFINE rows == top + d - 1
<1>2. rows \in Nat /\ rows <= h - 1
  BY <1>1
<1> HIDE DEF rows
<1>3. rows * w <= (h - 1) * w /\ rows * w \in Nat /\ (h - 1) * w = w * h - w /\ w * h \in Nat
  BY <1>2
<1>4. rows * w + left + c - 1 < w * h
  <2> DEFINE a == rows * w
             b == w * h
  <2>1. a \in Nat /\ b \in Nat /\ a <= b - w
    BY <1>3
  <2> HIDE DEF a, b
  <2>2. a + left + c - 1 < b
    BY <1>1, <2>1
  <2> QED
    BY <2>2 DEF a, b
<1>5. top * w \in Nat
  BY <1>1
<1>6. left # Wrapped /\ top # Wrapped
  BY <1>1 DEF Wrapped
<1> HIDE <1>1
<1> QED
  BY <1>1, <1>4, <1>5, <1>6 DEF rows

(* Every pixel that the scaling takes is one of the image.                 *)
LEMMA SourcesWithin ==
  ASSUME NEW m \in Sizes, NEW n \in 0..Bits37
  PROVE  Sources(m, n) \subseteq 0..(m - 1)
<1>1. m \in 1..4096 /\ n \in Nat
  BY BitsAre DEF Sizes
<1> DEFINE f == Quotient(m, n)
           Source(x) == LET at == Round(x, f) IN IF at < m - 1 THEN at ELSE m - 1
<1>2. Sources(m, n) = {Source(x) : x \in 0..(n - 1)}
  BY DEF Sources
<1>3. ASSUME NEW x \in 0..(n - 1) PROVE Source(x) \in 0..(m - 1)
  <2>1. n \in Span /\ x \in 0..Bits37
    BY <1>1, BitsAre DEF Span
  <2>2. Float(f)
    <3>1. Divided(Quotient(m, n), m, n)
      BY <2>1, QuotientIs
    <3> QED
      BY <3>1 DEF Divided
  <2> HIDE DEF f
  <2> DEFINE K == Power(f.k)
             p == Product(x, f)
  <2>3. K \in Nat \ {0} /\ p \in Nat
    BY <2>1, <2>2, PowerType, ProductIs DEF Float
  <2>4. Round(x, f) \in {p \div K, p \div K + 1}
    BY DEF Round, Times
  <2> HIDE DEF K, p
  <2>5. Round(x, f) \in Nat
    BY <2>3, <2>4
  <2> QED
    BY <1>1, <2>5
<1> HIDE DEF Source
<1> QED
  BY <1>2, <1>3

-----------------------------------------------------------------------------
(* What the output shows was drawn as one of the modes draws it            *)

Kept ==
    picture.kind = "image" =>
        /\ picture.of \in Images /\ picture.of.kind = "picture"
        /\ picture.draw \in Center(picture.of, Monitor) \cup Fit(picture.of, Monitor)

LEMMA NextKept == Kept /\ [Next]_vars => Kept'
<1> SUFFICES ASSUME Kept, [Next]_vars PROVE Kept'
  OBVIOUS
<1>1. CASE UNCHANGED picture
  BY <1>1 DEF Kept
<1>2. CASE ServeColor /\ picture' # picture
  <2>1. picture'.kind = "color"
    BY <1>2 DEF ServeColor, Refuse
  <2> QED
    BY <2>1 DEF Kept
<1>3. CASE ServeImage /\ picture' # picture
  <2> DEFINE msg == Decode(buffer)
  <2>1. /\ Loads(msg.path) /\ msg.mode \in {"C", "F"}
        /\ \E i \in File(msg.path) : \E draw \in Drawn(msg.mode, i) :
              picture' = [kind |-> "image", of |-> i, draw |-> draw]
    BY <1>3 DEF ServeImage, Refuse
  <2> HIDE DEF msg
  <2>2. PICK i \in File(msg.path) : \E draw \in Drawn(msg.mode, i) :
               picture' = [kind |-> "image", of |-> i, draw |-> draw]
    BY <2>1
  <2>3. PICK draw \in Drawn(msg.mode, i) : picture' = [kind |-> "image", of |-> i, draw |-> draw]
    BY <2>2
  <2>4. i \in Images /\ i.kind = "picture"
    <3>1. PICK j \in File(msg.path) : j.kind = "picture"
      BY <2>1 DEF Loads
    <3>2. i \in Images /\ j \in Images /\ i.name = j.name
      BY <3>1 DEF File
    <3> QED
      BY <3>1, <3>2, DrawingAssumption
  <2>5. draw \in Center(i, Monitor) \cup Fit(i, Monitor)
    BY <2>3 DEF Drawn
  <2>6. picture'.of = i /\ picture'.draw = draw
    BY <2>3
  <2> QED
    BY <2>4, <2>5, <2>6 DEF Kept
<1> QED
  BY <1>1, <1>2, <1>3 DEF Next, Run, Usage, Send, Receive, OptionHelp, OptionKill, OptionLong, OptionImage,
     OptionColor, OptionOutput, OptionMode, ServeKill, StrayEvent, Leave, Set, server, vars

LEMMA KeptAlways == Spec => []Kept
<1>1. Init => Kept
  BY DEF Init, Kept, NoPicture
<1> QED
  BY <1>1, NextKept, PTL DEF Spec

(* What the second half of draw_image_on_output() does to a picture, in    *)
(* either mode.                                                            *)
LEMMA DrawsWithin ==
  ASSUME NEW i, NEW o, i.w \in Sizes, i.h \in Sizes, o.w \in Sizes, o.h \in Sizes,
         NEW d \in Center(i, o)
  PROVE  LET r == Scaled(i, o) IN
         /\ r.w < o.w \/ r.h < o.h \/
               /\ d.written = o.w * o.h
               /\ d.first >= 0 /\ d.last < d.size
         /\ d.written \in {0, o.w * o.h}
<1> DEFINE r == Scaled(i, o)
<1>1. r.w \in Nat /\ r.h \in Nat
  BY ScaledCovers
<1>2. o.w \in Nat \ {0} /\ o.h \in Nat \ {0}
  BY SizesSpan
<1>3. PICK left \in Offsets(r.w, o.w), top \in Offsets(r.h, o.h) : d = Crop(r, o, left, top)
  BY DEF Center
<1> HIDE DEF r
<1>4. d.written \in {0, o.w * o.h}
  BY <1>3 DEF Crop
<1>5. CASE r.w >= o.w /\ r.h >= o.h
  <2>1. left = (r.w - o.w) \div 2 /\ top = (r.h - o.h) \div 2
    BY <1>3, <1>5 DEF Offsets
  <2>2. /\ left # Wrapped /\ top # Wrapped
        /\ top * r.w + left >= 0
        /\ (top + o.h - 1) * r.w + left + o.w - 1 < r.w * r.h
    BY <1>1, <1>2, <1>5, <2>1, CropWithin
  <2>3. d = [size |-> r.w * r.h, first |-> top * r.w + left,
             last |-> (top + o.h - 1) * r.w + left + o.w - 1, written |-> o.w * o.h]
    BY <1>3, <2>2 DEF Crop
  <2> QED
    BY <1>4, <2>2, <2>3 DEF r
<1>6. CASE ~(r.w >= o.w /\ r.h >= o.h)
  <2>1. r.w < o.w \/ r.h < o.h
    BY <1>1, <1>2, <1>6
  <2> QED
    BY <1>4, <2>1 DEF r
<1> QED
  BY <1>5, <1>6

(* The scaling stays within the image; what it makes is short of the       *)
(* output by a column or a row at most, and cropped within itself when it  *)
(* is not short: for every size of the image and of the output up to 4096  *)
(* (draw_image_on_output(), resize_image_nni()).                           *)
THEOREM Draws == Spec => []DrawnInBounds
<1>1. Kept => DrawnInBounds
  <2> SUFFICES ASSUME Kept, picture.kind = "image" PROVE DrawnInBounds
    BY DEF DrawnInBounds
  <2> DEFINE d == picture.draw
             i == picture.of
             r == IF d \in Fit(i, Monitor) THEN [w |-> Monitor.w, h |-> Monitor.h]
                                           ELSE Scaled(i, Monitor)
  <2>1. /\ i \in Images /\ i.kind = "picture"
        /\ d \in Center(i, Monitor) \cup Fit(i, Monitor)
    BY DEF Kept
  <2>2. i.w \in Sizes /\ i.h \in Sizes /\ Monitor.w \in Sizes /\ Monitor.h \in Sizes
    BY <2>1, DrawingAssumption
  <2>3. Monitor.w \in Nat \ {0} /\ Monitor.h \in Nat \ {0}
    BY <2>2, SizesSpan
  <2> HIDE DEF d, i
  <2>4. /\ r.w \in 0..Bits37 /\ r.h \in 0..Bits37
        /\ r.w >= Monitor.w - 1 /\ r.h >= Monitor.h - 1
        /\ r.w < Monitor.w \/ r.h < Monitor.h \/
              /\ d.written = Monitor.w * Monitor.h
              /\ d.first >= 0 /\ d.last < d.size
        /\ d.written \in {0, Monitor.w * Monitor.h}
    <3>1. CASE d \in Fit(i, Monitor)
      <4>1. r.w = Monitor.w /\ r.h = Monitor.h
        BY <3>1
      <4>2. Monitor.w \in 0..Bits37 /\ Monitor.h \in 0..Bits37
        BY <2>2, SizesSpan
      <4> DEFINE all == Monitor.w * Monitor.h
      <4>3. all \in Nat
        BY <2>3
      <4>4. d = [size |-> all, first |-> 0, last |-> all - 1, written |-> all]
        BY <3>1 DEF Fit
      <4> HIDE DEF all
      <4>5. d.written = all /\ d.first >= 0 /\ d.last < d.size
        BY <4>3, <4>4
      <4> HIDE DEF r
      <4> QED
        BY <2>3, <4>1, <4>2, <4>5 DEF all
    <3>2. CASE d \notin Fit(i, Monitor)
      <4>1. r = Scaled(i, Monitor) /\ d \in Center(i, Monitor)
        BY <2>1, <3>2
      <4> HIDE DEF r
      <4> QED
        BY <2>2, <4>1, ScaledCovers, DrawsWithin
    <3> QED
      BY <3>1, <3>2
  <2>5. Sources(i.w, r.w) \subseteq 0..(i.w - 1) /\ Sources(i.h, r.h) \subseteq 0..(i.h - 1)
    <3> HIDE DEF r
    <3> QED
      BY <2>2, <2>4, SourcesWithin
  <2> QED
    BY <2>4, <2>5 DEF DrawnInBounds, d, i
<1> QED
  BY <1>1, KeptAlways, PTL
=============================================================================

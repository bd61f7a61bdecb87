-------------------------- MODULE WallpaperProofs --------------------------
(***************************************************************************)
(* What Wallpaper guarantees for any number of outputs and any requests.   *)
(* The argument follows the loop over the outputs: behind its position the *)
(* file says what the memory says (Synced), and as long as no error was    *)
(* sent, the request is on the screen too (Behind), and once one was sent  *)
(* there is an output behind it to show for it (Erred); the output at the  *)
(* position has no promise left to break (Entered).                        *)
(***************************************************************************)
EXTENDS Wallpaper, TLAPS

Serving == {"match", "write", "draw", "ack"}

\* The output at hand belongs to the request and its old promise is over.
Entered ==
    /\ stage \in Serving => req \in Requests
    /\ stage \in {"write", "draw"} =>
           at \in req.to /\ mem[at] = req.set /\ promise[at] = None

\* Where the file says what the memory says.
Synced ==
    \A o \in Outputs :
        \/ stage \in {"idle", "match", "draw", "ack"}
        \/ stage = "write" /\ o # at
        \/ stage = "restore" /\ o < at
        => cache[o] = mem[o]

\* What has not been read yet.
Unread == stage = "restore" => \A o \in Outputs : o >= at => mem[o] = None

\* Where the request has been carried out, as long as no error was sent.
On(o) == drawn[o] = req.set /\ cache[o] = req.set

Behind ==
    /\ reply = "none" /\ stage \in {"match", "write", "draw"} =>
           \A o \in Outputs : o < at => On(o)
    /\ reply = "none" /\ stage = "ack" => \A o \in Outputs : On(o)
    /\ reply = "ACK" => stage \in {"idle", "down"}
    /\ reply = "ACK" /\ stage = "idle" => \A o \in Outputs : On(o)

\* What an error stands for.
Erred ==
    /\ stage = "restore" => reply = "none"
    /\ reply = "ERR" /\ stage \in {"match", "write", "draw"} =>
           req.to # Outputs \/ \E o \in req.to : o < at /\ promise[o] # req.set
    /\ reply = "ERR" /\ stage \in {"ack", "idle"} =>
           req.to # Outputs \/ \E o \in req.to : promise[o] # req.set

IInv == TypeOK /\ Durable /\ Entered /\ Synced /\ Unread /\ Behind /\ Erred

-----------------------------------------------------------------------------
(* The positions of the loop.                                              *)
LEMMA OutputNumbers ==
  /\ N \in Nat /\ 1 \in Outputs /\ 0 \in 0..N
  /\ \A o \in Outputs : o \in 0..N
  /\ \A o, p \in Outputs : o < p => o # p
  /\ \A o \in Outputs : o \in Nat /\ 1 <= o /\ o <= N
  BY WallpaperAssumption DEF Outputs

LEMMA InitIInv == Init => IInv
  <1> USE WallpaperAssumption
  <1>1. Init => TypeOK
    BY DEF Init, TypeOK, Everywhere, Held, Outputs, NoRequest
  <1>2. Init => Durable /\ Entered /\ Synced /\ Unread /\ Behind /\ Erred
    BY DEF Init, Durable, Entered, Synced, Unread, Behind, Erred, Everywhere, Serving
  <1> QED
    BY <1>1, <1>2 DEF IInv

(* What is known of the request in hand.                                   *)
LEMMA InHand ==
  ASSUME Entered, stage \in Serving
  PROVE  req \in Requests /\ req.set \in Settings /\ req.to \subseteq Outputs
  <1>1. req \in AllRequests
    BY WallpaperAssumption DEF Entered
  <1> QED
    BY <1>1 DEF AllRequests, Entered

(* The loop's position stays on the list.                                  *)
LEMMA Position ==
  ASSUME at \in Outputs, NEW next, NEW last, Advance(next, last)
  PROVE  /\ at' \in Outputs
         /\ \/ stage' = next /\ at' = at + 1 /\ at < N
            \/ stage' = last /\ at' = 1 /\ at = N
  BY WallpaperAssumption DEF Advance, Outputs

(* What is read back is what was saved, or something that cannot be drawn. *)
LEMMA ReadBackHeld ==
  ASSUME TypeOK, NEW c \in Settings, NEW s \in ReadBack(c)
  PROVE  /\ s \in Held
         /\ Drawable(s) => s = c
         /\ ~Drawable(s) => c.kind = "image"
  <1>1. CASE c.kind = "color"
    BY <1>1 DEF ReadBack, Drawable, Held
  <1>2. CASE c.kind = "image"
    <2>1. c \in [kind : {"image"}, path : Paths, mode : Modes]
      BY <1>2 DEF Settings
    <2>2. CASE s = c
      BY <1>2, <2>2 DEF Held
    <2>3. CASE s = [c EXCEPT !.path = Garbled]
      <3>1. s \in [kind : {"image"}, path : {Garbled}, mode : Modes]
        BY <2>1, <2>3
      <3>2. s.path = Garbled /\ s.kind = "image" /\ Garbled \notin files
        BY <3>1, WallpaperAssumption DEF TypeOK
      <3> QED
        BY <1>2, <3>1, <3>2 DEF Held, Drawable
    <2> QED
      BY <1>2, <2>2, <2>3 DEF ReadBack
  <1>3. c.kind \in {"color", "image"}
    BY DEF Settings
  <1> QED
    BY <1>1, <1>2, <1>3

(* A process that ends keeps its files, and what it promised with them.    *)
LEMMA DieIInv ==
  ASSUME IInv, NEW why \in {"none", "start", "double free"}, Die(why),
         UNCHANGED <<block, dangling, cache, files, req, reply, promise, drawn>>,
         mem' \in [Outputs -> Held]
  PROVE  IInv'
  <1> USE DEF IInv, Die
  <1>1. TypeOK'
    BY OutputNumbers DEF TypeOK
  <1>2. Durable' /\ Entered' /\ Synced' /\ Unread' /\ Behind' /\ Erred'
    BY DEF Durable, Entered, Synced, Unread, Behind, Erred, Serving
  <1> QED
    BY <1>1, <1>2

LEMMA StartIInv == IInv /\ Start => IInv'
  <1> SUFFICES ASSUME IInv, Start PROVE IInv'
    OBVIOUS
  <1> USE DEF IInv, Start
  <1>1. TypeOK'
    <2>1. /\ Everywhere(None) \in [Outputs -> Held]
          /\ Everywhere(None) \in [Outputs -> Settings \cup {None}]
      BY DEF Everywhere, Held
    <2>2. Everywhere(0) \in [Outputs -> 0..N]
      BY OutputNumbers DEF Everywhere
    <2> QED
      BY <2>1, <2>2, OutputNumbers DEF TypeOK
  <1>2. Durable' /\ Entered' /\ Behind' /\ Erred'
    BY DEF Durable, Entered, Behind, Erred, Serving
  <1>3. Synced' /\ Unread'
    BY OutputNumbers DEF Synced, Unread, Everywhere
  <1> QED
    BY <1>1, <1>2, <1>3

LEMMA RestoreNothingIInv == IInv /\ RestoreNothing => IInv'
  <1> SUFFICES ASSUME IInv, RestoreNothing PROVE IInv'
    OBVIOUS
  <1> USE DEF IInv
  <1>0. at \in Outputs /\ Advance("restore", "idle") /\ stage = "restore" /\ cache[at] = None
    BY DEF RestoreNothing, TypeOK
  <1>a. mem[at] = None
    BY <1>0, OutputNumbers DEF Unread
  <1>1. /\ at \in Outputs /\ at' \in Outputs
        /\ stage = "restore" /\ cache[at] = mem[at]
        /\ UNCHANGED <<memory, cache, drawn, files, req, reply, failure, promise>>
        /\ \/ stage' = "restore" /\ at' = at + 1 /\ at < N
           \/ stage' = "idle" /\ at' = 1 /\ at = N
    BY <1>0, <1>a, Position DEF RestoreNothing
  <1>2. TypeOK'
    BY <1>1 DEF TypeOK, memory
  <1>3. Synced' /\ Unread'
    BY <1>1, OutputNumbers DEF Synced, Unread, memory
  <1>4. Durable' /\ Entered' /\ Behind' /\ Erred'
    BY <1>1 DEF Durable, Entered, Behind, Erred, Serving, memory
  <1> QED
    BY <1>2, <1>3, <1>4

LEMMA RestoreIInv == IInv /\ Restore => IInv'
  <1> SUFFICES ASSUME IInv, Restore PROVE IInv'
    OBVIOUS
  <1> USE DEF IInv
  <1>1. PICK s \in ReadBack(cache[at]) :
          /\ mem' = [mem EXCEPT ![at] = s]
          /\ block' = [block EXCEPT ![at] = IF s.kind = "image" THEN at ELSE 0]
          /\ IF Drawable(s)
             THEN /\ drawn' = [drawn EXCEPT ![at] = s]
                  /\ Advance("restore", "idle")
                  /\ UNCHANGED failure
             ELSE /\ Die("start")
                  /\ UNCHANGED drawn
    BY DEF Restore
  <1>2. /\ at \in Outputs /\ stage = "restore" /\ cache[at] \in Settings
        /\ UNCHANGED <<dangling, cache, files, req, reply, promise>>
    BY DEF Restore, TypeOK
  <1>3. /\ s \in Held
        /\ Drawable(s) => s = cache[at]
        /\ ~Drawable(s) => cache[at].kind = "image"
    BY <1>2, ReadBackHeld
  <1>4. mem' \in [Outputs -> Held] /\ block' \in [Outputs -> 0..N]
    <2>1. mem' \in [Outputs -> Held]
      BY <1>1, <1>2, <1>3 DEF TypeOK
    <2>2. at \in 0..N /\ 0 \in 0..N
      BY <1>2, OutputNumbers
    <2>3. block' \in [Outputs -> 0..N]
      BY <1>1, <1>2, <2>2 DEF TypeOK
    <2> QED
      BY <2>1, <2>3
  <1>5. CASE Drawable(s)
    <2>1. /\ at' \in Outputs
          /\ \/ stage' = "restore" /\ at' = at + 1 /\ at < N
             \/ stage' = "idle" /\ at' = 1 /\ at = N
      BY <1>1, <1>2, <1>5, Position
    <2>2. mem' = [mem EXCEPT ![at] = cache[at]] /\ drawn' = [drawn EXCEPT ![at] = cache[at]]
          /\ UNCHANGED failure
      BY <1>1, <1>3, <1>5
    <2>3. TypeOK'
      BY <1>2, <1>4, <2>1, <2>2 DEF TypeOK
    <2>4. \A o \in Outputs : mem'[o] = IF o = at THEN cache[o] ELSE mem[o]
      BY <2>2 DEF TypeOK
    <2>5. \A o \in Outputs : o < at + 1 => o < at \/ o = at
      BY <1>2, OutputNumbers
    <2>6. \A o \in Outputs : o < at => cache[o] = mem[o]
      BY <1>2 DEF Synced
    <2>7. Synced'
      BY <1>2, <2>1, <2>4, <2>5, <2>6, OutputNumbers DEF Synced
    <2>8. Unread'
      BY <1>2, <2>1, <2>4, OutputNumbers DEF Unread
    <2>9. Durable' /\ Entered' /\ Erred'
      BY <1>2, <2>1, <2>2 DEF Durable, Entered, Erred, Serving
    <2>10. Behind'
      BY <1>2, <2>1, <2>2 DEF Behind
    <2> QED
      BY <2>3, <2>7, <2>8, <2>9, <2>10
  <1>6. CASE ~Drawable(s)
    <2>1. Die("start") /\ UNCHANGED drawn /\ cache[at].kind = "image"
      BY <1>1, <1>3, <1>6
    <2>2. TypeOK'
      BY <1>2, <1>4, <2>1, OutputNumbers DEF TypeOK, Die
    <2>3. Durable' /\ Entered' /\ Synced' /\ Unread' /\ Behind' /\ Erred'
      BY <1>2, <2>1 DEF Durable, Entered, Synced, Unread, Behind, Erred, Serving, Die
    <2> QED
      BY <2>2, <2>3
  <1> QED
    BY <1>5, <1>6

-----------------------------------------------------------------------------
LEMMA ReceiveIInv ==
  ASSUME IInv, NEW r \in Requests, Receive(r)
  PROVE  IInv'
  <1> USE DEF IInv, Receive, memory
  <1>1. TypeOK'
    BY OutputNumbers, WallpaperAssumption DEF TypeOK
  <1>2. Durable' /\ Entered' /\ Synced' /\ Unread' /\ Erred'
    BY DEF Durable, Entered, Synced, Unread, Erred, Serving
  <1>3. Behind'
    BY OutputNumbers DEF Behind
  <1> QED
    BY <1>1, <1>2, <1>3

(* The loop leaves an output with an error sent, or with it carried out.   *)
LEMMA AdvanceIInv ==
  ASSUME IInv, stage \in {"match", "draw"}, Advance("match", "ack"),
         UNCHANGED <<memory, cache, files, req, failure>>,
         drawn' \in [Outputs -> Settings \cup {None}],
         promise' \in [Outputs -> Settings \cup {None}],
         \A o \in Outputs : promise'[o] = promise[o] \/ (o = at /\ promise'[o] = cache[o]),
         reply' = "ERR" => reply = "ERR" \/ at \notin req.to \/ promise'[at] # req.set,
         \/ UNCHANGED drawn /\ reply' \in {"ERR", reply} /\ reply' # "none"
         \/ /\ UNCHANGED reply /\ stage = "draw"
            /\ drawn' = [drawn EXCEPT ![at] = req.set]
  PROVE  IInv'
  <1> USE DEF IInv
  <1>1. /\ at \in Outputs /\ at' \in Outputs
        /\ \/ stage' = "match" /\ at' = at + 1 /\ at < N
           \/ stage' = "ack" /\ at' = 1 /\ at = N
    BY Position DEF TypeOK
  <1>2. TypeOK'
    BY <1>1 DEF TypeOK, memory
  <1>3. Durable'
    BY DEF Durable
  <1>4. Entered' /\ Synced' /\ Unread'
    BY <1>1 DEF Entered, Synced, Unread, Serving, memory
  <1>6. Erred'
    <2> SUFFICES ASSUME reply' = "ERR", req.to = Outputs
                 PROVE  \E o \in req.to : (stage' = "match" => o < at') /\ promise'[o] # req.set
      BY <1>1 DEF Erred
    <2>1. CASE reply = "ERR"
      <3>1. PICK o \in req.to : o < at /\ promise[o] # req.set
        BY <2>1 DEF Erred
      <3>2. promise'[o] # req.set
        BY <3>1, OutputNumbers
      <3>3. o < at + 1
        BY <1>1, <3>1, OutputNumbers
      <3> QED
        BY <1>1, <3>2, <3>3
    <2>2. CASE promise'[at] # req.set
      <3>1. at < at + 1
        BY <1>1, OutputNumbers
      <3> QED
        BY <1>1, <2>2, <3>1
    <2> QED
      BY <1>1, <2>1, <2>2
  <1>5. Behind'
    <2>1. CASE reply' # "none"
      BY <1>1, <2>1 DEF Behind
    <2>2. CASE reply' = "none"
      <3>1. stage = "draw" /\ reply = "none" /\ drawn' = [drawn EXCEPT ![at] = req.set]
        BY <2>2
      <3>2. mem[at] = req.set /\ cache[at] = mem[at]
        BY <1>1, <3>1 DEF Entered, Synced
      <3>3. \A o \in Outputs : drawn'[o] = IF o = at THEN req.set ELSE drawn[o]
        BY <3>1 DEF TypeOK
      <3>4. \A o \in Outputs : o <= at => o < at \/ o = at
        BY <1>1, OutputNumbers
      <3>5. \A o \in Outputs : o < at => On(o)
        BY <3>1 DEF Behind
      <3>6. \A o \in Outputs : o <= at => On(o)'
        BY <3>2, <3>3, <3>4, <3>5 DEF On
      <3>7. \A o \in Outputs : o < at + 1 => o <= at
        BY <1>1, OutputNumbers
      <3> QED
        BY <1>1, <2>2, <3>6, <3>7, OutputNumbers DEF Behind
    <2> QED
      BY <2>1, <2>2
  <1> QED
    BY <1>2, <1>3, <1>4, <1>5, <1>6

LEMMA SetFieldsIInv ==
  ASSUME IInv, stage = "match", at \in req.to, SetFields(NewBlock),
         UNCHANGED <<drawn, files, req, reply>>,
         failure' \in {failure, "double free"}
  PROVE  IInv'
  <1> USE DEF IInv
  <1>1. /\ req \in Requests /\ req.set \in Settings /\ req.to \subseteq Outputs
        /\ at \in Outputs
    BY InHand DEF Serving, TypeOK
  <1>2. NewBlock \in 0..N
    <2> DEFINE earlier == {o \in req.to : o < at}
               b == CHOOSE o \in earlier : TRUE
    <2>1. earlier # {} => b \in Outputs /\ block[b] \in 0..N
      BY <1>1 DEF TypeOK
    <2>2. at \in 0..N /\ 0 \in 0..N
      BY <1>1, OutputNumbers
    <2> QED
      BY <2>1, <2>2 DEF NewBlock
  <1>3. TypeOK'
    <2>1. mem' \in [Outputs -> Held] /\ block' \in [Outputs -> 0..N]
      BY <1>1, <1>2 DEF SetFields, TypeOK, Held
    <2>2. dangling' \subseteq Outputs
      BY <1>1 DEF SetFields, TypeOK, Sharing
    <2>3. cache' \in [Outputs -> Settings \cup {None}] /\ promise' \in [Outputs -> Settings \cup {None}]
      BY <1>1 DEF SetFields, TypeOK
    <2> QED
      BY <1>1, <2>1, <2>2, <2>3 DEF SetFields, TypeOK
  <1>4. Durable' /\ Entered' /\ Synced' /\ Unread'
    BY <1>1 DEF SetFields, Durable, Entered, Synced, Unread, Serving, TypeOK
  <1>5. \A o \in Outputs : o < at => cache'[o] = cache[o]
    <2>1. \A o \in Outputs : o # at => cache'[o] = cache[o]
      BY DEF SetFields, TypeOK
    <2>2. \A o \in Outputs : o < at => o # at
      BY <1>1, OutputNumbers
    <2> QED
      BY <2>1, <2>2
  <1>6. Behind'
    BY <1>5 DEF SetFields, Behind, On
  <1>7. Erred'
    <2>1. \A o \in Outputs : o < at => promise'[o] = promise[o]
      BY <1>1, OutputNumbers DEF SetFields, TypeOK
    <2> QED
      BY <1>1, <2>1 DEF SetFields, Erred
  <1> QED
    BY <1>3, <1>4, <1>6, <1>7

LEMMA WriteIInv == IInv /\ Write => IInv'
  <1> SUFFICES ASSUME IInv, Write PROVE IInv'
    OBVIOUS
  <1> USE DEF IInv, Write, memory
  <1>1. /\ at \in Outputs /\ mem[at] = req.set /\ req.set \in Settings
        /\ promise[at] = None
    BY InHand DEF TypeOK, Entered, Serving
  <1>2. TypeOK'
    BY <1>1 DEF TypeOK
  <1>3. Durable' /\ Entered' /\ Synced' /\ Unread'
    BY <1>1 DEF Durable, Entered, Synced, Unread, Serving, TypeOK
  <1>4. \A o \in Outputs : o < at => cache'[o] = cache[o]
    <2>1. \A o \in Outputs : o # at => cache'[o] = cache[o]
      BY DEF TypeOK
    <2>2. \A o \in Outputs : o < at => o # at
      BY <1>1, OutputNumbers
    <2> QED
      BY <2>1, <2>2
  <1>5. Behind' /\ Erred'
    BY <1>1, <1>4 DEF Behind, On, Erred
  <1> QED
    BY <1>2, <1>3, <1>5

LEMMA ServeIInv == IInv /\ Serve => IInv'
  <1> SUFFICES ASSUME IInv, Serve PROVE IInv'
    OBVIOUS
  <1>1. CASE Mismatch
    <2>1. /\ reply' \in {"ERR", reply} /\ reply' # "none" /\ at \notin req.to
          /\ promise' \in [Outputs -> Settings \cup {None}]
          /\ drawn' \in [Outputs -> Settings \cup {None}]
      BY <1>1 DEF Mismatch, Answer, IInv, TypeOK
    <2>2. \A o \in Outputs : promise'[o] = promise[o]
      BY <1>1 DEF Mismatch
    <2>3. /\ stage \in {"match", "draw"} /\ Advance("match", "ack") /\ UNCHANGED drawn
          /\ UNCHANGED <<memory, cache, files, req, failure>>
      BY <1>1 DEF Mismatch
    <2> QED
      BY <2>1, <2>2, <2>3, AdvanceIInv
  <1>2. CASE DrawFails
    <2>1. promise[at] # req.set
      BY <1>2, InHand DEF DrawFails, IInv, Entered, Settings, None, Serving
    <2>2. /\ reply' \in {"ERR", reply} /\ reply' # "none"
          /\ promise' \in [Outputs -> Settings \cup {None}]
          /\ drawn' \in [Outputs -> Settings \cup {None}]
      BY <1>2 DEF DrawFails, Answer, IInv, TypeOK
    <2>3. promise' = promise
      BY <1>2 DEF DrawFails
    <2>4. /\ \A o \in Outputs : promise'[o] = promise[o]
          /\ promise'[at] # req.set
      BY <2>1, <2>3
    <2>5. /\ stage \in {"match", "draw"} /\ Advance("match", "ack") /\ UNCHANGED drawn
          /\ UNCHANGED <<memory, cache, files, req, failure>>
      BY <1>2 DEF DrawFails
    <2> QED
      BY <2>2, <2>4, <2>5, AdvanceIInv
  <1>3. CASE Draw
    <2>1. /\ at \in Outputs /\ mem[at] = req.set /\ req.set \in Settings
          /\ cache[at] = mem[at]
      BY <1>3, InHand DEF Draw, IInv, TypeOK, Entered, Synced, Serving
    <2>2. /\ drawn' \in [Outputs -> Settings \cup {None}]
          /\ promise' \in [Outputs -> Settings \cup {None}]
          /\ drawn' = [drawn EXCEPT ![at] = req.set]
      BY <1>3, <2>1 DEF Draw, IInv, TypeOK
    <2>3. UNCHANGED reply /\ promise' = [promise EXCEPT ![at] = cache[at]]
      BY <1>3, <2>1 DEF Draw
    <2>4. \A o \in Outputs : promise'[o] = promise[o] \/ (o = at /\ promise'[o] = cache[o])
      <3>1. promise \in [Outputs -> Settings \cup {None}]
        BY DEF IInv, TypeOK
      <3> QED
        BY <2>3, <3>1
    <2>5. reply # "ACK" /\ stage = "draw"
      BY <1>3 DEF Draw, IInv, Behind
    <2>6. reply' = "ERR" => reply = "ERR"
      BY <2>3
    <2> QED
      BY <1>3, <2>2, <2>3, <2>4, <2>5, <2>6, AdvanceIInv DEF Draw
  <1>4. CASE Assign
    BY <1>4, SetFieldsIInv DEF Assign
  <1>5. CASE AssignDoubleFree
    <2>1. CASE Die("double free") /\ UNCHANGED <<memory, cache, promise>>
      BY <1>5, <2>1, DieIInv DEF AssignDoubleFree, memory, IInv, TypeOK
    <2>2. CASE SetFields(NewBlock) /\ failure' = "double free"
      BY <1>5, <2>2, SetFieldsIInv DEF AssignDoubleFree
    <2> QED
      BY <1>5, <2>1, <2>2 DEF AssignDoubleFree
  <1>6. CASE Write
    BY <1>6, WriteIInv
  <1>7. CASE Finish
    <2> USE <1>7 DEF Finish, Answer, IInv, memory
    <2>1. TypeOK'
      BY OutputNumbers DEF TypeOK
    <2>2. Durable' /\ Entered' /\ Synced' /\ Unread' /\ Erred'
      BY DEF Durable, Entered, Synced, Unread, Erred, Serving
    <2>3. Behind'
      BY DEF Behind, On
    <2> QED
      BY <2>1, <2>2, <2>3
  <1> QED
    BY <1>1, <1>2, <1>3, <1>4, <1>5, <1>6, <1>7 DEF Serve

(* The image files play no part in the invariant.                          *)
LEMMA TouchIInv ==
  ASSUME IInv, NEW p \in Paths, Touch(p)
  PROVE  IInv'
  <1> USE DEF IInv, Touch, memory
  <1>1. TypeOK'
    BY OutputNumbers DEF TypeOK
  <1>2. Durable' /\ Entered' /\ Synced' /\ Unread' /\ Behind' /\ Erred'
    BY DEF Durable, Entered, Synced, Unread, Behind, On, Erred, Serving
  <1> QED
    BY <1>1, <1>2

LEMMA StepIInv == IInv /\ [Next]_vars => IInv'
  <1> SUFFICES ASSUME IInv, [Next]_vars PROVE IInv'
    OBVIOUS
  <1>1. CASE Kill \/ Crash
    <2>1. /\ Die(failure) \/ Die("double free")
          /\ UNCHANGED <<memory, cache, drawn, files, req, reply, promise>>
      BY <1>1 DEF Kill, Crash
    <2>2. stage # "down"
      BY <1>1 DEF Kill, Crash
    <2> QED
      BY <2>1, <2>2, DieIInv DEF memory, IInv, TypeOK, Erred
  <1>2. CASE UNCHANGED vars
    <2> USE <1>2 DEF vars, memory, IInv
    <2>1. TypeOK'
      BY OutputNumbers DEF TypeOK
    <2>2. Durable' /\ Entered' /\ Synced' /\ Unread' /\ Behind' /\ Erred'
      BY DEF Durable, Entered, Synced, Unread, Behind, On, Erred, Serving
    <2> QED
      BY <2>1, <2>2
  <1> QED
    BY <1>1, <1>2, StartIInv, RestoreNothingIInv, RestoreIInv, ReceiveIInv,
       ServeIInv, TouchIInv DEF Next

LEMMA Invariant == Spec => []IInv
  BY InitIInv, StepIInv, PTL DEF Spec

-----------------------------------------------------------------------------
(* Every variable keeps its range; in particular the cache never holds a   *)
(* path that was read back wrong.                                          *)
THEOREM TypeCorrect == Spec => []TypeOK
  <1>1. IInv => TypeOK
    BY DEF IInv
  <1> QED
    BY <1>1, Invariant, PTL

(* A wallpaper that was put on the screen survives every crash, restart,   *)
(* failure and other request in its output's file.                         *)
THEOREM DurableAlways == Spec => []Durable
  <1>1. IInv => Durable
    BY DEF IInv
  <1> QED
    BY <1>1, Invariant, PTL

(* Memory and cache agree whenever the daemon is idle.                     *)
THEOREM Agreement == Spec => []MemoryMatchesCache
  <1>1. IInv => MemoryMatchesCache
    BY DEF IInv, MemoryMatchesCache, Synced
  <1> QED
    BY <1>1, Invariant, PTL

(* ACK: the wallpaper is on every output and in every file.  Error: some   *)
(* outputs were not named, or one does not show what was asked for.        *)
THEOREM Acknowledgement == Spec => []AnswerExplained
  <1>1. IInv => AnswerExplained
    BY DEF IInv, AnswerExplained, Behind, On, Erred
  <1> QED
    BY <1>1, Invariant, PTL

(* Start-up fails only over a saved image that is unusable, or that was    *)
(* read back with stray bytes.                                             *)
THEOREM StartFailures == Spec => StartFailsExplained
  <1> DEFINE Over(o) == /\ cache[o].kind = "image"
                        /\ ~Drawable(cache[o]) \/ mem'[o].path = Garbled
             Explained == failure' = "start" /\ failure # "start" => \E o \in Outputs : Over(o)
  <1>1. ASSUME IInv, [Next]_vars PROVE [Explained]_vars
    <2>1. CASE Restore
      <3>1. PICK s \in ReadBack(cache[at]) :
              /\ mem' = [mem EXCEPT ![at] = s]
              /\ Drawable(s) => UNCHANGED failure
        BY <2>1 DEF Restore
      <3>2. at \in Outputs /\ cache[at] \in Settings /\ mem'[at] = s
        BY <1>1, <2>1, <3>1 DEF Restore, IInv, TypeOK
      <3>3. ~Drawable(s) => cache[at].kind = "image"
        BY <1>1, <3>2, ReadBackHeld DEF IInv
      <3>4. s = cache[at] \/ s.path = Garbled
        BY <3>2 DEF ReadBack, Settings
      <3>5. ~Drawable(s) => Over(at)
        BY <3>2, <3>3, <3>4
      <3> QED
        BY <3>1, <3>2, <3>5
    <2>2. CASE failure' = "start" => failure = "start"
      BY <2>2
    <2>3. CASE Start \/ RestoreNothing \/ Serve \/ Kill \/ Crash \/ UNCHANGED vars
               \/ (\E r \in Requests : Receive(r)) \/ \E p \in Paths : Touch(p)
      BY <2>2, <2>3 DEF Start, RestoreNothing, Serve, Mismatch, Assign, AssignDoubleFree, Write,
         Draw, DrawFails, Finish, Kill, Crash, Die, Receive, Touch, vars
    <2> QED
      BY <1>1, <2>1, <2>3 DEF Next
  <1> HIDE DEF Explained
  <1>2. Spec => [][Explained]_vars
    BY <1>1, Invariant, PTL DEF Spec
  <1> QED
    BY <1>2 DEF Explained, StartFailsExplained

-----------------------------------------------------------------------------
(* When an image string is freed twice                                     *)

\* No request for an image names two outputs, as "all" does where there are two.
Alone == \A r \in Requests : r.set.kind = "image" => \A o, p \in r.to : o = p

\* Every image_path is a string of its own.
Own ==
    /\ \A o \in Outputs : block[o] \in {0, o}
    /\ dangling = {}
    /\ failure # "double free"

(* The strings that are not shared, and the one a request makes.           *)
LEMMA OwnShared ==
  ASSUME TypeOK, Own, NEW o \in Outputs
  PROVE  Sharing(o) = {}
<1> SUFFICES ASSUME NEW p \in Outputs, p # o, block[o] # 0, block[p] = block[o] PROVE FALSE
  BY DEF Sharing
<1>1. block[o] = o /\ block[p] \in {0, p} /\ o # 0
  BY OutputNumbers DEF Own
<1> QED
  BY <1>1

LEMMA OwnNew ==
  ASSUME Alone, TypeOK, req \in Requests, at \in req.to
  PROVE  NewBlock \in {0, at}
<1>1. req.set.kind = "image" => {o \in req.to : o < at} = {}
  <2> SUFFICES ASSUME req.set.kind = "image", NEW o \in req.to, o < at PROVE FALSE
    OBVIOUS
  <2>1. o = at
    BY DEF Alone
  <2>2. at \in Nat
    BY OutputNumbers DEF TypeOK
  <2> QED
    BY <2>1, <2>2
<1>2. req.set.kind \in {"color", "image"}
  BY WallpaperAssumption DEF AllRequests, Settings
<1> QED
  BY <1>1, <1>2 DEF NewBlock

LEMMA OwnStep ==
  ASSUME Alone, IInv, Own, [Next]_vars
  PROVE  Own'
<1> USE DEF IInv
<1>1. CASE Start
  BY <1>1 DEF Start, Own, Everywhere
<1>2. CASE Restore
  <2>1. block' = [block EXCEPT ![at] = block'[at]] /\ block'[at] \in {0, at} /\ UNCHANGED dangling
    BY <1>2 DEF Restore, TypeOK
  <2>2. failure' \in {failure, "start"}
    BY <1>2 DEF Restore, Die
  <2> QED
    BY <2>1, <2>2 DEF Own, TypeOK
<1>3. CASE Assign
  <2>1. req \in Requests /\ at \in req.to /\ at \in Outputs
    BY <1>3 DEF Assign, Entered, Serving, TypeOK
  <2>2. NewBlock \in {0, at} /\ Sharing(at) = {}
    BY <2>1, OwnNew, OwnShared
  <2>3. block' = [block EXCEPT ![at] = NewBlock] /\ dangling' = (dangling \cup Sharing(at)) \ {at}
        /\ UNCHANGED failure
    BY <1>3 DEF Assign, SetFields
  <2>4. dangling' = {}
    BY <2>2, <2>3 DEF Own
  <2>5. \A o \in Outputs : block'[o] \in {0, o}
    BY <2>2, <2>3 DEF Own, TypeOK
  <2> QED
    BY <2>3, <2>4, <2>5 DEF Own
<1>4. CASE AssignDoubleFree
  BY <1>4 DEF AssignDoubleFree, Own
<1>5. CASE Kill
  <2>1. ~\E o \in Outputs : o \in dangling \/ Sharing(o) # {}
    BY OwnShared DEF Own
  <2>2. UNCHANGED <<block, dangling, failure>>
    BY <1>5, <2>1 DEF Kill, Die, memory
  <2> QED
    BY <2>2 DEF Own
<1>6. CASE UNCHANGED <<block, dangling, failure>>
  BY <1>6 DEF Own
<1>7. CASE Draw \/ DrawFails \/ Crash \/ RestoreNothing \/ Mismatch \/ Write \/ Finish
           \/ (\E r \in Requests : Receive(r)) \/ \E p \in Paths : Touch(p)
  BY <1>6, <1>7 DEF Draw, DrawFails, Crash, Die, RestoreNothing, Mismatch, Write, Finish, Receive, Touch, memory
<1> QED
  BY <1>1, <1>2, <1>3, <1>4, <1>5, <1>6, <1>7 DEF Next, Serve, vars, memory

(* That an image is set for two outputs at once is all that ever makes an  *)
(* image_path be freed twice (the request's one string, main()).           *)
THEOREM OnlySharedFreedTwice ==
  ASSUME Alone
  PROVE  Spec => []NoDoubleFree
<1>1. Init => Own
  BY DEF Init, Own, Everywhere
<1>2. IInv /\ Own /\ [Next]_vars => Own'
  BY OwnStep
<1>3. Own => NoDoubleFree
  BY DEF Own, NoDoubleFree
<1> QED
  BY <1>1, <1>2, <1>3, Invariant, PTL DEF Spec

=============================================================================

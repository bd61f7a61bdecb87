-------------------------------- MODULE Ipc --------------------------------
(***************************************************************************)
(* The conversations between xdwlw processes and one xdwlwd: connect, one  *)
(* request, one reply, over a stream socket whose two ends may vanish at   *)
(* any point.  The daemon is single-threaded: its poll loop accepts a      *)
(* connection, blocks until that client has sent something, serves the     *)
(* request output by output and answers; Wayland events are dispatched     *)
(* only when no connection is waiting.                                     *)
(*                                                                         *)
(* What a request does to an output is Wallpaper's subject; here an output *)
(* has another name, fails, or is drawn.  Drawing, and dispatching events, *)
(* waits for the compositor in roundtrips, and these may never return      *)
(* (EventLoop).                                                            *)
(***************************************************************************)
EXTENDS Naturals, Sequences, FiniteSets

CONSTANTS Clients,   \* users, each running one xdwlw at a time
          Killers,   \* the ones run with --kill
          Outputs,   \* how many outputs the daemon has
          Backlog,   \* the argument of listen(): one more connection may wait
          MaxFds,    \* descriptors the daemon has for accepted connections
          NoClient   \* cfd names no connection

ASSUME IpcAssumption ==
    /\ Killers \subseteq Clients
    /\ NoClient \notin Clients
    /\ Outputs \in Nat
    /\ Backlog \in Nat
    /\ MaxFds \in Nat \ {0}

VARIABLES
    pc,       \* each client: "start", "connected", "waiting", or how it ended
    queue,    \* connections that wait for accept()
    ends,     \* clients whose server-side descriptor exists
    inbox,    \* clients whose request is in the socket, unread
    outbox,   \* the reply in each client's socket: "none", "ACK" or "ERR"
    reset,    \* clients whose socket reports ECONNRESET
    dpc,      \* the daemon: "poll", "recv", "serve", "leave", "dead", or in a
              \* roundtrip: "draw" or "dispatch"
    cur,      \* the client of the accepted connection, or NoClient
    left,     \* outputs the current request has still to visit
    pending,  \* there are Wayland events to read
    work,     \* history: each request "none", "partial", "clean" or "failed"
    mismatch  \* history: the clients that some output did not know itself named by

client == <<pc, queue>>
daemon == <<dpc, cur, left, pending, work, mismatch>>
socket == <<ends, inbox, outbox, reset>>
vars == <<client, daemon, socket>>

Ended  == {"exit0", "exit1", "killed"}
Leaked == {c \in ends : c # cur /\ \A i \in DOMAIN queue : queue[i] # c}
Exhausted == Cardinality(Leaked) >= MaxFds
Vanished(c) == pc[c] = "killed"

Init ==
    /\ pc      = [c \in Clients |-> "start"]
    /\ queue   = <<>>
    /\ ends    = {}
    /\ inbox   = {}
    /\ outbox  = [c \in Clients |-> "none"]
    /\ reset   = {}
    /\ dpc     = "poll"
    /\ cur     = NoClient
    /\ left    = 0
    /\ pending = FALSE
    /\ work    = [c \in Clients |-> "none"]
    /\ mismatch = {}

-----------------------------------------------------------------------------
(* xdwlw                                                                   *)

Become(c, from, to) ==
    /\ pc[c] = from
    /\ pc' = [pc EXCEPT ![c] = to]

\* connect() waits while the backlog is full.
Connect(c) ==
    /\ Become(c, "start", "connected")
    /\ dpc # "dead"
    /\ Len(queue) <= Backlog
    /\ queue' = Append(queue, c)
    /\ ends' = ends \cup {c}
    /\ UNCHANGED <<inbox, outbox, reset, daemon>>

\* No daemon, or one that went away with the connection still waiting.
Refused(c) ==
    /\ Become(c, "start", "exit1")
    /\ dpc = "dead"
    /\ UNCHANGED <<queue, socket, daemon>>

SendRequest(c) ==
    /\ Become(c, "connected", "waiting")
    /\ c \in ends
    /\ inbox' = inbox \cup {c}
    /\ UNCHANGED <<queue, ends, outbox, reset, daemon>>

\* send() to a daemon that has closed the connection raises SIGPIPE.
SendBroken(c) ==
    /\ Become(c, "connected", "killed")
    /\ c \notin ends
    /\ UNCHANGED <<queue, socket, daemon>>

ReceiveReply(c) ==
    /\ \/ outbox[c] = "ACK" /\ Become(c, "waiting", "exit0")
       \/ outbox[c] = "ERR" /\ Become(c, "waiting", "exit1")
    /\ UNCHANGED <<queue, socket, daemon>>

Unanswered(c) == outbox[c] = "none" /\ c \notin ends

\* recv() returns 0: no response.
ReceiveEof(c) ==
    /\ Become(c, "waiting", "exit1")
    /\ Unanswered(c) /\ c \notin reset
    /\ UNCHANGED <<queue, socket, daemon>>

\* recv() returns -1, which is not looked at: the zeroed buffer reads as a
\* reply of type IPC_UNKNOWN, worth a warning.
ReceiveError(c) ==
    /\ Become(c, "waiting", "exit0")
    /\ Unanswered(c) /\ c \in reset
    /\ UNCHANGED <<queue, socket, daemon>>

\* The user interrupts xdwlw.
Vanish(c) ==
    /\ Become(c, "connected", "killed") \/ Become(c, "waiting", "killed")
    /\ UNCHANGED <<queue, socket, daemon>>

\* The user runs xdwlw once more.
Again(c) ==
    /\ \E e \in Ended : Become(c, e, "start")
    /\ c \notin ends /\ c # cur
    /\ inbox' = inbox \ {c}
    /\ outbox' = [outbox EXCEPT ![c] = "none"]
    /\ reset' = reset \ {c}
    /\ work' = [work EXCEPT ![c] = "none"]
    /\ mismatch' = mismatch \ {c}
    /\ UNCHANGED <<queue, ends, dpc, cur, left, pending>>

-----------------------------------------------------------------------------
(* xdwlwd                                                                  *)

\* The process ends: the kernel closes every descriptor.  A client whose
\* connection was not accepted, or whose request was not read, gets
\* ECONNRESET; the others get end of file.
Down ==
    /\ dpc' = "dead"
    /\ reset' = reset \cup (ends \cap inbox) \cup {queue[i] : i \in DOMAIN queue}
    /\ ends' = {}
    /\ queue' = <<>>
    /\ cur' = NoClient
    /\ UNCHANGED outbox

\* Mutant: ipc_server_send() that leaves the connection open for more.
Reply_KeepOpen(c, r, next) ==
    IF Vanished(c) THEN Down
    ELSE /\ outbox' = [outbox EXCEPT ![c] = r]
         /\ next
         /\ UNCHANGED <<ends, reset, queue>>

\* ipc_server_send(): send, then close.  A second reply on the same request
\* finds cfd closed and goes nowhere; a first one to a client that has
\* vanished raises SIGPIPE, which nothing handles.  "next" is what the
\* daemon does when it survives.
Reply(c, r, next) ==
    CASE c \notin ends -> next /\ UNCHANGED <<outbox, ends, reset, queue>>
      [] c \in ends /\ Vanished(c) -> Down
      [] OTHER -> /\ outbox' = [outbox EXCEPT ![c] = r]
                  /\ ends' = ends \ {c}
                  /\ next
                  /\ UNCHANGED <<reset, queue>>

\* With no descriptor left accept() fails, the connection stays in the
\* backlog and poll() reports it again at once.
Accept ==
    /\ dpc = "poll"
    /\ queue # <<>>
    /\ ~Exhausted
    /\ cur' = Head(queue)
    /\ queue' = Tail(queue)
    /\ dpc' = "recv"
    /\ UNCHANGED <<pc, socket, left, pending, work, mismatch>>

ReadRequest ==
    /\ dpc = "recv"
    /\ cur \in inbox \ Killers
    /\ inbox' = inbox \ {cur}
    /\ left' = Outputs
    /\ dpc' = "serve"
    /\ work' = [work EXCEPT ![cur] = "partial"]
    /\ UNCHANGED <<client, ends, outbox, reset, cur, pending, mismatch>>

\* The acknowledgement comes before the exit path.
ReadKill ==
    /\ dpc = "recv"
    /\ cur \in inbox \cap Killers
    /\ inbox' = inbox \ {cur}
    /\ work' = [work EXCEPT ![cur] = "clean"]
    /\ Reply(cur, "ACK", dpc' = "leave" /\ UNCHANGED cur)
    /\ UNCHANGED <<pc, left, pending, mismatch>>

\* Mutant: end of file is taken for a request yet to come.
ReadNothing_Retry ==
    /\ dpc = "recv"
    /\ cur \notin inbox /\ Vanished(cur)
    /\ UNCHANGED vars

\* recv() returns 0 for a client that left before it sent: IPC_UNKNOWN, for
\* which cfd is neither answered nor closed.
ReadNothing ==
    /\ dpc = "recv"
    /\ cur \notin inbox /\ Vanished(cur)
    /\ dpc' = "poll"
    /\ cur' = NoClient
    /\ UNCHANGED <<client, socket, left, pending, work, mismatch>>

\* The loop comes to an output of another name: an error reply, and on.
OutputOther ==
    /\ dpc = "serve" /\ left > 0
    /\ left' = left - 1
    /\ mismatch' = mismatch \cup {cur}
    /\ Reply(cur, "ERR", UNCHANGED <<dpc, cur>>)
    /\ UNCHANGED <<pc, inbox, pending, work>>

\* ... to one whose image cannot be drawn: likewise.
OutputFails ==
    /\ dpc = "serve" /\ left > 0
    /\ left' = left - 1
    /\ work' = [work EXCEPT ![cur] = "failed"]
    /\ Reply(cur, "ERR", UNCHANGED <<dpc, cur>>)
    /\ UNCHANGED <<pc, inbox, pending, mismatch>>

\* ... to one that is drawn, which ends in the roundtrip of apply().
OutputDraws ==
    /\ dpc = "serve" /\ left > 0
    /\ left' = left - 1
    /\ dpc' = "draw"
    /\ UNCHANGED <<client, socket, cur, pending, work, mismatch>>

\* The roundtrip returns, if it does; it has read what the compositor had sent.
OutputDrawn ==
    /\ dpc = "draw"
    /\ dpc' = "serve"
    /\ pending' \in {pending, FALSE}
    /\ UNCHANGED <<client, socket, cur, left, work, mismatch>>

\* Mutant: acknowledge without waiting for the outputs.
Finish_Early ==
    /\ dpc = "serve"
    /\ Reply(cur, "ACK", dpc' = "poll" /\ cur' = NoClient)
    /\ UNCHANGED <<pc, inbox, left, pending, work, mismatch>>

\* Mutant: the loop goes back to poll() with cfd still set.
Finish_KeepCfd ==
    /\ dpc = "serve" /\ left = 0
    /\ work' = [work EXCEPT ![cur] = IF @ = "failed" THEN @ ELSE "clean"]
    /\ Reply(cur, "ACK", dpc' = "poll" /\ UNCHANGED cur)
    /\ UNCHANGED <<pc, inbox, left, pending, mismatch>>

\* Mutant: no final answer.
Finish_Silent ==
    /\ dpc = "serve" /\ left = 0
    /\ work' = [work EXCEPT ![cur] = IF @ = "failed" THEN @ ELSE "clean"]
    /\ dpc' = "poll" /\ cur' = NoClient
    /\ UNCHANGED <<client, socket, left, pending, mismatch>>

\* The acknowledgement is sent after the loop, whatever happened in it.
Finish ==
    /\ dpc = "serve" /\ left = 0
    /\ work' = [work EXCEPT ![cur] = IF @ = "failed" THEN @ ELSE "clean"]
    /\ Reply(cur, "ACK", dpc' = "poll" /\ cur' = NoClient)
    /\ UNCHANGED <<pc, inbox, left, pending, mismatch>>

\* Events are read only when no connection waits; their handlers may wait in
\* roundtrips of their own.
Dispatch ==
    /\ dpc = "poll"
    /\ queue = <<>>
    /\ pending
    /\ pending' = FALSE
    /\ dpc' = "dispatch"
    /\ UNCHANGED <<client, socket, cur, left, work, mismatch>>

Dispatched ==
    /\ dpc = "dispatch"
    /\ dpc' = "poll"
    /\ UNCHANGED <<client, socket, cur, left, pending, work, mismatch>>

\* The end of the path taken after a kill request.
Leave ==
    /\ dpc = "leave"
    /\ Down
    /\ UNCHANGED <<pc, inbox, left, pending, work, mismatch>>

\* A failure while drawing or dispatching, SIGTERM, a crash.
Stop ==
    /\ dpc # "dead"
    /\ Down
    /\ UNCHANGED <<pc, inbox, left, pending, work, mismatch>>

\* The compositor sends events.
Post ==
    /\ ~pending
    /\ pending' = TRUE
    /\ UNCHANGED <<client, socket, dpc, cur, left, work, mismatch>>

-----------------------------------------------------------------------------
\* What an xdwlw that is waiting for its reply does.
Receive(c) == ReceiveReply(c) \/ ReceiveEof(c) \/ ReceiveError(c)

Client(c) ==
    \/ Connect(c) \/ Refused(c) \/ SendRequest(c) \/ SendBroken(c)
    \/ Receive(c) \/ Vanish(c) \/ Again(c)

\* The daemon's steps that wait for no one.
Daemon ==
    \/ Accept \/ ReadRequest \/ ReadKill \/ ReadNothing
    \/ OutputOther \/ OutputFails \/ OutputDraws \/ Finish \/ Dispatch \/ Leave

Next ==
    \/ \E c \in Clients : Client(c)
    \/ Daemon \/ OutputDrawn \/ Dispatched \/ Stop \/ Post

Spec == Init /\ [][Next]_vars

\* Processes that can run do run.  Nobody has to start xdwlw, to interrupt it
\* or to stop the daemon; a client that has connected need not say anything;
\* and no roundtrip has to return.
FairSpec == Spec /\ WF_vars(Daemon) /\ \A c \in Clients : WF_vars(Receive(c))

\* The daemon waits for the compositor, or for a client that says nothing.
Suspended ==
    \/ dpc \in {"draw", "dispatch"}
    \/ dpc = "recv" /\ cur \notin inbox /\ ~Vanished(cur)

-----------------------------------------------------------------------------
TypeOK ==
    /\ pc \in [Clients -> {"start", "connected", "waiting"} \cup Ended]
    /\ queue \in Seq(Clients) /\ Len(queue) <= Backlog + 1
    /\ ends \subseteq Clients /\ inbox \subseteq Clients /\ reset \subseteq Clients
    /\ outbox \in [Clients -> {"none", "ACK", "ERR"}]
    /\ dpc \in {"poll", "recv", "serve", "draw", "dispatch", "leave", "dead"}
    /\ cur \in Clients \cup {NoClient}
    /\ cur = NoClient <=> dpc \in {"poll", "dispatch", "dead"}
    /\ left \in 0..Outputs
    /\ pending \in BOOLEAN
    /\ work \in [Clients -> {"none", "partial", "clean", "failed"}]
    /\ mismatch \subseteq Clients

(* An acknowledged request has been carried out on every output: although  *)
(* IPC_ACK is sent after every request, one that failed somewhere, or did  *)
(* not name some output, is answered by its error.                         *)
AckMeansServed ==
    \A c \in Clients : outbox[c] = "ACK" => work[c] = "clean" /\ c \notin mismatch

(* Whatever clients and daemon do to each other, xdwlw exits with 0 only   *)
(* for a request that was carried out on every output, or when the daemon  *)
(* went away without having read it; and with 1 only for a request that    *)
(* failed on an output or did not name one, or when the daemon is gone.    *)
(* (That a request that names one output of several exits with 1 although  *)
(* it was carried out is Wallpaper's NamedOutputSet.)                      *)
ExitStatusExplained ==
    \A c \in Clients :
        /\ pc[c] = "exit0" =>
              \/ work[c] = "clean" /\ c \notin mismatch
              \/ work[c] = "none" /\ dpc = "dead" /\ c \in reset
        /\ pc[c] = "exit1" => work[c] = "failed" \/ c \in mismatch \/ dpc = "dead"

(* The only connections the daemon forgets to close are those of clients   *)
(* that vanished before they asked for anything.                           *)
OnlyVanishedLeak == \A c \in Leaked : Vanished(c) /\ work[c] = "none"

(* A client that has sent its request is answered, or sees the daemon go.  *)
(* Only three things can keep it waiting: a roundtrip that never returns,  *)
(* another client that has connected and says nothing, and forgotten       *)
(* connections that have used up the daemon's descriptors.  Other requests *)
(* cannot, however many follow.                                            *)
Answered == \A c \in Clients :
    pc[c] = "waiting" ~> pc[c] \in Ended \/ Exhausted \/ []Suspended

(* Wayland events are dispatched in the end, unless the daemon waits for   *)
(* ever or finds connections again and again: poll()'s other result is     *)
(* looked at only when none waits, be it that new ones keep coming or that *)
(* the daemon has no descriptor left to take them.                         *)
EventsHandled ==
    pending ~> ~pending \/ dpc = "dead" \/ []Suspended \/ []<>(queue # <<>>)

=============================================================================

----------------------------- MODULE IpcProofs -----------------------------
(***************************************************************************)
(* What a reply means, for any number of clients and outputs.  The         *)
(* argument: ipc_server_send() closes the connection it has written to, so *)
(* a connection the daemon can still write to has had no reply (Unreplied),*)
(* and a request that has failed on an output, or not named one, has lost  *)
(* its connection before the final acknowledgement is sent (InHand).       *)
(***************************************************************************)
EXTENDS Ipc, TLAPS

States == {"start", "connected", "waiting"} \cup Ended

Ranges ==
    /\ pc \in [Clients -> States]
    /\ queue \in Seq(Clients)
    /\ ends \subseteq Clients
    /\ outbox \in [Clients -> {"none", "ACK", "ERR"}]
    /\ dpc \in {"poll", "recv", "serve", "draw", "dispatch", "leave", "dead"}
    /\ cur \in Clients \cup {NoClient}
    /\ dpc \in {"recv", "serve", "draw", "leave"} => cur \in Clients
    /\ work \in [Clients -> {"none", "partial", "clean", "failed"}]
    /\ mismatch \subseteq Clients

\* A connection waits at most once, and only before it is accepted.
Waiting ==
    /\ \A i \in 1..Len(queue) : queue[i] \in ends /\ queue[i] # cur /\ queue[i] \notin mismatch
    /\ \A i, j \in 1..Len(queue) : queue[i] = queue[j] => i = j

\* A client that has not connected has no connection.
Unstarted == \A c \in Clients : pc[c] = "start" =>
    c \notin ends /\ c # cur /\ outbox[c] = "none" /\ c \notin mismatch

\* A connection that can still be written to has had no reply.
Unreplied == \A c \in ends : outbox[c] = "none"

\* The request in hand has not been acknowledged, and once an error was sent
\* it cannot be.
InHand ==
    /\ dpc = "recv" => cur \in ends /\ cur \notin mismatch
    /\ dpc \in {"serve", "draw"} => outbox[cur] # "ACK"
    /\ dpc \in {"serve", "draw"} /\ (work[cur] = "failed" \/ cur \in mismatch) => cur \notin ends

IInv == Ranges /\ Waiting /\ Unstarted /\ Unreplied /\ InHand /\ AckMeansServed

-----------------------------------------------------------------------------
LEMMA InitIInv == Init => IInv
  BY IpcAssumption DEF Init, IInv, Ranges, States, Waiting, Unstarted, Unreplied,
                       InHand, AckMeansServed

(* The process ends: nothing it could still write to is left.              *)
LEMMA DownIInv ==
  ASSUME IInv, Down, UNCHANGED pc,
         work' \in [Clients -> {"none", "partial", "clean", "failed"}],
         \A c \in Clients : work'[c] # work[c] => outbox[c] # "ACK" \/ work'[c] = "clean",
         mismatch' \subseteq Clients,
         \A c \in mismatch' : c \in mismatch \/ (c = cur /\ outbox[c] # "ACK")
  PROVE  IInv'
  BY IpcAssumption DEF Down, IInv, Ranges, Waiting, Unstarted, Unreplied, InHand,
                       AckMeansServed

(* The waiting connections after one has been taken from the front.        *)
LEMMA TailWaiting ==
  ASSUME NEW q \in Seq(Clients), q # <<>>,
         \A i, j \in 1..Len(q) : q[i] = q[j] => i = j
  PROVE  /\ Tail(q) \in Seq(Clients)
         /\ Head(q) \in Clients /\ Head(q) = q[1] /\ 1 \in 1..Len(q)
         /\ \A i \in 1..Len(Tail(q)) : i + 1 \in 1..Len(q) /\ Tail(q)[i] = q[i + 1]
         /\ \A i \in 1..Len(Tail(q)) : Tail(q)[i] # Head(q)
         /\ \A i, j \in 1..Len(Tail(q)) : Tail(q)[i] = Tail(q)[j] => i = j
  OBVIOUS

LEMMA AcceptIInv == IInv /\ Accept => IInv'
  <1> SUFFICES ASSUME IInv, Accept PROVE IInv'
    OBVIOUS
  <1>1. /\ queue \in Seq(Clients) /\ queue # <<>>
        /\ \A i, j \in 1..Len(queue) : queue[i] = queue[j] => i = j
    BY DEF IInv, Ranges, Waiting, Accept
  <1> DEFINE t == Tail(queue)
  <1>2. /\ t \in Seq(Clients)
        /\ Head(queue) \in Clients /\ Head(queue) = queue[1] /\ 1 \in 1..Len(queue)
        /\ \A i \in 1..Len(t) : i + 1 \in 1..Len(queue) /\ t[i] = queue[i + 1]
        /\ \A i \in 1..Len(t) : t[i] # Head(queue)
        /\ \A i, j \in 1..Len(t) : t[i] = t[j] => i = j
    BY <1>1, TailWaiting
  <1>3. Head(queue) \in ends /\ Head(queue) \notin mismatch
    BY <1>2 DEF IInv, Waiting
  <1>4. /\ queue' = t /\ cur' = Head(queue) /\ dpc' = "recv"
        /\ UNCHANGED <<pc, ends, outbox, work, mismatch>>
    BY DEF Accept, socket
  <1> HIDE DEF t
  <1>5. Ranges'
    BY <1>2, <1>4 DEF IInv, Ranges
  <1>6. Waiting'
    BY <1>2, <1>4 DEF IInv, Waiting
  <1>7. Unstarted' /\ Unreplied' /\ InHand' /\ AckMeansServed'
    BY <1>2, <1>3, <1>4 DEF IInv, Unstarted, Unreplied, InHand, AckMeansServed
  <1> QED
    BY <1>5, <1>6, <1>7 DEF IInv

LEMMA ConnectIInv ==
  ASSUME IInv, NEW c \in Clients, Connect(c)
  PROVE  IInv'
  <1> USE DEF Connect, Become, IInv
  <1>1. /\ Len(queue') = Len(queue) + 1 /\ Len(queue) \in Nat
        /\ queue' \in Seq(Clients)
        /\ \A i \in 1..Len(queue) : queue'[i] = queue[i]
        /\ queue'[Len(queue) + 1] = c
    BY DEF Ranges
  <1>2. c \notin ends /\ c # cur /\ c \notin mismatch /\ \A i \in 1..Len(queue) : queue[i] # c
    BY DEF Unstarted, Waiting
  <1>3. Waiting'
    BY <1>1, <1>2 DEF Waiting, daemon
  <1>4. Ranges'
    BY <1>1 DEF Ranges, States, daemon
  <1>5. Unstarted'
    BY DEF Unstarted, Ranges, daemon
  <1>6. Unreplied'
    BY DEF Unreplied, Unstarted, daemon
  <1>7. InHand' /\ AckMeansServed'
    BY <1>2 DEF InHand, AckMeansServed, daemon
  <1> QED
    BY <1>3, <1>4, <1>5, <1>6, <1>7

(* Any other step of a client changes only what it knows itself.           *)
LEMMA ClientIInv ==
  ASSUME IInv, NEW c \in Clients,
         Refused(c) \/ SendRequest(c) \/ SendBroken(c) \/ Receive(c) \/ Vanish(c)
  PROVE  IInv'
  <1>1. PICK t \in States \ {"start"} : pc' = [pc EXCEPT ![c] = t]
    <2>1. CASE Refused(c) \/ ReceiveEof(c)
      BY <2>1 DEF Refused, ReceiveEof, Become, States, Ended
    <2>2. CASE SendRequest(c) \/ SendBroken(c)
      BY <2>2 DEF SendRequest, SendBroken, Become, States, Ended
    <2>3. CASE ReceiveReply(c) \/ ReceiveError(c) \/ Vanish(c)
      BY <2>3 DEF ReceiveReply, ReceiveError, Vanish, Become, States, Ended
    <2> QED
      BY <2>1, <2>2, <2>3 DEF Receive
  <1>2. UNCHANGED <<queue, ends, outbox, dpc, cur, work, mismatch>>
    BY DEF Refused, SendRequest, SendBroken, Receive, ReceiveReply, ReceiveEof, ReceiveError,
           Vanish, socket, daemon
  <1> QED
    BY <1>1, <1>2 DEF IInv, Ranges, Waiting, Unstarted, Unreplied, InHand, AckMeansServed

(* The next xdwlw of a user starts with nothing of the one before.         *)
LEMMA AgainIInv ==
  ASSUME IInv, NEW c \in Clients, Again(c)
  PROVE  IInv'
  <1>1. /\ pc' = [pc EXCEPT ![c] = "start"] /\ c \notin ends /\ c # cur
        /\ outbox' = [outbox EXCEPT ![c] = "none"] /\ work' = [work EXCEPT ![c] = "none"]
        /\ mismatch' = mismatch \ {c} /\ UNCHANGED <<queue, ends, dpc, cur>>
    BY DEF Again, Become
  <1>2. Ranges'
    BY <1>1 DEF IInv, Ranges, States
  <1>3. Waiting'
    BY <1>1 DEF IInv, Waiting
  <1>4. Unstarted' /\ Unreplied'
    BY <1>1 DEF IInv, Ranges, Unstarted, Unreplied
  <1>5. InHand' /\ AckMeansServed'
    BY <1>1 DEF IInv, Ranges, InHand, AckMeansServed
  <1> QED
    BY <1>2, <1>3, <1>4, <1>5 DEF IInv

(* ipc_server_send() on a live connection: the reply is in the client's    *)
(* socket and the connection is closed.                                    *)
LEMMA ReplyIInv ==
  ASSUME IInv, NEW r \in {"ACK", "ERR"},
         dpc \in {"recv", "serve"}, cur \in ends,
         outbox' = [outbox EXCEPT ![cur] = r], ends' = ends \ {cur},
         UNCHANGED <<pc, queue>>,
         work' \in [Clients -> {"none", "partial", "clean", "failed"}],
         \A c \in Clients : work'[c] # work[c] => c = cur,
         r = "ACK" => work'[cur] = "clean" /\ dpc' \in {"poll", "leave"},
         mismatch' \in {mismatch, mismatch \cup {cur}}, r = "ACK" => cur \notin mismatch',
         r = "ERR" => dpc' = "serve",
         IF dpc' = "poll" THEN cur' = NoClient ELSE cur' = cur
  PROVE  IInv'
  <1>1. Ranges'
    BY IpcAssumption DEF IInv, Ranges
  <1>2. Waiting'
    BY IpcAssumption DEF IInv, Waiting, Ranges
  <1>3. Unstarted' /\ Unreplied' /\ InHand' /\ AckMeansServed'
    BY IpcAssumption DEF IInv, Ranges, Unstarted, Unreplied, InHand, AckMeansServed
  <1> QED
    BY <1>1, <1>2, <1>3 DEF IInv

(* ipc_server_send() after the connection was closed: nothing happens.     *)
LEMMA NoReplyIInv ==
  ASSUME IInv, dpc = "serve", cur \notin ends,
         UNCHANGED <<pc, queue, outbox, ends>>,
         work' \in [Clients -> {"none", "partial", "clean", "failed"}],
         \A c \in Clients : work'[c] # work[c] => c = cur,
         mismatch' \in {mismatch, mismatch \cup {cur}},
         \/ dpc' = "serve" /\ cur' = cur
         \/ dpc' = "poll" /\ cur' = NoClient
  PROVE  IInv'
  BY IpcAssumption DEF IInv, Ranges, Waiting, Unstarted, Unreplied, InHand, AckMeansServed

LEMMA OutputErrorIInv == IInv /\ (OutputFails \/ OutputOther) => IInv'
  <1> SUFFICES ASSUME IInv, OutputFails \/ OutputOther PROVE IInv'
    OBVIOUS
  <1>1. /\ dpc = "serve" /\ cur \in Clients /\ outbox[cur] # "ACK"
        /\ work' \in [Clients -> {"none", "partial", "clean", "failed"}]
        /\ \A c \in Clients : work'[c] # work[c] => c = cur
        /\ mismatch' \in {mismatch, mismatch \cup {cur}} /\ mismatch' \subseteq Clients
        /\ UNCHANGED pc
        /\ Reply(cur, "ERR", UNCHANGED <<dpc, cur>>)
    BY DEF OutputFails, OutputOther, IInv, Ranges, InHand
  <1>2. CASE cur \notin ends
    BY <1>1, <1>2, NoReplyIInv DEF Reply, IInv, Ranges
  <1>3. CASE cur \in ends /\ Vanished(cur)
    BY <1>1, <1>3, DownIInv DEF Reply, IInv, Ranges
  <1>4. CASE cur \in ends /\ ~Vanished(cur)
    BY <1>1, <1>4, ReplyIInv DEF Reply, IInv, Ranges
  <1> QED
    BY <1>2, <1>3, <1>4

LEMMA FinishIInv == IInv /\ Finish => IInv'
  <1> SUFFICES ASSUME IInv, Finish PROVE IInv'
    OBVIOUS
  <1> DEFINE w == IF work[cur] = "failed" THEN "failed" ELSE "clean"
  <1>1. /\ dpc = "serve" /\ cur \in Clients /\ outbox[cur] # "ACK"
        /\ work' = [work EXCEPT ![cur] = w]
        /\ work' \in [Clients -> {"none", "partial", "clean", "failed"}]
        /\ cur \in ends => work'[cur] = "clean" /\ cur \notin mismatch
        /\ UNCHANGED <<pc, mismatch>> /\ mismatch \subseteq Clients
        /\ Reply(cur, "ACK", dpc' = "poll" /\ cur' = NoClient)
    BY DEF Finish, IInv, Ranges, InHand
  <1>2. CASE cur \notin ends
    BY <1>1, <1>2, NoReplyIInv DEF Reply, IInv, Ranges
  <1>3. CASE cur \in ends /\ Vanished(cur)
    BY <1>1, <1>3, DownIInv DEF Reply, IInv, Ranges
  <1>4. CASE cur \in ends /\ ~Vanished(cur)
    BY <1>1, <1>4, ReplyIInv DEF Reply, IInv, Ranges
  <1> QED
    BY <1>2, <1>3, <1>4

LEMMA ReadKillIInv == IInv /\ ReadKill => IInv'
  <1> SUFFICES ASSUME IInv, ReadKill PROVE IInv'
    OBVIOUS
  <1>1. /\ dpc = "recv" /\ cur \in Clients /\ cur \in ends /\ cur \notin mismatch
        /\ work' = [work EXCEPT ![cur] = "clean"]
        /\ work' \in [Clients -> {"none", "partial", "clean", "failed"}]
        /\ UNCHANGED <<pc, mismatch>> /\ mismatch \subseteq Clients
        /\ Reply(cur, "ACK", dpc' = "leave" /\ UNCHANGED cur)
    BY DEF ReadKill, IInv, Ranges, InHand
  <1>3. CASE Vanished(cur)
    BY <1>1, <1>3, DownIInv DEF Reply, IInv, Ranges
  <1>4. CASE ~Vanished(cur)
    BY <1>1, <1>4, ReplyIInv DEF Reply, IInv, Ranges
  <1> QED
    BY <1>3, <1>4

(* The daemon's steps that send nothing.                                   *)
LEMMA SilentIInv ==
  ASSUME IInv, \/ ReadRequest \/ ReadNothing \/ OutputDraws \/ OutputDrawn
               \/ Dispatch \/ Dispatched \/ Post
  PROVE  IInv'
  <1>1. CASE ReadRequest
    BY <1>1 DEF ReadRequest, client, IInv, Ranges, Waiting, Unstarted, Unreplied,
                InHand, AckMeansServed
  <1>2. CASE ReadNothing
    BY <1>2, IpcAssumption DEF ReadNothing, client, socket, IInv, Ranges, Waiting, Unstarted,
                Unreplied, InHand, AckMeansServed
  <1>3. CASE OutputDraws \/ OutputDrawn
    <2>1. /\ dpc \in {"serve", "draw"} /\ dpc' \in {"serve", "draw"}
          /\ UNCHANGED <<pc, queue, ends, outbox, cur, work, mismatch>>
      BY <1>3 DEF OutputDraws, OutputDrawn, client, socket
    <2>2. Ranges' /\ InHand'
      BY <2>1 DEF IInv, Ranges, InHand
    <2>3. Waiting' /\ Unstarted' /\ Unreplied' /\ AckMeansServed'
      BY <2>1 DEF IInv, Waiting, Unstarted, Unreplied, AckMeansServed
    <2> QED
      BY <2>2, <2>3 DEF IInv
  <1>4. CASE Dispatch \/ Dispatched \/ Post
    BY <1>4 DEF Dispatch, Dispatched, Post, client, socket, IInv, Ranges, Waiting,
                Unstarted, Unreplied, InHand, AckMeansServed
  <1> QED
    BY <1>1, <1>2, <1>3, <1>4

LEMMA StepIInv == IInv /\ [Next]_vars => IInv'
  <1> SUFFICES ASSUME IInv, [Next]_vars PROVE IInv'
    OBVIOUS
  <1>1. ASSUME NEW c \in Clients, Client(c) PROVE IInv'
    BY <1>1, ConnectIInv, ClientIInv, AgainIInv DEF Client
  <1>2. CASE Leave \/ Stop
    BY <1>2, DownIInv DEF Leave, Stop, IInv, Ranges
  <1>3. CASE Daemon /\ ~Leave
    BY <1>3, AcceptIInv, OutputErrorIInv, FinishIInv, ReadKillIInv, SilentIInv
       DEF Daemon
  <1>4. CASE OutputDrawn \/ Dispatched \/ Post
    BY <1>4, SilentIInv
  <1>5. CASE UNCHANGED vars
    BY <1>5 DEF vars, client, socket, daemon, IInv, Ranges, Waiting, Unstarted,
                Unreplied, InHand, AckMeansServed
  <1> QED
    BY <1>1, <1>2, <1>3, <1>4, <1>5 DEF Next

LEMMA Invariant == Spec => []IInv
  BY InitIInv, StepIInv, PTL DEF Spec

(* IPC_ACK reaches a client only for a request that was carried out on     *)
(* every output, for any number of clients and outputs, whatever vanishes  *)
(* or stops in between.                                                    *)
THEOREM Acknowledgement == Spec => []AckMeansServed
  <1>1. IInv => AckMeansServed
    BY DEF IInv
  <1> QED
    BY <1>1, Invariant, PTL

-----------------------------------------------------------------------------
(* What a client is told when it gets no reply, and which connections the  *)
(* daemon forgets.  The argument: until a request is read nothing is done  *)
(* for it (Unread), and a connection without a reply is only ever closed   *)
(* by the end of the process (Closed).                                     *)

Queued(c) == \E i \in 1..Len(queue) : queue[i] = c

Bounds ==
    /\ Len(queue) <= Backlog + 1
    /\ inbox \subseteq Clients /\ reset \subseteq Clients
    /\ cur = NoClient <=> dpc \in {"poll", "dispatch", "dead"}
    /\ left \in 0..Outputs
    /\ pending \in BOOLEAN

\* Nothing has been done for a request that was not read.
Unread == \A c \in Clients :
    /\ pc[c] \in {"start", "connected"} => c \notin inbox /\ work[c] = "none"
    /\ c \in inbox \/ Queued(c) => work[c] = "none"
    /\ dpc = "recv" /\ c = cur => work[c] = "none"

\* The request in hand is not finished, and an error is sent once one output
\* has failed or was not named.
Served ==
    /\ dpc \in {"serve", "draw"} => work[cur] \in {"partial", "failed"}
    /\ \A c \in Clients : outbox[c] = "ERR" => work[c] = "failed" \/ c \in mismatch

\* A connection is closed by its reply or by the end of the daemon.
Closed ==
    /\ dpc = "dead" => ends = {} /\ queue = <<>>
    /\ \A c \in Clients :
          pc[c] \in {"connected", "waiting"} /\ outbox[c] = "none" /\ c \notin ends => dpc = "dead"
    /\ \A c \in reset : dpc = "dead" /\ (work[c] = "none" \/ Vanished(c))

\* A connection that is open waits, is in hand or is forgotten.
Held == \A c \in ends : c = cur \/ Queued(c) \/ (Vanished(c) /\ work[c] = "none")

JInv == Bounds /\ Unread /\ Served /\ Closed /\ Held /\ ExitStatusExplained

LEMMA InitJInv == Init => JInv
  <1> SUFFICES ASSUME Init PROVE JInv
    OBVIOUS
  <1>1. Bounds
    <2>1. Len(queue) = 0 /\ 0 <= Backlog + 1 /\ left \in 0..Outputs
      BY IpcAssumption DEF Init
    <2>2. inbox = {} /\ reset = {} /\ cur = NoClient /\ dpc = "poll" /\ pending \in BOOLEAN
      BY DEF Init
    <2> QED
      BY <2>1, <2>2 DEF Bounds
  <1>2. Unread /\ Served
    BY DEF Init, Unread, Served, Queued
  <1>3. Closed /\ Held /\ ExitStatusExplained
    BY DEF Init, Closed, Held, ExitStatusExplained
  <1> QED
    BY <1>1, <1>2, <1>3 DEF JInv

(* The process ends.  Only the request of a client that has vanished may   *)
(* have been worked on in the same step.                                   *)
LEMMA DownJInv ==
  ASSUME IInv, JInv, Down, UNCHANGED <<pc, pending>>,
         inbox' \subseteq inbox, left' \in 0..Outputs,
         \A c \in Clients : work'[c] # work[c] =>
            Vanished(c) /\ c \in ends /\ c = cur /\ c \notin inbox',
         mismatch \subseteq mismatch', \A c \in mismatch' : c \in mismatch \/ Vanished(c)
  PROVE  JInv'
  <1> USE DEF Vanished
  <1>1. /\ dpc' = "dead" /\ ends' = {} /\ queue' = <<>> /\ cur' = NoClient
        /\ reset' = reset \cup (ends \cap inbox) \cup {queue[i] : i \in DOMAIN queue}
        /\ UNCHANGED outbox
    BY DEF Down
  <1>2. DOMAIN queue = 1..Len(queue) /\ \A i \in 1..Len(queue) : queue[i] \in Clients
    BY DEF IInv, Ranges
  <1>3. \A c \in Clients : ~Queued(c)'
    BY <1>1 DEF Queued
  <1>4. Bounds'
    BY <1>1, <1>2, IpcAssumption DEF JInv, Bounds
  <1>5. Unread'
    BY <1>1, <1>3 DEF JInv, Unread
  <1>6. Served'
    BY <1>1 DEF JInv, Served, IInv, Unreplied
  <1>7. ASSUME NEW c \in reset' PROVE work'[c] = "none" \/ Vanished(c)'
    <2>1. c \in Clients
      BY <1>1, <1>2 DEF JInv, Bounds
    <2>2. CASE c \in reset
      BY <2>1, <2>2 DEF JInv, Closed
    <2>3. CASE c \in inbox \/ Queued(c)
      BY <2>1, <2>3 DEF JInv, Unread
    <2> QED
      BY <1>1, <1>2, <1>7, <2>2, <2>3 DEF Queued
  <1>8. Closed' /\ Held'
    BY <1>1, <1>7 DEF Closed, Held
  <1>9. ExitStatusExplained'
    BY <1>1 DEF JInv, ExitStatusExplained
  <1> QED
    BY <1>4, <1>5, <1>6, <1>8, <1>9 DEF JInv

LEMMA AcceptJInv == IInv /\ JInv /\ Accept => JInv'
  <1> SUFFICES ASSUME IInv, JInv, Accept PROVE JInv'
    OBVIOUS
  <1> DEFINE t == Tail(queue)
  <1>1. /\ t \in Seq(Clients)
        /\ Head(queue) \in Clients /\ Head(queue) = queue[1] /\ 1 \in 1..Len(queue)
        /\ \A i \in 1..Len(t) : i + 1 \in 1..Len(queue) /\ t[i] = queue[i + 1]
    BY TailWaiting DEF IInv, Ranges, Waiting, Accept
  <1>2. /\ queue' = t /\ cur' = Head(queue) /\ dpc = "poll" /\ dpc' = "recv"
        /\ UNCHANGED <<pc, ends, inbox, outbox, reset, left, pending, work, mismatch>>
    BY DEF Accept, socket
  <1>3. cur = NoClient
    BY <1>2 DEF JInv, Bounds
  <1>4. Len(t) <= Len(queue) /\ queue \in Seq(Clients) /\ queue # <<>>
    BY DEF IInv, Ranges, Accept
  <1>5. \A i \in 1..Len(queue) : i = 1 \/ (i - 1 \in 1..Len(t) /\ t[i - 1] = queue[i])
    BY <1>4
  <1> HIDE DEF t
  <1>6. \A c \in Clients : Queued(c)' => Queued(c)
    BY <1>1, <1>2 DEF Queued
  <1>7. \A c \in Clients : Queued(c) => Queued(c)' \/ c = cur'
    BY <1>1, <1>2, <1>5 DEF Queued
  <1>8. Queued(cur')
    BY <1>1, <1>2 DEF Queued
  <1>9. Bounds'
    <2>1. Len(t) <= Backlog + 1
      BY <1>1, <1>4, IpcAssumption DEF JInv, Bounds
    <2> QED
      BY <1>1, <1>2, <2>1, IpcAssumption DEF JInv, Bounds
  <1>10. Unread'
    BY <1>1, <1>2, <1>6, <1>8 DEF JInv, Unread
  <1>11. Held'
    BY <1>2, <1>3, <1>7, IpcAssumption DEF JInv, Held, IInv, Ranges, Vanished
  <1>12. Served' /\ Closed' /\ ExitStatusExplained'
    BY <1>2, <1>4 DEF JInv, Served, Closed, ExitStatusExplained, Vanished
  <1> QED
    BY <1>9, <1>10, <1>11, <1>12 DEF JInv

LEMMA ConnectJInv ==
  ASSUME IInv, JInv, NEW c \in Clients, Connect(c)
  PROVE  JInv'
  <1>1. /\ pc[c] = "start" /\ pc' = [pc EXCEPT ![c] = "connected"]
        /\ dpc # "dead" /\ Len(queue) <= Backlog
        /\ queue' = Append(queue, c) /\ ends' = ends \cup {c}
        /\ UNCHANGED <<inbox, outbox, reset, dpc, cur, left, pending, work, mismatch>>
    BY DEF Connect, Become, daemon
  <1>2. /\ Len(queue') = Len(queue) + 1 /\ Len(queue) \in Nat
        /\ \A i \in 1..Len(queue) : queue'[i] = queue[i]
        /\ queue'[Len(queue) + 1] = c
    BY <1>1 DEF IInv, Ranges
  <1>3. \A d \in Clients : Queued(d)' <=> Queued(d) \/ d = c
    <2>1. 1..Len(queue') = (1..Len(queue)) \cup {Len(queue) + 1}
      BY <1>2
    <2> QED
      BY <1>2, <2>1 DEF Queued
  <1>4. Bounds'
    BY <1>1, <1>2, IpcAssumption DEF JInv, Bounds
  <1>5. pc'[c] = "connected" /\ \A d \in Clients : d # c => pc'[d] = pc[d]
    BY <1>1 DEF IInv, Ranges
  <1>6. Unread'
    BY <1>1, <1>3, <1>5 DEF JInv, Unread
  <1>7. Held'
    BY <1>1, <1>3, <1>5 DEF JInv, Held, Vanished, IInv, Ranges
  <1>8. Served'
    BY <1>1 DEF JInv, Served
  <1>9. Closed'
    BY <1>1, <1>5 DEF JInv, Closed, Vanished
  <1>10. ExitStatusExplained'
    BY <1>1, <1>5 DEF JInv, ExitStatusExplained
  <1> QED
    BY <1>4, <1>6, <1>7, <1>8, <1>9, <1>10 DEF JInv

LEMMA SendRequestJInv ==
  ASSUME IInv, JInv, NEW c \in Clients, SendRequest(c)
  PROVE  JInv'
  <1>1. /\ pc[c] = "connected" /\ pc' = [pc EXCEPT ![c] = "waiting"]
        /\ c \in ends /\ inbox' = inbox \cup {c}
        /\ UNCHANGED <<queue, ends, outbox, reset, dpc, cur, left, pending, work, mismatch>>
    BY DEF SendRequest, Become, daemon
  <1>2. pc'[c] = "waiting" /\ \A d \in Clients : d # c => pc'[d] = pc[d]
    BY <1>1 DEF IInv, Ranges
  <1>3. \A d : Queued(d)' <=> Queued(d)
    BY <1>1 DEF Queued
  <1>4. Unread'
    BY <1>1, <1>2, <1>3 DEF JInv, Unread
  <1>5. Held' /\ Closed'
    BY <1>1, <1>2, <1>3 DEF JInv, Held, Closed, Bounds, IInv, Ranges, Vanished
  <1>6. Bounds' /\ Served' /\ ExitStatusExplained'
    BY <1>1, <1>2 DEF JInv, Bounds, Served, ExitStatusExplained
  <1> QED
    BY <1>4, <1>5, <1>6 DEF JInv

(* The ways in which a client ends.                                        *)
LEMMA EndJInv ==
  ASSUME IInv, JInv, NEW c \in Clients, NEW t \in Ended,
         pc' = [pc EXCEPT ![c] = t],
         UNCHANGED <<queue, ends, inbox, outbox, reset, dpc, cur, left, pending, work, mismatch>>,
         t = "exit0" => \/ work[c] = "clean" /\ c \notin mismatch
                        \/ work[c] = "none" /\ dpc = "dead" /\ c \in reset,
         t = "exit1" => work[c] = "failed" \/ c \in mismatch \/ dpc = "dead",
         pc[c] \in {"start", "connected", "waiting"}
  PROVE  JInv'
  <1>1. pc'[c] = t /\ \A d \in Clients : d # c => pc'[d] = pc[d]
    BY DEF IInv, Ranges
  <1>2. \A d : Queued(d)' <=> Queued(d)
    BY DEF Queued
  <1>3. Unread'
    BY <1>1, <1>2 DEF JInv, Unread, Ended
  <1>4. Held' /\ Closed'
    BY <1>1, <1>2 DEF JInv, Held, Closed, Bounds, IInv, Ranges, Vanished, Ended
  <1>5. Bounds' /\ Served' /\ ExitStatusExplained'
    BY <1>1 DEF JInv, Bounds, Served, ExitStatusExplained
  <1> QED
    BY <1>3, <1>4, <1>5 DEF JInv

LEMMA AgainJInv ==
  ASSUME IInv, JInv, NEW c \in Clients, Again(c)
  PROVE  JInv'
  <1>1. /\ pc' = [pc EXCEPT ![c] = "start"] /\ c \notin ends /\ c # cur
        /\ outbox' = [outbox EXCEPT ![c] = "none"] /\ work' = [work EXCEPT ![c] = "none"]
        /\ inbox' = inbox \ {c} /\ reset' = reset \ {c}
        /\ mismatch' = mismatch \ {c} /\ UNCHANGED <<queue, ends, dpc, cur, left, pending>>
    BY DEF Again, Become
  <1>2. /\ pc'[c] = "start" /\ work'[c] = "none" /\ outbox'[c] = "none"
        /\ \A d \in Clients : d # c => pc'[d] = pc[d] /\ work'[d] = work[d] /\ outbox'[d] = outbox[d]
    BY <1>1 DEF IInv, Ranges
  <1>3. \A d : Queued(d)' <=> Queued(d)
    BY <1>1 DEF Queued
  <1>4. Bounds' /\ Unread'
    BY <1>1, <1>2, <1>3 DEF JInv, Bounds, Unread
  <1>5. Served'
    BY <1>1, <1>2 DEF JInv, Served, IInv, Ranges
  <1>6. Closed' /\ Held'
    BY <1>1, <1>2, <1>3 DEF JInv, Bounds, Closed, Held, Vanished, IInv, Ranges
  <1>7. ExitStatusExplained'
    BY <1>1, <1>2 DEF JInv, ExitStatusExplained
  <1> QED
    BY <1>4, <1>5, <1>6, <1>7 DEF JInv

LEMMA ClientJInv ==
  ASSUME IInv, JInv, NEW c \in Clients, Client(c)
  PROVE  JInv'
  <1> USE DEF Become, socket, daemon, Ended
  <1>1. CASE Refused(c)
    BY <1>1, EndJInv DEF Refused
  <1>2. CASE SendBroken(c)
    BY <1>2, EndJInv DEF SendBroken
  <1>3. CASE ReceiveReply(c)
    <2>1. CASE outbox[c] = "ACK" /\ Become(c, "waiting", "exit0")
      BY <1>3, <2>1, EndJInv DEF ReceiveReply, IInv, AckMeansServed
    <2>2. CASE outbox[c] = "ERR" /\ Become(c, "waiting", "exit1")
      BY <1>3, <2>2, EndJInv DEF ReceiveReply, JInv, Served
    <2> QED
      BY <1>3, <2>1, <2>2 DEF ReceiveReply
  <1>4. CASE ReceiveEof(c)
    BY <1>4, EndJInv DEF ReceiveEof, Unanswered, JInv, Closed
  <1>5. CASE ReceiveError(c)
    <2>1. work[c] = "none" /\ dpc = "dead" /\ c \in reset
      BY <1>5 DEF ReceiveError, Unanswered, JInv, Closed, Vanished
    <2> QED
      BY <1>5, <2>1, EndJInv DEF ReceiveError
  <1>6. CASE Vanish(c)
    BY <1>6, EndJInv DEF Vanish
  <1> QED
    BY <1>1, <1>2, <1>3, <1>4, <1>5, <1>6, ConnectJInv, SendRequestJInv, AgainJInv
       DEF Client, Receive

(* ipc_server_send() to a connection that is open, or that was closed by   *)
(* the reply before: nothing happens then.                                 *)
LEMMA SendJInv ==
  ASSUME IInv, JInv, NEW r \in {"ACK", "ERR"}, cur \in Clients, dpc \in {"recv", "serve"},
         IF cur \in ends THEN outbox' = [outbox EXCEPT ![cur] = r] ELSE UNCHANGED outbox,
         ends' = ends \ {cur},
         UNCHANGED <<pc, queue, reset, pending>>,
         left' \in 0..Outputs,
         inbox' = inbox \/ inbox' = inbox \ {cur},
         work' \in [Clients -> {"none", "partial", "clean", "failed"}],
         \A c \in Clients : work'[c] # work[c] => c = cur /\ work[c] # "clean",
         cur \notin inbox', pc[cur] \notin {"start", "connected"},
         mismatch' \in {mismatch, mismatch \cup {cur}},
         r = "ERR" => /\ dpc' = "serve" /\ work'[cur] \in {"partial", "failed"}
                      /\ work'[cur] = "failed" \/ cur \in mismatch'
                      /\ work[cur] = "failed" => work'[cur] = "failed",
         r = "ACK" => /\ dpc' \in {"poll", "leave"} /\ mismatch' = mismatch
                      /\ work[cur] = "failed" => work'[cur] = "failed",
         work[cur] # "clean" /\ dpc # "dead",
         IF dpc' = "poll" THEN cur' = NoClient ELSE cur' = cur
  PROVE  JInv'
  <1>1. /\ \A c \in Clients : c # cur => outbox'[c] = outbox[c] /\ work'[c] = work[c]
        /\ outbox'[cur] = "ERR" => outbox[cur] = "ERR" \/ r = "ERR"
        /\ outbox'[cur] = "none" => cur \notin ends /\ outbox[cur] = "none"
    BY DEF IInv, Ranges
  <1>2. \A d : Queued(d)' <=> Queued(d)
    BY DEF Queued
  <1>3. ~Queued(cur)
    BY DEF IInv, Waiting, Queued
  <1>4. dpc' \notin {"dead", "recv"} /\ (dpc' = "serve" => r = "ERR" /\ cur' = cur)
    OBVIOUS
  <1>5. Bounds'
    BY IpcAssumption DEF JInv, Bounds
  <1>6. Unread'
    BY <1>1, <1>2, <1>3, <1>4 DEF JInv, Unread
  <1>7. Served'
    BY <1>1, <1>4 DEF JInv, Served
  <1>8. Closed'
    BY <1>1, <1>4 DEF JInv, Closed, Bounds, Vanished
  <1>9. Held'
    BY <1>1, <1>2 DEF JInv, Held, IInv, Ranges, Vanished
  <1>10. ExitStatusExplained'
    BY <1>1 DEF JInv, ExitStatusExplained
  <1> QED
    BY <1>5, <1>6, <1>7, <1>8, <1>9, <1>10 DEF JInv

LEMMA ServeJInv ==
  ASSUME IInv, JInv, OutputFails \/ OutputOther \/ Finish \/ ReadKill
  PROVE  JInv'
  <1> DEFINE Works == {"none", "partial", "clean", "failed"}
  <1>1. cur \in Clients /\ work \in [Clients -> Works]
    BY DEF OutputFails, OutputOther, Finish, ReadKill, IInv, Ranges
  <1>2. CASE OutputFails \/ OutputOther
    <2>1. /\ dpc = "serve" /\ left' = left - 1 /\ left > 0
          /\ \/ work' = [work EXCEPT ![cur] = "failed"] /\ mismatch' = mismatch
             \/ work' = work /\ mismatch' = mismatch \cup {cur}
          /\ work' \in [Clients -> Works]
          /\ UNCHANGED <<pc, inbox, pending>>
          /\ Reply(cur, "ERR", UNCHANGED <<dpc, cur>>)
      BY <1>1, <1>2 DEF OutputFails, OutputOther
    <2>2. left' \in 0..Outputs
      BY <2>1, IpcAssumption DEF JInv, Bounds
    <2>3. work[cur] \in {"partial", "failed"}
      BY <2>1 DEF JInv, Served
    <2>4. cur \notin inbox /\ pc[cur] \notin {"start", "connected"}
      BY <1>1, <2>3 DEF JInv, Unread
    <2>7. /\ \A c \in Clients : work'[c] # work[c] => c = cur
          /\ work'[cur] \in {"partial", "failed"} /\ work[cur] = "failed" => work'[cur] = "failed"
          /\ work'[cur] = "failed" \/ cur \in mismatch'
      BY <1>1, <2>1, <2>3
    <2>5. CASE cur \in ends /\ Vanished(cur)
      BY <1>1, <2>1, <2>2, <2>4, <2>5, <2>7, DownJInv DEF Reply
    <2>6. CASE cur \notin ends \/ ~Vanished(cur)
      <3>1. /\ IF cur \in ends THEN outbox' = [outbox EXCEPT ![cur] = "ERR"] ELSE UNCHANGED outbox
            /\ ends' = ends \ {cur} /\ UNCHANGED <<dpc, cur, reset, queue>>
        BY <2>1, <2>6 DEF Reply
      <3> USE <2>7
      <3> QED
        BY <1>1, <2>1, <2>2, <2>3, <2>4, <3>1, SendJInv
    <2> QED
      BY <2>5, <2>6
  <1>3. CASE Finish
    <2> DEFINE w == IF work[cur] = "failed" THEN "failed" ELSE "clean"
    <2>1. /\ dpc = "serve" /\ UNCHANGED <<pc, inbox, left, pending, mismatch>>
          /\ work' = [work EXCEPT ![cur] = w] /\ work' \in [Clients -> Works]
          /\ work[cur] = "failed" => work'[cur] = "failed"
          /\ Reply(cur, "ACK", dpc' = "poll" /\ cur' = NoClient)
      BY <1>1, <1>3 DEF Finish
    <2>2. left' \in 0..Outputs
      BY <2>1 DEF JInv, Bounds
    <2>3. work[cur] \in {"partial", "failed"}
      BY <2>1 DEF JInv, Served
    <2>4. cur \notin inbox /\ pc[cur] \notin {"start", "connected"}
      BY <1>1, <2>3 DEF JInv, Unread
    <2> HIDE DEF w
    <2>5. CASE cur \in ends /\ Vanished(cur)
      BY <1>1, <2>1, <2>2, <2>4, <2>5, DownJInv DEF Reply
    <2>6. CASE cur \notin ends \/ ~Vanished(cur)
      <3>1. /\ IF cur \in ends THEN outbox' = [outbox EXCEPT ![cur] = "ACK"] ELSE UNCHANGED outbox
            /\ ends' = ends \ {cur} /\ dpc' = "poll" /\ cur' = NoClient /\ UNCHANGED <<reset, queue>>
        BY <2>1, <2>6 DEF Reply
      <3> QED
        BY <1>1, <2>1, <2>2, <2>3, <2>4, <3>1, SendJInv
    <2> QED
      BY <2>5, <2>6
  <1>4. CASE ReadKill
    <2>1. /\ dpc = "recv" /\ cur \in inbox /\ cur \in ends /\ UNCHANGED <<pc, left, pending, mismatch>>
          /\ inbox' = inbox \ {cur}
          /\ work' = [work EXCEPT ![cur] = "clean"] /\ work' \in [Clients -> Works]
          /\ Reply(cur, "ACK", dpc' = "leave" /\ UNCHANGED cur)
      BY <1>1, <1>4 DEF ReadKill, IInv, InHand
    <2>2. left' \in 0..Outputs
      BY <2>1 DEF JInv, Bounds
    <2>3. work[cur] = "none"
      BY <1>1, <2>1 DEF JInv, Unread
    <2>4. pc[cur] \notin {"start", "connected"}
      BY <1>1, <2>1 DEF JInv, Unread
    <2>5. CASE Vanished(cur)
      BY <1>1, <2>1, <2>2, <2>4, <2>5, DownJInv DEF Reply
    <2>6. CASE ~Vanished(cur)
      <3>1. /\ IF cur \in ends THEN outbox' = [outbox EXCEPT ![cur] = "ACK"] ELSE UNCHANGED outbox
            /\ ends' = ends \ {cur} /\ dpc' = "leave" /\ UNCHANGED <<reset, queue, cur>>
        BY <2>1, <2>6 DEF Reply
      <3> QED
        BY <1>1, <2>1, <2>2, <2>3, <2>4, <3>1, SendJInv
    <2> QED
      BY <2>5, <2>6
  <1> QED
    BY <1>2, <1>3, <1>4

LEMMA SilentJInv ==
  ASSUME IInv, JInv, \/ ReadRequest \/ ReadNothing \/ OutputDraws \/ OutputDrawn
                     \/ Dispatch \/ Dispatched \/ Post
  PROVE  JInv'
  <1>1. CASE ReadRequest
    <2>1. /\ dpc = "recv" /\ cur \in Clients /\ cur \in inbox /\ inbox' = inbox \ {cur}
          /\ left' = Outputs /\ dpc' = "serve" /\ work' = [work EXCEPT ![cur] = "partial"]
          /\ UNCHANGED <<pc, queue, ends, outbox, reset, cur, pending, mismatch>>
      BY <1>1 DEF ReadRequest, client, IInv, Ranges
    <2>2. work'[cur] = "partial" /\ \A c \in Clients : c # cur => work'[c] = work[c]
      BY <2>1 DEF IInv, Ranges
    <2>3. ~Queued(cur) /\ \A d : Queued(d)' <=> Queued(d)
      BY <2>1 DEF IInv, Waiting, Queued
    <2>4. work[cur] = "none" /\ pc[cur] \notin {"start", "connected"} /\ cur \in ends
      BY <2>1 DEF JInv, Unread, IInv, InHand
    <2>5. Bounds'
      BY <2>1, IpcAssumption DEF JInv, Bounds
    <2>6. Unread'
      BY <2>1, <2>2, <2>3, <2>4 DEF JInv, Unread
    <2>7. Served'
      BY <2>1, <2>2, <2>4 DEF JInv, Served, IInv, Unreplied
    <2>8. Closed'
      BY <2>1, <2>2 DEF JInv, Closed, Bounds, Vanished
    <2>9. Held'
      BY <2>1, <2>2, <2>3 DEF JInv, Held, IInv, Ranges, Vanished
    <2>10. ExitStatusExplained'
      BY <2>1, <2>2, <2>4 DEF JInv, ExitStatusExplained
    <2> QED
      BY <2>5, <2>6, <2>7, <2>8, <2>9, <2>10 DEF JInv
  <1>2. CASE ReadNothing
    <2>1. /\ dpc = "recv" /\ cur \in Clients /\ Vanished(cur) /\ dpc' = "poll" /\ cur' = NoClient
          /\ UNCHANGED <<pc, queue, ends, inbox, outbox, reset, left, pending, work, mismatch>>
      BY <1>2 DEF ReadNothing, client, socket, IInv, Ranges
    <2>2. work[cur] = "none" /\ \A d : Queued(d)' <=> Queued(d)
      BY <2>1 DEF JInv, Unread, Queued
    <2>3. Bounds' /\ Unread' /\ Served'
      BY <2>1, <2>2, IpcAssumption DEF JInv, Bounds, Unread, Served
    <2>4. Closed' /\ Held' /\ ExitStatusExplained'
      BY <2>1, <2>2 DEF JInv, Closed, Held, ExitStatusExplained, Vanished
    <2> QED
      BY <2>3, <2>4 DEF JInv
  <1>3. CASE OutputDraws \/ OutputDrawn \/ Dispatch \/ Dispatched \/ Post
    <2>1. /\ UNCHANGED <<pc, queue, ends, inbox, outbox, reset, cur, work, mismatch>>
          /\ \/ {dpc, dpc'} \subseteq {"serve", "draw"}
             \/ {dpc, dpc'} \subseteq {"poll", "dispatch"}
             \/ dpc' = dpc
      BY <1>3 DEF OutputDraws, OutputDrawn, Dispatch, Dispatched, Post, client, socket
    <2>2. left' \in 0..Outputs /\ pending' \in BOOLEAN
      <3>1. left \in 0..Outputs /\ pending \in BOOLEAN
        BY DEF JInv, Bounds
      <3>2. CASE OutputDraws
        BY <3>1, <3>2, IpcAssumption DEF OutputDraws
      <3>3. CASE OutputDrawn \/ Dispatch \/ Dispatched \/ Post
        BY <3>1, <3>3 DEF OutputDrawn, Dispatch, Dispatched, Post
      <3> QED
        BY <1>3, <3>2, <3>3
    <2>3. Bounds' /\ Unread' /\ Served'
      BY <2>1, <2>2 DEF JInv, Bounds, Unread, Served, Queued
    <2>4. Closed' /\ Held' /\ ExitStatusExplained'
      BY <2>1 DEF JInv, Closed, Held, ExitStatusExplained, Vanished, Queued
    <2> QED
      BY <2>3, <2>4 DEF JInv
  <1> QED
    BY <1>1, <1>2, <1>3

LEMMA StepJInv == IInv /\ JInv /\ [Next]_vars => JInv'
  <1> SUFFICES ASSUME IInv, JInv, [Next]_vars PROVE JInv'
    OBVIOUS
  <1>1. CASE Leave \/ Stop
    BY <1>1, DownJInv DEF Leave, Stop, JInv, Bounds
  <1>2. CASE Daemon /\ ~Leave
    BY <1>2, AcceptJInv, ServeJInv, SilentJInv DEF Daemon
  <1>3. CASE UNCHANGED vars
    BY <1>3 DEF vars, client, socket, daemon, JInv, Bounds, Unread, Served, Closed, Held,
                Queued, Vanished, ExitStatusExplained
  <1> QED
    BY <1>1, <1>2, <1>3, ClientJInv, SilentJInv DEF Next

LEMMA StrongInvariant == Spec => []JInv
  BY InitJInv, StepJInv, Invariant, PTL DEF Spec

(* Every variable of Ipc keeps its range; at most one connection more than *)
(* the backlog waits.                                                      *)
THEOREM TypeCorrect == Spec => []TypeOK
  <1>1. IInv /\ JInv => TypeOK
    BY DEF IInv, Ranges, States, JInv, Bounds, TypeOK
  <1> QED
    BY <1>1, Invariant, StrongInvariant, PTL

(* xdwlw's exit status is explained by what the daemon did, for any number *)
(* of clients and outputs.                                                 *)
THEOREM ExitStatus == Spec => []ExitStatusExplained
  <1>1. JInv => ExitStatusExplained
    BY DEF JInv
  <1> QED
    BY <1>1, StrongInvariant, PTL

(* A connection is only forgotten when its client vanished and nothing was *)
(* done for it.                                                            *)
THEOREM Leaks == Spec => []OnlyVanishedLeak
  <1>1. IInv /\ JInv => OnlyVanishedLeak
    <2> SUFFICES ASSUME IInv, JInv, NEW c \in Leaked PROVE Vanished(c) /\ work[c] = "none"
      BY DEF OnlyVanishedLeak
    <2>1. c \in ends /\ c # cur /\ \A i \in DOMAIN queue : queue[i] # c
      BY DEF Leaked
    <2>2. ~Queued(c)
      BY <2>1 DEF Queued, IInv, Ranges
    <2> QED
      BY <2>1, <2>2 DEF JInv, Held
  <1> QED
    BY <1>1, Invariant, StrongInvariant, PTL

=============================================================================

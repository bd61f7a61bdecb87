------------------------------ MODULE Lifecycle ------------------------------
(***************************************************************************)
(* The life of xdwlwd processes that share one socket path: main() up to   *)
(* the poll loop, ipc_server_start(), and xdwlw_exit() with                *)
(* ipc_server_close(), which runs on the main path and, as the handler of  *)
(* SIGTERM and SIGINT, on top of whatever the process was doing, itself    *)
(* included.                                                               *)
(*                                                                         *)
(* xdwlw_exit() ends in exit(), so a handler never returns to the code it  *)
(* interrupted: the control point of the innermost context is all that is  *)
(* kept.                                                                   *)
(***************************************************************************)
EXTENDS Naturals

CONSTANTS Daemons,   \* xdwlwd processes, each started at most once
          NoOwner    \* the socket path does not exist

ASSUME NoOwnerAssumption == NoOwner \notin Daemons

VARIABLES
    pc,         \* control point of each daemon
    fd,         \* its socket: "none", "bound", "listening" or "closed"
    sfd,        \* the global sfd: "zero", "error" (-1) or "fd" (> 0)
    handling,   \* the signals whose handler has been entered
    reentered,  \* history: a signal arrived inside xdwlw_exit()
    sock_path   \* the daemon whose socket the path names, or NoOwner

vars == <<pc, fd, sfd, handling, reentered, sock_path>>

Signals == {"SIGTERM", "SIGINT"}

Exiting == {"close", "unlink", "exit"}     \* inside xdwlw_exit()
Gone    == {"dead", "killed"}              \* left by exit(), or crashed
Points  == {"off", "bind", "listen", "return", "init", "run"} \cup Exiting \cup Gone

Alive(d) == pc[d] \notin Gone \cup {"off"}

Init ==
    /\ pc        = [d \in Daemons |-> "off"]
    /\ fd        = [d \in Daemons |-> "none"]
    /\ sfd       = [d \in Daemons |-> "zero"]
    /\ handling  = [d \in Daemons |-> {}]
    /\ reentered = [d \in Daemons |-> FALSE]
    /\ sock_path = NoOwner

Goto(d, from, to) ==
    /\ pc[d] = from
    /\ pc' = [pc EXCEPT ![d] = to]

-----------------------------------------------------------------------------
(* main(): start, initialise, run                                          *)

\* The two signal() calls, then socket().
Launch(d) ==
    /\ Goto(d, "off", "bind")
    /\ UNCHANGED <<fd, sfd, handling, reentered, sock_path>>

\* bind() creates the path, and fails when there is one already.
Bind(d) ==
    /\ Goto(d, "bind", "listen")
    /\ sock_path = NoOwner
    /\ sock_path' = d
    /\ fd' = [fd EXCEPT ![d] = "bound"]
    /\ UNCHANGED <<sfd, handling, reentered>>

Listen(d) ==
    /\ Goto(d, "listen", "return")
    /\ fd' = [fd EXCEPT ![d] = "listening"]
    /\ UNCHANGED <<sfd, handling, reentered, sock_path>>

\* Mutant: the result of ipc_server_start() is not turned into -1.
StartFails_Unmapped(d) ==
    /\ Goto(d, "bind", "close") \/ Goto(d, "listen", "close")
    /\ sfd' = [sfd EXCEPT ![d] = fd[d]]
    /\ UNCHANGED <<fd, handling, reentered, sock_path>>

\* ipc_server_start() returns -1 from socket(), bind() or listen(), without
\* closing or unlinking what it has made, and main() calls xdwlw_exit().
StartFails(d) ==
    /\ \/ Goto(d, "bind", "close")
       \/ Goto(d, "listen", "close")
    /\ sfd' = [sfd EXCEPT ![d] = "error"]
    /\ UNCHANGED <<fd, handling, reentered, sock_path>>

\* Only here does xdwlw_exit() get to know the descriptor.
StartReturns(d) ==
    /\ Goto(d, "return", "init")
    /\ sfd' = [sfd EXCEPT ![d] = "fd"]
    /\ UNCHANGED <<fd, handling, reentered, sock_path>>

\* xdwlw_init() and the saved wallpapers succeed, or end in xdwlw_exit().
Initialise(d) ==
    /\ \/ Goto(d, "init", "run")
       \/ Goto(d, "init", "close")
    /\ UNCHANGED <<fd, sfd, handling, reentered, sock_path>>

\* A kill request or a failure in the poll loop.
Leave(d) ==
    /\ Goto(d, "run", "close")
    /\ UNCHANGED <<fd, sfd, handling, reentered, sock_path>>

-----------------------------------------------------------------------------
(* xdwlw_exit()                                                            *)

\* Mutant: handlers installed without blocking their own signal.
Signal_Unblocked(d, s) ==
    /\ Alive(d)
    /\ pc' = [pc EXCEPT ![d] = "close"]
    /\ handling' = [handling EXCEPT ![d] = @ \cup {s}]
    /\ reentered' = [reentered EXCEPT ![d] = @ \/ pc[d] \in Exiting]
    /\ UNCHANGED <<fd, sfd, sock_path>>

\* A signal is blocked while its own handler runs; the other one is not.
Signal(d, s) ==
    /\ Alive(d)
    /\ s \notin handling[d]
    /\ pc' = [pc EXCEPT ![d] = "close"]
    /\ handling' = [handling EXCEPT ![d] = @ \cup {s}]
    /\ reentered' = [reentered EXCEPT ![d] = @ \/ pc[d] \in Exiting]
    /\ UNCHANGED <<fd, sfd, sock_path>>

\* Mutant: ipc_server_close() without its test of sfd.
CloseNothing_Unguarded(d) ==
    /\ Goto(d, "close", "unlink")
    /\ sfd[d] # "fd"
    /\ UNCHANGED <<fd, sfd, handling, reentered, sock_path>>

\* Nothing to close unless sfd > 0.
CloseNothing(d) ==
    /\ Goto(d, "close", "exit")
    /\ sfd[d] # "fd"
    /\ UNCHANGED <<fd, sfd, handling, reentered, sock_path>>

\* Mutants: ipc_server_close() unlinks and leaves close() to exit(), or
\* closes and forgets the path.
CloseSocket_UnlinkFirst(d) ==
    /\ Goto(d, "close", "exit")
    /\ sfd[d] = "fd"
    /\ fd[d] # "closed"
    /\ sock_path' = NoOwner
    /\ UNCHANGED <<fd, sfd, handling, reentered>>

CloseSocket_NoUnlink(d) ==
    /\ Goto(d, "close", "exit")
    /\ sfd[d] = "fd"
    /\ fd[d] # "closed"
    /\ fd' = [fd EXCEPT ![d] = "closed"]
    /\ UNCHANGED <<sfd, handling, reentered, sock_path>>

CloseSocket(d) ==
    /\ Goto(d, "close", "unlink")
    /\ sfd[d] = "fd"
    /\ fd[d] # "closed"
    /\ fd' = [fd EXCEPT ![d] = "closed"]
    /\ UNCHANGED <<sfd, handling, reentered, sock_path>>

\* close() of a descriptor that an interrupted xdwlw_exit() has closed:
\* EBADF, and ipc_server_close() returns before its unlink().
CloseAgain(d) ==
    /\ Goto(d, "close", "exit")
    /\ sfd[d] = "fd"
    /\ fd[d] = "closed"
    /\ UNCHANGED <<fd, sfd, handling, reentered, sock_path>>

\* unlink() removes the path whoever it belongs to.
Unlink(d) ==
    /\ Goto(d, "unlink", "exit")
    /\ sock_path' = NoOwner
    /\ UNCHANGED <<fd, sfd, handling, reentered>>

\* The kernel closes what is still open; the path stays as it is.
CloseAll(d) == fd' = [fd EXCEPT ![d] = IF @ = "none" THEN "none" ELSE "closed"]

Exit(d) ==
    /\ Goto(d, "exit", "dead")
    /\ CloseAll(d)
    /\ UNCHANGED <<sfd, handling, reentered, sock_path>>

\* SIGKILL, SIGSEGV, SIGPIPE, or abort() from an assert or from free().
Crash(d) ==
    /\ Alive(d)
    /\ pc' = [pc EXCEPT ![d] = "killed"]
    /\ CloseAll(d)
    /\ UNCHANGED <<sfd, handling, reentered, sock_path>>

-----------------------------------------------------------------------------
Step(d) ==
    \/ Bind(d) \/ Listen(d) \/ StartFails(d) \/ StartReturns(d) \/ Initialise(d)
    \/ CloseNothing(d) \/ CloseSocket(d) \/ CloseAgain(d) \/ Unlink(d) \/ Exit(d)

Next ==
    \E d \in Daemons :
        \/ Launch(d) \/ Step(d) \/ Leave(d) \/ Crash(d)
        \/ \E s \in Signals : Signal(d, s)

Spec == Init /\ [][Next]_vars

\* A process that can run is scheduled; nobody has to start it, to stop it or
\* to send it signals.
FairSpec == Spec /\ \A d \in Daemons : WF_vars(Step(d))

-----------------------------------------------------------------------------
TypeOK ==
    /\ pc \in [Daemons -> Points]
    /\ fd \in [Daemons -> {"none", "bound", "listening", "closed"}]
    /\ sfd \in [Daemons -> {"zero", "error", "fd"}]
    /\ handling \in [Daemons -> SUBSET Signals]
    /\ reentered \in [Daemons -> BOOLEAN]
    /\ sock_path \in Daemons \cup {NoOwner}

(* A daemon that has started and is not on its way out can be reached: the *)
(* path still names its own listening socket, whatever other daemons have  *)
(* tried, failed and cleaned up meanwhile.                                 *)
RunningReachable ==
    \A d \in Daemons :
        pc[d] \in {"init", "run"} => sock_path = d /\ fd[d] = "listening"

(* A socket left behind by a daemon that went through xdwlw_exit() has one *)
(* of two causes: xdwlw_exit() did not know the descriptor (listen()       *)
(* failed, or a signal arrived before ipc_server_start() returned), or a   *)
(* signal re-entered xdwlw_exit() between its close() and its unlink().    *)
StaleExplained ==
    \A d \in Daemons :
        pc[d] = "dead" /\ sock_path = d => sfd[d] # "fd" \/ reentered[d]

(* A path disappears only in its owner's unlink(), never by the hand of a  *)
(* daemon that failed to start or of one that already let it go.           *)
OnlyOwnerUnlinks ==
    [][\A d \in Daemons :
          sock_path = d /\ sock_path' # d => pc[d] = "unlink" /\ sock_path' = NoOwner]_vars

(* A daemon that begins to exit is gone eventually, through any number of  *)
(* signals on the way.                                                     *)
ExitCompletes == \A d \in Daemons : pc[d] \in Exiting ~> pc[d] \in Gone

(* The promise of the path, with its owner and the listening daemons.      *)
Name == INSTANCE SocketName WITH owner <- sock_path,
                                 serving <- {d \in Daemons : fd[d] = "listening"}
KeepsName == Name!Spec

=============================================================================

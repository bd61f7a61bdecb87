-------------------------- MODULE LifecycleProofs --------------------------
(***************************************************************************)
(* What Lifecycle guarantees for any number of daemons.  The argument:     *)
(* whoever has bound the path and not yet passed its own unlink() owns it  *)
(* (Owned); sfd tells xdwlw_exit() about the descriptor only after         *)
(* listen() has succeeded (Known), so a daemon that failed to start never  *)
(* reaches unlink(), and a daemon at unlink() still owns the path.         *)
(***************************************************************************)
EXTENDS Lifecycle, TLAPS

Owned == \A d \in Daemons :
            fd[d] \in {"bound", "listening"} \/ pc[d] = "unlink" => sock_path = d

Located == \A d \in Daemons :
    /\ pc[d] \in {"off", "bind"} => fd[d] = "none"
    /\ pc[d] = "listen" => fd[d] = "bound"
    /\ pc[d] \in {"return", "init", "run"} => fd[d] = "listening"
    /\ pc[d] = "unlink" => fd[d] = "closed"
    /\ pc[d] \in Gone => fd[d] \in {"none", "closed"}

Known == \A d \in Daemons :
    /\ pc[d] \in {"init", "run", "unlink"} => sfd[d] = "fd"
    /\ pc[d] \in {"off", "bind", "listen", "return"} => sfd[d] = "zero"
    /\ sfd[d] = "fd" => fd[d] \in {"listening", "closed"}

(* xdwlw_exit() has closed the socket and the path is still there: between *)
(* close() and unlink(), or for good after a re-entry.                     *)
Unfinished == \A d \in Daemons :
    /\ sfd[d] = "fd" /\ fd[d] = "closed" /\ sock_path = d =>
           reentered[d] \/ pc[d] \in {"unlink", "killed"}
    /\ sfd[d] = "fd" /\ pc[d] = "exit" => fd[d] = "closed"

IInv == TypeOK /\ Owned /\ Located /\ Known /\ Unfinished

LEMMA InitIInv == Init => IInv
  BY NoOwnerAssumption
  DEF Init, IInv, TypeOK, Owned, Located, Known, Unfinished, Points, Gone, Exiting

(* One daemon's step changes that daemon's entries and at most the path.   *)
LEMMA StepIInv == IInv /\ [Next]_vars => IInv'
  <1> SUFFICES ASSUME IInv, [Next]_vars PROVE IInv'
    OBVIOUS
  <1> USE NoOwnerAssumption
          DEF IInv, TypeOK, Owned, Located, Known, Unfinished, Points, Gone, Exiting, Goto
  <1>1. ASSUME NEW d \in Daemons, Launch(d) PROVE IInv'
    BY <1>1 DEF Launch
  <1>2. ASSUME NEW d \in Daemons, Bind(d) PROVE IInv'
    BY <1>2 DEF Bind
  <1>3. ASSUME NEW d \in Daemons, Listen(d) PROVE IInv'
    BY <1>3 DEF Listen
  <1>4. ASSUME NEW d \in Daemons, StartFails(d) PROVE IInv'
    BY <1>4 DEF StartFails
  <1>5. ASSUME NEW d \in Daemons, StartReturns(d) PROVE IInv'
    BY <1>5 DEF StartReturns
  <1>6. ASSUME NEW d \in Daemons, Initialise(d) PROVE IInv'
    BY <1>6 DEF Initialise
  <1>7. ASSUME NEW d \in Daemons, Leave(d) PROVE IInv'
    BY <1>7 DEF Leave
  <1>8. ASSUME NEW d \in Daemons, NEW s \in Signals, Signal(d, s) PROVE IInv'
    <2>1. TypeOK' /\ Owned' /\ Located' /\ Known'
      BY <1>8 DEF Signal, Alive
    <2>2. fd[d] = "closed" /\ sfd[d] = "fd" => reentered'[d]
      BY <1>8 DEF Signal, Alive
    <2>3. Unfinished'
      BY <1>8, <2>2 DEF Signal
    <2> QED
      BY <2>1, <2>3
  <1>9. ASSUME NEW d \in Daemons, CloseNothing(d) PROVE IInv'
    BY <1>9 DEF CloseNothing
  <1>10. ASSUME NEW d \in Daemons, CloseSocket(d) PROVE IInv'
    BY <1>10 DEF CloseSocket
  <1>11. ASSUME NEW d \in Daemons, CloseAgain(d) PROVE IInv'
    BY <1>11 DEF CloseAgain
  <1>12. ASSUME NEW d \in Daemons, Unlink(d) PROVE IInv'
    BY <1>12 DEF Unlink
  <1>13. ASSUME NEW d \in Daemons, Exit(d) PROVE IInv'
    BY <1>13 DEF Exit, CloseAll
  <1>14. ASSUME NEW d \in Daemons, Crash(d) PROVE IInv'
    BY <1>14 DEF Crash, CloseAll, Alive
  <1>15. CASE UNCHANGED vars
    BY <1>15 DEF vars
  <1> QED
    BY <1>1, <1>2, <1>3, <1>4, <1>5, <1>6, <1>7, <1>8, <1>9, <1>10, <1>11,
       <1>12, <1>13, <1>14, <1>15 DEF Next, Step

-----------------------------------------------------------------------------
LEMMA Invariant == Spec => []IInv
  BY InitIInv, StepIInv, PTL DEF Spec

(* Every variable keeps its range, for any number of daemons.              *)
THEOREM TypeCorrect == Spec => []TypeOK
  <1>1. IInv => TypeOK
    BY DEF IInv
  <1> QED
    BY <1>1, Invariant, PTL

(* A daemon that serves is the one the path leads to: no start, failure or *)
(* exit of another daemon, however they interleave, takes the path away.   *)
THEOREM Reachable == Spec => []RunningReachable
  <1>1. IInv => RunningReachable
    BY DEF IInv, RunningReachable, Owned, Located
  <1> QED
    BY <1>1, Invariant, PTL

(* A daemon that leaves through xdwlw_exit() with a known descriptor and   *)
(* with no second signal in the middle takes its socket path with it.      *)
THEOREM StaleSocketExplained == Spec => []StaleExplained
  <1>1. IInv => StaleExplained
    BY DEF IInv, StaleExplained, Known, Located, Unfinished, Gone
  <1> QED
    BY <1>1, Invariant, PTL

(* Who can make the path change hands, and how: only its owner, in its own *)
(* unlink(), and only to no owner at all.                                  *)
LEMMA OwnerStep ==
  ASSUME IInv, [Next]_vars, NEW d \in Daemons, sock_path = d, sock_path' # d
  PROVE  pc[d] = "unlink" /\ sock_path' = NoOwner
  <1> USE NoOwnerAssumption DEF Goto
  <1>1. CASE UNCHANGED vars
    BY <1>1 DEF vars
  <1>2. ASSUME NEW e \in Daemons,
               \/ Launch(e) \/ Step(e) \/ Leave(e) \/ Crash(e)
               \/ \E s \in Signals : Signal(e, s)
        PROVE  Unlink(e)
    BY <1>2 DEF Launch, Step, Leave, Crash, Signal, Bind, Listen, StartFails,
                StartReturns, Initialise, CloseNothing, CloseSocket, CloseAgain, Exit
  <1>3. ASSUME NEW e \in Daemons, Unlink(e)
        PROVE  e = d /\ pc[e] = "unlink" /\ sock_path' = NoOwner
    BY <1>3 DEF Unlink, IInv, Owned
  <1> QED
    BY <1>1, <1>2, <1>3 DEF Next

(* The path is never taken from its owner.                                 *)
THEOREM UnlinkedByOwner == Spec => OnlyOwnerUnlinks
  <1>1. ASSUME IInv, [Next]_vars
        PROVE  [\A d \in Daemons :
                   sock_path = d /\ sock_path' # d =>
                       pc[d] = "unlink" /\ sock_path' = NoOwner]_vars
    BY <1>1, OwnerStep
  <1> QED
    BY <1>1, Invariant, PTL DEF Spec, OnlyOwnerUnlinks

-----------------------------------------------------------------------------
(* Every step of Lifecycle is a step of SocketName or leaves its variables *)
(* alone.                                                                  *)
LEMMA NameStep == IInv /\ [Next]_vars => [Name!Next]_(Name!vars)
  <1> SUFFICES ASSUME IInv, [Next]_vars PROVE [Name!Next]_(Name!vars)
    OBVIOUS
  <1> DEFINE serving == {d \in Daemons : fd[d] = "listening"}
  <1> USE NoOwnerAssumption DEF IInv, TypeOK, Goto
  <1>1. CASE UNCHANGED vars
    BY <1>1 DEF vars, Name!vars
  <1>2. ASSUME NEW d \in Daemons, Bind(d) PROVE Name!Claim(d)
    <2>1. serving' = serving
      BY <1>2 DEF Bind, Located
    <2> QED
      BY <1>2, <2>1 DEF Bind, Name!Claim
  <1>3. ASSUME NEW d \in Daemons, Listen(d) PROVE Name!Serve(d)
    <2>1. serving' = serving \cup {d}
      BY <1>3 DEF Listen
    <2>2. sock_path = d /\ sock_path' = d
      BY <1>3 DEF Listen, Located, Owned
    <2> QED
      BY <2>1, <2>2 DEF Name!Serve
  <1>4. ASSUME NEW d \in Daemons, CloseSocket(d) \/ Exit(d) \/ Crash(d)
        PROVE  Name!Stop(d)
    <2>1. serving' = serving \ {d}
      BY <1>4 DEF CloseSocket, Exit, Crash, CloseAll
    <2>2. UNCHANGED sock_path
      BY <1>4 DEF CloseSocket, Exit, Crash
    <2> QED
      BY <2>1, <2>2 DEF Name!Stop
  <1>5. ASSUME NEW d \in Daemons, Unlink(d) PROVE Name!Release(d)
    <2>1. serving' = serving
      BY <1>5 DEF Unlink
    <2>2. sock_path = d /\ d \notin serving
      BY <1>5 DEF Unlink, Owned, Located
    <2> QED
      BY <1>5, <2>1, <2>2 DEF Unlink, Name!Release
  <1>6. ASSUME NEW d \in Daemons,
               \/ Launch(d) \/ StartFails(d) \/ StartReturns(d) \/ Initialise(d)
               \/ Leave(d) \/ CloseNothing(d) \/ CloseAgain(d)
               \/ \E s \in Signals : Signal(d, s)
        PROVE  UNCHANGED Name!vars
    <2>1. UNCHANGED <<fd, sock_path>>
      BY <1>6 DEF Launch, StartFails, StartReturns, Initialise, Leave,
                  CloseNothing, CloseAgain, Signal
    <2> QED
      BY <2>1 DEF Name!vars
  <1> QED
    BY <1>1, <1>2, <1>3, <1>4, <1>5, <1>6 DEF Next, Step, Name!Next

(* The daemons' code implements the abstract promise of the path.          *)
THEOREM Implements == Spec => KeepsName
  <1>1. Init => Name!Init
    BY DEF Init, Name!Init
  <1> QED
    BY <1>1, NameStep, Invariant, PTL DEF Spec, KeepsName, Name!Spec

=============================================================================

-------------------------- MODULE HttpServerProofs ---------------------------
(***************************************************************************)
(* Proofs about Execution and HttpServer for every set of clients, every   *)
(* number of coroutines of async_start() and of calls of exec(), TCP or    *)
(* TLS.                                                                    *)
(***************************************************************************)
EXTENDS HttpServer, TLAPS

\* exec() and exit() keep the types of their variables.
LEMMA ExecTypeStep ==
  ASSUME ExecTypeOK, ExecNext \/ ExitHere \/ UNCHANGED execVars
  PROVE  ExecTypeOK'
<1> USE ExecutionAssumption DEF ExecTypeOK, Main
<1>1. CASE Exec
  <2>1. execs' \in 0 .. MaxExecs
    BY <1>1 DEF Exec
  <2>2. QED
    BY <1>1, <2>1 DEF Exec
<1>2. CASE ExecProgress
  BY <1>2 DEF ExecProgress, RunReturns, TestFlag, Restart
<1>3. CASE ExitElsewhere \/ ClearFlag \/ StopContext
  BY <1>3 DEF ExitElsewhere, ClearFlag, StopContext
<1>4. CASE ExitHere
  BY <1>4 DEF ExitHere
<1>5. CASE UNCHANGED execVars
  BY <1>5 DEF execVars
<1>6. QED
  BY <1>1, <1>2, <1>3, <1>4, <1>5 DEF ExecNext

\* A coroutine that goes on has an accept operation, pending or failed.
LEMMA AcceptOnState ==
  ASSUME NEW a PROVE AcceptOn(a) \in {"waiting", "failed"}
  BY DEF AcceptOn

LEMMA TypeInit == Init => TypeOK
<1> SUFFICES ASSUME Init PROVE TypeOK
  OBVIOUS
<1>1. ExecTypeOK
  <2>1. 0 \in 0 .. MaxExecs
    BY ExecutionAssumption
  <2>2. QED
    BY <2>1 DEF Init, ExecInit, ExecTypeOK, Main
<1>2. /\ loop \in [Loops -> LoopState] /\ socket \in [Loops -> Clients \cup {NoClient}]
      /\ conn \in [Clients -> ConnState]
  BY DEF Init, LoopState, ConnState
<1>3. QED
  BY <1>1, <1>2 DEF Init, TypeOK

\* What the coroutines of async_start() do keeps the types, and a socket belongs to
\* exactly the coroutines whose accept operation has got one.
LEMMA LoopTypeStep ==
  ASSUME TypeOK, NEW l \in Loops,
         LoopStep(l) \/ (\E ok \in BOOLEAN : Shaken(l, ok)) \/ Fails(l)
  PROVE  TypeOK'
<1> USE DEF TypeOK, LoopState, ConnState, Runs, Again
<1>0. UNCHANGED execVars
  BY DEF LoopStep, Begin, Serve, Handshake, Break, Recover, Terminate, Shaken, Fails, Accepted, End
<1>1. ExecTypeOK'
  BY <1>0, ExecTypeStep
<1>2. CASE Begin(l) \/ Recover(l)
  BY <1>1, <1>2, AcceptOnState DEF Begin, Recover
<1>3. ASSUME NEW ok \in BOOLEAN, loop[l] \in {"ready", "handshake"}, Accepted(l, ok)
      PROVE  TypeOK'
  <2>1. socket[l] \in Clients
    BY <1>3
  <2>2. QED
    BY <1>1, <1>3, <2>1, AcceptOnState, ServerAssumption DEF Accepted
<1>4. CASE Serve(l)
  BY <1>3, <1>4 DEF Serve
<1>5. ASSUME NEW ok \in BOOLEAN, Shaken(l, ok) PROVE TypeOK'
  BY <1>3, <1>5 DEF Shaken
<1>6. CASE Handshake(l) \/ Fails(l)
  BY <1>1, <1>6 DEF Handshake, Fails
<1>7. CASE Break(l) \/ Terminate(l)
  <2>1. loop[l] \in {"aborted", "failed"} /\ End(l) /\ dead' \in BOOLEAN
    BY <1>7 DEF Break, Terminate
  <2>2. CASE acceptor = "closed"
    BY <1>1, <2>1, <2>2 DEF End
  <2>3. CASE acceptor # "closed"
    BY <1>1, <2>1, <2>3 DEF End, Aborted, Reset
  <2>4. QED
    BY <2>2, <2>3
<1>8. QED
  BY <1>2, <1>4, <1>5, <1>6, <1>7 DEF LoopStep

LEMMA TypeStep == TypeOK /\ [Next]_vars => TypeOK'
<1> SUFFICES ASSUME TypeOK, [Next]_vars PROVE TypeOK'
  OBVIOUS
<1> USE DEF TypeOK, LoopState, ConnState
<1>1. CASE Application
  <2>1. ExecTypeOK'
    <3>1. ExitHere \/ UNCHANGED execVars
      BY <1>1 DEF Application, Bind, Stop, Destroy, Exit, Start, OnServerError
    <3>2. QED
      BY <3>1, ExecTypeStep
  <2>0. AllAtAccept \in BOOLEAN
    BY DEF AllAtAccept
  <2>2. CASE Bind
    BY <2>1, <2>2 DEF Bind
  <2>3. CASE Stop
    BY <2>0, <2>1, <2>3 DEF Stop, StopBody, Aborted
  <2>4. CASE Destroy
    BY <2>0, <2>1, <2>4 DEF Destroy, StopBody, Aborted, Reset
  <2>5. CASE Exit
    BY <2>1, <2>5 DEF Exit, serverVars
  <2>6. ASSUME NEW l \in Loops, Start(l) PROVE TypeOK'
    BY <2>1, <2>6 DEF Start
  <2>7. ASSUME NEW h \in BOOLEAN, OnServerError(h) PROVE TypeOK'
    BY <2>1, <2>7 DEF OnServerError
  <2>8. QED
    BY <1>1, <2>2, <2>3, <2>4, <2>5, <2>6, <2>7 DEF Application
<1>2. CASE OfExec(ExecNext)
  <2>1. ExecTypeOK'
    BY <1>2, ExecTypeStep DEF OfExec
  <2>2. QED
    BY <1>2, <2>1 DEF OfExec, serverVars
<1>3. ASSUME NEW c \in Clients, Connect(c) \/ Leave(c) PROVE TypeOK'
  <2>1. ExecTypeOK'
    BY <1>3, ExecTypeStep DEF Connect, Leave
  <2>2. QED
    BY <1>3, <2>1 DEF Connect, Leave
<1>4. ASSUME NEW c \in Clients, NEW l \in Loops, Completes(l, c) PROVE TypeOK'
  <2>1. ExecTypeOK'
    BY <1>4, ExecTypeStep DEF Completes
  <2>2. QED
    BY <1>4, <2>1, ServerAssumption DEF Completes
<1>5. ASSUME NEW l \in Loops,
             LoopStep(l) \/ (\E ok \in BOOLEAN : Shaken(l, ok)) \/ Fails(l)
      PROVE  TypeOK'
  BY <1>5, LoopTypeStep
<1>6. CASE UNCHANGED vars
  BY <1>6, ExecTypeStep DEF vars, serverVars
<1>7. QED
  BY <1>1, <1>2, <1>3, <1>4, <1>5, <1>6 DEF Next

\* Every variable has its type; a coroutine has a connection exactly between the
\* completion of its accept operation and the service; only a listening acceptor has
\* a backlog.
THEOREM ServerTypeCorrect == Spec => []TypeOK
  BY TypeInit, TypeStep, PTL DEF Spec

-----------------------------------------------------------------------------
\* The server is started, lives and says the truth about it.
LEMMA StartedStep == TypeOK /\ StartedIsListening /\ [Next]_vars => StartedIsListening'
<1> SUFFICES ASSUME TypeOK, StartedIsListening, [Next]_vars, isStart', ~dead'
             PROVE  acceptor' = "listening" /\ \E l \in Loops : loop'[l] # "none"
  BY DEF StartedIsListening
<1> USE DEF TypeOK
<1>0. ASSUME isStart, ~dead PROVE acceptor = "listening" /\ \E l \in Loops : loop[l] # "none"
  BY <1>0 DEF StartedIsListening
<1>1. CASE Application
  <2>1. CASE Bind
    BY <1>0, <2>1 DEF Bind, MayCall
  <2>2. CASE Stop \/ Destroy
    BY <2>2 DEF Stop, Destroy, StopBody
  <2>3. CASE Exit
    BY <1>0, <2>3 DEF Exit, serverVars
  <2>4. ASSUME NEW l \in Loops, Start(l) PROVE acceptor' = "listening" /\ loop'[l] # "none"
    BY <2>4 DEF Start
  <2>5. ASSUME NEW h \in BOOLEAN, OnServerError(h)
        PROVE  acceptor' = "listening" /\ \E l \in Loops : loop'[l] # "none"
    BY <1>0, <2>5 DEF OnServerError
  <2>6. QED
    BY <1>1, <2>1, <2>2, <2>3, <2>4, <2>5 DEF Application
<1>2. CASE OfExec(ExecNext)
  BY <1>0, <1>2 DEF OfExec, serverVars
<1>3. ASSUME NEW c \in Clients, Connect(c) \/ Leave(c)
      PROVE  acceptor' = "listening" /\ \E l \in Loops : loop'[l] # "none"
  BY <1>0, <1>3 DEF Connect, Leave
<1>4. ASSUME NEW c \in Clients, NEW l \in Loops, Completes(l, c)
      PROVE  acceptor' = "listening" /\ loop'[l] # "none"
  BY <1>0, <1>4 DEF Completes
<1>5. ASSUME NEW l \in Loops,
             LoopStep(l) \/ (\E ok \in BOOLEAN : Shaken(l, ok)) \/ Fails(l)
      PROVE  acceptor' = "listening" /\ loop'[l] # "none"
  <2>1. ~Break(l) /\ ~Terminate(l)
    BY DEF Break, Terminate, End
  <2>2. UNCHANGED <<isStart, acceptor, dead>> /\ loop'[l] # "none"
    BY <1>5, <2>1, AcceptOnState
       DEF LoopStep, Begin, Serve, Handshake, Recover, Shaken, Fails, Accepted, Again
  <2>3. QED
    BY <1>0, <2>2
<1>6. CASE UNCHANGED vars
  BY <1>0, <1>6 DEF vars, serverVars
<1>7. QED
  BY <1>1, <1>2, <1>3, <1>4, <1>5, <1>6 DEF Next

\* However start(), stop(), bind(), errors and the ends of old coroutines follow one
\* another: m_is_start means that the acceptor listens and somebody accepts.
THEOREM StartedListens == Spec => []StartedIsListening
<1>1. Init => StartedIsListening
  BY DEF Init, StartedIsListening
<1>2. QED
  BY <1>1, StartedStep, ServerTypeCorrect, PTL DEF Spec

-----------------------------------------------------------------------------
\* The accept operations that a stop() has ended stay ended until the next start().
LEMMA NoneAcceptsStep == TypeOK /\ NoneAccepts /\ ~dead /\ [Next]_vars => (NoneAccepts \/ dead)'
<1> SUFFICES ASSUME TypeOK, NoneAccepts, [Next]_vars, halted', ~dead'
             PROVE  ~isStart' /\ \A l \in Loops : loop'[l] \in {"none", "aborted", "failed"}
  BY DEF NoneAccepts
<1> USE DEF TypeOK
<1>0. ASSUME halted
      PROVE  ~isStart /\ \A l \in Loops : loop[l] \in {"none", "aborted", "failed"}
  BY <1>0 DEF NoneAccepts
<1>1. CASE Application
  <2>1. CASE Stop \/ Destroy
    BY <2>1 DEF Stop, Destroy, StopBody, AllAtAccept, Aborted
  <2>2. ASSUME NEW l \in Loops PROVE ~Start(l)
    BY DEF Start
  <2>3. CASE Bind \/ Exit \/ \E h \in BOOLEAN : OnServerError(h)
    <3>1. UNCHANGED <<halted, isStart, loop>>
      BY <2>3, Zenon DEF Bind, Exit, OnServerError, serverVars
    <3>2. QED
      BY <1>0, <3>1
  <2>4. QED
    BY <1>1, <2>1, <2>2, <2>3 DEF Application
<1>2. CASE OfExec(ExecNext)
  BY <1>0, <1>2 DEF OfExec, serverVars
<1>3. ASSUME NEW c \in Clients, Connect(c) \/ Leave(c) \/ \E l \in Loops : Completes(l, c)
      PROVE  ~isStart' /\ \A l \in Loops : loop'[l] \in {"none", "aborted", "failed"}
  <2>1. halted' = halted /\ isStart' = isStart
    BY <1>3 DEF Connect, Leave, Completes
  <2>2. loop' = loop
    BY <1>0, <1>3, <2>1 DEF Connect, Leave, Completes
  <2>3. QED
    BY <1>0, <2>1, <2>2
<1>4. ASSUME NEW l \in Loops,
             Fails(l) \/ LoopStep(l) \/ \E ok \in BOOLEAN : Shaken(l, ok)
      PROVE  ~isStart' /\ \A k \in Loops : loop'[k] \in {"none", "aborted", "failed"}
  <2>1. halted
    BY <1>4 DEF Fails, LoopStep, Begin, Serve, Handshake, Break, Recover, Terminate, Shaken,
                Accepted, End
  <2>2. Break(l)
    BY <1>0, <1>4, <2>1 DEF Fails, LoopStep, Begin, Serve, Handshake, Recover, Terminate,
                            Shaken, Runs
  <2>3. QED
    BY <1>0, <2>1, <2>2 DEF Break, End, Aborted
<1>5. CASE UNCHANGED vars
  BY <1>0, <1>5 DEF vars, serverVars
<1>6. QED
  BY <1>1, <1>2, <1>3, <1>4, <1>5 DEF Next

\* stop(): however many coroutines, clients and restarts there were, a stop() that met every
\* coroutine at a pending or failed accept operation is the last that clients see of the
\* server until it is started again.
THEOREM NoClientAfterStop == Spec => StopRefuses
<1>1. Init => NoneAccepts
  BY DEF Init, NoneAccepts
<1>2. dead /\ [Next]_vars => dead'
  BY DEF Next, Application, Bind, Stop, Destroy, Exit, Start, OnServerError, OfExec, MayCall,
         Connect, Leave, Completes, Fails, LoopStep, Begin, Serve, Handshake, Break, Recover,
         Terminate, Shaken, Runs, vars, serverVars
<1>3. ASSUME TypeOK, NoneAccepts \/ dead, [Next]_vars
      PROVE  [halted => \A c \in Clients :
                conn[c] = "backlog" => conn'[c] \notin {"accepted", "served"}]_vars
  <2> SUFFICES ASSUME Next, halted, NEW c \in Clients, conn[c] = "backlog"
               PROVE  conn'[c] \notin {"accepted", "served"}
    BY <1>3
  <2> USE <1>3 DEF TypeOK
  <2>1. CASE Application
    BY <2>1 DEF Application, Bind, Stop, Destroy, Exit, Start, OnServerError, serverVars, Reset
  <2>2. CASE OfExec(ExecNext)
    BY <2>2 DEF OfExec, serverVars
  <2>3. ASSUME NEW d \in Clients, Connect(d) \/ Leave(d) \/ \E l \in Loops : Completes(l, d)
        PROVE  conn'[c] \notin {"accepted", "served"}
    BY <2>3 DEF Connect, Leave, Completes, NoneAccepts
  <2>4. ASSUME NEW l \in Loops,
               Fails(l) \/ LoopStep(l) \/ \E ok \in BOOLEAN : Shaken(l, ok)
        PROVE  conn'[c] \notin {"accepted", "served"}
    <3>1. Break(l)
      BY <2>4 DEF Fails, LoopStep, Begin, Serve, Handshake, Recover, Terminate, Shaken, Runs,
                  NoneAccepts
    <3>2. QED
      BY <3>1 DEF Break, End, Reset
  <2>5. QED
    BY <2>1, <2>2, <2>3, <2>4 DEF Next
<1>4. QED
  BY <1>1, <1>2, <1>3, NoneAcceptsStep, ServerTypeCorrect, PTL DEF Spec, StopRefuses

-----------------------------------------------------------------------------
\* exec() is never about to undo an exit() that it did not overlook.
RestartIsWanted == main = "restart" => runFlag \/ late

LEMMA ExitSeenStep ==
  ASSUME ExecTypeOK, ExitIsSeen, RestartIsWanted, ExecNext \/ ExitHere \/ UNCHANGED execVars
  PROVE  ExitIsSeen' /\ RestartIsWanted'
<1> USE DEF ExecTypeOK, Main, ExitIsSeen, RestartIsWanted, Leaving
<1>1. CASE Exec
  BY <1>1 DEF Exec
<1>2. CASE RunReturns \/ TestFlag \/ Restart
  BY <1>2 DEF RunReturns, TestFlag, Restart
<1>3. CASE ExitElsewhere \/ ClearFlag \/ StopContext
  BY <1>3 DEF ExitElsewhere, ClearFlag, StopContext
<1>4. CASE ExitHere
  BY <1>4 DEF ExitHere, OnLoop
<1>5. CASE UNCHANGED execVars
  BY <1>5 DEF execVars
<1>6. QED
  BY <1>1, <1>2, <1>3, <1>4, <1>5 DEF ExecNext, ExecProgress

\* Whatever runs on the io_context, and from whichever thread exit() is called, an
\* exit() outside of exec()'s window between test and restart() stops the loop.
THEOREM ExitNotLost == Spec => []ExitIsSeen
<1>1. Init => ExitIsSeen /\ RestartIsWanted
  BY DEF Init, ExecInit, ExitIsSeen, RestartIsWanted, Leaving
<1>2. TypeOK /\ ExitIsSeen /\ RestartIsWanted /\ [Next]_vars => ExitIsSeen' /\ RestartIsWanted'
  <2> SUFFICES ASSUME TypeOK, ExitIsSeen, RestartIsWanted, [Next]_vars
               PROVE  ExitIsSeen' /\ RestartIsWanted'
    OBVIOUS
  <2>1. ExecNext \/ ExitHere \/ UNCHANGED execVars
    BY DEF Next, Application, Bind, Stop, Destroy, Exit, Start, OnServerError, OfExec,
           Connect, Leave, Completes, Fails, LoopStep, Begin, Serve, Handshake, Break,
           Recover, Terminate, Shaken, Accepted, End, vars
  <2>2. QED
    BY <2>1, ExitSeenStep DEF TypeOK
<1>3. QED
  BY <1>1, <1>2, ServerTypeCorrect, PTL DEF Spec
=============================================================================

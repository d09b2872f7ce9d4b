----------------------------- MODULE HttpServer -----------------------------
(***************************************************************************)
(* The accept loop of basic_server (http/server/detail/server.h) on the    *)
(* global io_context: bind, start, stop and destruction, called by main()  *)
(* or by handlers, against accept operations that complete, fail or are    *)
(* cancelled, for TCP and (tls) for TLS, where the handshake is a part of  *)
(* accept().  What happens on an accepted connection is HttpService.       *)
(*                                                                         *)
(* The io_context runs on one thread: an action is what that thread does   *)
(* from one suspension to the next.                                        *)
(***************************************************************************)
EXTENDS Execution, FiniteSets

CONSTANTS
  Clients, NoClient,
  Loops              \* bound: coroutines of async_start() alive at a time

ASSUME ServerAssumption == NoClient \notin Clients

VARIABLES
  tls,        \* the stream is an SSL stream
  isStart,    \* m_is_start
  acceptor,   \* "closed", "open" or "listening"
  onError,    \* there is a m_server_error_handler, and it returns true
  loop,       \* loop[l]: where a coroutine of async_start() is
  socket,     \* socket[l]: the connection its accept operation got
  conn,       \* conn[c]: the connection of client c
  destroyed,  \* the basic_server object is gone
  halted,     \* history: stop() met no coroutine but at a pending or failed accept
              \* operation, and nobody has started the server since
  dead        \* the process was terminated

serverVars ==
  <<tls, isStart, acceptor, onError, loop, socket, conn, destroyed, halted, dead>>
vars == <<execVars, serverVars>>

\* "waiting": an accept operation is pending; "ready": it has completed and its
\* handler is queued; "aborted", "failed": the same with an error.
LoopState == {"none", "queued", "waiting", "ready", "handshake", "aborted", "failed"}
ConnState == {"away", "backlog", "accepted", "served"}

TypeOK ==
  /\ ExecTypeOK
  /\ tls \in BOOLEAN /\ isStart \in BOOLEAN /\ destroyed \in BOOLEAN /\ dead \in BOOLEAN
  /\ acceptor \in {"closed", "open", "listening"}
  /\ onError \in BOOLEAN /\ halted \in BOOLEAN
  /\ loop \in [Loops -> LoopState]
  /\ socket \in [Loops -> Clients \cup {NoClient}]
  /\ conn \in [Clients -> ConnState]
  /\ \A l \in Loops : socket[l] # NoClient <=> loop[l] \in {"ready", "handshake"}
  /\ \A c \in Clients : conn[c] = "backlog" => acceptor = "listening"

Init ==
  /\ ExecInit
  /\ tls \in BOOLEAN
  /\ isStart = FALSE /\ acceptor = "closed" /\ onError = FALSE
  /\ loop = [l \in Loops |-> "none"]
  /\ socket = [l \in Loops |-> NoClient]
  /\ conn = [c \in Clients |-> "away"]
  /\ destroyed = FALSE /\ halted = FALSE /\ dead = FALSE

-----------------------------------------------------------------------------
\* The application, in main() or in a handler.
MayCall == ~dead /\ ~destroyed /\ (OnLoop \/ MainFree)

\* bind(): opens a closed acceptor; the endpoint may be refused after that.  An
\* acceptor that is already bound refuses a second endpoint.
Bind ==
  /\ MayCall /\ acceptor = "closed"
  /\ acceptor' = "open"
  /\ UNCHANGED <<execVars, tls, isStart, onError, loop, socket, conn, destroyed, halted, dead>>

\* What an accept operation started now comes to.
AcceptOn(a) == IF a = "listening" THEN "waiting" ELSE "failed"

\* async_start(): nothing if started; listen() fails on a closed acceptor.  The
\* coroutine starts at once when the caller is a handler.
Start(l) ==
  /\ MayCall /\ ~isStart /\ acceptor # "closed" /\ loop[l] = "none"
  /\ acceptor' = "listening"
  /\ isStart' = TRUE
  /\ loop' = [loop EXCEPT ![l] = IF OnLoop THEN "waiting" ELSE "queued"]
  /\ halted' = FALSE
  /\ UNCHANGED <<execVars, tls, onError, socket, conn, destroyed, dead>>

\* acceptor().cancel(): the pending operations complete with operation_aborted,
\* those that have completed are not affected.
Aborted == [l \in Loops |-> IF loop[l] = "waiting" THEN "aborted" ELSE loop[l]]

\* No coroutine is about to start an accept operation without a look at the flag.
AllAtAccept == \A l \in Loops : loop[l] \in {"none", "waiting", "aborted", "failed"}

\* Mutation: the pending accept operations are not cancelled.
StopBody_NoCancel ==
  /\ isStart' = FALSE
  /\ halted' = AllAtAccept
  /\ UNCHANGED <<loop, dead>>

\* stop() is noexcept, and cancel() throws on a closed acceptor.
StopBody ==
  /\ isStart' = FALSE
  /\ halted' = AllAtAccept
  /\ IF acceptor = "closed"
     THEN dead' = TRUE /\ UNCHANGED loop
     ELSE loop' = Aborted /\ UNCHANGED dead

Stop ==
  /\ MayCall
  /\ StopBody
  /\ UNCHANGED <<execVars, tls, acceptor, onError, socket, conn, destroyed>>

\* Closing the acceptor resets the connections nobody has accepted; their clients
\* may try again.
Reset == [c \in Clients |-> IF conn[c] = "backlog" THEN "away" ELSE conn[c]]

\* ~basic_server() calls stop(); the coroutines keep the implementation alive.
Destroy ==
  /\ MayCall
  /\ StopBody
  /\ destroyed' = TRUE
  /\ IF \A l \in Loops : loop[l] = "none"
     THEN acceptor' = "closed" /\ conn' = Reset
     ELSE UNCHANGED <<acceptor, conn>>
  /\ UNCHANGED <<execVars, tls, onError, socket>>

\* on_server_error() and unbound_server_error().
OnServerError(h) ==
  /\ MayCall /\ onError # h
  /\ onError' = h
  /\ UNCHANGED <<execVars, tls, isStart, acceptor, loop, socket, conn, destroyed, halted, dead>>

\* libgs::exit() in a handler.
Exit == ~dead /\ ExitHere /\ UNCHANGED serverVars

-----------------------------------------------------------------------------
\* Clients and the kernel.
Connect(c) ==
  /\ ~dead /\ conn[c] = "away" /\ acceptor = "listening"
  /\ conn' = [conn EXCEPT ![c] = "backlog"]
  /\ UNCHANGED <<execVars, tls, isStart, acceptor, onError, loop, socket, destroyed, halted, dead>>

Leave(c) ==
  /\ ~dead /\ conn[c] = "served"
  /\ conn' = [conn EXCEPT ![c] = "away"]
  /\ UNCHANGED <<execVars, tls, isStart, acceptor, onError, loop, socket, destroyed, halted, dead>>

Completes(l, c) ==
  /\ ~dead /\ OnLoop /\ loop[l] = "waiting" /\ conn[c] = "backlog"
  /\ loop' = [loop EXCEPT ![l] = "ready"]
  /\ socket' = [socket EXCEPT ![l] = c]
  /\ conn' = [conn EXCEPT ![c] = "accepted"]
  /\ UNCHANGED <<execVars, tls, isStart, acceptor, onError, destroyed, halted, dead>>

\* The kernel refuses a descriptor.
Fails(l) ==
  /\ ~dead /\ OnLoop /\ loop[l] = "waiting"
  /\ loop' = [loop EXCEPT ![l] = "failed"]
  /\ UNCHANGED <<execVars, tls, isStart, acceptor, onError, socket, conn, destroyed, halted, dead>>

-----------------------------------------------------------------------------
\* The coroutine of async_start() and do_tcp_accept().
Runs(l, from) == ~dead /\ OnLoop /\ loop[l] \in from

Again(l) == loop' = [loop EXCEPT ![l] = AcceptOn(acceptor)]

Begin(l) ==
  /\ Runs(l, {"queued"})
  /\ Again(l)
  /\ UNCHANGED <<execVars, tls, isStart, acceptor, onError, socket, conn, destroyed, halted, dead>>

\* accept() returned with a connection that is open, or closed after a failed
\* handshake; an open one gets its service coroutine.  The flag is not looked at.
Accepted(l, open) ==
  /\ conn' = [conn EXCEPT ![socket[l]] = IF open THEN "served" ELSE "away"]
  /\ socket' = [socket EXCEPT ![l] = NoClient]
  /\ Again(l)
  /\ UNCHANGED <<execVars, tls, isStart, acceptor, onError, destroyed, halted, dead>>

Serve(l) == Runs(l, {"ready"}) /\ ~tls /\ Accepted(l, TRUE)

\* accept() for TLS: the handshake starts, and ends when the client lets it.
Handshake(l) ==
  /\ Runs(l, {"ready"}) /\ tls
  /\ loop' = [loop EXCEPT ![l] = "handshake"]
  /\ UNCHANGED <<execVars, tls, isStart, acceptor, onError, socket, conn, destroyed, halted, dead>>

Shaken(l, ok) == Runs(l, {"handshake"}) /\ Accepted(l, ok)

\* The end of the coroutine: cancel(), close(), m_is_start = false.  cancel()
\* throws when the acceptor is closed, and the rest is not done.
End(l) ==
  /\ IF acceptor = "closed"
     THEN loop' = [loop EXCEPT ![l] = "none"] /\ UNCHANGED <<acceptor, isStart, conn>>
     ELSE /\ loop' = [Aborted EXCEPT ![l] = "none"]
          /\ acceptor' = "closed" /\ isStart' = FALSE
          /\ conn' = Reset
  /\ UNCHANGED <<execVars, tls, onError, socket, destroyed, halted>>

\* Mutation: the flag is not looked at after an error.
Break_Ignored(l) ==
  /\ Runs(l, {"aborted", "failed"}) /\ ~isStart /\ onError
  /\ Again(l)
  /\ UNCHANGED <<execVars, tls, isStart, acceptor, onError, socket, conn, destroyed, halted, dead>>

\* An error, and stop() was called: the loop is left.
Break(l) ==
  /\ Runs(l, {"aborted", "failed"}) /\ ~isStart
  /\ End(l) /\ UNCHANGED dead

\* Mutation: the loop goes on without an accept operation.
Recover_Leaves(l) ==
  /\ Runs(l, {"aborted", "failed"}) /\ isStart /\ onError
  /\ loop' = [loop EXCEPT ![l] = "none"]
  /\ UNCHANGED <<execVars, tls, isStart, acceptor, onError, socket, conn, destroyed, halted, dead>>

\* An error of a started server: call_on_server_error().  The handler says whether
\* to go on; without it, or when it says no, the process ends.
Recover(l) ==
  /\ Runs(l, {"aborted", "failed"}) /\ isStart /\ onError
  /\ Again(l)
  /\ UNCHANGED <<execVars, tls, isStart, acceptor, onError, socket, conn, destroyed, halted, dead>>

Terminate(l) ==
  /\ Runs(l, {"aborted", "failed"}) /\ isStart /\ ~onError
  /\ End(l) /\ dead' = TRUE

LoopStep(l) ==
  \/ Begin(l) \/ Serve(l) \/ Handshake(l) \/ Break(l) \/ Recover(l) \/ Terminate(l)

OfExec(A) == ~dead /\ A /\ UNCHANGED serverVars

Application ==
  \/ Bind \/ Stop \/ Destroy \/ Exit
  \/ \E l \in Loops : Start(l)
  \/ \E h \in BOOLEAN : OnServerError(h)

Next ==
  \/ Application
  \/ OfExec(ExecNext)
  \/ \E c \in Clients : Connect(c) \/ Leave(c) \/ \E l \in Loops : Completes(l, c)
  \/ \E l \in Loops : Fails(l) \/ LoopStep(l) \/ \E ok \in BOOLEAN : Shaken(l, ok)

Spec == Init /\ [][Next]_vars

\* exec() and exit() go on, the io_context runs what is queued, the kernel hands out
\* connections when it can, and a client finishes its handshake or leaves.
FairSpec ==
  /\ Spec
  /\ WF_vars(OfExec(ExecProgress)) /\ WF_vars(OfExec(ExitProgress))
  /\ \A l \in Loops : WF_vars(LoopStep(l)) /\ WF_vars(\E ok \in BOOLEAN : Shaken(l, ok))
  /\ \A c \in Clients : SF_vars(\E l \in Loops : Completes(l, c))

-----------------------------------------------------------------------------
\* A server that says it is started listens and has a coroutine that accepts,
\* through every order of stop(), start(), bind() and aborted operations: the end of
\* an old coroutine (server.h:145-148) never closes the acceptor of a new start.
StartedIsListening ==
  isStart /\ ~dead => acceptor = "listening" /\ \E l \in Loops : loop[l] # "none"

\* After a stop() that met every coroutine at a pending or failed accept operation no
\* client is accepted until the next start(): not by the operations it cancelled, not by
\* one that failed before, and not by a coroutine that goes on after its error
\* (server.h:200-206).  A coroutine that has not begun yet (start() and stop() in main()
\* before exec()), or whose accept operation had completed, does accept again, because
\* it starts the next one without a look at the flag (server.h:171-175).
StopRefuses ==
  [][halted =>
       \A c \in Clients : conn[c] = "backlog" => conn'[c] \notin {"accepted", "served"}]_vars

\* Every connection in the backlog is taken or reset, as long as the loop runs: no
\* order of errors, recoveries and stops leaves an open acceptor that nobody
\* accepts from.  For TLS this needs clients that finish their handshakes, because
\* accept() waits for them (acceptor_wrap.h:164).
BacklogDrains ==
  \A c \in Clients : conn[c] = "backlog" ~> (conn[c] # "backlog" \/ dead \/ ~OnLoop)

\* Such a stop() also closes the acceptor as long as the loop runs: the operations it
\* cancels end the coroutines, and the end of a coroutine closes (server.h:145-147).
StopCloses ==
  halted /\ (\E l \in Loops : loop[l] # "none")
    ~> (acceptor = "closed" \/ isStart \/ dead \/ ~OnLoop)

\* exit() ends exec(), from a handler or from another thread and whatever exec() is
\* doing, unless the flag is cleared between exec()'s test and restart(): then the
\* stop is undone and the loop runs on (execution.cpp:60-66).
ExitEndsExec == Leaving ~> (main = "outside" \/ dead)

-----------------------------------------------------------------------------
\* Why StopRefuses holds, as long as the process lives: a stop() that met every coroutine
\* at its accept operation leaves none that would start another one.
NoneAccepts ==
  halted => ~isStart /\ \A l \in Loops : loop[l] \in {"none", "aborted", "failed"}
=============================================================================

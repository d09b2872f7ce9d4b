------------------------------ MODULE Execution ------------------------------
(***************************************************************************)
(* libgs::exec() and libgs::exit() (core/execution.cpp): the main thread   *)
(* runs the global io_context until a handler, or another thread, asks it  *)
(* to leave.  The components that live on the io_context extend this       *)
(* module: their handlers run while OnLoop holds.                          *)
(***************************************************************************)
EXTENDS Naturals

CONSTANT MaxExecs   \* bound: how often main() calls exec()

ASSUME ExecutionAssumption == MaxExecs \in Nat \ {0}

VARIABLES
  runFlag,   \* g_run_flag
  stopped,   \* the io_context is stopped
  main,      \* where the main thread is
  execs,     \* calls of exec() so far
  exiting,   \* where another thread is in exit()
  late       \* its stop of the io_context can be undone by exec()'s restart()

execVars == <<runFlag, stopped, main, execs, exiting, late>>

\* "run": inside io_context::run(); "test": it returned; "restart": the flag was
\* found set.
Main == {"outside", "run", "test", "restart"}

ExecTypeOK ==
  /\ runFlag \in BOOLEAN /\ stopped \in BOOLEAN /\ late \in BOOLEAN
  /\ main \in Main /\ execs \in 0 .. MaxExecs
  /\ exiting \in {"no", "flag", "stop"}

ExecInit ==
  /\ runFlag = FALSE /\ stopped = FALSE /\ late = FALSE
  /\ main = "outside" /\ execs = 0 /\ exiting = "no"

OnLoop   == main = "run" /\ ~stopped
MainFree == main = "outside"

\* exec(): the test against re-entry is passed, the flag is set.
Exec ==
  /\ main = "outside" /\ execs < MaxExecs /\ ~runFlag
  /\ runFlag' = TRUE /\ main' = "run" /\ execs' = execs + 1 /\ late' = FALSE
  /\ UNCHANGED <<stopped, exiting>>

\* run() returns, because the io_context is stopped: io_work keeps it from running
\* out of work.
RunReturns ==
  /\ main = "run" /\ stopped
  /\ main' = "test"
  /\ UNCHANGED <<runFlag, stopped, execs, exiting, late>>

\* Mutation: exec() looks at the flag no more and always runs again.
TestFlag_Never ==
  /\ main = "test" /\ main' = "restart"
  /\ UNCHANGED <<runFlag, stopped, execs, exiting, late>>

\* if( not g_run_flag ) break;
TestFlag ==
  /\ main = "test"
  /\ main' = IF runFlag THEN "restart" ELSE "outside"
  /\ UNCHANGED <<runFlag, stopped, execs, exiting, late>>

Restart ==
  /\ main = "restart"
  /\ stopped' = FALSE /\ main' = "run"
  /\ UNCHANGED <<runFlag, execs, exiting, late>>

\* exit() in a handler.  The exit code is data.
ExitHere ==
  /\ OnLoop /\ runFlag
  /\ runFlag' = FALSE /\ stopped' = TRUE
  /\ UNCHANGED <<main, execs, exiting, late>>

\* exit() on another thread: the test, g_run_flag = false, stop().
ExitElsewhere ==
  /\ exiting = "no" /\ runFlag
  /\ exiting' = "flag"
  /\ UNCHANGED <<runFlag, stopped, main, execs, late>>

ClearFlag ==
  /\ exiting = "flag"
  /\ runFlag' = FALSE /\ exiting' = "stop"
  /\ late' = (late \/ main = "restart")
  /\ UNCHANGED <<stopped, main, execs>>

StopContext ==
  /\ exiting = "stop"
  /\ stopped' = TRUE /\ exiting' = "no"
  /\ UNCHANGED <<runFlag, main, execs, late>>

ExecProgress == RunReturns \/ TestFlag \/ Restart

ExecNext == Exec \/ ExecProgress \/ ExitElsewhere \/ ClearFlag \/ StopContext

ExitProgress == ClearFlag \/ StopContext

\* exit() has cleared the flag, and not between exec()'s test and restart().
Leaving == main # "outside" /\ ~runFlag /\ ~late

\* An exit() that exec() can still notice is never lost: until exec() is about to test
\* the flag, the io_context is stopped or another thread is about to stop it, so that
\* run() returns (execution.cpp:60-66, 70-81).
ExitIsSeen == Leaving => main = "test" \/ stopped \/ exiting = "stop"
=============================================================================

------------------------------ MODULE CoWakeUp ------------------------------
(***************************************************************************)
(* detail::co_lock_wake_up (core/coro/detail/wake_up.h): the heap object a *)
(* suspended coroutine leaves in the wait queue of a co_mutex or of a      *)
(* co_semaphore.  It is completed at most once, either by the thread that  *)
(* hands the resource over (success = TRUE) or by its own timer            *)
(* (success = FALSE).                                                      *)
(*                                                                         *)
(* A slot is one heap block that can hold a wake-up object.  Which slots   *)
(* are alive is decided by the module that owns the shared pointers; a     *)
(* block is reused once it is dead, while the timer handler that captured  *)
(* its address (a raw `this`) may still be queued on the executor.         *)
(***************************************************************************)
EXTENDS Naturals, Sequences, FiniteSets

CONSTANTS
  Tasks,       \* the coroutines that use the primitive
  Slots,       \* heap blocks for wake-up objects (bounds the waiters alive)
  NoTask       \* owner of a block without a handler

ASSUME WakeUpAssumption == NoTask \notin Tasks

VARIABLES
  owner,       \* owner[w]: the coroutine whose handler m_handler stores, moved away by
               \* the first completion
  finished,    \* finished[w]: m_finished, the atomic_flag of the object
  timer,       \* timer[w]: state of m_timer
  dangling,    \* blocks a queued timer handler still refers to after reuse
  answer,      \* answer[t]: the bool dispatched to t's handler, not yet resumed
  uaf          \* the behaviour is undefined from here on: a timer handler ran on a
               \* deleted object, or a dequeue() broke the wait queue

wakeUpVars == <<owner, finished, timer, dangling, answer, uaf>>

\* "starting": the object is queued but start_timer() has not run yet, the
\* initiating function still holds a shared pointer;  "due": the handler of the
\* expired timer is queued on the executor.
TimerState == {"off", "starting", "armed", "due"}
Answer     == {"none", "yes", "no"}

WakeUpTypeOK ==
  /\ owner    \in [Slots -> Tasks \cup {NoTask}]
  /\ finished \in [Slots -> BOOLEAN]
  /\ timer    \in [Slots -> TimerState]
  /\ dangling \in SUBSET Slots
  /\ answer   \in [Tasks -> Answer]
  /\ uaf      \in BOOLEAN

WakeUpInit ==
  /\ owner    = [w \in Slots |-> NoTask]
  /\ finished = [w \in Slots |-> TRUE]
  /\ timer    = [w \in Slots |-> "off"]
  /\ dangling = {}
  /\ answer   = [t \in Tasks |-> "none"]
  /\ uaf      = FALSE

-----------------------------------------------------------------------------
\* Mutation: a timed wait never gets its timer.
Construct_Untimed(w, t, timed) ==
  /\ owner'    = [owner EXCEPT ![w] = t]
  /\ finished' = [finished EXCEPT ![w] = FALSE]
  /\ timer'    = [timer EXCEPT ![w] = "off"]
  /\ UNCHANGED <<dangling, answer, uaf>>

(* Construction in block w for coroutine t.  A handler of the previous     *)
(* object in that block that is still queued now dangles into the new one. *)
Construct(w, t, timed) ==
  /\ owner'    = [owner EXCEPT ![w] = t]
  /\ finished' = [finished EXCEPT ![w] = FALSE]
  /\ timer'    = [timer EXCEPT ![w] = IF timed THEN "starting" ELSE "off"]
  /\ dangling' = IF timer[w] = "due" THEN dangling \cup {w} ELSE dangling
  /\ UNCHANGED <<answer, uaf>>

(* start_timer().  The initiating function drops its shared pointer right  *)
(* after it: an object nobody else holds is deleted, its timer with it.    *)
StartTimer(w, heldElsewhere) ==
  /\ timer[w] = "starting"
  /\ timer' = [timer EXCEPT ![w] = IF heldElsewhere THEN "armed" ELSE "off"]
  /\ UNCHANGED <<owner, finished, dangling, answer, uaf>>

(* m_timer.cancel(): an armed timer is disarmed; asio cannot withdraw the  *)
(* handler of an expired one, which stays queued.                          *)
Cancelled(w) == IF timer[w] = "armed" THEN "off" ELSE timer[w]

(* operator()(success) by the thread that hands the resource over.  The    *)
(* caller reads finished[w] first: only the first completion dispatches    *)
(* the handler, later ones return false and change nothing.                *)
HandOver(w) ==
  /\ ~finished[w]
  /\ finished' = [finished EXCEPT ![w] = TRUE]
  /\ timer'    = [timer EXCEPT ![w] = Cancelled(w)]
  /\ answer'   = [answer EXCEPT ![owner[w]] = "yes"]
  /\ owner'    = [owner EXCEPT ![w] = NoTask]
  /\ UNCHANGED <<dangling, uaf>>

(* The timer of w expires: its handler is queued on the executor.          *)
TimerDue(w) ==
  /\ timer[w] = "armed"
  /\ timer' = [timer EXCEPT ![w] = "due"]
  /\ UNCHANGED <<owner, finished, dangling, answer, uaf>>

\* operator()(false) on the object that is in block w now.
GiveUp(w) ==
  IF finished[w]
  THEN UNCHANGED <<finished, answer, owner>>
  ELSE /\ finished' = [finished EXCEPT ![w] = TRUE]
       /\ answer'   = [answer EXCEPT ![owner[w]] = "no"]
       /\ owner'    = [owner EXCEPT ![w] = NoTask]

(* The queued handler of the expired timer runs operator()(false).  On a      *)
(* deleted object that is a use after free: the block still holds the set  *)
(* flag of the old object, so the call finds it finished.                  *)
TimerRun(w, live) ==
  /\ timer[w] = "due"
  /\ timer' = [timer EXCEPT ![w] = "off"]
  /\ IF live THEN GiveUp(w) /\ UNCHANGED uaf
             ELSE uaf' = TRUE /\ UNCHANGED <<finished, answer, owner>>
  /\ UNCHANGED dangling

(* A handler whose object was deleted and whose block was given to another *)
(* wake-up object: the call reaches the wrong object.                      *)
DanglingRun(w, live) ==
  /\ w \in dangling
  /\ dangling' = dangling \ {w}
  /\ uaf' = TRUE
  /\ IF live /\ ~finished[w]
     THEN GiveUp(w) /\ timer' = [timer EXCEPT ![w] = Cancelled(w)]
     ELSE UNCHANGED <<finished, answer, owner, timer>>

(* A dequeue() of the wait queue meets calls that lock_free_queue does not *)
(* allow beside it: a deleted node may be touched or a value lost.         *)
QueueBroken ==
  /\ uaf' = TRUE
  /\ UNCHANGED <<owner, finished, timer, dangling, answer>>

(* The dispatched handler resumes coroutine t, which consumes the answer.  *)
Resumed(t) ==
  /\ answer[t] # "none"
  /\ answer' = [answer EXCEPT ![t] = "none"]
  /\ UNCHANGED <<owner, finished, timer, dangling, uaf>>
=============================================================================

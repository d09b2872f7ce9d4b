------------------------------- MODULE CoMutex -------------------------------
(***************************************************************************)
(* libgs::co_mutex (core/coro/detail/mutex.h): a coroutine mutex made of   *)
(* an atomic flag and a FIFO of wake-up objects.  unlock() hands the mutex *)
(* to a parked waiter without clearing the flag, skips the waiters whose   *)
(* timer fired, and clears the flag only when the FIFO is empty.           *)
(*                                                                         *)
(* The FIFO is lock_free_queue, taken here as an atomic queue.  Only the   *)
(* unlocking owner dequeues (MutualExclusion counts a coroutine inside     *)
(* unlock as an owner), but on several threads others may be inside        *)
(* emplace() meanwhile.  One of them is what module LockFreeQueue shows to *)
(* be safe; with two the dequeue may delete a node that one of them still  *)
(* uses.  DequeueOverlaps is that outcome, Dequeue the other.              *)
(***************************************************************************)
EXTENDS CoWakeUp

CONSTANTS
  NoSlot,         \* no wake-up object
  MultiThreaded,  \* TRUE: coroutines run on several threads and interleave at
                  \* every atomic access; FALSE: one thread runs the executor
                  \* and a coroutine is interrupted only where it suspends
  SpuriousCAS     \* TRUE: compare_exchange_weak may fail on a free flag

ASSUME MutexAssumption ==
  /\ NoSlot \notin Slots
  /\ MultiThreaded \in BOOLEAN
  /\ SpuriousCAS \in BOOLEAN

VARIABLES
  locked,   \* m_native_handle
  queue,    \* m_wait_queue
  pc,       \* where each coroutine is in the operation it runs
  cur       \* the wake-up object that unlock() dequeued

vars == <<wakeUpVars, locked, queue, pc, cur>>

Control == {"idle", "enqueue", "enqueueTimed", "waiting", "waitingTimed",
            "holding", "dequeue", "wake", "clear"}

\* Where a coroutine is not executing: it returned to its caller or suspended.
Suspended == {"idle", "waiting", "waitingTimed", "holding"}

QueuedSlots == {queue[i] : i \in DOMAIN queue}

\* The objects some shared pointer keeps alive: the FIFO's, the local variable
\* of unlock(), the one of an initiating function before start_timer().
Live ==
  QueuedSlots \cup {cur[t] : t \in {u \in Tasks : pc[u] = "wake"}}
              \cup {w \in Slots : timer[w] = "starting"}

\* t may execute now.  One thread finishes the run of a coroutine before it
\* takes the next handler, start_timer() included.
MayRun(t) ==
  \/ MultiThreaded
  \/ /\ \A u \in Tasks \ {t} : pc[u] \in Suspended
     /\ \A w \in Slots : timer[w] # "starting"

\* The executor may take its next handler now.
ExecutorFree ==
  \/ MultiThreaded
  \/ /\ \A u \in Tasks : pc[u] \in Suspended
     /\ \A w \in Slots : timer[w] # "starting"

\* Bounds: the heap has a block for every coroutine that is about to park, and nobody
\* parks any more once the behaviour is undefined.
HeapRoom ==
  /\ ~uaf
  /\ Cardinality(Live) + Cardinality({t \in Tasks : pc[t] \in {"enqueue", "enqueueTimed"}})
       < Cardinality(Slots)

TypeOK ==
  /\ WakeUpTypeOK
  /\ locked \in BOOLEAN
  /\ queue \in Seq(Slots)
  /\ pc \in [Tasks -> Control]
  /\ cur \in [Tasks -> Slots \cup {NoSlot}]
  /\ \A t \in Tasks : cur[t] = NoSlot <=> pc[t] # "wake"

Init ==
  /\ WakeUpInit
  /\ locked = FALSE
  /\ queue = << >>
  /\ pc = [t \in Tasks |-> "idle"]
  /\ cur = [t \in Tasks |-> NoSlot]

Goto(t, l) == pc' = [pc EXCEPT ![t] = l]

-----------------------------------------------------------------------------
\* try_lock(): compare_exchange_weak(false, true).
CASTakes == ~locked
CASFails == locked \/ SpuriousCAS

TryLockTakes(t) ==
  /\ pc[t] = "idle" /\ MayRun(t)
  /\ CASTakes
  /\ locked' = TRUE
  /\ Goto(t, "holding")
  /\ UNCHANGED <<wakeUpVars, queue, cur>>

\* A failed try_lock() at the start of lock() and of try_lock_for/until(): the
\* coroutine suspends and its initiating function will enqueue a wake-up.  A
\* failed try_lock() called by the application changes nothing (a stutter).
LockMisses(t) ==
  /\ pc[t] = "idle" /\ MayRun(t)
  /\ CASFails /\ HeapRoom
  /\ \E l \in {"enqueue", "enqueueTimed"} : Goto(t, l)
  /\ UNCHANGED <<wakeUpVars, locked, queue, cur>>

\* The initiating function: make_shared and m_wait_queue.emplace.  The flag is
\* not read again.
Enqueue(t) ==
  /\ pc[t] \in {"enqueue", "enqueueTimed"} /\ MayRun(t)
  /\ \E w \in Slots \ Live :
       /\ Construct(w, t, pc[t] = "enqueueTimed")
       /\ queue' = Append(queue, w)
  /\ Goto(t, IF pc[t] = "enqueue" THEN "waiting" ELSE "waitingTimed")
  /\ UNCHANGED <<locked, cur>>

\* The end of the initiating function of a timed wait.
ArmTimer(w) ==
  /\ MultiThreaded \/ \A u \in Tasks : pc[u] \in Suspended
  /\ StartTimer(w, w \in QueuedSlots \/ \E t \in Tasks : cur[t] = w)
  /\ UNCHANGED <<locked, queue, pc, cur>>

ExpireTimer(w) ==
  /\ TimerDue(w)
  /\ UNCHANGED <<locked, queue, pc, cur>>

RunTimer(w) ==
  /\ ExecutorFree
  /\ TimerRun(w, w \in Live)
  /\ UNCHANGED <<locked, queue, pc, cur>>

RunDangling(w) ==
  /\ ExecutorFree
  /\ DanglingRun(w, w \in Live)
  /\ UNCHANGED <<locked, queue, pc, cur>>

\* Mutation: try_lock_for() ignores the bool as lock() does.
Resume_IgnoreTimeout(t) ==
  /\ pc[t] \in {"waiting", "waitingTimed"} /\ MayRun(t)
  /\ Resumed(t)
  /\ Goto(t, "holding")
  /\ UNCHANGED <<locked, queue, cur>>

\* Mutation: try_lock_for() reports an expired timer and not the bool.
Resume_ByTimer(t) ==
  /\ pc[t] \in {"waiting", "waitingTimed"} /\ MayRun(t)
  /\ Resumed(t)
  /\ Goto(t, IF pc[t] = "waiting" \/ \A w \in Slots : timer[w] # "due"
             THEN "holding" ELSE "idle")
  /\ UNCHANGED <<locked, queue, cur>>

\* The handler runs: lock() ignores the bool it is given, try_lock_for/until()
\* return it.
Resume(t) ==
  /\ pc[t] \in {"waiting", "waitingTimed"} /\ MayRun(t)
  /\ Resumed(t)
  /\ Goto(t, IF pc[t] = "waiting" \/ answer[t] = "yes" THEN "holding" ELSE "idle")
  /\ UNCHANGED <<locked, queue, cur>>

-----------------------------------------------------------------------------
\* unlock(), called by the owner.
Unlock(t) ==
  /\ pc[t] = "holding" /\ MayRun(t)
  /\ Goto(t, "dequeue")
  /\ UNCHANGED <<wakeUpVars, locked, queue, cur>>

\* m_wait_queue.dequeue().
Dequeue(t) ==
  /\ pc[t] = "dequeue" /\ MayRun(t)
  /\ IF queue = << >>
     THEN Goto(t, "clear") /\ UNCHANGED <<queue, cur>>
     ELSE /\ cur' = [cur EXCEPT ![t] = Head(queue)]
          /\ queue' = Tail(queue)
          /\ Goto(t, "wake")
  /\ UNCHANGED <<wakeUpVars, locked>>

\* Mutation: the flag is cleared on every unlock(), hand-over included.
Wake_ClearFlag(t) ==
  /\ pc[t] = "wake" /\ MayRun(t)
  /\ HandOver(cur[t])
  /\ cur' = [cur EXCEPT ![t] = NoSlot]
  /\ Goto(t, "idle")
  /\ locked' = FALSE
  /\ UNCHANGED queue

\* operator()(true) on the dequeued object: a live waiter owns the mutex now.
Wake(t) ==
  /\ pc[t] = "wake" /\ MayRun(t)
  /\ HandOver(cur[t])
  /\ cur' = [cur EXCEPT ![t] = NoSlot]
  /\ Goto(t, "idle")
  /\ UNCHANGED <<locked, queue>>

\* Mutation: after a timed-out waiter unlock() frees the mutex instead of going
\* on to the next waiter.
SkipFinished_Stop(t) ==
  /\ pc[t] = "wake" /\ MayRun(t)
  /\ finished[cur[t]]
  /\ cur' = [cur EXCEPT ![t] = NoSlot]
  /\ Goto(t, "clear")
  /\ UNCHANGED <<wakeUpVars, locked, queue>>

\* Mutation: the dequeued object of a timed-out waiter is not dropped.
SkipFinished_Keep(t) ==
  /\ pc[t] = "wake" /\ MayRun(t)
  /\ finished[cur[t]]
  /\ Goto(t, "dequeue")
  /\ UNCHANGED <<wakeUpVars, locked, queue, cur>>

\* operator()(true) returned false, the waiter has timed out: continue.
SkipFinished(t) ==
  /\ pc[t] = "wake" /\ MayRun(t)
  /\ finished[cur[t]]
  /\ cur' = [cur EXCEPT ![t] = NoSlot]
  /\ Goto(t, "dequeue")
  /\ UNCHANGED <<wakeUpVars, locked, queue>>

\* The FIFO was empty: m_native_handle = false.
Clear(t) ==
  /\ pc[t] = "clear" /\ MayRun(t)
  /\ locked' = FALSE
  /\ Goto(t, "idle")
  /\ UNCHANGED <<wakeUpVars, queue, cur>>

\* On several threads m_wait_queue.dequeue() may meet two emplace() calls.  Which
\* calls are not over yet is not part of the state (a coroutine can be handed the
\* mutex and resumed elsewhere before its own emplace() has returned), so that any
\* dequeue() may be one of these.
DequeueOverlaps(t) ==
  /\ MultiThreaded
  /\ pc[t] = "dequeue"
  /\ QueueBroken
  /\ UNCHANGED <<locked, queue, pc, cur>>

-----------------------------------------------------------------------------
TaskStep(t) ==
  \/ TryLockTakes(t) \/ LockMisses(t) \/ Enqueue(t)
  \/ Resume(t) \/ Unlock(t) \/ Dequeue(t) \/ Wake(t) \/ SkipFinished(t)
  \/ Clear(t)

SlotStep(w) ==
  ArmTimer(w) \/ ExpireTimer(w) \/ RunTimer(w) \/ RunDangling(w)

Next ==
  \/ \E t \in Tasks : TaskStep(t) \/ DequeueOverlaps(t)
  \/ \E w \in Slots : SlotStep(w)

Spec == Init /\ [][Next]_vars

\* A coroutine that is running goes on (WF); the executor takes its queued
\* handlers in order, so one that is queued is taken even if the executor is
\* busy in between (SF); a timer expires.
RunsOn(t) == Enqueue(t) \/ Dequeue(t) \/ Wake(t) \/ SkipFinished(t) \/ Clear(t)

ExecutorFairness ==
  /\ \A t \in Tasks : WF_vars(RunsOn(t)) /\ SF_vars(Resume(t))
  /\ \A w \in Slots : /\ WF_vars(ArmTimer(w)) /\ WF_vars(ExpireTimer(w))
                      /\ SF_vars(RunTimer(w))

\* The application promises nothing: an owner may keep the mutex for ever.
FairSpec == Spec /\ ExecutorFairness

\* What LockServed asks of the application.
OwnersUnlock == \A t \in Tasks : SF_vars(Unlock(t))

-----------------------------------------------------------------------------
\* t is responsible for the mutex: it is in its critical section, inside
\* unlock() before the mutex went to somebody else, or the mutex was handed to
\* it and its handler has not run yet.
Owns(t) == pc[t] \in {"holding", "dequeue", "wake", "clear"} \/ answer[t] = "yes"

\* At most one coroutine owns the mutex, whatever the interleaving of try_lock,
\* unlock's hand-over and timers, until a timer handler runs on a deleted wake-up
\* object or a dequeue() on several threads breaks the wait queue.  Counting the
\* coroutines inside unlock() as owners, it also says that the wait queue has one
\* consumer at a time.
MutualExclusion ==
  ~uaf => \A t, u \in Tasks : Owns(t) /\ Owns(u) => t = u

\* The flag is set exactly while somebody owns the mutex, through every
\* hand-over (which never clears it): the destructor of a mutex that everybody
\* gave back does not throw, and a free mutex is never left locked (until the
\* same two events).
FlagMatchesOwner ==
  ~uaf => (locked <=> \E t \in Tasks : Owns(t))

\* A coroutine that was given the mutex gets it: a timer that fires at the same
\* time as unlock() does not turn the grant into a time-out.
GrantIsKept ==
  [][\A t \in Tasks :
       answer[t] = "yes" /\ answer'[t] # "yes" => pc'[t] = "holding"]_vars

\* On a one-thread executor with a strong compare-exchange nobody waits for a
\* free mutex: unlock() cannot miss a coroutine that failed try_lock().
NoWaiterOnFreeMutex ==
  ~locked => /\ \A w \in QueuedSlots : finished[w]
             /\ \A t \in Tasks : pc[t] \notin {"enqueue", "enqueueTimed"}

\* On one thread every lock() that suspends is served when owners unlock, or a timer
\* handler runs on a deleted wake-up object.
LockServed ==
  OwnersUnlock => \A t \in Tasks : pc[t] = "waiting" ~> (pc[t] = "holding" \/ uaf)

\* try_lock_for/until() comes back even if the owner never unlocks.
TimedWaitReturns ==
  \A t \in Tasks : pc[t] = "waitingTimed" ~> pc[t] # "waitingTimed"

-----------------------------------------------------------------------------
\* The inductive invariant behind MutualExclusion and FlagMatchesOwner.  An
\* unfinished object that is alive belongs to one coroutine, which is parked and
\* unanswered; only a timed wait has a timer, so only it is told "no".
Pending(w) == w \in Live /\ ~finished[w]

PendingIsParked ==
  \A w \in Slots : Pending(w) =>
    /\ owner[w] \in Tasks
    /\ answer[owner[w]] = "none"
    /\ pc[owner[w]] \in {"waiting", "waitingTimed"}
    /\ timer[w] # "off" => pc[owner[w]] = "waitingTimed"

OnePendingEach ==
  \A v, w \in Slots : Pending(v) /\ Pending(w) /\ owner[v] = owner[w] => v = w

AnsweredIsParked ==
  \A t \in Tasks : /\ answer[t] = "yes" => pc[t] \in {"waiting", "waitingTimed"}
                   /\ answer[t] = "no" => pc[t] = "waitingTimed"

SafeInv == PendingIsParked /\ OnePendingEach /\ AnsweredIsParked
           /\ MutualExclusion /\ FlagMatchesOwner

IInv == TypeOK /\ (~uaf => SafeInv)

\* What remains of it after a use after free, which may answer an untimed waiter.
PendingWaits ==
  \A w \in Slots : Pending(w) =>
    /\ owner[w] \in Tasks
    /\ answer[owner[w]] = "none"
    /\ pc[owner[w]] \in {"waiting", "waitingTimed"}

AnsweredWaits ==
  \A t \in Tasks : answer[t] # "none" => pc[t] \in {"waiting", "waitingTimed"}

ParkInv == TypeOK /\ PendingWaits /\ OnePendingEach /\ AnsweredWaits

-----------------------------------------------------------------------------
\* The abstract mutex this implements: who holds it and who is parked.
Holder ==
  IF \E t \in Tasks : Owns(t) THEN CHOOSE t \in Tasks : Owns(t) ELSE NoTask

Parked == {t \in Tasks : pc[t] \in {"waiting", "waitingTimed"} /\ answer[t] = "none"}

Abstract == INSTANCE MutexSpec WITH holder <- Holder, parked <- Parked

\* co_mutex on a one-thread executor implements the abstract mutex until a timer handler
\* runs on a deleted wake-up object (wake_up.h:67): every step up to there is one of the
\* abstract mutex or changes neither the holder nor who is parked, the hand-overs and
\* releases that leave such a handler queued included.
ImplementsMutex ==
  Abstract!Init /\ [][Abstract!Next \/ uaf']_(Abstract!vars)

\* Why it does.  The flag is cleared while the FIFO is still empty, and a parked coroutine
\* has an object that unlock() will find.
ClearsWhenEmpty == \A t \in Tasks : pc[t] = "clear" => queue = << >>

ParkedIsQueued ==
  /\ \A w \in Slots : timer[w] = "starting" => w \in QueuedSlots
  /\ \A t \in Parked : \E w \in Slots : Pending(w) /\ owner[w] = t

OneThreadInv ==
  IInv /\ NoWaiterOnFreeMutex /\ ClearsWhenEmpty /\ ParkedIsQueued
=============================================================================

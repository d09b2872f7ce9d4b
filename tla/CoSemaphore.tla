----------------------------- MODULE CoSemaphore -----------------------------
(***************************************************************************)
(* libgs::co_basic_semaphore<Max> (core/coro/detail/semaphore.h): an       *)
(* atomic counter of free permits and a FIFO of wake-up objects.           *)
(* try_acquire reads the counter and makes one compare-exchange; release   *)
(* gives each permit to the first waiter that has not timed out, or adds   *)
(* it to the counter.  The FIFO (lock_free_queue) is taken as atomic, with *)
(* DequeueOverlaps for the calls of it that the queue does not allow.      *)
(***************************************************************************)
EXTENDS CoWakeUp

CONSTANTS
  NoSlot,         \* no wake-up object
  Max,            \* the template argument
  Initial,        \* the constructor's argument
  MaxHeld,        \* bound: permits one coroutine holds
  MaxBatch,       \* bound: permits of one release(n)
  MaxAdded,       \* bound: permits released by coroutines that took none
  MultiThreaded,  \* coroutines interleave at every atomic access
  SpuriousCAS     \* compare_exchange_weak may fail on an unchanged counter

ASSUME SemaphoreAssumption ==
  /\ NoSlot \notin Slots /\ IsFiniteSet(Tasks)
  /\ Max \in Nat \ {0} /\ Initial \in 0 .. Max
  /\ MaxHeld \in Nat \ {0} /\ MaxBatch \in Nat \ {0} /\ MaxAdded \in Nat
  /\ MultiThreaded \in BOOLEAN /\ SpuriousCAS \in BOOLEAN

VARIABLES
  counter,  \* m_counter
  queue,    \* m_wait_queue
  pc,       \* where each coroutine is
  op,       \* the acquiring operation it runs: "try", "wait" or "timed"
  seen,     \* the counter value try_acquire() loaded
  held,     \* permits the coroutine holds
  left,     \* permits release(n) still has to give back
  cur,      \* the wake-up object release_one() dequeued
  added     \* permits released beyond those that were taken

vars == <<wakeUpVars, counter, queue, pc, op, seen, held, left, cur, added>>

Control   == {"idle", "cas", "enqueue", "waiting", "dequeue", "wake", "add"}
Suspended == {"idle", "waiting"}

QueuedSlots == {queue[i] : i \in DOMAIN queue}

Live ==
  QueuedSlots \cup {cur[t] : t \in {u \in Tasks : pc[u] = "wake"}}
              \cup {w \in Slots : timer[w] = "starting"}

\* t may go on / the executor may take a handler: on one thread only when no
\* other coroutine is between two suspension points.
MayRun(t) ==
  MultiThreaded \/ /\ \A u \in Tasks \ {t} : pc[u] \in Suspended
                   /\ \A w \in Slots : timer[w] # "starting"

ExecutorFree ==
  MultiThreaded \/ /\ \A u \in Tasks : pc[u] \in Suspended
                   /\ \A w \in Slots : timer[w] # "starting"

\* Bounds: the heap has a block for every coroutine that may park, and nothing
\* new is asked for after a use after free.
HeapRoom ==
  /\ ~uaf
  /\ Cardinality(Live) + Cardinality({t \in Tasks : pc[t] \in {"cas", "enqueue"}})
       < Cardinality(Slots)

TypeOK ==
  /\ WakeUpTypeOK
  /\ counter \in Nat
  /\ queue \in Seq(Slots)
  /\ pc \in [Tasks -> Control]
  /\ op \in [Tasks -> {"try", "wait", "timed"}]
  /\ seen \in [Tasks -> Nat]
  /\ held \in [Tasks -> 0 .. MaxHeld]
  /\ left \in [Tasks -> 0 .. MaxBatch]
  /\ cur \in [Tasks -> Slots \cup {NoSlot}]
  /\ added \in 0 .. MaxAdded
  /\ \A t \in Tasks :
       /\ left[t] > 0 <=> pc[t] \in {"dequeue", "wake", "add"}
       /\ cur[t] = NoSlot <=> pc[t] # "wake"
       /\ pc[t] = "cas" => seen[t] > 0
       /\ pc[t] \in {"cas", "enqueue", "waiting"} => held[t] < MaxHeld

Init ==
  /\ WakeUpInit
  /\ counter = Initial
  /\ queue = << >>
  /\ pc = [t \in Tasks |-> "idle"]
  /\ op = [t \in Tasks |-> "try"]
  /\ seen = [t \in Tasks |-> 0]
  /\ held = [t \in Tasks |-> 0]
  /\ left = [t \in Tasks |-> 0]
  /\ cur = [t \in Tasks |-> NoSlot]
  /\ added = 0

Goto(t, l) == pc' = [pc EXCEPT ![t] = l]

-----------------------------------------------------------------------------
\* try_acquire() returned false: a plain try_acquire() is over, the others park.
Miss(t, o) == Goto(t, IF o = "try" THEN "idle" ELSE "enqueue")

\* try_acquire() and the start of acquire() and try_acquire_for/until():
\* m_counter.load(); 0 means failure.
Load(t, o) ==
  /\ pc[t] = "idle" /\ MayRun(t) /\ held[t] < MaxHeld /\ HeapRoom
  /\ op' = [op EXCEPT ![t] = o]
  /\ IF counter = 0
     THEN Miss(t, o) /\ UNCHANGED seen
     ELSE Goto(t, "cas") /\ seen' = [seen EXCEPT ![t] = counter]
  /\ UNCHANGED <<wakeUpVars, counter, queue, held, left, cur, added>>

\* Mutation: the counter is stored back without comparing it.
CASTakes_Store(t) ==
  /\ pc[t] = "cas" /\ MayRun(t)
  /\ counter' = seen[t] - 1
  /\ held' = [held EXCEPT ![t] = @ + 1]
  /\ seen' = [seen EXCEPT ![t] = 0]
  /\ Goto(t, "idle")
  /\ UNCHANGED <<wakeUpVars, queue, op, left, cur, added>>

\* compare_exchange_weak(counter, counter - 1) succeeds.
CASTakes(t) ==
  /\ pc[t] = "cas" /\ MayRun(t)
  /\ counter = seen[t]
  /\ counter' = counter - 1
  /\ held' = [held EXCEPT ![t] = @ + 1]
  /\ seen' = [seen EXCEPT ![t] = 0]
  /\ Goto(t, "idle")
  /\ UNCHANGED <<wakeUpVars, queue, op, left, cur, added>>

\* It fails, because another coroutine changed the counter or spuriously.  It is
\* not tried again.
CASFails(t) ==
  /\ pc[t] = "cas" /\ MayRun(t)
  /\ counter # seen[t] \/ SpuriousCAS
  /\ seen' = [seen EXCEPT ![t] = 0]
  /\ Miss(t, op[t])
  /\ UNCHANGED <<wakeUpVars, counter, queue, op, held, left, cur, added>>

\* The initiating function: make_shared and m_wait_queue.emplace.
Enqueue(t) ==
  /\ pc[t] = "enqueue" /\ MayRun(t)
  /\ \E w \in Slots \ Live :
       /\ Construct(w, t, op[t] = "timed")
       /\ queue' = Append(queue, w)
  /\ Goto(t, "waiting")
  /\ UNCHANGED <<counter, op, seen, held, left, cur, added>>

\* The handler runs: acquire() ignores the bool, the timed operations return it.
Resume(t) ==
  /\ pc[t] = "waiting" /\ MayRun(t)
  /\ Resumed(t)
  /\ IF op[t] = "wait" \/ answer[t] = "yes"
     THEN held' = [held EXCEPT ![t] = @ + 1]
     ELSE UNCHANGED held
  /\ Goto(t, "idle")
  /\ UNCHANGED <<counter, queue, op, seen, left, cur, added>>

-----------------------------------------------------------------------------
\* The argument check of release(n): max_v - m_counter wraps around when a race
\* put the counter above max_v, and then refuses nothing.
Refused(n) == counter <= Max /\ n > Max - counter

\* release(n): the check and the call are one coroutine run, the releases that
\* follow are separate accesses.
Release(t, n) ==
  /\ pc[t] = "idle" /\ MayRun(t)
  /\ ~Refused(n)
  /\ left' = [left EXCEPT ![t] = n]
  /\ Goto(t, "dequeue")
  /\ UNCHANGED <<wakeUpVars, counter, queue, op, seen, cur>>

\* A coroutine releases permits it took, or a semaphore used as a signal is
\* given new ones.
GiveBack(t, n) ==
  /\ n <= held[t]
  /\ held' = [held EXCEPT ![t] = @ - n]
  /\ Release(t, n)
  /\ UNCHANGED added

Signal(t, n) ==
  /\ added + n <= MaxAdded
  /\ added' = added + n
  /\ Release(t, n)
  /\ UNCHANGED held

\* release_one(): m_wait_queue.dequeue().
Dequeue(t) ==
  /\ pc[t] = "dequeue" /\ MayRun(t)
  /\ IF queue = << >>
     THEN Goto(t, "add") /\ UNCHANGED <<queue, cur>>
     ELSE /\ cur' = [cur EXCEPT ![t] = Head(queue)]
          /\ queue' = Tail(queue)
          /\ Goto(t, "wake")
  /\ UNCHANGED <<wakeUpVars, counter, op, seen, held, left, added>>

\* On several threads two release_one() are two consumers of a queue that allows one,
\* and a dequeue() may meet two emplace() calls (see CoMutex): any may break the queue.
DequeueOverlaps(t) ==
  /\ MultiThreaded
  /\ pc[t] = "dequeue"
  /\ QueueBroken
  /\ UNCHANGED <<counter, queue, pc, op, seen, held, left, cur, added>>

\* One of the n permits is gone; the loop of release(n) ends with the last one.
OneReleased(t) ==
  /\ left' = [left EXCEPT ![t] = @ - 1]
  /\ Goto(t, IF left[t] = 1 THEN "idle" ELSE "dequeue")

\* operator()(true): the first waiter that has not timed out gets the permit.
Wake(t) ==
  /\ pc[t] = "wake" /\ MayRun(t)
  /\ HandOver(cur[t])
  /\ cur' = [cur EXCEPT ![t] = NoSlot]
  /\ OneReleased(t)
  /\ UNCHANGED <<counter, queue, op, seen, held, added>>

\* Mutation: after a waiter that has timed out the permit goes to the counter.
SkipFinished_Add(t) ==
  /\ pc[t] = "wake" /\ MayRun(t)
  /\ finished[cur[t]]
  /\ cur' = [cur EXCEPT ![t] = NoSlot]
  /\ Goto(t, "add")
  /\ UNCHANGED <<wakeUpVars, counter, queue, op, seen, held, left, added>>

\* operator()(true) returned false: continue with the next waiter.
SkipFinished(t) ==
  /\ pc[t] = "wake" /\ MayRun(t)
  /\ finished[cur[t]]
  /\ cur' = [cur EXCEPT ![t] = NoSlot]
  /\ Goto(t, "dequeue")
  /\ UNCHANGED <<wakeUpVars, counter, queue, op, seen, held, left, added>>

\* Nobody waits: m_counter.fetch_add(1).
Add(t) ==
  /\ pc[t] = "add" /\ MayRun(t)
  /\ counter' = counter + 1
  /\ OneReleased(t)
  /\ UNCHANGED <<wakeUpVars, queue, op, seen, held, cur, added>>

-----------------------------------------------------------------------------
\* The timer of a parked coroutine, as for co_mutex.
Rest == <<counter, queue, pc, op, seen, held, left, cur, added>>

ArmTimer(w) ==
  /\ MultiThreaded \/ \A u \in Tasks : pc[u] \in Suspended
  /\ StartTimer(w, w \in QueuedSlots \/ \E t \in Tasks : cur[t] = w)
  /\ UNCHANGED Rest

ExpireTimer(w) == TimerDue(w) /\ UNCHANGED Rest

RunTimer(w) == ExecutorFree /\ TimerRun(w, w \in Live) /\ UNCHANGED Rest

RunDangling(w) == ExecutorFree /\ DanglingRun(w, w \in Live) /\ UNCHANGED Rest

TaskStep(t) ==
  \/ \E o \in {"try", "wait", "timed"} : Load(t, o)
  \/ CASTakes(t) \/ CASFails(t) \/ Enqueue(t) \/ Resume(t)
  \/ \E n \in 1 .. MaxBatch : GiveBack(t, n) \/ Signal(t, n)
  \/ Dequeue(t) \/ Wake(t) \/ SkipFinished(t) \/ Add(t)

Next ==
  \/ \E t \in Tasks : TaskStep(t) \/ DequeueOverlaps(t)
  \/ \E w \in Slots : ArmTimer(w) \/ ExpireTimer(w) \/ RunTimer(w) \/ RunDangling(w)

Spec == Init /\ [][Next]_vars

RunsOn(t) ==
  CASTakes(t) \/ CASFails(t) \/ Enqueue(t) \/ Dequeue(t) \/ Wake(t)
    \/ SkipFinished(t) \/ Add(t)

\* As for co_mutex; a coroutine that holds a permit gives it back.
FairSpec ==
  /\ Spec
  /\ \A t \in Tasks : /\ WF_vars(RunsOn(t)) /\ SF_vars(Resume(t))
                      /\ SF_vars(\E n \in 1 .. MaxBatch : GiveBack(t, n))
  /\ \A w \in Slots : /\ WF_vars(ArmTimer(w)) /\ WF_vars(ExpireTimer(w))
                      /\ SF_vars(RunTimer(w))

-----------------------------------------------------------------------------
\* A coroutine that has n permits, of at most `most', has the tokens <<t, 1>> to <<t, n>>:
\* the number of all tokens is the sum of f.
Tokens(f, most) == {p \in Tasks \X (1 .. most) : p[2] <= f[p[1]]}

\* Permits handed to coroutines whose handlers have not run yet.
InFlight == Cardinality({t \in Tasks : answer[t] = "yes"})

\* No permit is lost or made up, whatever the order of try_acquire's two accesses,
\* hand-overs, time-outs and the accesses of release(n) loops, as long as the calls of
\* dequeue() in release_one() do not meet each other or two emplace() in the wait queue
\* (which then may lose a waiter and its permit, or touch a deleted node) and no timer
\* handler runs on a deleted wake-up object.
PermitsConserved ==
  ~uaf => counter + Cardinality(Tokens(held, MaxHeld)) + Cardinality(Tokens(left, MaxBatch))
            + InFlight = Initial + added

\* On a one-thread executor with a strong compare-exchange nobody waits while a
\* permit is free.
NoWaiterWithFreePermit ==
  counter > 0 => \A w \in QueuedSlots : finished[w]

\* On one thread every acquire() that parks gets a permit when permits are given back,
\* or a timer handler runs on a deleted wake-up object.
AcquireServed ==
  \A t \in Tasks :
    pc[t] = "waiting" /\ op[t] = "wait" ~> (pc[t] = "idle" \/ uaf)

-----------------------------------------------------------------------------
\* The inductive invariant behind PermitsConserved, as for co_mutex: an unfinished object
\* that is alive belongs to one parked and unanswered coroutine, and only a timed
\* operation, which does not take the permit then, is told "no".
Pending(w) == w \in Live /\ ~finished[w]

PendingIsParked ==
  \A w \in Slots : Pending(w) =>
    /\ owner[w] \in Tasks
    /\ answer[owner[w]] = "none"
    /\ pc[owner[w]] = "waiting"
    /\ timer[w] # "off" => op[owner[w]] = "timed"

OnePendingEach ==
  \A v, w \in Slots : Pending(v) /\ Pending(w) /\ owner[v] = owner[w] => v = w

AnsweredIsParked ==
  \A t \in Tasks : /\ answer[t] # "none" => pc[t] = "waiting"
                   /\ answer[t] = "no" => op[t] = "timed"

SafeInv == PendingIsParked /\ OnePendingEach /\ AnsweredIsParked /\ PermitsConserved

IInv == TypeOK /\ (~uaf => SafeInv)

\* The one behind NoWaiterWithFreePermit: on one thread what try_acquire() or release()
\* found is still true when it acts on it.
FoundIsTrue ==
  \A t \in Tasks : /\ pc[t] = "cas" => counter = seen[t]
                   /\ pc[t] = "enqueue" => counter = 0
                   /\ pc[t] = "add" => queue = << >>
=============================================================================

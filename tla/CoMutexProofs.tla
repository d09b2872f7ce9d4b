---------------------------- MODULE CoMutexProofs ----------------------------
(***************************************************************************)
(* Proofs about CoMutex for any number of coroutines and heap blocks, one  *)
(* or many threads, strong or weak compare-exchange.                       *)
(***************************************************************************)
EXTENDS CoMutex, TLAPS

\* Dequeuing takes the head out of the FIFO; enqueuing adds one element to it.
LEMMA QueueSlots ==
  ASSUME NEW q \in Seq(Slots)
  PROVE  /\ q # << >> => /\ Head(q) \in {q[i] : i \in DOMAIN q}
                         /\ Tail(q) \in Seq(Slots)
                         /\ {Tail(q)[i] : i \in DOMAIN Tail(q)} \subseteq {q[i] : i \in DOMAIN q}
                         /\ \A i \in DOMAIN q : \/ q[i] = Head(q)
                                                \/ \E j \in DOMAIN Tail(q) : q[i] = Tail(q)[j]
         /\ \A w \in Slots :
              /\ Append(q, w) \in Seq(Slots)
              /\ {Append(q, w)[i] : i \in DOMAIN Append(q, w)}
                   = {q[i] : i \in DOMAIN q} \cup {w}
<1>1. ASSUME q # << >>
      PROVE  /\ Head(q) \in {q[i] : i \in DOMAIN q}
             /\ Tail(q) \in Seq(Slots)
             /\ {Tail(q)[i] : i \in DOMAIN Tail(q)} \subseteq {q[i] : i \in DOMAIN q}
             /\ \A i \in DOMAIN q : \/ q[i] = Head(q)
                                    \/ \E j \in DOMAIN Tail(q) : q[i] = Tail(q)[j]
  <2>1. /\ Head(q) \in {q[i] : i \in DOMAIN q}
        /\ Tail(q) \in Seq(Slots)
        /\ {Tail(q)[i] : i \in DOMAIN Tail(q)} \subseteq {q[i] : i \in DOMAIN q}
    BY <1>1
  <2>2. ASSUME NEW i \in DOMAIN q, q[i] # Head(q)
        PROVE  i - 1 \in DOMAIN Tail(q) /\ q[i] = Tail(q)[i - 1]
    BY <1>1, <2>2
  <2>3. QED
    BY <2>1, <2>2
<1>2. ASSUME NEW w \in Slots
      PROVE  /\ Append(q, w) \in Seq(Slots)
             /\ {Append(q, w)[i] : i \in DOMAIN Append(q, w)}
                  = {q[i] : i \in DOMAIN q} \cup {w}
  <2> DEFINE a == Append(q, w)
  <2>1. a \in Seq(Slots) /\ Len(a) = Len(q) + 1 /\ DOMAIN a = 1 .. Len(q) + 1
    OBVIOUS
  <2>2. a[Len(q) + 1] = w /\ \A i \in DOMAIN q : i \in DOMAIN a /\ a[i] = q[i]
    OBVIOUS
  <2>3. \A i \in DOMAIN a : i = Len(q) + 1 \/ i \in DOMAIN q
    OBVIOUS
  <2>4. {a[i] : i \in DOMAIN a} = {q[i] : i \in DOMAIN q} \cup {w}
    BY <2>1, <2>2, <2>3
  <2> QED
    BY <2>1, <2>4
<1> QED
  BY <1>1, <1>2

-----------------------------------------------------------------------------
\* Every variable keeps its type, and unlock() holds a dequeued object exactly
\* while it is about to wake it.
LEMMA TypeInit == Init => TypeOK
<1> SUFFICES ASSUME Init PROVE TypeOK
  OBVIOUS
<1>1. WakeUpTypeOK
  BY DEF Init, WakeUpInit, WakeUpTypeOK, TimerState, Answer
<1>2. queue \in Seq(Slots)
  BY DEF Init
<1>3. QED
  BY <1>1, <1>2, MutexAssumption DEF Init, TypeOK, Control

LEMMA TypeStep == TypeOK /\ [Next]_vars => TypeOK'
<1> SUFFICES ASSUME TypeOK, [Next]_vars PROVE TypeOK'
  OBVIOUS
<1> USE DEF TypeOK, WakeUpTypeOK, Control, TimerState, Answer
<1>1. ASSUME NEW t \in Tasks, TaskStep(t) PROVE TypeOK'
  <2>1. CASE TryLockTakes(t)
    BY <2>1 DEF TryLockTakes, Goto, wakeUpVars
  <2>2. CASE LockMisses(t)
    BY <2>2 DEF LockMisses, Goto, wakeUpVars
  <2>3. CASE Enqueue(t)
    BY <2>3 DEF Enqueue, Goto, Construct
  <2>4. CASE Resume(t)
    BY <2>4 DEF Resume, Goto, Resumed
  <2>5. CASE Unlock(t)
    BY <2>5 DEF Unlock, Goto, wakeUpVars
  <2>6. CASE Dequeue(t)
    <3>1. CASE queue = << >>
      BY <2>6, <3>1 DEF Dequeue, Goto, wakeUpVars
    <3>2. CASE queue # << >>
      <4>1. Head(queue) \in Slots /\ Tail(queue) \in Seq(Slots)
        BY <3>2
      <4>2. cur' = [cur EXCEPT ![t] = Head(queue)] /\ queue' = Tail(queue)
            /\ pc' = [pc EXCEPT ![t] = "wake"] /\ UNCHANGED <<wakeUpVars, locked>>
        BY <2>6, <3>2 DEF Dequeue, Goto
      <4>3. QED
        BY <4>1, <4>2, MutexAssumption DEF wakeUpVars
    <3>3. QED
      BY <3>1, <3>2
  <2>7. CASE Wake(t)
    BY <2>7 DEF Wake, Goto, HandOver, Cancelled
  <2>8. CASE SkipFinished(t)
    BY <2>8 DEF SkipFinished, Goto, wakeUpVars
  <2>9. CASE Clear(t)
    BY <2>9 DEF Clear, Goto, wakeUpVars
  <2>10. QED
    BY <1>1, <2>1, <2>2, <2>3, <2>4, <2>5, <2>6, <2>7, <2>8, <2>9 DEF TaskStep
<1>2. ASSUME NEW w \in Slots, SlotStep(w) PROVE TypeOK'
  <2>1. CASE ArmTimer(w)
    BY <2>1 DEF ArmTimer, StartTimer
  <2>2. CASE ExpireTimer(w)
    BY <2>2 DEF ExpireTimer, TimerDue
  <2>3. CASE RunTimer(w)
    BY <2>3 DEF RunTimer, TimerRun, GiveUp
  <2>4. CASE RunDangling(w)
    BY <2>4 DEF RunDangling, DanglingRun, GiveUp, Cancelled
  <2>5. QED
    BY <1>2, <2>1, <2>2, <2>3, <2>4 DEF SlotStep
<1>3. ASSUME NEW t \in Tasks, DequeueOverlaps(t) PROVE TypeOK'
  BY <1>3 DEF DequeueOverlaps, QueueBroken
<1>4. CASE UNCHANGED vars
  BY <1>4 DEF vars, wakeUpVars
<1>5. QED
  BY <1>1, <1>2, <1>3, <1>4 DEF Next

THEOREM TypeCorrect == Spec => []TypeOK
  BY TypeInit, TypeStep, PTL DEF Spec

-----------------------------------------------------------------------------
\* The initial state satisfies the safety part of the inductive invariant.
LEMMA SafeInit == Init => SafeInv
<1> SUFFICES ASSUME Init PROVE SafeInv
  OBVIOUS
<1>1. \A w \in Slots : ~Pending(w)
  BY DEF Init, WakeUpInit, Pending
<1>2. \A t \in Tasks : ~Owns(t) /\ answer[t] = "none"
  BY DEF Init, WakeUpInit, Owns
<1>3. locked = FALSE
  BY DEF Init
<1>4. QED
  BY <1>1, <1>2, <1>3
     DEF SafeInv, PendingIsParked, OnePendingEach, AnsweredIsParked,
         MutualExclusion, FlagMatchesOwner

\* A step that does not change who owns the mutex nor the flag keeps both facts
\* about owners.
LEMMA OwnersKept ==
  ASSUME ~uaf, SafeInv, UNCHANGED locked, \A t \in Tasks : Owns(t)' <=> Owns(t)
  PROVE  MutualExclusion' /\ FlagMatchesOwner'
  BY DEF SafeInv, MutualExclusion, FlagMatchesOwner

\* A step after which the pending objects are some of those before it, with the
\* same owners, no new timers and undisturbed coroutines, keeps what is known
\* of pending objects.
LEMMA PendingKept ==
  ASSUME SafeInv,
         \A w \in Slots : Pending(w)' =>
            /\ Pending(w)
            /\ owner'[w] = owner[w]
            /\ timer'[w] # "off" => timer[w] # "off"
            /\ answer'[owner[w]] = answer[owner[w]]
            /\ pc'[owner[w]] = pc[owner[w]]
  PROVE  PendingIsParked' /\ OnePendingEach'
<1>1. PendingIsParked'
  BY DEF SafeInv, PendingIsParked
<1>2. OnePendingEach'
  BY DEF SafeInv, OnePendingEach
<1> QED
  BY <1>1, <1>2

\* Only what the FIFO, an unlock() or an initiating function gains can come
\* alive.
LEMMA LiveShrinks ==
  ASSUME QueuedSlots' \subseteq Live,
         \A t \in Tasks : pc'[t] = "wake" => cur'[t] \in Live,
         \A w \in Slots : timer'[w] = "starting" => timer[w] = "starting"
  PROVE  Live' \subseteq Live
<1>1. {cur'[t] : t \in {u \in Tasks : pc'[u] = "wake"}} \subseteq Live
  OBVIOUS
<1>2. {w \in Slots : timer'[w] = "starting"} \subseteq Live
  BY DEF Live
<1> QED
  BY <1>1, <1>2 DEF Live

\* Only a coroutine that parks brings an object to life.
LEMMA TaskLive ==
  ASSUME TypeOK, NEW t \in Tasks,
         \/ TryLockTakes(t) \/ LockMisses(t) \/ Resume(t) \/ Unlock(t)
         \/ Dequeue(t) \/ Wake(t) \/ SkipFinished(t) \/ Clear(t)
  PROVE  Live' \subseteq Live
<1>1. CASE Dequeue(t) /\ queue # << >>
  <2>1. queue \in Seq(Slots) /\ queue' = Tail(queue) /\ timer' = timer
        /\ cur' = [cur EXCEPT ![t] = Head(queue)] /\ pc' = [pc EXCEPT ![t] = "wake"]
    BY <1>1 DEF Dequeue, Goto, TypeOK, wakeUpVars
  <2>2. QueuedSlots' \subseteq QueuedSlots /\ Head(queue) \in QueuedSlots
    BY <1>1, <2>1, QueueSlots DEF QueuedSlots
  <2>3. \A u \in Tasks : pc'[u] = "wake" => cur'[u] \in Live
    BY <2>1, <2>2 DEF Live, TypeOK
  <2>4. QED
    BY <2>1, <2>2, <2>3, LiveShrinks DEF Live
<1>2. CASE ~(Dequeue(t) /\ queue # << >>)
  <2>1. queue' = queue /\ \A w \in Slots : timer'[w] = "starting" => timer[w] = "starting"
    BY <1>2 DEF TryLockTakes, LockMisses, Resume, Resumed, Unlock, Dequeue, Wake, HandOver,
                Cancelled, SkipFinished, Clear, wakeUpVars, TypeOK, WakeUpTypeOK
  <2>2. \A u \in Tasks : pc'[u] = "wake" => pc[u] = "wake" /\ cur'[u] = cur[u]
    BY <1>2 DEF TryLockTakes, LockMisses, Resume, Unlock, Dequeue, Wake, SkipFinished, Clear,
                Goto, TypeOK
  <2>3. QED
    BY <2>1, <2>2, LiveShrinks DEF Live, QueuedSlots
<1>3. QED
  BY <1>1, <1>2

LEMMA SlotLive ==
  ASSUME TypeOK, NEW w \in Slots, SlotStep(w)
  PROVE  Live' \subseteq Live
<1>1. UNCHANGED <<queue, pc, cur>>
  BY DEF SlotStep, ArmTimer, ExpireTimer, RunTimer, RunDangling
<1>2. \A v \in Slots : timer'[v] = "starting" => timer[v] = "starting"
  BY DEF SlotStep, ArmTimer, StartTimer, ExpireTimer, TimerDue, RunTimer, TimerRun,
         RunDangling, DanglingRun, GiveUp, Cancelled, TypeOK, WakeUpTypeOK
<1>3. QED
  BY <1>1, <1>2, LiveShrinks DEF Live, QueuedSlots

\* The steps of a coroutine that is not parking, taking, passing on or freeing
\* the mutex: no object is completed and every owner stays one.
LEMMA QuietSteps ==
  ASSUME TypeOK, SafeInv, ~uaf, NEW t \in Tasks,
         LockMisses(t) \/ Unlock(t) \/ Dequeue(t) \/ SkipFinished(t)
  PROVE  SafeInv'
<1>1. UNCHANGED <<wakeUpVars, locked>>
  BY DEF LockMisses, Unlock, Dequeue, SkipFinished
<1>2. /\ \A u \in Tasks \ {t} : pc'[u] = pc[u]
      /\ pc[t] \notin {"waiting", "waitingTimed"}
      /\ pc'[t] \notin {"waiting", "waitingTimed"}
      /\ pc[t] \in {"holding", "dequeue", "wake", "clear"}
           <=> pc'[t] \in {"holding", "dequeue", "wake", "clear"}
  <2>1. CASE LockMisses(t)
    BY <2>1 DEF LockMisses, Goto, TypeOK
  <2>2. CASE Unlock(t)
    BY <2>2 DEF Unlock, Goto, TypeOK
  <2>3. CASE Dequeue(t)
    BY <2>3 DEF Dequeue, Goto, TypeOK
  <2>4. CASE SkipFinished(t)
    BY <2>4 DEF SkipFinished, Goto, TypeOK
  <2>5. QED
    BY <2>1, <2>2, <2>3, <2>4
<1>3. Live' \subseteq Live
  BY TaskLive
<1>4. PendingIsParked' /\ OnePendingEach'
  <2>1. ASSUME NEW w \in Slots, Pending(w)'
        PROVE  /\ Pending(w) /\ UNCHANGED <<owner, timer, answer>>
               /\ pc'[owner[w]] = pc[owner[w]]
    <3>1. Pending(w) /\ UNCHANGED <<owner, timer, answer>>
      BY <1>1, <1>3, <2>1 DEF Pending, wakeUpVars
    <3>2. owner[w] \in Tasks /\ owner[w] # t
      BY <1>2, <3>1 DEF SafeInv, PendingIsParked
    <3>3. QED
      BY <1>2, <3>1, <3>2
  <2>2. QED
    BY <2>1, PendingKept
<1>5. AnsweredIsParked'
  BY <1>1, <1>2 DEF SafeInv, AnsweredIsParked, wakeUpVars
<1>6. \A u \in Tasks : Owns(u)' <=> Owns(u)
  BY <1>1, <1>2 DEF Owns, wakeUpVars
<1>7. QED
  BY <1>1, <1>4, <1>5, <1>6, OwnersKept DEF SafeInv

\* try_lock() on a free mutex: nobody owned it, t does now.
LEMMA TakeStep ==
  ASSUME TypeOK, SafeInv, ~uaf, NEW t \in Tasks, TryLockTakes(t)
  PROVE  SafeInv'
<1>1. /\ ~locked /\ locked' = TRUE /\ pc[t] = "idle" /\ pc' = [pc EXCEPT ![t] = "holding"]
      /\ UNCHANGED <<wakeUpVars, queue, cur>>
  BY DEF TryLockTakes, Goto, CASTakes
<1>2. \A u \in Tasks : ~Owns(u)
  BY <1>1 DEF SafeInv, FlagMatchesOwner
<1>3. \A u \in Tasks : Owns(u)' <=> u = t
  BY <1>1, <1>2 DEF Owns, TypeOK, wakeUpVars
<1>4. MutualExclusion' /\ FlagMatchesOwner'
  BY <1>1, <1>3 DEF MutualExclusion, FlagMatchesOwner
<1>5. Live' \subseteq Live
  BY TaskLive
<1>6. PendingIsParked' /\ OnePendingEach'
  <2>1. ASSUME NEW w \in Slots, Pending(w)'
        PROVE  /\ Pending(w) /\ UNCHANGED <<owner, timer, answer>>
               /\ pc'[owner[w]] = pc[owner[w]]
    <3>1. Pending(w) /\ UNCHANGED <<owner, timer, answer>>
      BY <1>1, <1>5, <2>1 DEF Pending, wakeUpVars
    <3>2. owner[w] \in Tasks /\ owner[w] # t
      BY <1>1, <3>1 DEF SafeInv, PendingIsParked
    <3>3. QED
      BY <1>1, <3>1, <3>2 DEF TypeOK
  <2>2. QED
    BY <2>1, PendingKept
<1>7. AnsweredIsParked'
  BY <1>1 DEF SafeInv, AnsweredIsParked, TypeOK, wakeUpVars
<1>8. QED
  BY <1>4, <1>6, <1>7 DEF SafeInv

\* Parking adds the new object, and no other, to those alive.
LEMMA EnqueueLive ==
  ASSUME TypeOK, NEW t \in Tasks, Enqueue(t), NEW w \in Slots,
         Construct(w, t, pc[t] = "enqueueTimed"), queue' = Append(queue, w)
  PROVE  /\ QueuedSlots' = QueuedSlots \cup {w}
         /\ \A v \in Slots : v \in Live' => v = w \/ v \in Live
<1>1. QueuedSlots' = QueuedSlots \cup {w}
  <2>1. queue \in Seq(Slots)
    BY DEF TypeOK
  <2>2. {Append(queue, w)[i] : i \in DOMAIN Append(queue, w)}
          = {queue[i] : i \in DOMAIN queue} \cup {w}
    BY <2>1, QueueSlots
  <2>3. QED
    BY <2>2 DEF QueuedSlots
<1>2. \A u \in Tasks : pc'[u] = "wake" => pc[u] = "wake" /\ cur'[u] = cur[u]
  BY DEF Enqueue, Goto, TypeOK
<1>3. \A v \in Slots \ {w} : timer'[v] = timer[v]
  BY DEF Construct, TypeOK, WakeUpTypeOK
<1>4. QED
  BY <1>1, <1>2, <1>3 DEF Live

\* Parking: the new object is alive and pending, its coroutine had no other.
LEMMA EnqueueStep ==
  ASSUME TypeOK, SafeInv, ~uaf, NEW t \in Tasks, Enqueue(t)
  PROVE  SafeInv'
<1>1. PICK w \in Slots \ Live :
        Construct(w, t, pc[t] = "enqueueTimed") /\ queue' = Append(queue, w)
  BY DEF Enqueue
<1>2. /\ pc[t] \in {"enqueue", "enqueueTimed"}
      /\ pc' = [pc EXCEPT ![t] = IF pc[t] = "enqueue" THEN "waiting" ELSE "waitingTimed"]
      /\ UNCHANGED <<locked, cur, uaf, answer>>
  BY <1>1 DEF Enqueue, Goto, Construct
<1>3. /\ owner' = [owner EXCEPT ![w] = t]
      /\ finished' = [finished EXCEPT ![w] = FALSE]
      /\ timer' = [timer EXCEPT ![w] = IF pc[t] = "enqueueTimed" THEN "starting" ELSE "off"]
  BY <1>1 DEF Construct
<1>4. \A v \in Slots : v \in Live' => v = w \/ v \in Live
  BY <1>1, EnqueueLive
<1>5. answer[t] = "none"
  BY <1>2 DEF SafeInv, AnsweredIsParked, TypeOK, WakeUpTypeOK, Answer
<1>6. \A v \in Slots \ {w} : Pending(v)' =>
        /\ Pending(v) /\ owner[v] \in Tasks /\ owner[v] # t
        /\ owner'[v] = owner[v] /\ timer'[v] = timer[v]
        /\ pc'[owner[v]] = pc[owner[v]]
  <2>1. ASSUME NEW v \in Slots \ {w}, Pending(v)'
        PROVE  Pending(v) /\ owner'[v] = owner[v] /\ timer'[v] = timer[v]
    BY <1>3, <1>4, <2>1 DEF Pending, TypeOK, WakeUpTypeOK
  <2>2. ASSUME NEW v \in Slots \ {w}, Pending(v)
        PROVE  owner[v] \in Tasks /\ owner[v] # t
    BY <1>2, <2>2 DEF SafeInv, PendingIsParked
  <2>3. QED
    BY <1>2, <2>1, <2>2 DEF TypeOK
<1>7. /\ owner'[w] = t /\ pc'[t] \in {"waiting", "waitingTimed"}
      /\ timer'[w] # "off" => pc'[t] = "waitingTimed"
  BY <1>2, <1>3 DEF TypeOK, WakeUpTypeOK
<1>8. PendingIsParked'
  BY <1>2, <1>5, <1>6, <1>7 DEF SafeInv, PendingIsParked
<1>9. OnePendingEach'
  BY <1>6, <1>7 DEF SafeInv, OnePendingEach
<1>10. AnsweredIsParked'
  BY <1>2, <1>5 DEF SafeInv, AnsweredIsParked, TypeOK
<1>11. \A u \in Tasks : Owns(u)' <=> Owns(u)
  BY <1>2, <1>5 DEF Owns, TypeOK
<1>12. QED
  BY <1>2, <1>8, <1>9, <1>10, <1>11, OwnersKept DEF SafeInv

\* Resuming: a coroutine told "yes" owned the mutex and goes on owning it; one
\* told "no" did not.
LEMMA ResumeStep ==
  ASSUME TypeOK, SafeInv, ~uaf, NEW t \in Tasks, Resume(t)
  PROVE  SafeInv'
<1>1. /\ pc[t] \in {"waiting", "waitingTimed"} /\ answer[t] # "none"
      /\ answer' = [answer EXCEPT ![t] = "none"]
      /\ pc' = [pc EXCEPT ![t] = IF pc[t] = "waiting" \/ answer[t] = "yes"
                                 THEN "holding" ELSE "idle"]
      /\ UNCHANGED <<owner, finished, timer, locked, queue, cur>>
  BY DEF Resume, Resumed, Goto
<1>2. Live' \subseteq Live
  BY TaskLive
<1>3. PendingIsParked' /\ OnePendingEach'
  <2>1. ASSUME NEW w \in Slots, Pending(w)'
        PROVE  Pending(w) /\ owner[w] \in Tasks /\ owner[w] # t
    <3>1. Pending(w)
      BY <1>1, <1>2, <2>1 DEF Pending
    <3>2. QED
      BY <1>1, <3>1 DEF SafeInv, PendingIsParked
  <2>2. \A w \in Slots : Pending(w)' => /\ answer'[owner[w]] = answer[owner[w]]
                                        /\ pc'[owner[w]] = pc[owner[w]]
    BY <1>1, <2>1 DEF TypeOK, WakeUpTypeOK
  <2>3. QED
    BY <1>1, <2>1, <2>2, PendingKept
<1>4. AnsweredIsParked'
  BY <1>1 DEF SafeInv, AnsweredIsParked, TypeOK, WakeUpTypeOK
<1>5. \A u \in Tasks : Owns(u)' <=> Owns(u)
  <2>1. Owns(t)' <=> Owns(t)
    BY <1>1 DEF Owns, SafeInv, AnsweredIsParked, TypeOK, WakeUpTypeOK, Answer
  <2>2. \A u \in Tasks \ {t} : Owns(u)' <=> Owns(u)
    BY <1>1 DEF Owns, TypeOK, WakeUpTypeOK
  <2>3. QED
    BY <2>1, <2>2
<1>6. QED
  BY <1>1, <1>3, <1>4, <1>5, OwnersKept DEF SafeInv

\* Passing the mutex on: t stops owning it and the owner of the object, parked
\* and unanswered so far, is told "yes".
LEMMA WakeStep ==
  ASSUME TypeOK, SafeInv, ~uaf, NEW t \in Tasks, Wake(t)
  PROVE  SafeInv'
<1> DEFINE w == cur[t]
           u == owner[w]
<1>1. /\ pc[t] = "wake" /\ ~finished[w]
      /\ finished' = [finished EXCEPT ![w] = TRUE]
      /\ timer' = [timer EXCEPT ![w] = Cancelled(w)]
      /\ answer' = [answer EXCEPT ![u] = "yes"]
      /\ cur' = [cur EXCEPT ![t] = NoSlot]
      /\ pc' = [pc EXCEPT ![t] = "idle"]
      /\ owner' = [owner EXCEPT ![w] = NoTask]
      /\ UNCHANGED <<dangling, uaf, locked, queue>>
  BY DEF Wake, HandOver, Goto
<1>2. w \in Slots /\ Pending(w)
  BY <1>1 DEF TypeOK, Pending, Live
<1>3. /\ u \in Tasks /\ u # t /\ answer[u] = "none"
      /\ pc[u] \in {"waiting", "waitingTimed"}
  BY <1>1, <1>2 DEF SafeInv, PendingIsParked
<1>4. \A v \in Slots : /\ timer'[v] = "starting" => timer[v] = "starting"
                       /\ timer'[v] # "off" => timer[v] # "off"
  BY <1>1, <1>2 DEF Cancelled, TypeOK, WakeUpTypeOK
<1>5. Live' \subseteq Live
  BY TaskLive
<1>6. PendingIsParked' /\ OnePendingEach'
  <2>1. ASSUME NEW v \in Slots, Pending(v)'
        PROVE  Pending(v) /\ owner[v] \in Tasks /\ owner[v] # u /\ owner[v] # t
               /\ owner'[v] = owner[v]
    <3>1. Pending(v) /\ v # w /\ owner'[v] = owner[v]
      BY <1>1, <1>2, <1>5, <2>1 DEF Pending, TypeOK, WakeUpTypeOK
    <3>2. owner[v] \in Tasks /\ owner[v] # t
      BY <1>1, <3>1 DEF SafeInv, PendingIsParked
    <3>3. owner[v] # u
      BY <1>2, <3>1 DEF SafeInv, OnePendingEach
    <3>4. QED
      BY <3>1, <3>2, <3>3
  <2>2. \A v \in Slots : Pending(v)' => /\ answer'[owner[v]] = answer[owner[v]]
                                        /\ pc'[owner[v]] = pc[owner[v]]
    BY <1>1, <2>1 DEF TypeOK, WakeUpTypeOK
  <2>3. QED
    BY <1>1, <1>4, <2>1, <2>2, PendingKept
<1>7. AnsweredIsParked'
  BY <1>1, <1>3 DEF SafeInv, AnsweredIsParked, TypeOK, WakeUpTypeOK
<1>8. PICK x \in Tasks : x = u
  BY <1>3
<1>9. \A v \in Tasks : Owns(v)' <=> v = x
  <2>1. Owns(t) /\ \A v \in Tasks : Owns(v) => v = t
    BY <1>1 DEF Owns, SafeInv, MutualExclusion
  <2>2. answer[t] # "yes"
    BY <1>1 DEF SafeInv, AnsweredIsParked
  <2>3. Owns(x)' /\ ~Owns(t)'
    BY <1>1, <1>3, <1>8, <2>2 DEF Owns, TypeOK, WakeUpTypeOK
  <2>4. \A v \in Tasks \ {t, x} : Owns(v)' <=> Owns(v)
    BY <1>1, <1>8 DEF Owns, TypeOK, WakeUpTypeOK
  <2>5. QED
    BY <2>1, <2>3, <2>4
<1>10. locked' = TRUE
  BY <1>1 DEF SafeInv, FlagMatchesOwner, Owns, TypeOK
<1>11. MutualExclusion' /\ FlagMatchesOwner'
  BY <1>3, <1>9, <1>10 DEF MutualExclusion, FlagMatchesOwner
<1>12. QED
  BY <1>6, <1>7, <1>11 DEF SafeInv

\* Freeing the mutex: t was its only owner.
LEMMA ClearStep ==
  ASSUME TypeOK, SafeInv, ~uaf, NEW t \in Tasks, Clear(t)
  PROVE  SafeInv'
<1>1. /\ pc[t] = "clear" /\ pc' = [pc EXCEPT ![t] = "idle"] /\ locked' = FALSE
      /\ UNCHANGED <<wakeUpVars, queue, cur>>
  BY DEF Clear, Goto
<1>2. Live' \subseteq Live
  BY TaskLive
<1>3. PendingIsParked' /\ OnePendingEach'
  <2>1. ASSUME NEW w \in Slots, Pending(w)'
        PROVE  /\ Pending(w) /\ UNCHANGED <<owner, timer, answer>>
               /\ pc'[owner[w]] = pc[owner[w]]
    <3>1. Pending(w) /\ UNCHANGED <<owner, timer, answer>>
      BY <1>1, <1>2, <2>1 DEF Pending, wakeUpVars
    <3>2. owner[w] \in Tasks /\ owner[w] # t
      BY <1>1, <3>1 DEF SafeInv, PendingIsParked
    <3>3. QED
      BY <1>1, <3>1, <3>2 DEF TypeOK
  <2>2. QED
    BY <2>1, PendingKept
<1>4. AnsweredIsParked'
  BY <1>1 DEF SafeInv, AnsweredIsParked, TypeOK, wakeUpVars
<1>5. \A u \in Tasks : ~Owns(u)'
  <2>1. Owns(t) /\ \A u \in Tasks : Owns(u) => u = t
    BY <1>1 DEF Owns, SafeInv, MutualExclusion
  <2>2. answer[t] # "yes"
    BY <1>1 DEF SafeInv, AnsweredIsParked
  <2>3. QED
    BY <1>1, <2>1, <2>2 DEF Owns, TypeOK, wakeUpVars
<1>6. QED
  BY <1>1, <1>3, <1>4, <1>5 DEF SafeInv, MutualExclusion, FlagMatchesOwner

\* The timer of an object: nobody gains or loses the mutex.  A handler that runs
\* on a deleted object is recorded in uaf.
LEMMA SlotSteps ==
  ASSUME TypeOK, SafeInv, ~uaf, NEW w \in Slots, SlotStep(w), ~uaf'
  PROVE  SafeInv'
<1>1. UNCHANGED <<locked, queue, pc, cur>>
  BY DEF SlotStep, ArmTimer, ExpireTimer, RunTimer, RunDangling
<1>2. ~RunDangling(w)
  BY DEF RunDangling, DanglingRun
<1>3. \A v \in Slots : /\ timer'[v] = "starting" => timer[v] = "starting"
                       /\ timer'[v] # "off" => timer[v] # "off"
  <2>1. CASE ArmTimer(w)
    BY <2>1 DEF ArmTimer, StartTimer, TypeOK, WakeUpTypeOK
  <2>2. CASE ExpireTimer(w)
    BY <2>2 DEF ExpireTimer, TimerDue, TypeOK, WakeUpTypeOK
  <2>3. CASE RunTimer(w)
    BY <2>3 DEF RunTimer, TimerRun, TypeOK, WakeUpTypeOK
  <2>4. QED
    BY <1>2, <2>1, <2>2, <2>3 DEF SlotStep
<1>4. Live' \subseteq Live
  BY SlotLive
<1>5. CASE UNCHANGED <<finished, answer, owner>>
  <2>1. PendingIsParked' /\ OnePendingEach'
    BY <1>1, <1>3, <1>4, <1>5, PendingKept DEF Pending
  <2>2. AnsweredIsParked' /\ \A t \in Tasks : Owns(t)' <=> Owns(t)
    BY <1>1, <1>5 DEF SafeInv, AnsweredIsParked, Owns
  <2>3. QED
    BY <1>1, <2>1, <2>2, OwnersKept DEF SafeInv
<1>6. CASE ~UNCHANGED <<finished, answer, owner>>
  <2>1. /\ w \in Live /\ ~finished[w] /\ timer[w] = "due"
        /\ finished' = [finished EXCEPT ![w] = TRUE]
        /\ answer' = [answer EXCEPT ![owner[w]] = "no"]
        /\ owner' = [owner EXCEPT ![w] = NoTask]
    BY <1>2, <1>6 DEF SlotStep, ArmTimer, StartTimer, ExpireTimer, TimerDue, RunTimer,
                      TimerRun, GiveUp
  <2>2. /\ Pending(w) /\ owner[w] \in Tasks /\ answer[owner[w]] = "none"
        /\ pc[owner[w]] = "waitingTimed"
    BY <2>1 DEF Pending, SafeInv, PendingIsParked
  <2>3. PendingIsParked' /\ OnePendingEach'
    <3>1. ASSUME NEW v \in Slots, Pending(v)'
          PROVE  Pending(v) /\ owner[v] \in Tasks /\ owner[v] # owner[w] /\ owner'[v] = owner[v]
      <4>1. Pending(v) /\ v # w /\ owner'[v] = owner[v]
        BY <1>4, <2>1, <3>1 DEF Pending, TypeOK, WakeUpTypeOK
      <4>2. QED
        BY <2>2, <4>1 DEF SafeInv, PendingIsParked, OnePendingEach
    <3>2. \A v \in Slots : Pending(v)' => answer'[owner[v]] = answer[owner[v]]
      BY <2>1, <3>1 DEF TypeOK, WakeUpTypeOK
    <3>3. QED
      BY <1>1, <1>3, <3>1, <3>2, PendingKept
  <2>4. AnsweredIsParked' /\ \A t \in Tasks : Owns(t)' <=> Owns(t)
    BY <1>1, <2>1, <2>2 DEF SafeInv, AnsweredIsParked, Owns, TypeOK, WakeUpTypeOK
  <2>5. QED
    BY <1>1, <2>3, <2>4, OwnersKept DEF SafeInv
<1>7. QED
  BY <1>5, <1>6

-----------------------------------------------------------------------------
\* No step ends undefined behaviour.
LEMMA UndefinedStays == uaf /\ [Next]_vars => uaf'
<1> SUFFICES ASSUME uaf, [Next]_vars PROVE uaf'
  OBVIOUS
<1>1. ASSUME NEW t \in Tasks, TaskStep(t) PROVE uaf'
  BY <1>1 DEF TaskStep, TryLockTakes, LockMisses, Enqueue, Construct, Resume, Resumed,
              Unlock, Dequeue, Wake, HandOver, SkipFinished, Clear, wakeUpVars
<1>2. ASSUME NEW w \in Slots, SlotStep(w) PROVE uaf'
  BY <1>2 DEF SlotStep, ArmTimer, StartTimer, ExpireTimer, TimerDue, RunTimer,
              TimerRun, RunDangling, DanglingRun
<1>3. ASSUME NEW t \in Tasks, DequeueOverlaps(t) PROVE uaf'
  BY <1>3 DEF DequeueOverlaps, QueueBroken
<1>4. CASE UNCHANGED vars
  BY <1>4 DEF vars, wakeUpVars
<1>5. QED
  BY <1>1, <1>2, <1>3, <1>4 DEF Next

\* The inductive invariant holds initially and is kept by every step.  Once uaf
\* is set it stays set, and the invariant says nothing but the types.
LEMMA InvStep == IInv /\ [Next]_vars => IInv'
<1> SUFFICES ASSUME IInv, [Next]_vars, ~uaf' PROVE SafeInv'
  BY TypeStep DEF IInv
<1>1. TypeOK
  BY DEF IInv
<1>2. ~uaf
  BY UndefinedStays
<1>3. SafeInv
  BY <1>2 DEF IInv
<1>4. ASSUME NEW t \in Tasks, TaskStep(t) PROVE SafeInv'
  BY <1>1, <1>2, <1>3, <1>4, QuietSteps, TakeStep, EnqueueStep, ResumeStep, WakeStep,
     ClearStep DEF TaskStep
<1>5. ASSUME NEW w \in Slots, SlotStep(w) PROVE SafeInv'
  BY <1>1, <1>2, <1>3, <1>5, SlotSteps
<1>6. CASE UNCHANGED vars
  BY <1>3, <1>6
     DEF vars, wakeUpVars, SafeInv, PendingIsParked, OnePendingEach, AnsweredIsParked,
         MutualExclusion, FlagMatchesOwner, Pending, Live, QueuedSlots, Owns
<1>7. \A t \in Tasks : ~DequeueOverlaps(t)
  BY DEF DequeueOverlaps, QueueBroken
<1>8. QED
  BY <1>4, <1>5, <1>6, <1>7 DEF Next

\* The inductive invariant, for every instance of the specification.
THEOREM Invariance == Spec => []IInv
<1>1. Init => IInv
  BY TypeInit, SafeInit DEF IInv
<1>2. QED
  BY <1>1, InvStep, PTL DEF Spec

\* co_mutex never has two owners: try_lock, the hand-over in unlock() and the
\* timers of try_lock_for/until() never give it to two coroutines, until a timer
\* handler runs on a deleted wake-up object or a dequeue() on several threads breaks
\* the wait queue.
THEOREM MutexIsExclusive == Spec => []MutualExclusion
<1>1. IInv => MutualExclusion
  BY DEF IInv, SafeInv, MutualExclusion
<1>2. QED
  BY <1>1, Invariance, PTL

\* The flag says whether somebody owns the mutex, so ~co_mutex() does not throw
\* once everybody unlocked and no unlock() leaves a free mutex locked, up to the same
\* two events.
THEOREM FlagIsExact == Spec => []FlagMatchesOwner
<1>1. IInv => FlagMatchesOwner
  BY DEF IInv, SafeInv, FlagMatchesOwner
<1>2. QED
  BY <1>1, Invariance, PTL

-----------------------------------------------------------------------------
\* A step that finishes objects, but disturbs no coroutine whose object stays pending,
\* keeps what is known of pending objects.
LEMMA WaitsKept ==
  ASSUME PendingWaits, OnePendingEach, Live' \subseteq Live,
         \A w \in Slots : finished[w] => finished'[w],
         \A w \in Slots : Pending(w) /\ ~finished'[w] =>
            /\ owner'[w] = owner[w]
            /\ answer'[owner[w]] = answer[owner[w]] /\ pc'[owner[w]] = pc[owner[w]]
  PROVE  PendingWaits' /\ OnePendingEach'
<1>1. \A w \in Slots : Pending(w)' => Pending(w) /\ ~finished'[w]
  BY DEF Pending
<1>2. QED
  BY <1>1 DEF PendingWaits, OnePendingEach

\* Completing a pending object answers its owner, which had no other.
LEMMA CompleteKept ==
  ASSUME TypeOK, PendingWaits, OnePendingEach, AnsweredWaits, Live' \subseteq Live,
         NEW w \in Slots, Pending(w), NEW a \in {"yes", "no"},
         finished' = [finished EXCEPT ![w] = TRUE],
         answer' = [answer EXCEPT ![owner[w]] = a],
         owner' = [owner EXCEPT ![w] = NoTask],
         \A t \in Tasks : pc[t] \in {"waiting", "waitingTimed"} => pc'[t] = pc[t]
  PROVE  PendingWaits' /\ OnePendingEach' /\ AnsweredWaits'
<1>1. owner[w] \in Tasks /\ pc[owner[w]] \in {"waiting", "waitingTimed"}
  BY DEF PendingWaits
<1>2. ASSUME NEW v \in Slots, Pending(v), ~finished'[v]
      PROVE  /\ owner'[v] = owner[v]
             /\ answer'[owner[v]] = answer[owner[v]] /\ pc'[owner[v]] = pc[owner[v]]
  <2>1. v # w /\ owner'[v] = owner[v]
    BY <1>2 DEF TypeOK, WakeUpTypeOK
  <2>2. owner[v] # owner[w] /\ owner[v] \in Tasks /\ pc[owner[v]] \in {"waiting", "waitingTimed"}
    BY <1>2, <2>1 DEF OnePendingEach, PendingWaits
  <2>3. QED
    BY <2>1, <2>2 DEF TypeOK, WakeUpTypeOK
<1>3. \A v \in Slots : finished[v] => finished'[v]
  BY DEF TypeOK, WakeUpTypeOK
<1>4. AnsweredWaits'
  BY <1>1 DEF AnsweredWaits, TypeOK, WakeUpTypeOK
<1>5. QED
  BY <1>2, <1>3, <1>4, WaitsKept

LEMMA ParkStep == ParkInv /\ [Next]_vars => ParkInv'
<1> SUFFICES ASSUME ParkInv, [Next]_vars PROVE PendingWaits' /\ OnePendingEach' /\ AnsweredWaits'
  BY TypeStep DEF ParkInv
<1>0. TypeOK /\ PendingWaits /\ OnePendingEach /\ AnsweredWaits
  BY DEF ParkInv
<1> DEFINE Goal == PendingWaits' /\ OnePendingEach' /\ AnsweredWaits'
\* Steps of a coroutine that is not parked and answers nobody.
<1>1. ASSUME NEW t \in Tasks,
             TryLockTakes(t) \/ LockMisses(t) \/ Unlock(t) \/ Dequeue(t) \/ SkipFinished(t)
                \/ Clear(t)
      PROVE  Goal
  <2>1. /\ UNCHANGED <<owner, finished, answer>> /\ pc[t] \notin {"waiting", "waitingTimed"}
        /\ \A u \in Tasks \ {t} : pc'[u] = pc[u]
    BY <1>0, <1>1 DEF TryLockTakes, LockMisses, Unlock, Dequeue, SkipFinished, Clear, Goto,
                wakeUpVars, TypeOK
  <2>2. Live' \subseteq Live
    BY <1>0, <1>1, TaskLive
  <2>3. ASSUME NEW w \in Slots, Pending(w)
        PROVE  owner[w] \in Tasks /\ owner[w] # t
    BY <1>0, <2>1, <2>3 DEF PendingWaits
  <2>4. PendingWaits' /\ OnePendingEach'
    BY <1>0, <2>1, <2>2, <2>3, WaitsKept
  <2>5. AnsweredWaits'
    BY <1>0, <2>1 DEF AnsweredWaits
  <2>6. QED
    BY <2>4, <2>5
<1>2. ASSUME NEW t \in Tasks, Resume(t) PROVE Goal
  <2>1. /\ UNCHANGED <<owner, finished, queue, cur, timer>> /\ answer[t] # "none"
        /\ answer' = [answer EXCEPT ![t] = "none"]
        /\ \A u \in Tasks \ {t} : pc'[u] = pc[u]
        /\ \A u \in Tasks : pc'[u] = "wake" => pc[u] = "wake"
    BY <1>0, <1>2 DEF Resume, Resumed, Goto, TypeOK
  <2>2. Live' \subseteq Live
    BY <1>0, <1>2, TaskLive
  <2>3. ASSUME NEW w \in Slots, Pending(w)
        PROVE  owner[w] \in Tasks /\ owner[w] # t
    BY <1>0, <2>1, <2>3 DEF PendingWaits
  <2>4. PendingWaits' /\ OnePendingEach'
    BY <1>0, <2>1, <2>2, <2>3, WaitsKept DEF TypeOK, WakeUpTypeOK
  <2>5. AnsweredWaits'
    BY <1>0, <2>1 DEF AnsweredWaits, TypeOK, WakeUpTypeOK
  <2>6. QED
    BY <2>4, <2>5
<1>3. ASSUME NEW t \in Tasks, Wake(t) PROVE Goal
  <2>1. Live' \subseteq Live
    BY <1>0, <1>3, TaskLive
  <2>2. cur[t] \in Slots /\ Pending(cur[t])
    BY <1>0, <1>3 DEF Wake, HandOver, TypeOK, Pending, Live
  <2>3. \A u \in Tasks : pc[u] \in {"waiting", "waitingTimed"} => pc'[u] = pc[u]
    BY <1>0, <1>3 DEF Wake, Goto, TypeOK
  <2>4. QED
    BY <1>0, <1>3, <2>1, <2>2, <2>3, CompleteKept DEF Wake, HandOver
<1>4. ASSUME NEW w \in Slots, SlotStep(w) PROVE Goal
  <2>1. UNCHANGED <<queue, pc, cur>>
    BY <1>4 DEF SlotStep, ArmTimer, ExpireTimer, RunTimer, RunDangling
  <2>2. Live' \subseteq Live
    BY <1>0, <1>4, SlotLive
  <2>3. CASE UNCHANGED <<finished, answer, owner>>
    BY <1>0, <2>1, <2>2, <2>3, WaitsKept DEF AnsweredWaits
  <2>4. CASE ~UNCHANGED <<finished, answer, owner>>
    <3>1. /\ Pending(w)
          /\ finished' = [finished EXCEPT ![w] = TRUE]
          /\ answer' = [answer EXCEPT ![owner[w]] = "no"]
          /\ owner' = [owner EXCEPT ![w] = NoTask]
      BY <1>4, <2>4 DEF SlotStep, ArmTimer, StartTimer, ExpireTimer, TimerDue, RunTimer,
                  TimerRun, RunDangling, DanglingRun, GiveUp, Pending
    <3>2. QED
      BY <1>0, <2>1, <2>2, <3>1, CompleteKept
  <2>5. QED
    BY <2>3, <2>4
<1>5. ASSUME NEW t \in Tasks, Enqueue(t) PROVE Goal
  <2>1. PICK w \in Slots \ Live :
          Construct(w, t, pc[t] = "enqueueTimed") /\ queue' = Append(queue, w)
    BY <1>5 DEF Enqueue
  <2>2. /\ pc[t] \in {"enqueue", "enqueueTimed"}
        /\ pc' = [pc EXCEPT ![t] = IF pc[t] = "enqueue" THEN "waiting" ELSE "waitingTimed"]
        /\ UNCHANGED <<cur, answer>>
        /\ owner' = [owner EXCEPT ![w] = t]
        /\ finished' = [finished EXCEPT ![w] = FALSE]
        /\ timer' = [timer EXCEPT ![w] = IF pc[t] = "enqueueTimed" THEN "starting" ELSE "off"]
    BY <1>5, <2>1 DEF Enqueue, Goto, Construct
  <2>3. \A v \in Slots \ {w} : Pending(v)' => Pending(v) /\ owner'[v] = owner[v]
    <3>1. \A v \in Slots : v \in Live' => v = w \/ v \in Live
      BY <1>0, <1>5, <2>1, EnqueueLive
    <3>2. QED
      BY <1>0, <2>2, <3>1 DEF Pending, TypeOK, WakeUpTypeOK
  <2>4. \A v \in Slots : Pending(v) => owner[v] \in Tasks /\ owner[v] # t
    BY <1>0, <2>2 DEF PendingWaits
  <2>5. owner'[w] = t /\ answer[t] = "none" /\ pc'[t] \in {"waiting", "waitingTimed"}
    BY <1>0, <2>2 DEF AnsweredWaits, TypeOK, WakeUpTypeOK
  <2>6. \A u \in Tasks \ {t} : pc'[u] = pc[u]
    BY <1>0, <2>2 DEF TypeOK
  <2>7. PendingWaits'
    BY <1>0, <2>2, <2>3, <2>4, <2>5, <2>6 DEF PendingWaits
  <2>8. OnePendingEach'
    BY <1>0, <2>3, <2>4, <2>5 DEF OnePendingEach
  <2>9. AnsweredWaits'
    BY <1>0, <2>2, <2>5, <2>6 DEF AnsweredWaits
  <2>10. QED
    BY <2>7, <2>8, <2>9
<1>6. CASE UNCHANGED vars \/ \E t \in Tasks : DequeueOverlaps(t)
  <2>1. UNCHANGED <<owner, finished, timer, answer, queue, pc, cur>>
    BY <1>6 DEF vars, wakeUpVars, DequeueOverlaps, QueueBroken
  <2>2. QED
    BY <1>0, <2>1 DEF PendingWaits, OnePendingEach, AnsweredWaits, Pending, Live, QueuedSlots
<1>7. QED
  BY <1>1, <1>2, <1>3, <1>4, <1>5, <1>6 DEF Next, TaskStep

\* A coroutine that was given the mutex resumes as its owner: neither its own timer nor
\* that of another waiter takes the answer back, even one that runs on a deleted object
\* (wake_up.h:52, mutex.h).
THEOREM GrantStands == Spec => GrantIsKept
<1> DEFINE Kept == \A t \in Tasks :
                     answer[t] = "yes" /\ answer'[t] # "yes" => pc'[t] = "holding"
<1>1. Init => ParkInv
  <2> SUFFICES ASSUME Init PROVE ParkInv
    OBVIOUS
  <2>1. \A w \in Slots : ~Pending(w)
    BY DEF Init, WakeUpInit, Pending
  <2>2. \A t \in Tasks : answer[t] = "none"
    BY DEF Init, WakeUpInit
  <2>3. QED
    BY <2>1, <2>2, TypeInit DEF ParkInv, PendingWaits, OnePendingEach, AnsweredWaits
<1>2. ParkInv /\ [Next]_vars => [Kept]_vars
  <2> SUFFICES ASSUME ParkInv, Next PROVE Kept
    OBVIOUS
  <2>0. TypeOK /\ PendingWaits
    BY DEF ParkInv
  <2>1. ASSUME NEW t \in Tasks, TryLockTakes(t) \/ LockMisses(t) \/ Enqueue(t) \/ Unlock(t)
                                  \/ Dequeue(t) \/ SkipFinished(t) \/ Clear(t)
        PROVE  Kept
    BY <2>1 DEF TryLockTakes, LockMisses, Enqueue, Construct, Unlock, Dequeue, SkipFinished,
                Clear, wakeUpVars
  <2>2. ASSUME NEW t \in Tasks, Resume(t) PROVE Kept
    BY <2>0, <2>2 DEF Resume, Resumed, Goto, TypeOK, WakeUpTypeOK
  <2>3. ASSUME NEW t \in Tasks, Wake(t) PROVE Kept
    BY <2>0, <2>3 DEF Wake, HandOver, TypeOK, WakeUpTypeOK
  <2>4. ASSUME NEW w \in Slots, SlotStep(w) PROVE Kept
    <3>1. CASE answer' = answer
      BY <3>1
    <3>2. CASE answer' # answer
      <4>1. Pending(w) /\ answer' = [answer EXCEPT ![owner[w]] = "no"]
        BY <2>4, <3>2 DEF SlotStep, ArmTimer, StartTimer, ExpireTimer, TimerDue, RunTimer,
                  TimerRun, RunDangling, DanglingRun, GiveUp, Pending
      <4>2. answer[owner[w]] = "none"
        BY <2>0, <4>1 DEF PendingWaits
      <4>3. QED
        BY <2>0, <4>1, <4>2 DEF TypeOK, WakeUpTypeOK
    <3>3. QED
      BY <3>1, <3>2
  <2>5. ASSUME NEW t \in Tasks, DequeueOverlaps(t) PROVE Kept
    BY <2>5 DEF DequeueOverlaps, QueueBroken
  <2>6. QED
    BY <2>2, <2>3, <2>4, <2>5, <2>1 DEF Next, TaskStep
<1>3. QED
  BY <1>1, <1>2, ParkStep, PTL DEF Spec, GrantIsKept

-----------------------------------------------------------------------------
\* One thread runs the executor, and the compare-exchange is strong.

\* Nobody can park between the last dequeue() and the clearing of the flag.
LEMMA FreeStep ==
  ASSUME ~MultiThreaded, ~SpuriousCAS
  PROVE  TypeOK /\ NoWaiterOnFreeMutex /\ ClearsWhenEmpty /\ [Next]_vars
           => NoWaiterOnFreeMutex' /\ ClearsWhenEmpty'
<1> SUFFICES ASSUME TypeOK, NoWaiterOnFreeMutex, ClearsWhenEmpty, [Next]_vars
             PROVE  NoWaiterOnFreeMutex' /\ ClearsWhenEmpty'
  OBVIOUS
<1> DEFINE Parking == {"enqueue", "enqueueTimed"}
<1>1. ASSUME NEW t \in Tasks, TryLockTakes(t) PROVE NoWaiterOnFreeMutex' /\ ClearsWhenEmpty'
  <2>1. locked' = TRUE /\ queue' = queue /\ pc' = [pc EXCEPT ![t] = "holding"]
    BY <1>1 DEF TryLockTakes, Goto
  <2>2. QED
    BY <2>1 DEF NoWaiterOnFreeMutex, ClearsWhenEmpty, TypeOK
<1>2. ASSUME NEW t \in Tasks, LockMisses(t) PROVE NoWaiterOnFreeMutex' /\ ClearsWhenEmpty'
  <2>1. locked /\ locked' = locked /\ queue' = queue
        /\ \E l \in Parking : pc' = [pc EXCEPT ![t] = l]
    BY <1>2 DEF LockMisses, CASFails, Goto
  <2>2. QED
    BY <2>1 DEF NoWaiterOnFreeMutex, ClearsWhenEmpty, TypeOK
<1>3. ASSUME NEW t \in Tasks, Enqueue(t) PROVE NoWaiterOnFreeMutex' /\ ClearsWhenEmpty'
  <2>1. /\ pc[t] \in Parking /\ locked' = locked
        /\ \A u \in Tasks \ {t} : pc[u] \in Suspended /\ pc'[u] = pc[u]
        /\ pc'[t] \in {"waiting", "waitingTimed"}
    BY <1>3 DEF Enqueue, MayRun, Goto, TypeOK
  <2>2. locked
    BY <2>1 DEF NoWaiterOnFreeMutex, TypeOK
  <2>3. QED
    BY <2>1, <2>2 DEF NoWaiterOnFreeMutex, ClearsWhenEmpty, Suspended
<1>4. ASSUME NEW t \in Tasks, Resume(t) PROVE NoWaiterOnFreeMutex' /\ ClearsWhenEmpty'
  <2>1. /\ UNCHANGED <<locked, queue, finished>>
        /\ \A u \in Tasks \ {t} : pc'[u] = pc[u]
        /\ pc'[t] \in {"holding", "idle"}
    BY <1>4 DEF Resume, Resumed, Goto, TypeOK
  <2>2. QED
    BY <2>1 DEF NoWaiterOnFreeMutex, ClearsWhenEmpty, QueuedSlots
<1>5. ASSUME NEW t \in Tasks, Unlock(t) \/ Wake(t) \/ SkipFinished(t)
      PROVE  NoWaiterOnFreeMutex' /\ ClearsWhenEmpty'
  <2>1. /\ UNCHANGED <<locked, queue>> /\ \A w \in Slots : finished[w] => finished'[w]
        /\ \A u \in Tasks \ {t} : pc'[u] = pc[u]
        /\ pc'[t] \in {"dequeue", "idle"}
    BY <1>5 DEF Unlock, Wake, HandOver, SkipFinished, Goto, wakeUpVars, TypeOK, WakeUpTypeOK
  <2>2. QueuedSlots' = QueuedSlots /\ QueuedSlots \subseteq Slots
    BY <2>1 DEF QueuedSlots, TypeOK
  <2>3. QED
    BY <2>1, <2>2 DEF NoWaiterOnFreeMutex, ClearsWhenEmpty
<1>6. ASSUME NEW t \in Tasks, Dequeue(t) PROVE NoWaiterOnFreeMutex' /\ ClearsWhenEmpty'
  <2>1. /\ UNCHANGED <<locked, finished>>
        /\ \A u \in Tasks \ {t} : pc'[u] = pc[u] /\ pc[u] \in Suspended
        /\ pc'[t] \in {"clear", "wake"} /\ (pc'[t] = "clear" => queue' = << >>)
    BY <1>6 DEF Dequeue, MayRun, Goto, wakeUpVars, TypeOK
  <2>2. QueuedSlots' \subseteq QueuedSlots
    <3>1. queue' = queue \/ (queue # << >> /\ queue' = Tail(queue))
      BY <1>6 DEF Dequeue
    <3>2. queue \in Seq(Slots)
      BY DEF TypeOK
    <3>3. QED
      BY <3>1, <3>2, QueueSlots DEF QueuedSlots
  <2>3. QED
    BY <2>1, <2>2 DEF NoWaiterOnFreeMutex, ClearsWhenEmpty, Suspended
<1>7. ASSUME NEW t \in Tasks, Clear(t) PROVE NoWaiterOnFreeMutex' /\ ClearsWhenEmpty'
  <2>1. /\ queue = << >> /\ queue' = queue
        /\ \A u \in Tasks : pc'[u] \in Suspended
    BY <1>7 DEF Clear, MayRun, Goto, ClearsWhenEmpty, Suspended, TypeOK
  <2>2. QueuedSlots' = {}
    BY <2>1 DEF QueuedSlots
  <2>3. QED
    BY <2>1, <2>2 DEF NoWaiterOnFreeMutex, ClearsWhenEmpty, Suspended
<1>8. ASSUME NEW w \in Slots, SlotStep(w) PROVE NoWaiterOnFreeMutex' /\ ClearsWhenEmpty'
  <2>1. UNCHANGED <<locked, queue, pc>> /\ \A v \in Slots : finished[v] => finished'[v]
    BY <1>8 DEF SlotStep, ArmTimer, StartTimer, ExpireTimer, TimerDue, RunTimer, TimerRun,
                RunDangling, DanglingRun, GiveUp, TypeOK, WakeUpTypeOK
  <2>2. QueuedSlots' = QueuedSlots /\ QueuedSlots \subseteq Slots
    BY <2>1 DEF QueuedSlots, TypeOK
  <2>3. QED
    BY <2>1, <2>2 DEF NoWaiterOnFreeMutex, ClearsWhenEmpty
<1>9. CASE UNCHANGED vars
  BY <1>9 DEF vars, wakeUpVars, NoWaiterOnFreeMutex, ClearsWhenEmpty, QueuedSlots
<1>10. \A t \in Tasks : ~DequeueOverlaps(t)
  BY DEF DequeueOverlaps
<1>11. QED
  BY <1>1, <1>2, <1>3, <1>4, <1>5, <1>6, <1>7, <1>8, <1>9, <1>10 DEF Next, TaskStep

LEMMA FreeInit == Init => NoWaiterOnFreeMutex /\ ClearsWhenEmpty
<1> SUFFICES ASSUME Init PROVE NoWaiterOnFreeMutex /\ ClearsWhenEmpty
  OBVIOUS
<1>1. QueuedSlots = {}
  BY DEF Init, QueuedSlots
<1>2. QED
  BY <1>1 DEF Init, NoWaiterOnFreeMutex, ClearsWhenEmpty

\* On one thread with a strong compare-exchange unlock() never overlooks a coroutine that
\* failed try_lock(): nobody waits for a free mutex.  It needs neither the timers to be on
\* time nor the other invariants.
THEOREM NobodyForgotten ==
  ASSUME ~MultiThreaded, ~SpuriousCAS
  PROVE  Spec => []NoWaiterOnFreeMutex
<1>1. TypeOK /\ NoWaiterOnFreeMutex /\ ClearsWhenEmpty /\ [Next]_vars
        => NoWaiterOnFreeMutex' /\ ClearsWhenEmpty'
  BY FreeStep
<1>2. QED
  BY <1>1, FreeInit, TypeInit, TypeStep, PTL DEF Spec

\* What leaves the living objects with a step of t is the one that it drops.
LEMMA LiveLeft ==
  ASSUME TypeOK, NEW t \in Tasks,
         \/ TryLockTakes(t) \/ LockMisses(t) \/ Resume(t) \/ Unlock(t)
         \/ Dequeue(t) \/ Wake(t) \/ SkipFinished(t) \/ Clear(t),
         NEW v \in Live
  PROVE  \/ v \in Live'
         \/ v = cur[t] /\ (Wake(t) \/ SkipFinished(t))
<1>1. CASE Dequeue(t) /\ queue # << >>
  <2>1. queue \in Seq(Slots) /\ queue' = Tail(queue) /\ timer' = timer
        /\ cur' = [cur EXCEPT ![t] = Head(queue)] /\ pc' = [pc EXCEPT ![t] = "wake"]
        /\ pc[t] = "dequeue"
    BY <1>1 DEF Dequeue, Goto, TypeOK, wakeUpVars
  <2>2. \A x \in QueuedSlots : x = Head(queue) \/ x \in QueuedSlots'
    BY <1>1, <2>1, QueueSlots DEF QueuedSlots
  <2>3. /\ cur'[t] = Head(queue) /\ pc'[t] = "wake"
        /\ \A u \in Tasks : pc[u] = "wake" => pc'[u] = "wake" /\ cur'[u] = cur[u]
    BY <2>1 DEF TypeOK
  <2>4. QED
    BY <2>1, <2>2, <2>3 DEF Live
<1>2. CASE Wake(t) \/ SkipFinished(t)
  <2>1. queue' = queue /\ \A w \in Slots : timer[w] = "starting" => timer'[w] = "starting"
    BY <1>2 DEF Wake, HandOver, Cancelled, SkipFinished, wakeUpVars, TypeOK, WakeUpTypeOK
  <2>2. \A u \in Tasks \ {t} : pc'[u] = pc[u] /\ cur'[u] = cur[u]
    BY <1>2 DEF Wake, SkipFinished, Goto, TypeOK
  <2>3. QED
    BY <1>2, <2>1, <2>2 DEF Live, QueuedSlots
<1>3. CASE ~(Dequeue(t) /\ queue # << >>) /\ ~Wake(t) /\ ~SkipFinished(t)
  <2>1. UNCHANGED <<queue, timer, cur>>
    BY <1>3 DEF TryLockTakes, LockMisses, Resume, Resumed, Unlock, Dequeue, Clear, wakeUpVars
  <2>2. \A u \in Tasks : pc[u] = "wake" => pc'[u] = "wake"
    BY <1>3 DEF TryLockTakes, LockMisses, Resume, Unlock, Dequeue, Clear, Goto, TypeOK
  <2>3. QED
    BY <2>1, <2>2 DEF Live, QueuedSlots
<1>4. QED
  BY <1>1, <1>2, <1>3

\* A parked coroutine keeps its object until it is answered, and on one thread an object
\* is queued until its timer has been started.
LEMMA ParkedStep ==
  ASSUME ~MultiThreaded
  PROVE  TypeOK /\ ParkedIsQueued /\ [Next]_vars => ParkedIsQueued'
<1> SUFFICES ASSUME TypeOK, ParkedIsQueued, [Next]_vars PROVE ParkedIsQueued'
  OBVIOUS
<1> DEFINE Started == \A w \in Slots : timer[w] = "starting" => w \in QueuedSlots
           Found   == \A t \in Parked : \E w \in Slots : Pending(w) /\ owner[w] = t
<1>0. Started /\ Found
  BY DEF ParkedIsQueued
<1>1. ASSUME NEW t \in Tasks,
             \/ TryLockTakes(t) \/ LockMisses(t) \/ Resume(t) \/ Unlock(t)
             \/ Dequeue(t) \/ Wake(t) \/ SkipFinished(t) \/ Clear(t)
      PROVE  Started' /\ Found'
  <2>1. Started'
    <3>1. \A w \in Slots : timer[w] # "starting"
      BY <1>1 DEF TryLockTakes, LockMisses, Resume, Unlock, Dequeue, Wake, SkipFinished, Clear,
                  MayRun
    <3>2. \A w \in Slots : timer'[w] # "starting"
      BY <1>1, <3>1 DEF TryLockTakes, LockMisses, Resume, Resumed, Unlock, Dequeue, Wake, HandOver,
                  Cancelled, SkipFinished, Clear, wakeUpVars, TypeOK, WakeUpTypeOK
    <3>3. QED
      BY <3>2
  <2>2. ASSUME NEW u \in Parked' PROVE \E w \in Slots : Pending(w)' /\ owner'[w] = u
    <3>1. u \in Tasks /\ u # t
      BY <1>1, <2>2 DEF Parked, TryLockTakes, LockMisses, Resume, Unlock, Dequeue, Wake,
                  SkipFinished, Clear, Goto, TypeOK
    <3>2. pc'[u] = pc[u]
      BY <1>1, <3>1 DEF TryLockTakes, LockMisses, Resume, Unlock, Dequeue, Wake, SkipFinished,
                  Clear, Goto, TypeOK
    <3>3. answer[u] = "none"
      <4>1. answer'[u] = "none"
        BY <2>2 DEF Parked
      <4>2. CASE Wake(t)
        BY <3>1, <4>1, <4>2 DEF Wake, HandOver, TypeOK, WakeUpTypeOK
      <4>3. CASE ~Wake(t)
        BY <1>1, <3>1, <4>1, <4>3 DEF TryLockTakes, LockMisses, Resume, Resumed, Unlock, Dequeue,
                    SkipFinished, Clear, wakeUpVars, TypeOK, WakeUpTypeOK
      <4>4. QED
        BY <4>2, <4>3
    <3>4. u \in Parked
      BY <2>2, <3>1, <3>2, <3>3 DEF Parked
    <3>5. PICK w \in Slots : Pending(w) /\ owner[w] = u
      BY <1>0, <3>4
    <3>6. Wake(t) => w # cur[t]
      <4>1. ASSUME Wake(t), w = cur[t] PROVE FALSE
        <5>1. answer'[u] = "yes"
          BY <3>1, <3>5, <4>1 DEF Wake, HandOver, TypeOK, WakeUpTypeOK
        <5>2. QED
          BY <2>2, <5>1 DEF Parked
      <4>2. QED
        BY <4>1
    <3>7. SkipFinished(t) => w # cur[t]
      BY <3>5 DEF SkipFinished, Pending
    <3>8. w \in Live'
      BY <1>1, <3>5, <3>6, <3>7, LiveLeft DEF Pending
    <3>9. finished'[w] = finished[w] /\ owner'[w] = owner[w]
      BY <1>1, <3>6 DEF TryLockTakes, LockMisses, Resume, Resumed, Unlock, Dequeue, Wake,
                  HandOver, SkipFinished, Clear, wakeUpVars, TypeOK, WakeUpTypeOK
    <3>10. QED
      BY <3>5, <3>8, <3>9 DEF Pending
  <2>3. QED
    BY <2>1, <2>2
<1>2. ASSUME NEW t \in Tasks, Enqueue(t) PROVE Started' /\ Found'
  <2>1. PICK w \in Slots \ Live :
          Construct(w, t, pc[t] = "enqueueTimed") /\ queue' = Append(queue, w)
    BY <1>2 DEF Enqueue
  <2>2. QueuedSlots' = QueuedSlots \cup {w}
    BY <1>2, <2>1, EnqueueLive
  <2>3. /\ UNCHANGED answer /\ owner'[w] = t /\ ~finished'[w]
        /\ \A v \in Slots \ {w} :
             timer'[v] = timer[v] /\ finished'[v] = finished[v] /\ owner'[v] = owner[v]
    BY <2>1 DEF Construct, TypeOK, WakeUpTypeOK
  <2>4. \A u \in Tasks : /\ pc[u] = "wake" => pc'[u] = "wake" /\ cur'[u] = cur[u]
                         /\ u # t => pc'[u] = pc[u]
    BY <1>2 DEF Enqueue, Goto, TypeOK
  <2>5. w \in Live' /\ \A v \in Slots : v \in Live => v \in Live'
    BY <2>1, <2>2, <2>3, <2>4 DEF Live
  <2>6. Started'
    BY <1>0, <2>2, <2>3
  <2>7. ASSUME NEW u \in Parked' PROVE \E v \in Slots : Pending(v)' /\ owner'[v] = u
    <3>1. CASE u = t
      BY <2>3, <2>5, <3>1 DEF Pending
    <3>2. CASE u # t
      <4>1. u \in Parked
        BY <2>3, <2>4, <2>7, <3>2 DEF Parked
      <4>2. PICK v \in Slots : Pending(v) /\ owner[v] = u
        BY <1>0, <4>1
      <4>3. v # w
        BY <2>1, <4>2 DEF Pending
      <4>4. QED
        BY <2>3, <2>5, <4>2, <4>3 DEF Pending
    <3>3. QED
      BY <3>1, <3>2
  <2>8. QED
    BY <2>6, <2>7
<1>3. ASSUME NEW w \in Slots, SlotStep(w) PROVE Started' /\ Found'
  <2>1. UNCHANGED <<queue, pc, cur>>
    BY <1>3 DEF SlotStep, ArmTimer, ExpireTimer, RunTimer, RunDangling
  <2>2. \A v \in Slots : timer'[v] = "starting" => timer[v] = "starting"
    BY <1>3 DEF SlotStep, ArmTimer, StartTimer, ExpireTimer, TimerDue, RunTimer, TimerRun,
                RunDangling, DanglingRun, GiveUp, Cancelled, TypeOK, WakeUpTypeOK
  <2>3. Started'
    BY <1>0, <2>1, <2>2 DEF QueuedSlots
  <2>4. \A v \in Slots : v \in Live => v \in Live'
    BY <1>0, <2>1 DEF Live, QueuedSlots
  <2>5. ASSUME NEW u \in Parked' PROVE \E v \in Slots : Pending(v)' /\ owner'[v] = u
    <3>1. CASE UNCHANGED <<finished, answer, owner>>
      BY <1>0, <2>1, <2>4, <2>5, <3>1 DEF Pending, Parked
    <3>2. CASE ~UNCHANGED <<finished, answer, owner>>
      <4>1. /\ finished' = [finished EXCEPT ![w] = TRUE]
            /\ answer' = [answer EXCEPT ![owner[w]] = "no"]
            /\ owner' = [owner EXCEPT ![w] = NoTask]
        BY <1>3, <3>2 DEF SlotStep, ArmTimer, StartTimer, ExpireTimer, TimerDue, RunTimer,
                    TimerRun, RunDangling, DanglingRun, GiveUp
      <4>2. u \in Tasks /\ u # owner[w] /\ u \in Parked
        BY <2>1, <2>5, <4>1 DEF Parked, TypeOK, WakeUpTypeOK
      <4>3. PICK v \in Slots : Pending(v) /\ owner[v] = u
        BY <1>0, <4>2
      <4>4. QED
        BY <2>1, <2>4, <4>1, <4>2, <4>3 DEF Pending, TypeOK, WakeUpTypeOK
    <3>3. QED
      BY <3>1, <3>2
  <2>6. QED
    BY <2>3, <2>5
<1>4. CASE UNCHANGED vars
  BY <1>4 DEF vars, wakeUpVars, ParkedIsQueued, Parked, Pending, Live, QueuedSlots
<1>5. \A t \in Tasks : ~DequeueOverlaps(t)
  BY DEF DequeueOverlaps
<1>6. QED
  BY <1>1, <1>2, <1>3, <1>4, <1>5 DEF Next, TaskStep, ParkedIsQueued

-----------------------------------------------------------------------------
\* The refinement of MutexSpec.  The holder is the one owner, if there is one.
LEMMA HolderIs ==
  ASSUME ~uaf, MutualExclusion
  PROVE  /\ \A t \in Tasks : Owns(t) => Holder = t
         /\ (\A t \in Tasks : ~Owns(t)) => Holder = NoTask
<1>1. ASSUME NEW t \in Tasks, Owns(t) PROVE Holder = t
  <2>1. \A u \in Tasks : Owns(u) <=> u = t
    BY <1>1 DEF MutualExclusion
  <2>2. (CHOOSE u \in Tasks : Owns(u)) = t
    BY <1>1, <2>1
  <2>3. QED
    BY <1>1, <2>2 DEF Holder
<1>2. (\A t \in Tasks : ~Owns(t)) => Holder = NoTask
  BY DEF Holder
<1>3. QED
  BY <1>1, <1>2

\* The same of the next state.
LEMMA HolderNext ==
  ASSUME ~uaf', MutualExclusion'
  PROVE  /\ \A t \in Tasks : Owns(t)' => Holder' = t
         /\ (\A t \in Tasks : ~Owns(t)') => Holder' = NoTask
<1>1. ASSUME NEW t \in Tasks, Owns(t)' PROVE Holder' = t
  <2>1. \A u \in Tasks : Owns(u)' <=> u = t
    BY <1>1 DEF MutualExclusion
  <2>2. (CHOOSE u \in Tasks : Owns(u)') = t
    BY <1>1, <2>1
  <2>3. QED
    BY <1>1, <2>2 DEF Holder
<1>2. (\A t \in Tasks : ~Owns(t)') => Holder' = NoTask
  BY DEF Holder
<1>3. QED
  BY <1>1, <1>2

\* A step that changes no owner does not change the holder.
LEMMA HolderKept ==
  ASSUME ~uaf, ~uaf', MutualExclusion, MutualExclusion', \A t \in Tasks : Owns(t)' <=> Owns(t)
  PROVE  Holder' = Holder
<1>1. CASE \E t \in Tasks : Owns(t)
  BY <1>1, HolderIs, HolderNext
<1>2. CASE \A t \in Tasks : ~Owns(t)
  BY <1>2, HolderIs, HolderNext
<1>3. QED
  BY <1>1, <1>2

\* Every step of co_mutex, but one that runs a timer handler on a deleted object, is a
\* step of the abstract mutex or none at all.
LEMMA RefinementStep ==
  ASSUME ~MultiThreaded
  PROVE  OneThreadInv /\ OneThreadInv' /\ [Next]_vars
           => [Abstract!Next \/ uaf']_(Abstract!vars)
<1> SUFFICES ASSUME OneThreadInv, OneThreadInv', [Next]_vars, ~uaf'
             PROVE  Abstract!Next \/ UNCHANGED <<Holder, Parked>>
  BY DEF Abstract!vars
<1>0. /\ TypeOK /\ ~uaf /\ SafeInv /\ NoWaiterOnFreeMutex /\ ClearsWhenEmpty /\ ParkedIsQueued
      /\ MutualExclusion /\ FlagMatchesOwner /\ AnsweredIsParked
  BY UndefinedStays DEF OneThreadInv, IInv, SafeInv
<1>00. ~uaf' /\ MutualExclusion' /\ TypeOK'
  BY DEF OneThreadInv, IInv, SafeInv
<1>000. \A t \in Tasks : ~DequeueOverlaps(t)
  BY DEF DequeueOverlaps
<1>1. ASSUME NEW t \in Tasks, TryLockTakes(t) PROVE Abstract!Acquire(t)
  <2>1. \A u \in Tasks : ~Owns(u)
    BY <1>0, <1>1 DEF TryLockTakes, CASTakes, FlagMatchesOwner
  <2>2. Owns(t)'
    BY <1>0, <1>1 DEF TryLockTakes, Goto, Owns, TypeOK
  <2>3. Parked' = Parked
    BY <1>0, <1>1 DEF TryLockTakes, Goto, Parked, TypeOK, wakeUpVars
  <2>4. QED
    BY <1>0, <1>00, <2>1, <2>2, <2>3, HolderIs, HolderNext DEF Abstract!Acquire
<1>2. ASSUME NEW t \in Tasks,
             LockMisses(t) \/ Unlock(t) \/ Dequeue(t) \/ SkipFinished(t)
      PROVE  UNCHANGED <<Holder, Parked>>
  <2>1. UNCHANGED answer
    BY <1>2 DEF LockMisses, Unlock, Dequeue, SkipFinished, wakeUpVars
  <2>2. /\ \A u \in Tasks \ {t} : pc'[u] = pc[u]
        /\ pc[t] \notin {"waiting", "waitingTimed"}
        /\ pc'[t] \notin {"waiting", "waitingTimed"}
        /\ pc[t] \in {"holding", "dequeue", "wake", "clear"}
             <=> pc'[t] \in {"holding", "dequeue", "wake", "clear"}
    BY <1>0, <1>2 DEF LockMisses, Unlock, Dequeue, SkipFinished, Goto, TypeOK
  <2>3. \A u \in Tasks : Owns(u)' <=> Owns(u)
    BY <2>1, <2>2 DEF Owns
  <2>4. Parked' = Parked
    BY <2>1, <2>2 DEF Parked
  <2>5. QED
    BY <1>0, <1>00, <2>3, <2>4, HolderKept
<1>3. ASSUME NEW t \in Tasks, Enqueue(t) PROVE Abstract!Park(t)
  <2>1. /\ pc[t] \in {"enqueue", "enqueueTimed"} /\ pc'[t] \in {"waiting", "waitingTimed"}
        /\ UNCHANGED answer
        /\ \A u \in Tasks \ {t} : pc'[u] = pc[u]
    BY <1>0, <1>3 DEF Enqueue, Construct, Goto, TypeOK
  <2>2. answer[t] = "none" /\ ~Owns(t) /\ ~Owns(t)'
    BY <1>0, <2>1 DEF AnsweredIsParked, Owns, TypeOK, WakeUpTypeOK, Answer
  <2>3. \A u \in Tasks : Owns(u)' <=> Owns(u)
    BY <2>1, <2>2 DEF Owns
  <2>4. PICK u \in Tasks : Owns(u)
    BY <1>0, <2>1 DEF NoWaiterOnFreeMutex, FlagMatchesOwner
  <2>5. Holder = u /\ Holder' = u /\ u # t /\ u # NoTask
    BY <1>0, <1>00, <2>2, <2>3, <2>4, HolderIs, HolderNext, WakeUpAssumption
  <2>6. t \notin Parked /\ Parked' = Parked \cup {t}
    BY <2>1, <2>2 DEF Parked
  <2>7. QED
    BY <2>5, <2>6 DEF Abstract!Park
<1>4. ASSUME NEW t \in Tasks, Resume(t) PROVE UNCHANGED <<Holder, Parked>>
  <2>1. /\ pc[t] \in {"waiting", "waitingTimed"} /\ answer[t] # "none"
        /\ answer' = [answer EXCEPT ![t] = "none"]
        /\ pc' = [pc EXCEPT ![t] = IF pc[t] = "waiting" \/ answer[t] = "yes"
                                   THEN "holding" ELSE "idle"]
    BY <1>4 DEF Resume, Resumed, Goto
  <2>2. Owns(t)' <=> Owns(t)
    BY <1>0, <2>1 DEF Owns, AnsweredIsParked, TypeOK, WakeUpTypeOK, Answer
  <2>3. \A u \in Tasks \ {t} : pc'[u] = pc[u] /\ answer'[u] = answer[u]
    BY <1>0, <2>1 DEF TypeOK, WakeUpTypeOK
  <2>4. \A u \in Tasks : Owns(u)' <=> Owns(u)
    BY <2>2, <2>3 DEF Owns
  <2>5. t \notin Parked /\ t \notin Parked'
    BY <1>0, <2>1 DEF Parked, TypeOK
  <2>6. Parked' = Parked
    BY <2>3, <2>5 DEF Parked
  <2>7. QED
    BY <1>0, <1>00, <2>4, <2>6, HolderKept
<1>5. ASSUME NEW t \in Tasks, Wake(t) PROVE \E u \in Tasks : Abstract!HandOver(u)
  <2>1. cur[t] \in Slots /\ Pending(cur[t]) /\ Owns(t)
    BY <1>0, <1>5 DEF Wake, HandOver, TypeOK, Pending, Live, Owns
  <2>2. PICK u \in Tasks : u = owner[cur[t]] /\ answer[u] = "none"
                           /\ pc[u] \in {"waiting", "waitingTimed"}
    BY <1>0, <2>1 DEF SafeInv, PendingIsParked
  <2>3. /\ answer' = [answer EXCEPT ![u] = "yes"] /\ pc' = [pc EXCEPT ![t] = "idle"]
        /\ pc[t] = "wake"
    BY <1>5, <2>2 DEF Wake, HandOver, Goto
  <2>4. Owns(u)' /\ u \in Parked /\ u \notin Parked'
    BY <1>0, <2>2, <2>3 DEF Owns, Parked, TypeOK, WakeUpTypeOK
  <2>5. Parked' = Parked \ {u}
    <3>1. \A v \in Tasks \ {u} : v \in Parked' <=> v \in Parked
      BY <1>0, <2>3 DEF Parked, TypeOK, WakeUpTypeOK
    <3>2. QED
      BY <2>4, <3>1 DEF Parked
  <2>6. Holder = t /\ Holder' = u /\ t # NoTask
    BY <1>0, <1>00, <2>1, <2>4, HolderIs, HolderNext, WakeUpAssumption
  <2>7. QED
    BY <2>4, <2>5, <2>6 DEF Abstract!HandOver
<1>6. ASSUME NEW t \in Tasks, Clear(t) PROVE Abstract!Release
  <2>1. /\ pc[t] = "clear" /\ queue = << >>
        /\ \A u \in Tasks \ {t} : pc[u] \in Suspended
        /\ \A w \in Slots : timer[w] # "starting"
    BY <1>0, <1>6 DEF Clear, MayRun, ClearsWhenEmpty
  <2>2. Live = {}
    BY <2>1 DEF Live, QueuedSlots, Suspended
  <2>3. Parked = {}
    BY <1>0, <2>2 DEF ParkedIsQueued, Pending
  <2>4. pc' = [pc EXCEPT ![t] = "idle"] /\ UNCHANGED answer /\ locked' = FALSE
    BY <1>6 DEF Clear, Goto, wakeUpVars
  <2>5. Parked' = {}
    BY <1>0, <2>3, <2>4 DEF Parked, TypeOK
  <2>6. \A u \in Tasks : ~Owns(u)'
    BY <1>00, <2>4 DEF OneThreadInv, IInv, SafeInv, FlagMatchesOwner
  <2>7. Holder = t /\ Holder' = NoTask /\ t # NoTask
    BY <1>0, <1>00, <2>1, <2>6, HolderIs, HolderNext, WakeUpAssumption DEF Owns
  <2>8. QED
    BY <2>3, <2>5, <2>7 DEF Abstract!Release
<1>7. ASSUME NEW w \in Slots, SlotStep(w)
      PROVE  (\E u \in Tasks : Abstract!GiveUp(u)) \/ UNCHANGED <<Holder, Parked>>
  <2>1. UNCHANGED pc
    BY <1>7 DEF SlotStep, ArmTimer, ExpireTimer, RunTimer, RunDangling
  <2>2. CASE UNCHANGED answer
    <3>1. Parked' = Parked /\ \A u \in Tasks : Owns(u)' <=> Owns(u)
      BY <2>1, <2>2 DEF Parked, Owns
    <3>2. QED
      BY <1>0, <1>00, <3>1, HolderKept
  <2>3. CASE ~UNCHANGED answer
    <3>1. Pending(w) /\ answer' = [answer EXCEPT ![owner[w]] = "no"]
      BY <1>7, <2>3 DEF SlotStep, ArmTimer, StartTimer, ExpireTimer, TimerDue, RunTimer,
                  TimerRun, RunDangling, DanglingRun, GiveUp, Pending
    <3>2. PICK u \in Tasks : u = owner[w] /\ answer[u] = "none"
                             /\ pc[u] \in {"waiting", "waitingTimed"}
      BY <1>0, <3>1 DEF SafeInv, PendingIsParked
    <3>3. \A v \in Tasks : /\ Owns(v)' <=> Owns(v)
                           /\ v # u => (v \in Parked' <=> v \in Parked)
      BY <1>0, <2>1, <3>1, <3>2 DEF Owns, Parked, TypeOK, WakeUpTypeOK
    <3>4. u \in Parked /\ u \notin Parked'
      BY <1>0, <3>1, <3>2 DEF Parked, TypeOK, WakeUpTypeOK
    <3>5. Parked' = Parked \ {u}
      BY <3>3, <3>4 DEF Parked
    <3>6. Holder' = Holder
      BY <1>0, <1>00, <3>3, HolderKept
    <3>7. QED
      BY <3>4, <3>5, <3>6 DEF Abstract!GiveUp
  <2>4. QED
    BY <2>2, <2>3
<1>8. CASE UNCHANGED vars
  <2>1. Parked' = Parked /\ \A u \in Tasks : Owns(u)' <=> Owns(u)
    BY <1>8 DEF vars, wakeUpVars, Parked, Owns
  <2>2. QED
    BY <1>0, <1>00, <2>1, HolderKept
<1>9. QED
  BY <1>000, <1>1, <1>2, <1>3, <1>4, <1>5, <1>6, <1>7, <1>8 DEF Next, TaskStep, Abstract!Next

\* On one thread, with a strong compare-exchange, co_mutex implements the abstract mutex
\* until a timer handler runs on a deleted wake-up object (wake_up.h:67): one holder, a
\* hand-over from the one that unlocks to a parked coroutine, and a release only when
\* nobody is parked.
THEOREM MutexRefines ==
  ASSUME ~MultiThreaded, ~SpuriousCAS
  PROVE  Spec => ImplementsMutex
<1>1. Init => OneThreadInv
  <2> SUFFICES ASSUME Init PROVE OneThreadInv
    OBVIOUS
  <2>1. ParkedIsQueued
    BY DEF Init, WakeUpInit, ParkedIsQueued, Parked
  <2>2. QED
    BY <2>1, TypeInit, SafeInit, FreeInit DEF OneThreadInv, IInv
<1>2. OneThreadInv /\ [Next]_vars => OneThreadInv'
  <2> SUFFICES ASSUME OneThreadInv, [Next]_vars PROVE OneThreadInv'
    OBVIOUS
  <2>1. IInv' /\ NoWaiterOnFreeMutex' /\ ClearsWhenEmpty'
    BY InvStep, FreeStep DEF OneThreadInv, IInv
  <2>2. ParkedIsQueued'
    BY ParkedStep DEF OneThreadInv, IInv
  <2>3. QED
    BY <2>1, <2>2 DEF OneThreadInv
<1>3. Init => Abstract!Init
  <2> SUFFICES ASSUME Init PROVE Abstract!Init
    OBVIOUS
  <2>1. \A t \in Tasks : ~Owns(t) /\ t \notin Parked
    BY DEF Init, WakeUpInit, Owns, Parked
  <2>2. QED
    BY <2>1 DEF Abstract!Init, Holder, Parked
<1>4. OneThreadInv /\ OneThreadInv' /\ [Next]_vars => [Abstract!Next \/ uaf']_(Abstract!vars)
  BY RefinementStep
<1>5. QED
  BY <1>1, <1>2, <1>3, <1>4, PTL DEF Spec, ImplementsMutex
=============================================================================

-------------------------- MODULE CoSemaphoreProofs --------------------------
(***************************************************************************)
(* Proofs about CoSemaphore for any number of coroutines, permits and heap *)
(* blocks, one or many threads.                                            *)
(***************************************************************************)
EXTENDS CoSemaphore, FiniteSetTheorems, TLAPS

\* Counting permits.  The tokens are finitely many.
LEMMA TokensFinite ==
  ASSUME NEW f, NEW most \in Nat
  PROVE  IsFiniteSet(Tokens(f, most)) /\ Cardinality(Tokens(f, most)) \in Nat
<1>1. IsFiniteSet(1 .. most)
  BY FS_Interval
<1>2. IsFiniteSet(Tasks \X (1 .. most))
  BY <1>1, FS_Product, SemaphoreAssumption
<1>3. Tokens(f, most) \in SUBSET (Tasks \X (1 .. most))
  BY DEF Tokens
<1>4. QED
  BY <1>2, <1>3, FS_Subset, FS_CardinalityType

\* The tokens a to b of one coroutine.
LEMMA TokenRun ==
  ASSUME NEW t \in Tasks, NEW a \in Nat, NEW n \in Nat
  PROVE  LET run == {t} \X (a + 1 .. a + n)
         IN  IsFiniteSet(run) /\ Cardinality(run) = n
<1> DEFINE run == {t} \X (a + 1 .. a + n)
<1>1. IsFiniteSet({t}) /\ Cardinality({t}) = 1
  BY FS_Singleton
<1>2. IsFiniteSet(a + 1 .. a + n) /\ Cardinality(a + 1 .. a + n) = n
  BY FS_Interval
<1>3. QED
  BY <1>1, <1>2, FS_Product

\* n permits more for t are n tokens more.
LEMMA TokensMore ==
  ASSUME NEW most \in Nat, NEW f \in [Tasks -> 0 .. most], NEW t \in Tasks, NEW n \in Nat,
         f[t] + n <= most
  PROVE  Cardinality(Tokens([f EXCEPT ![t] = f[t] + n], most))
           = Cardinality(Tokens(f, most)) + n
<1> DEFINE g == [f EXCEPT ![t] = f[t] + n]
           run == {t} \X (f[t] + 1 .. f[t] + n)
<1>1. f[t] \in Nat
  OBVIOUS
<1>2. g \in [Tasks -> 0 .. most] /\ g[t] = f[t] + n /\ \A u \in Tasks \ {t} : g[u] = f[u]
  BY <1>1
<1>3. Tokens(g, most) = Tokens(f, most) \cup run
  <2>1. ASSUME NEW u \in Tasks, NEW i \in 1 .. most
        PROVE  i <= g[u] <=> i <= f[u] \/ <<u, i>> \in run
    <3>1. CASE u = t
      BY <1>1, <1>2, <3>1
    <3>2. CASE u # t
      BY <1>2, <3>2
    <3>3. QED
      BY <3>1, <3>2
  <2>2. run \subseteq Tasks \X (1 .. most)
    BY <1>1
  <2>3. QED
    BY <2>1, <2>2 DEF Tokens
<1>4. Tokens(f, most) \cap run = {}
  BY <1>1 DEF Tokens
<1>5. IsFiniteSet(Tokens(f, most)) /\ Cardinality(Tokens(f, most)) \in Nat
  BY TokensFinite
<1>6. IsFiniteSet(run) /\ Cardinality(run) = n
  BY <1>1, TokenRun
<1>7. Cardinality(Tokens(f, most) \cup run) = Cardinality(Tokens(f, most)) + n - Cardinality({})
  <2> HIDE DEF run
  <2>1. QED
    BY <1>4, <1>5, <1>6, FS_Union
<1>8. Cardinality(Tokens(f, most) \cup run) = Cardinality(Tokens(f, most)) + n
  <2> HIDE DEF run
  <2>1. Cardinality({}) = 0
    BY FS_EmptySet
  <2>2. QED
    BY <1>5, <1>7, <2>1
<1>9. QED
  BY <1>3, <1>8

\* n permits less for t are n tokens less.
LEMMA TokensLess ==
  ASSUME NEW most \in Nat, NEW f \in [Tasks -> 0 .. most], NEW t \in Tasks, NEW n \in Nat,
         n <= f[t]
  PROVE  Cardinality(Tokens([f EXCEPT ![t] = f[t] - n], most))
           = Cardinality(Tokens(f, most)) - n
<1> DEFINE g == [f EXCEPT ![t] = f[t] - n]
<1>1. g \in [Tasks -> 0 .. most] /\ g[t] = f[t] - n /\ g[t] + n <= most
  OBVIOUS
<1>2. f = [g EXCEPT ![t] = g[t] + n]
  <2>1. f[t] = g[t] + n
    BY <1>1
  <2>2. QED
    BY <2>1
<1>3. Cardinality(Tokens(f, most)) = Cardinality(Tokens(g, most)) + n
  <2> HIDE DEF g
  <2>1. Cardinality(Tokens([g EXCEPT ![t] = g[t] + n], most)) = Cardinality(Tokens(g, most)) + n
    BY <1>1, TokensMore
  <2>2. QED
    BY <1>2, <2>1
<1>4. Cardinality(Tokens(g, most)) \in Nat
  BY TokensFinite
<1>5. QED
  BY <1>3, <1>4

\* The permits that are on their way, when one answer changes.
LEMMA InFlightType == InFlight \in Nat
<1>1. {t \in Tasks : answer[t] = "yes"} \in SUBSET Tasks
  OBVIOUS
<1>2. QED
  BY <1>1, FS_Subset, FS_CardinalityType, SemaphoreAssumption DEF InFlight

LEMMA InFlightStep ==
  ASSUME WakeUpTypeOK, NEW t \in Tasks, NEW a \in Answer, answer' = [answer EXCEPT ![t] = a]
  PROVE  /\ answer[t] # "yes" /\ a = "yes" => InFlight' = InFlight + 1
         /\ answer[t] = "yes" /\ a # "yes" => InFlight' = InFlight - 1
         /\ answer[t] # "yes" /\ a # "yes" => InFlight' = InFlight
<1> DEFINE S == {u \in Tasks : answer[u] = "yes"}
           T == {u \in Tasks : answer'[u] = "yes"}
<1>1. IsFiniteSet(S)
  BY FS_Subset, SemaphoreAssumption
<1>2. answer'[t] = a /\ \A u \in Tasks \ {t} : answer'[u] = answer[u]
  BY DEF WakeUpTypeOK
<1>3. InFlight = Cardinality(S) /\ InFlight' = Cardinality(T)
  BY DEF InFlight
<1>4. ASSUME answer[t] # "yes", a = "yes" PROVE InFlight' = InFlight + 1
  <2>1. T = S \cup {t} /\ t \notin S
    BY <1>2, <1>4
  <2>2. QED
    BY <1>1, <1>3, <2>1, FS_AddElement
<1>5. ASSUME answer[t] = "yes", a # "yes" PROVE InFlight' = InFlight - 1
  <2>1. T = S \ {t} /\ t \in S
    BY <1>2, <1>5
  <2>2. QED
    BY <1>1, <1>3, <2>1, FS_RemoveElement
<1>6. ASSUME answer[t] # "yes", a # "yes" PROVE InFlight' = InFlight
  <2>1. T = S
    BY <1>2, <1>6
  <2>2. QED
    BY <1>3, <2>1
<1>7. QED
  BY <1>4, <1>5, <1>6

-----------------------------------------------------------------------------
\* Dequeuing takes the head out of the FIFO; enqueuing adds one element to it.
LEMMA QueueSlots ==
  ASSUME NEW q \in Seq(Slots)
  PROVE  /\ q # << >> => /\ Head(q) \in {q[i] : i \in DOMAIN q} /\ Head(q) \in Slots
                         /\ Tail(q) \in Seq(Slots)
                         /\ {Tail(q)[i] : i \in DOMAIN Tail(q)} \subseteq {q[i] : i \in DOMAIN q}
         /\ \A w \in Slots :
              /\ Append(q, w) \in Seq(Slots)
              /\ {Append(q, w)[i] : i \in DOMAIN Append(q, w)}
                   = {q[i] : i \in DOMAIN q} \cup {w}
<1>1. ASSUME q # << >>
      PROVE  /\ Head(q) \in {q[i] : i \in DOMAIN q} /\ Head(q) \in Slots
             /\ Tail(q) \in Seq(Slots)
             /\ {Tail(q)[i] : i \in DOMAIN Tail(q)} \subseteq {q[i] : i \in DOMAIN q}
  BY <1>1
<1>2. ASSUME NEW w \in Slots
      PROVE  /\ Append(q, w) \in Seq(Slots)
             /\ {Append(q, w)[i] : i \in DOMAIN Append(q, w)}
                  = {q[i] : i \in DOMAIN q} \cup {w}
  <2> DEFINE a == Append(q, w)
  <2>1. a \in Seq(Slots) /\ Len(a) = Len(q) + 1 /\ DOMAIN a = 1 .. Len(q) + 1
    OBVIOUS
  <2>2. a[Len(q) + 1] = w /\ \A i \in DOMAIN q : i \in DOMAIN a /\ a[i] = q[i]
    OBVIOUS
  <2>3. \A i \in DOMAIN a : i = Len(q) + 1 \/ i \in DOMAIN q
    OBVIOUS
  <2>4. {a[i] : i \in DOMAIN a} = {q[i] : i \in DOMAIN q} \cup {w}
    BY <2>1, <2>2, <2>3
  <2> QED
    BY <2>1, <2>4
<1> QED
  BY <1>1, <1>2

-----------------------------------------------------------------------------
\* Every variable keeps its type; a coroutine that is about to take a permit has room for
\* it, and one that compares has seen a permit.
LEMMA TypeInit == Init => TypeOK
<1> SUFFICES ASSUME Init PROVE TypeOK
  OBVIOUS
<1>1. WakeUpTypeOK
  BY DEF Init, WakeUpInit, WakeUpTypeOK, TimerState, Answer
<1>2. queue \in Seq(Slots)
  BY DEF Init
<1>3. counter \in Nat /\ added \in 0 .. MaxAdded /\ 0 \in 0 .. MaxHeld /\ 0 \in 0 .. MaxBatch
  BY SemaphoreAssumption DEF Init
<1>4. QED
  BY <1>1, <1>2, <1>3, SemaphoreAssumption DEF Init, TypeOK, Control

\* The types of what release() moves.
LEMMA ReleaseType ==
  ASSUME TypeOK, NEW t \in Tasks, NEW n \in 1 .. MaxBatch, Release(t, n), UNCHANGED added,
         n <= held[t], held' = [held EXCEPT ![t] = held[t] - n]
  PROVE  TypeOK'
<1> USE SemaphoreAssumption DEF TypeOK, WakeUpTypeOK, Control
<1>1. held[t] - n \in 0 .. MaxHeld /\ n \in 0 .. MaxBatch /\ n > 0
  OBVIOUS
<1>2. QED
  BY <1>1 DEF Release, Goto, wakeUpVars

LEMMA SignalType ==
  ASSUME TypeOK, NEW t \in Tasks, NEW n \in 1 .. MaxBatch, Signal(t, n)
  PROVE  TypeOK'
<1> USE SemaphoreAssumption DEF TypeOK, WakeUpTypeOK, Control
<1>1. added + n \in 0 .. MaxAdded /\ n \in 0 .. MaxBatch /\ n > 0
  BY DEF Signal
<1>2. QED
  BY <1>1 DEF Signal, Release, Goto, wakeUpVars

LEMMA TypeStep == TypeOK /\ [Next]_vars => TypeOK'
<1> SUFFICES ASSUME TypeOK, [Next]_vars PROVE TypeOK'
  OBVIOUS
<1> USE SemaphoreAssumption DEF TypeOK, WakeUpTypeOK, Control, TimerState, Answer
<1>1. ASSUME NEW t \in Tasks, TaskStep(t) PROVE TypeOK'
  <2>1. ASSUME NEW o \in {"try", "wait", "timed"}, Load(t, o) PROVE TypeOK'
    <3>1. CASE counter = 0
      <4>1. PICK l \in {"idle", "enqueue"} : pc' = [pc EXCEPT ![t] = l]
        BY <2>1, <3>1 DEF Load, Miss, Goto
      <4>2. /\ pc[t] = "idle" /\ held[t] < MaxHeld /\ op' \in [Tasks -> {"try", "wait", "timed"}]
            /\ UNCHANGED <<wakeUpVars, counter, queue, held, left, cur, added, seen>>
        BY <2>1, <3>1 DEF Load
      <4>3. QED
        BY <4>1, <4>2 DEF wakeUpVars
    <3>2. CASE counter # 0
      <4>1. counter > 0 /\ pc' = [pc EXCEPT ![t] = "cas"] /\ seen' = [seen EXCEPT ![t] = counter]
        BY <2>1, <3>2 DEF Load, Goto
      <4>2. /\ pc[t] = "idle" /\ held[t] < MaxHeld /\ op' \in [Tasks -> {"try", "wait", "timed"}]
            /\ UNCHANGED <<wakeUpVars, counter, queue, held, left, cur, added>>
        BY <2>1 DEF Load
      <4>3. QED
        BY <4>1, <4>2 DEF wakeUpVars
    <3>3. QED
      BY <3>1, <3>2
  <2>2. CASE CASTakes(t)
    <3>1. counter - 1 \in Nat /\ held[t] + 1 \in 0 .. MaxHeld
      BY <2>2 DEF CASTakes
    <3>2. QED
      BY <2>2, <3>1 DEF CASTakes, Goto, wakeUpVars
  <2>3. CASE CASFails(t)
    BY <2>3 DEF CASFails, Miss, Goto, wakeUpVars
  <2>4. CASE Enqueue(t)
    BY <2>4 DEF Enqueue, Goto, Construct
  <2>5. CASE Resume(t)
    <3>1. held[t] + 1 \in 0 .. MaxHeld
      BY <2>5 DEF Resume
    <3>2. QED
      BY <2>5, <3>1 DEF Resume, Resumed, Goto
  <2>6. ASSUME NEW n \in 1 .. MaxBatch, GiveBack(t, n) PROVE TypeOK'
    BY <2>6, ReleaseType DEF GiveBack
  <2>7. ASSUME NEW n \in 1 .. MaxBatch, Signal(t, n) PROVE TypeOK'
    BY <2>7, SignalType
  <2>8. CASE Dequeue(t)
    <3>1. CASE queue = << >>
      <4>1. /\ pc[t] = "dequeue" /\ pc' = [pc EXCEPT ![t] = "add"]
            /\ UNCHANGED <<wakeUpVars, counter, op, seen, held, left, added, queue, cur>>
        BY <2>8, <3>1 DEF Dequeue, Goto
      <4>2. QED
        BY <4>1 DEF wakeUpVars
    <3>2. CASE queue # << >>
      <4>1. Head(queue) \in Slots /\ Tail(queue) \in Seq(Slots)
        BY <3>2, QueueSlots
      <4>2. /\ pc[t] = "dequeue" /\ pc' = [pc EXCEPT ![t] = "wake"]
            /\ cur' = [cur EXCEPT ![t] = Head(queue)] /\ queue' = Tail(queue)
            /\ UNCHANGED <<wakeUpVars, counter, op, seen, held, left, added>>
        BY <2>8, <3>2 DEF Dequeue, Goto
      <4>3. QED
        BY <4>1, <4>2 DEF wakeUpVars
    <3>3. QED
      BY <3>1, <3>2
  <2>9. CASE Wake(t)
    <3>1. left[t] - 1 \in 0 .. MaxBatch /\ (left[t] - 1 > 0 <=> left[t] # 1)
      BY <2>9 DEF Wake
    <3>2. QED
      BY <2>9, <3>1 DEF Wake, OneReleased, Goto, HandOver, Cancelled
  <2>10. CASE SkipFinished(t)
    BY <2>10 DEF SkipFinished, Goto, wakeUpVars
  <2>11. CASE Add(t)
    <3>1. left[t] - 1 \in 0 .. MaxBatch /\ (left[t] - 1 > 0 <=> left[t] # 1) /\ counter + 1 \in Nat
      BY <2>11 DEF Add
    <3>2. QED
      BY <2>11, <3>1 DEF Add, OneReleased, Goto, wakeUpVars
  <2>12. QED
    BY <1>1, <2>1, <2>2, <2>3, <2>4, <2>5, <2>6, <2>7, <2>8, <2>9, <2>10, <2>11 DEF TaskStep
<1>2. ASSUME NEW w \in Slots, ArmTimer(w) \/ ExpireTimer(w) \/ RunTimer(w) \/ RunDangling(w)
      PROVE  TypeOK'
  <2>1. UNCHANGED Rest
    BY <1>2 DEF ArmTimer, ExpireTimer, RunTimer, RunDangling
  <2>2. WakeUpTypeOK'
    <3>1. CASE ArmTimer(w)
      BY <3>1 DEF ArmTimer, StartTimer
    <3>2. CASE ExpireTimer(w)
      BY <3>2 DEF ExpireTimer, TimerDue
    <3>3. CASE RunTimer(w)
      BY <3>3 DEF RunTimer, TimerRun, GiveUp
    <3>4. CASE RunDangling(w)
      <4>1. /\ dangling' = dangling \ {w} /\ uaf' = TRUE
            /\ \/ /\ finished' = [finished EXCEPT ![w] = TRUE]
                  /\ answer' = [answer EXCEPT ![owner[w]] = "no"]
                  /\ owner' = [owner EXCEPT ![w] = NoTask]
                  /\ timer' = [timer EXCEPT ![w] = Cancelled(w)]
               \/ UNCHANGED <<finished, answer, owner, timer>>
        BY <3>4 DEF RunDangling, DanglingRun, GiveUp
      <4>2. Cancelled(w) \in TimerState
        BY DEF Cancelled
      <4>3. finished' \in [Slots -> BOOLEAN] /\ owner' \in [Slots -> Tasks \cup {NoTask}]
        BY <4>1
      <4>4. timer' \in [Slots -> TimerState]
        BY <4>1, <4>2
      <4>5. answer' \in [Tasks -> Answer]
        BY <4>1
      <4>6. QED
        BY <4>1, <4>3, <4>4, <4>5
    <3>5. QED
      BY <1>2, <3>1, <3>2, <3>3, <3>4
  <2>3. QED
    BY <2>1, <2>2 DEF Rest
<1>3. ASSUME NEW t \in Tasks, DequeueOverlaps(t) PROVE TypeOK'
  BY <1>3 DEF DequeueOverlaps, QueueBroken
<1>4. CASE UNCHANGED vars
  BY <1>4 DEF vars, wakeUpVars
<1>5. QED
  BY <1>1, <1>2, <1>3, <1>4 DEF Next

\* The semaphore keeps its types, for any instance: above all the counter never goes below
\* zero, which a size_t would wrap (semaphore.h, try_acquire).
THEOREM SemaphoreTypeCorrect == Spec => []TypeOK
  BY TypeInit, TypeStep, PTL DEF Spec

-----------------------------------------------------------------------------
\* A step of the timer of w, and a step of t other than parking.
SlotStep(w) == ArmTimer(w) \/ ExpireTimer(w) \/ RunTimer(w) \/ RunDangling(w)

Starts(t) ==
  \/ \E o \in {"try", "wait", "timed"} : Load(t, o)
  \/ \E n \in 1 .. MaxBatch : GiveBack(t, n) \/ Signal(t, n)

Moves(t) ==
  Starts(t) \/ CASTakes(t) \/ CASFails(t) \/ Dequeue(t) \/ SkipFinished(t) \/ Add(t)

\* Moves complete no object and touch only the coroutine that makes them, which is not
\* parked before; whether it is afterwards is Enqueue's affair.
LEMMA MovesFrame ==
  ASSUME TypeOK, NEW t \in Tasks, Moves(t)
  PROVE  /\ UNCHANGED wakeUpVars
         /\ pc[t] # "waiting" /\ pc'[t] # "waiting"
         /\ \A u \in Tasks \ {t} : pc'[u] = pc[u] /\ op'[u] = op[u]
<1>1. ASSUME NEW o \in {"try", "wait", "timed"}, Load(t, o)
      PROVE  /\ UNCHANGED wakeUpVars
             /\ pc[t] # "waiting" /\ pc'[t] # "waiting"
             /\ \A u \in Tasks \ {t} : pc'[u] = pc[u] /\ op'[u] = op[u]
  BY <1>1 DEF Load, Miss, Goto, TypeOK
<1>2. ASSUME NEW n \in 1 .. MaxBatch, GiveBack(t, n) \/ Signal(t, n)
      PROVE  /\ UNCHANGED wakeUpVars
             /\ pc[t] # "waiting" /\ pc'[t] # "waiting"
             /\ \A u \in Tasks \ {t} : pc'[u] = pc[u] /\ op'[u] = op[u]
  BY <1>2 DEF GiveBack, Signal, Release, Goto, TypeOK
<1>3. CASE CASTakes(t) \/ CASFails(t)
  BY <1>3 DEF CASTakes, CASFails, Miss, Goto, TypeOK
<1>4. CASE Dequeue(t)
  BY <1>4 DEF Dequeue, Goto, TypeOK
<1>5. CASE SkipFinished(t) \/ Add(t)
  BY <1>5 DEF SkipFinished, Add, OneReleased, Goto, TypeOK
<1>6. QED
  BY <1>1, <1>2, <1>3, <1>4, <1>5 DEF Moves, Starts

\* Only what the FIFO, a release() or an initiating function gains can come alive.
LEMMA LiveShrinks ==
  ASSUME QueuedSlots' \subseteq Live,
         \A t \in Tasks : pc'[t] = "wake" => cur'[t] \in Live,
         \A w \in Slots : timer'[w] = "starting" => timer[w] = "starting"
  PROVE  Live' \subseteq Live
<1>1. {cur'[t] : t \in {u \in Tasks : pc'[u] = "wake"}} \subseteq Live
  OBVIOUS
<1>2. {w \in Slots : timer'[w] = "starting"} \subseteq Live
  BY DEF Live
<1> QED
  BY <1>1, <1>2 DEF Live

LEMMA TaskLive ==
  ASSUME TypeOK, NEW t \in Tasks, Moves(t) \/ Resume(t) \/ Wake(t)
  PROVE  Live' \subseteq Live
<1>1. CASE Dequeue(t) /\ queue # << >>
  <2>1. queue \in Seq(Slots) /\ queue' = Tail(queue) /\ timer' = timer
        /\ cur' = [cur EXCEPT ![t] = Head(queue)] /\ pc' = [pc EXCEPT ![t] = "wake"]
    BY <1>1 DEF Dequeue, Goto, TypeOK, wakeUpVars
  <2>2. QueuedSlots' \subseteq QueuedSlots /\ Head(queue) \in QueuedSlots
    BY <1>1, <2>1, QueueSlots DEF QueuedSlots
  <2>3. \A u \in Tasks : pc'[u] = "wake" => cur'[u] \in Live
    BY <2>1, <2>2 DEF Live, TypeOK
  <2>4. QED
    BY <2>1, <2>2, <2>3, LiveShrinks DEF Live
<1>2. CASE Wake(t)
  <2>1. queue' = queue /\ \A w \in Slots : timer'[w] = "starting" => timer[w] = "starting"
    BY <1>2 DEF Wake, HandOver, Cancelled, TypeOK, WakeUpTypeOK
  <2>2. \A u \in Tasks : pc'[u] = "wake" => pc[u] = "wake" /\ cur'[u] = cur[u]
    BY <1>2 DEF Wake, OneReleased, Goto, TypeOK
  <2>3. QED
    BY <2>1, <2>2, LiveShrinks DEF Live, QueuedSlots
<1>3. CASE ~(Dequeue(t) /\ queue # << >>) /\ ~Wake(t)
  <2>1. queue' = queue /\ timer' = timer
    BY <1>3 DEF Moves, Starts, Load, GiveBack, Signal, Release, CASTakes, CASFails, Dequeue,
                SkipFinished, Add, Resume, Resumed, wakeUpVars
  <2>2. /\ \A u \in Tasks \ {t} : pc'[u] = pc[u] /\ cur'[u] = cur[u]
        /\ pc'[t] # "wake"
    <3>1. CASE Starts(t)
      BY <3>1 DEF Starts, Load, Miss, GiveBack, Signal, Release, Goto, TypeOK
    <3>2. CASE CASTakes(t) \/ CASFails(t) \/ Dequeue(t)
      BY <1>3, <3>2 DEF CASTakes, CASFails, Miss, Dequeue, Goto, TypeOK
    <3>3. CASE SkipFinished(t) \/ Add(t) \/ Resume(t)
      BY <3>3 DEF SkipFinished, Add, OneReleased, Resume, Goto, TypeOK
    <3>4. QED
      BY <1>3, <3>1, <3>2, <3>3 DEF Moves
  <2>3. QED
    BY <2>1, <2>2, LiveShrinks DEF Live, QueuedSlots
<1>4. QED
  BY <1>1, <1>2, <1>3

LEMMA SlotLive ==
  ASSUME TypeOK, NEW w \in Slots, SlotStep(w)
  PROVE  Live' \subseteq Live
<1>1. UNCHANGED <<queue, pc, cur>>
  BY DEF SlotStep, ArmTimer, ExpireTimer, RunTimer, RunDangling, Rest
<1>2. \A v \in Slots : timer'[v] = "starting" => timer[v] = "starting"
  BY DEF SlotStep, ArmTimer, StartTimer, ExpireTimer, TimerDue, RunTimer, TimerRun,
         RunDangling, DanglingRun, GiveUp, Cancelled, TypeOK, WakeUpTypeOK
<1>3. QED
  BY <1>1, <1>2, LiveShrinks DEF Live, QueuedSlots

\* Parking adds the new object, and no other, to those alive.
LEMMA EnqueueLive ==
  ASSUME TypeOK, NEW t \in Tasks, Enqueue(t), NEW w \in Slots,
         Construct(w, t, op[t] = "timed"), queue' = Append(queue, w)
  PROVE  \A v \in Slots : v \in Live' => v = w \/ v \in Live
<1>1. QueuedSlots' = QueuedSlots \cup {w}
  <2>1. queue \in Seq(Slots)
    BY DEF TypeOK
  <2>2. {Append(queue, w)[i] : i \in DOMAIN Append(queue, w)}
          = {queue[i] : i \in DOMAIN queue} \cup {w}
    BY <2>1, QueueSlots
  <2>3. QED
    BY <2>2 DEF QueuedSlots
<1>2. \A u \in Tasks : pc'[u] = "wake" => pc[u] = "wake" /\ cur'[u] = cur[u]
  BY DEF Enqueue, Goto, TypeOK
<1>3. \A v \in Slots \ {w} : timer'[v] = timer[v]
  BY DEF Construct, TypeOK, WakeUpTypeOK
<1>4. QED
  BY <1>1, <1>2, <1>3 DEF Live

\* A step after which the pending objects are some of those before it, with the same
\* owners, no new timers and undisturbed coroutines, keeps what is known of them.
LEMMA PendingKept ==
  ASSUME SafeInv,
         \A w \in Slots : Pending(w)' =>
            /\ Pending(w)
            /\ owner'[w] = owner[w]
            /\ timer'[w] # "off" => timer[w] # "off"
            /\ answer'[owner[w]] = answer[owner[w]]
            /\ pc'[owner[w]] = pc[owner[w]] /\ op'[owner[w]] = op[owner[w]]
  PROVE  PendingIsParked' /\ OnePendingEach'
<1>1. PendingIsParked'
  BY DEF SafeInv, PendingIsParked
<1>2. OnePendingEach'
  BY DEF SafeInv, OnePendingEach
<1> QED
  BY <1>1, <1>2

-----------------------------------------------------------------------------
\* Who is parked, who is answered: one lemma for each kind of step.
Parking == PendingIsParked /\ OnePendingEach /\ AnsweredIsParked

LEMMA MovesParking ==
  ASSUME TypeOK, SafeInv, NEW t \in Tasks, Moves(t)
  PROVE  Parking'
<1>1. /\ UNCHANGED <<owner, finished, timer, answer>>
      /\ pc[t] # "waiting" /\ pc'[t] # "waiting"
      /\ \A u \in Tasks \ {t} : pc'[u] = pc[u] /\ op'[u] = op[u]
  BY MovesFrame DEF wakeUpVars
<1>2. Live' \subseteq Live
  BY TaskLive
<1>3. ASSUME NEW w \in Slots, Pending(w)'
      PROVE  Pending(w) /\ owner[w] \in Tasks /\ owner[w] # t
  <2>1. Pending(w)
    BY <1>1, <1>2, <1>3 DEF Pending
  <2>2. QED
    BY <1>1, <2>1 DEF SafeInv, PendingIsParked
<1>4. PendingIsParked' /\ OnePendingEach'
  BY <1>1, <1>3, PendingKept
<1>5. answer[t] = "none"
  BY <1>1 DEF SafeInv, AnsweredIsParked
<1>6. AnsweredIsParked'
  BY <1>1, <1>5 DEF SafeInv, AnsweredIsParked
<1>7. QED
  BY <1>4, <1>6 DEF Parking

LEMMA EnqueueParking ==
  ASSUME TypeOK, SafeInv, NEW t \in Tasks, Enqueue(t)
  PROVE  Parking'
<1>1. PICK w \in Slots \ Live :
        Construct(w, t, op[t] = "timed") /\ queue' = Append(queue, w)
  BY DEF Enqueue
<1>2. /\ pc[t] = "enqueue" /\ pc' = [pc EXCEPT ![t] = "waiting"] /\ UNCHANGED <<op, answer>>
      /\ owner' = [owner EXCEPT ![w] = t]
      /\ finished' = [finished EXCEPT ![w] = FALSE]
      /\ timer' = [timer EXCEPT ![w] = IF op[t] = "timed" THEN "starting" ELSE "off"]
  BY <1>1 DEF Enqueue, Goto, Construct
<1>3. \A v \in Slots : v \in Live' => v = w \/ v \in Live
  BY <1>1, EnqueueLive
<1>4. answer[t] = "none"
  BY <1>2 DEF SafeInv, AnsweredIsParked
<1>5. \A v \in Slots \ {w} : Pending(v)' =>
        /\ Pending(v) /\ owner[v] \in Tasks /\ owner[v] # t
        /\ owner'[v] = owner[v] /\ timer'[v] = timer[v]
        /\ pc'[owner[v]] = pc[owner[v]]
  <2>1. ASSUME NEW v \in Slots \ {w}, Pending(v)'
        PROVE  Pending(v) /\ owner'[v] = owner[v] /\ timer'[v] = timer[v]
    BY <1>2, <1>3, <2>1 DEF Pending, TypeOK, WakeUpTypeOK
  <2>2. ASSUME NEW v \in Slots \ {w}, Pending(v)
        PROVE  owner[v] \in Tasks /\ owner[v] # t
    BY <1>2, <2>2 DEF SafeInv, PendingIsParked
  <2>3. QED
    BY <1>2, <2>1, <2>2 DEF TypeOK
<1>6. owner'[w] = t /\ pc'[t] = "waiting" /\ (timer'[w] # "off" => op[t] = "timed")
  BY <1>2 DEF TypeOK, WakeUpTypeOK
<1>7. PendingIsParked'
  BY <1>2, <1>4, <1>5, <1>6 DEF SafeInv, PendingIsParked
<1>8. OnePendingEach'
  BY <1>5, <1>6 DEF SafeInv, OnePendingEach
<1>9. AnsweredIsParked'
  BY <1>2, <1>4 DEF SafeInv, AnsweredIsParked, TypeOK
<1>10. QED
  BY <1>7, <1>8, <1>9 DEF Parking

LEMMA ResumeParking ==
  ASSUME TypeOK, SafeInv, NEW t \in Tasks, Resume(t)
  PROVE  Parking'
<1>1. /\ pc[t] = "waiting" /\ answer[t] # "none"
      /\ answer' = [answer EXCEPT ![t] = "none"] /\ pc' = [pc EXCEPT ![t] = "idle"]
      /\ UNCHANGED <<owner, finished, timer, op>>
  BY DEF Resume, Resumed, Goto
<1>2. Live' \subseteq Live
  BY TaskLive
<1>3. ASSUME NEW w \in Slots, Pending(w)'
      PROVE  Pending(w) /\ owner[w] \in Tasks /\ owner[w] # t
  <2>1. Pending(w)
    BY <1>1, <1>2, <1>3 DEF Pending
  <2>2. QED
    BY <1>1, <2>1 DEF SafeInv, PendingIsParked
<1>4. \A w \in Slots : Pending(w)' => /\ answer'[owner[w]] = answer[owner[w]]
                                      /\ pc'[owner[w]] = pc[owner[w]]
  BY <1>1, <1>3 DEF TypeOK, WakeUpTypeOK
<1>5. PendingIsParked' /\ OnePendingEach'
  BY <1>1, <1>3, <1>4, PendingKept
<1>6. AnsweredIsParked'
  BY <1>1 DEF SafeInv, AnsweredIsParked, TypeOK, WakeUpTypeOK
<1>7. QED
  BY <1>5, <1>6 DEF Parking

\* An object that is completed answers its owner, which had no other.
LEMMA CompleteParking ==
  ASSUME TypeOK, SafeInv, Live' \subseteq Live, UNCHANGED op,
         NEW w \in Slots, Pending(w), NEW a \in {"yes", "no"},
         a = "no" => timer[w] # "off",
         finished' = [finished EXCEPT ![w] = TRUE],
         answer' = [answer EXCEPT ![owner[w]] = a],
         owner' = [owner EXCEPT ![w] = NoTask],
         \A v \in Slots : timer'[v] # "off" => timer[v] # "off",
         \A t \in Tasks : pc[t] = "waiting" => pc'[t] = "waiting"
  PROVE  Parking'
<1>1. /\ owner[w] \in Tasks /\ pc[owner[w]] = "waiting"
      /\ a = "no" => op[owner[w]] = "timed"
  BY DEF SafeInv, PendingIsParked
<1>2. ASSUME NEW v \in Slots, Pending(v)'
      PROVE  /\ Pending(v) /\ owner[v] \in Tasks /\ owner[v] # owner[w]
             /\ pc[owner[v]] = "waiting" /\ owner'[v] = owner[v]
  <2>1. Pending(v) /\ v # w /\ owner'[v] = owner[v]
    BY <1>2 DEF Pending, TypeOK, WakeUpTypeOK
  <2>2. QED
    BY <2>1 DEF SafeInv, PendingIsParked, OnePendingEach
<1>3. \A v \in Slots : Pending(v)' => /\ answer'[owner[v]] = answer[owner[v]]
                                      /\ pc'[owner[v]] = pc[owner[v]]
  BY <1>2 DEF TypeOK, WakeUpTypeOK
<1>4. PendingIsParked' /\ OnePendingEach'
  BY <1>2, <1>3, PendingKept
<1>5. AnsweredIsParked'
  BY <1>1 DEF SafeInv, AnsweredIsParked, TypeOK, WakeUpTypeOK
<1>6. QED
  BY <1>4, <1>5 DEF Parking

LEMMA WakeParking ==
  ASSUME TypeOK, SafeInv, NEW t \in Tasks, Wake(t)
  PROVE  Parking' /\ cur[t] \in Slots /\ Pending(cur[t])
<1>1. cur[t] \in Slots /\ Pending(cur[t])
  BY DEF Wake, HandOver, TypeOK, Pending, Live
<1>2. Live' \subseteq Live
  BY TaskLive
<1>3. /\ \A v \in Slots : timer'[v] # "off" => timer[v] # "off"
      /\ \A u \in Tasks : pc[u] = "waiting" => pc'[u] = "waiting"
  BY <1>1 DEF Wake, HandOver, Cancelled, OneReleased, Goto, TypeOK, WakeUpTypeOK
<1>4. /\ finished' = [finished EXCEPT ![cur[t]] = TRUE]
      /\ answer' = [answer EXCEPT ![owner[cur[t]]] = "yes"]
      /\ owner' = [owner EXCEPT ![cur[t]] = NoTask]
      /\ UNCHANGED op
  BY DEF Wake, HandOver
<1>5. QED
  BY <1>1, <1>2, <1>3, <1>4, CompleteParking

\* A timer answers "no" to the owner of a pending object, or changes nothing; a handler
\* that runs on a deleted object is recorded in uaf.
LEMMA SlotParking ==
  ASSUME TypeOK, SafeInv, ~uaf', NEW w \in Slots, SlotStep(w)
  PROVE  /\ Parking'
         /\ \/ UNCHANGED answer
            \/ Pending(w) /\ answer' = [answer EXCEPT ![owner[w]] = "no"]
<1>1. UNCHANGED Rest
  BY DEF SlotStep, ArmTimer, ExpireTimer, RunTimer, RunDangling
<1>2. ~RunDangling(w)
  BY DEF RunDangling, DanglingRun
<1>3. \A v \in Slots : timer'[v] # "off" => timer[v] # "off"
  BY <1>2 DEF SlotStep, ArmTimer, StartTimer, ExpireTimer, TimerDue, RunTimer, TimerRun,
         TypeOK, WakeUpTypeOK
<1>4. Live' \subseteq Live
  BY SlotLive
<1>5. UNCHANGED <<pc, op>>
  BY <1>1 DEF Rest
<1>6. CASE UNCHANGED <<finished, answer, owner>>
  <2>1. PendingIsParked' /\ OnePendingEach'
    BY <1>1, <1>3, <1>4, <1>5, <1>6, PendingKept DEF Pending
  <2>2. AnsweredIsParked'
    BY <1>5, <1>6 DEF SafeInv, AnsweredIsParked
  <2>3. QED
    BY <1>6, <2>1, <2>2 DEF Parking
<1>7. CASE ~UNCHANGED <<finished, answer, owner>>
  <2>1. /\ Pending(w) /\ timer[w] = "due"
        /\ finished' = [finished EXCEPT ![w] = TRUE]
        /\ answer' = [answer EXCEPT ![owner[w]] = "no"]
        /\ owner' = [owner EXCEPT ![w] = NoTask]
    BY <1>2, <1>7 DEF SlotStep, ArmTimer, StartTimer, ExpireTimer, TimerDue, RunTimer,
                      TimerRun, GiveUp, Pending
  <2>2. QED
    BY <1>3, <1>4, <1>5, <2>1, CompleteParking
<1>8. QED
  BY <1>6, <1>7

-----------------------------------------------------------------------------
\* The sum of permits.
Held   == Cardinality(Tokens(held, MaxHeld))
Giving == Cardinality(Tokens(left, MaxBatch))

LEMMA SumTypes ==
  /\ Held \in Nat /\ Giving \in Nat /\ InFlight \in Nat
  /\ Held' \in Nat /\ Giving' \in Nat
  BY TokensFinite, InFlightType, SemaphoreAssumption DEF Held, Giving

\* The tokens follow the variable.
LEMMA SumKept ==
  /\ UNCHANGED held => Held' = Held
  /\ UNCHANGED left => Giving' = Giving
  /\ UNCHANGED answer => InFlight' = InFlight
  BY DEF Held, Giving, InFlight, Tokens

LEMMA OneMore ==
  ASSUME TypeOK, NEW t \in Tasks, held[t] < MaxHeld, held' = [held EXCEPT ![t] = held[t] + 1]
  PROVE  Held' = Held + 1
<1>1. held \in [Tasks -> 0 .. MaxHeld] /\ MaxHeld \in Nat /\ held[t] + 1 <= MaxHeld
  BY SemaphoreAssumption DEF TypeOK
<1>2. QED
  BY <1>1, TokensMore DEF Held

LEMMA OneLess ==
  ASSUME TypeOK, NEW t \in Tasks, left[t] > 0, left' = [left EXCEPT ![t] = left[t] - 1]
  PROVE  Giving' = Giving - 1
<1>1. left \in [Tasks -> 0 .. MaxBatch] /\ MaxBatch \in Nat /\ 1 <= left[t]
  BY SemaphoreAssumption DEF TypeOK
<1>2. QED
  BY <1>1, TokensLess DEF Giving

\* What release(n) takes from the coroutine is what it has to give.
LEMMA ReleaseSum ==
  ASSUME TypeOK, NEW t \in Tasks, NEW n \in 1 .. MaxBatch, Release(t, n)
  PROVE  Giving' = Giving + n
<1>1. left \in [Tasks -> 0 .. MaxBatch] /\ MaxBatch \in Nat /\ left[t] = 0 /\ n \in Nat
  <2>1. ~(left[t] > 0)
    BY DEF TypeOK, Release
  <2>2. left \in [Tasks -> 0 .. MaxBatch]
    BY DEF TypeOK
  <2>3. QED
    BY <2>1, <2>2, SemaphoreAssumption
<1>2. left' = [left EXCEPT ![t] = left[t] + n] /\ left[t] + n <= MaxBatch
  BY <1>1 DEF Release
<1>3. QED
  BY <1>1, <1>2, TokensMore DEF Giving

LEMMA GiveBackSum ==
  ASSUME TypeOK, NEW t \in Tasks, NEW n \in 1 .. MaxBatch, GiveBack(t, n)
  PROVE  Held' = Held - n
<1>1. held \in [Tasks -> 0 .. MaxHeld] /\ MaxHeld \in Nat /\ n \in Nat /\ n <= held[t]
      /\ held' = [held EXCEPT ![t] = held[t] - n]
  BY SemaphoreAssumption DEF TypeOK, GiveBack
<1>2. QED
  BY <1>1, TokensLess DEF Held

\* No step changes the sum, unless it adds permits of its own.
LEMMA SumStep ==
  ASSUME TypeOK, SafeInv, ~uaf, ~uaf', [Next]_vars
  PROVE  PermitsConserved'
<1>0. /\ counter + Held + Giving + InFlight = Initial + added
      /\ counter \in Nat /\ added \in Nat /\ Initial \in Nat
  BY SemaphoreAssumption DEF SafeInv, PermitsConserved, Held, Giving, TypeOK
<1> SUFFICES counter' + Held' + Giving' + InFlight' = Initial + added'
  BY DEF PermitsConserved, Held, Giving
<1>1. ASSUME NEW t \in Tasks,
             \/ \E o \in {"try", "wait", "timed"} : Load(t, o)
             \/ CASFails(t) \/ Enqueue(t) \/ Dequeue(t) \/ SkipFinished(t)
      PROVE  counter' + Held' + Giving' + InFlight' = Initial + added'
  <2>1. UNCHANGED <<counter, held, left, answer, added>>
    BY <1>1 DEF Load, CASFails, Enqueue, Construct, Dequeue, SkipFinished, wakeUpVars
  <2>2. QED
    BY <1>0, <2>1, SumKept
<1>2. ASSUME NEW t \in Tasks, CASTakes(t)
      PROVE  counter' + Held' + Giving' + InFlight' = Initial + added'
  <2>1. Held' = Held + 1
    BY <1>2, OneMore DEF CASTakes, TypeOK
  <2>2. counter' = counter - 1 /\ UNCHANGED <<left, answer, added>>
    BY <1>2 DEF CASTakes, wakeUpVars
  <2>3. QED
    BY <1>0, <2>1, <2>2, SumKept, SumTypes
<1>3. ASSUME NEW t \in Tasks, Resume(t)
      PROVE  counter' + Held' + Giving' + InFlight' = Initial + added'
  <2>1. /\ UNCHANGED <<counter, left, added>> /\ pc[t] = "waiting" /\ answer[t] # "none"
        /\ answer' = [answer EXCEPT ![t] = "none"]
    BY <1>3 DEF Resume, Resumed
  <2>2. WakeUpTypeOK /\ "none" \in Answer /\ held[t] < MaxHeld
    BY <2>1 DEF TypeOK, Answer
  <2>3. CASE answer[t] = "yes"
    <3>1. Held' = Held + 1
      BY <1>3, <2>2, <2>3, OneMore DEF Resume
    <3>2. InFlight' = InFlight - 1
      BY <2>1, <2>2, <2>3, InFlightStep
    <3>3. QED
      BY <1>0, <2>1, <3>1, <3>2, SumKept, SumTypes
  <2>4. CASE answer[t] = "no"
    <3>1. op[t] = "timed"
      BY <2>4 DEF SafeInv, AnsweredIsParked
    <3>2. UNCHANGED held
      BY <1>3, <2>4, <3>1 DEF Resume
    <3>3. InFlight' = InFlight
      BY <2>1, <2>2, <2>4, InFlightStep
    <3>4. QED
      BY <1>0, <2>1, <3>2, <3>3, SumKept, SumTypes
  <2>5. QED
    BY <2>1, <2>3, <2>4 DEF TypeOK, WakeUpTypeOK, Answer
<1>4. ASSUME NEW t \in Tasks, NEW n \in 1 .. MaxBatch, GiveBack(t, n)
      PROVE  counter' + Held' + Giving' + InFlight' = Initial + added'
  <2>1. Held' = Held - n /\ Giving' = Giving + n
    BY <1>4, GiveBackSum, ReleaseSum DEF GiveBack
  <2>2. UNCHANGED <<counter, answer, added>>
    BY <1>4 DEF GiveBack, Release, wakeUpVars
  <2>3. QED
    BY <1>0, <2>1, <2>2, SumKept, SumTypes
<1>5. ASSUME NEW t \in Tasks, NEW n \in 1 .. MaxBatch, Signal(t, n)
      PROVE  counter' + Held' + Giving' + InFlight' = Initial + added'
  <2>1. Giving' = Giving + n /\ added' = added + n
    BY <1>5, ReleaseSum DEF Signal
  <2>2. UNCHANGED <<counter, answer, held>>
    BY <1>5 DEF Signal, Release, wakeUpVars
  <2>3. QED
    BY <1>0, <2>1, <2>2, SumKept, SumTypes
<1>6. ASSUME NEW t \in Tasks, Wake(t)
      PROVE  counter' + Held' + Giving' + InFlight' = Initial + added'
  <2>1. Giving' = Giving - 1
    BY <1>6, OneLess DEF Wake, OneReleased, TypeOK
  <2>2. cur[t] \in Slots /\ Pending(cur[t])
    BY <1>6, WakeParking
  <2>3. PICK u \in Tasks : u = owner[cur[t]] /\ answer[u] = "none"
    BY <2>2 DEF SafeInv, PendingIsParked
  <2>4. InFlight' = InFlight + 1
    <3>1. WakeUpTypeOK /\ "yes" \in Answer /\ answer' = [answer EXCEPT ![u] = "yes"]
      BY <1>6, <2>3 DEF Wake, HandOver, TypeOK, Answer
    <3>2. QED
      BY <2>3, <3>1, InFlightStep
  <2>5. UNCHANGED <<counter, held, added>>
    BY <1>6 DEF Wake
  <2>6. QED
    BY <1>0, <2>1, <2>4, <2>5, SumKept, SumTypes
<1>7. ASSUME NEW t \in Tasks, Add(t)
      PROVE  counter' + Held' + Giving' + InFlight' = Initial + added'
  <2>1. Giving' = Giving - 1
    BY <1>7, OneLess DEF Add, OneReleased, TypeOK
  <2>2. counter' = counter + 1 /\ UNCHANGED <<held, answer, added>>
    BY <1>7 DEF Add, wakeUpVars
  <2>3. QED
    BY <1>0, <2>1, <2>2, SumKept, SumTypes
<1>8. ASSUME NEW w \in Slots, SlotStep(w)
      PROVE  counter' + Held' + Giving' + InFlight' = Initial + added'
  <2>1. UNCHANGED <<counter, held, left, added>>
    BY <1>8 DEF SlotStep, ArmTimer, ExpireTimer, RunTimer, RunDangling, Rest
  <2>2. InFlight' = InFlight
    <3>1. CASE UNCHANGED answer
      BY <3>1, SumKept
    <3>2. CASE ~UNCHANGED answer
      <4>1. Pending(w) /\ answer' = [answer EXCEPT ![owner[w]] = "no"]
        BY <1>8, <3>2, SlotParking
      <4>2. PICK u \in Tasks : u = owner[w] /\ answer[u] = "none"
        BY <4>1 DEF SafeInv, PendingIsParked
      <4>3. WakeUpTypeOK /\ "no" \in Answer /\ answer' = [answer EXCEPT ![u] = "no"]
        BY <4>1, <4>2 DEF TypeOK, Answer
      <4>4. QED
        BY <4>2, <4>3, InFlightStep
    <3>3. QED
      BY <3>1, <3>2
  <2>3. QED
    BY <1>0, <2>1, <2>2, SumKept
<1>9. CASE UNCHANGED vars
  BY <1>0, <1>9, SumKept DEF vars, wakeUpVars
<1>10. \A t \in Tasks : ~DequeueOverlaps(t)
  BY DEF DequeueOverlaps, QueueBroken
<1>11. QED
  BY <1>1, <1>2, <1>3, <1>4, <1>5, <1>6, <1>7, <1>8, <1>9, <1>10 DEF Next, TaskStep, SlotStep

-----------------------------------------------------------------------------
LEMMA InvInit == Init => IInv
<1> SUFFICES ASSUME Init PROVE SafeInv
  BY TypeInit DEF IInv
<1>1. \A w \in Slots : ~Pending(w)
  BY DEF Init, WakeUpInit, Pending
<1>2. \A t \in Tasks : answer[t] = "none"
  BY DEF Init, WakeUpInit
<1>3. Parking
  BY <1>1, <1>2 DEF Parking, PendingIsParked, OnePendingEach, AnsweredIsParked
<1>4. Tokens(held, MaxHeld) = {} /\ Tokens(left, MaxBatch) = {}
  BY DEF Init, Tokens
<1>5. InFlight = 0
  BY <1>2, FS_EmptySet DEF InFlight
<1>6. counter + 0 + 0 + 0 = Initial + added
  BY SemaphoreAssumption DEF Init
<1>7. PermitsConserved
  BY <1>4, <1>5, <1>6, FS_EmptySet DEF PermitsConserved
<1>8. QED
  BY <1>3, <1>7 DEF SafeInv, Parking

LEMMA InvStep == IInv /\ [Next]_vars => IInv'
<1> SUFFICES ASSUME IInv, [Next]_vars, ~uaf' PROVE SafeInv'
  BY TypeStep DEF IInv
<1>1. TypeOK
  BY DEF IInv
<1>2. ~uaf
  <2>1. ASSUME NEW t \in Tasks, TaskStep(t), uaf PROVE uaf'
    BY <2>1 DEF TaskStep, Load, CASTakes, CASFails, Enqueue, Construct, Resume, Resumed,
                GiveBack, Signal, Release, Dequeue, Wake, HandOver, SkipFinished, Add, wakeUpVars
  <2>2. ASSUME NEW w \in Slots, SlotStep(w), uaf PROVE uaf'
    BY <2>2 DEF SlotStep, ArmTimer, StartTimer, ExpireTimer, TimerDue, RunTimer,
                TimerRun, RunDangling, DanglingRun
  <2>3. CASE UNCHANGED vars
    BY <2>3 DEF vars, wakeUpVars
  <2>4. ASSUME NEW t \in Tasks, DequeueOverlaps(t) PROVE uaf'
    BY <2>4 DEF DequeueOverlaps, QueueBroken
  <2>5. QED
    BY <2>1, <2>2, <2>3, <2>4 DEF Next, SlotStep
<1>3. SafeInv
  BY <1>2 DEF IInv
<1>4. PermitsConserved'
  BY <1>1, <1>2, <1>3, SumStep
<1>5. ASSUME NEW t \in Tasks, TaskStep(t) PROVE Parking'
  BY <1>1, <1>3, <1>5, MovesParking, EnqueueParking, ResumeParking, WakeParking
     DEF TaskStep, Moves, Starts
<1>6. ASSUME NEW w \in Slots, SlotStep(w) PROVE Parking'
  BY <1>1, <1>3, <1>6, SlotParking
<1>7. CASE UNCHANGED vars
  <2>1. UNCHANGED <<owner, finished, timer, answer, queue, pc, op, cur>>
    BY <1>7 DEF vars, wakeUpVars
  <2>2. Live' = Live
    BY <2>1 DEF Live, QueuedSlots
  <2>3. PendingIsParked' /\ OnePendingEach'
    BY <1>3, <2>1, <2>2, PendingKept DEF Pending
  <2>4. AnsweredIsParked'
    BY <1>3, <2>1 DEF SafeInv, AnsweredIsParked
  <2>5. QED
    BY <1>4, <2>3, <2>4 DEF SafeInv
<1>8. \A t \in Tasks : ~DequeueOverlaps(t)
  BY DEF DequeueOverlaps, QueueBroken
<1>9. QED
  BY <1>4, <1>5, <1>6, <1>7, <1>8 DEF Next, SafeInv, Parking, SlotStep

\* For any coroutines, permits and interleaving the permits that are free, held, being
\* released and on their way to a coroutine are those there were at first and those that
\* were added: neither the two accesses of try_acquire() nor the loop of release(n) loses or
\* makes up a permit.  That is said up to the first dequeue() that breaks the wait queue
\* (two release_one() are two consumers of it) and the first timer handler that runs on a
\* deleted wake-up object.
THEOREM PermitsAreConserved == Spec => []PermitsConserved
<1>1. IInv => PermitsConserved
  BY DEF IInv, SafeInv, PermitsConserved
<1>2. QED
  BY <1>1, InvInit, InvStep, PTL DEF Spec

-----------------------------------------------------------------------------
\* One thread and a strong compare-exchange: nobody else has run since a coroutine read the
\* counter or found the FIFO empty.
LEMMA FreeStep ==
  ASSUME ~MultiThreaded, ~SpuriousCAS
  PROVE  TypeOK /\ NoWaiterWithFreePermit /\ FoundIsTrue /\ [Next]_vars
           => NoWaiterWithFreePermit' /\ FoundIsTrue'
<1> SUFFICES ASSUME TypeOK, NoWaiterWithFreePermit, FoundIsTrue, [Next]_vars
             PROVE  NoWaiterWithFreePermit' /\ FoundIsTrue'
  OBVIOUS
<1>0. QueuedSlots \subseteq Slots /\ counter \in Nat
  BY DEF QueuedSlots, TypeOK
\* A step of t leaves the others where they are: suspended.
<1>1. ASSUME NEW t \in Tasks, TaskStep(t)
      PROVE  \A u \in Tasks \ {t} : pc[u] \in Suspended /\ pc'[u] = pc[u]
  <2>1. MayRun(t)
    BY <1>1 DEF TaskStep, Load, CASTakes, CASFails, Enqueue, Resume, GiveBack, Signal, Release,
                Dequeue, Wake, SkipFinished, Add
  <2>2. \E l \in Control : pc' = [pc EXCEPT ![t] = l]
    BY <1>1 DEF TaskStep, Load, Miss, CASTakes, CASFails, Enqueue, Resume, GiveBack, Signal,
                Release, Dequeue, Wake, SkipFinished, Add, OneReleased, Goto, Control
  <2>3. QED
    BY <2>1, <2>2 DEF MayRun, TypeOK
<1>2. ASSUME NEW t \in Tasks, TaskStep(t),
             /\ pc'[t] = "cas" => counter' = seen'[t]
             /\ pc'[t] = "enqueue" => counter' = 0
             /\ pc'[t] = "add" => queue' = << >>
      PROVE  FoundIsTrue'
  BY <1>1, <1>2 DEF FoundIsTrue, Suspended
<1>3. ASSUME counter' > 0 => counter > 0, QueuedSlots' \subseteq QueuedSlots,
             \A w \in Slots : finished[w] => finished'[w]
      PROVE  NoWaiterWithFreePermit'
  BY <1>0, <1>3 DEF NoWaiterWithFreePermit
<1>4. ASSUME NEW t \in Tasks, TaskStep(t), NEW o \in {"try", "wait", "timed"}, Load(t, o)
      PROVE  NoWaiterWithFreePermit' /\ FoundIsTrue'
  <2>1. UNCHANGED <<counter, queue, finished>>
    BY <1>4 DEF Load, wakeUpVars
  <2>2. /\ pc'[t] = "cas" => counter = seen'[t]
        /\ pc'[t] = "enqueue" => counter = 0
        /\ pc'[t] # "add"
    BY <1>4 DEF Load, Miss, Goto, TypeOK
  <2>3. QED
    BY <1>2, <1>3, <1>4, <2>1, <2>2 DEF QueuedSlots
<1>5. ASSUME NEW t \in Tasks, TaskStep(t), CASTakes(t)
      PROVE  NoWaiterWithFreePermit' /\ FoundIsTrue'
  <2>1. UNCHANGED <<queue, finished>> /\ pc'[t] = "idle" /\ (counter' > 0 => counter > 0)
    BY <1>0, <1>5 DEF CASTakes, Goto, wakeUpVars, TypeOK
  <2>2. QED
    BY <1>2, <1>3, <1>5, <2>1 DEF QueuedSlots
<1>6. ASSUME NEW t \in Tasks, CASFails(t) PROVE FALSE
  BY <1>6 DEF CASFails, FoundIsTrue
<1>7. ASSUME NEW t \in Tasks, TaskStep(t), Enqueue(t)
      PROVE  NoWaiterWithFreePermit' /\ FoundIsTrue'
  <2>1. counter' = counter /\ counter = 0 /\ pc'[t] = "waiting"
    BY <1>7 DEF Enqueue, FoundIsTrue, Goto, TypeOK
  <2>2. QED
    BY <1>2, <1>7, <2>1 DEF NoWaiterWithFreePermit
<1>8. ASSUME NEW t \in Tasks, TaskStep(t),
             Resume(t) \/ \E n \in 1 .. MaxBatch : GiveBack(t, n) \/ Signal(t, n)
      PROVE  NoWaiterWithFreePermit' /\ FoundIsTrue'
  <2>1. UNCHANGED <<counter, queue, finished>> /\ pc'[t] \in {"idle", "dequeue"}
    BY <1>8 DEF Resume, Resumed, GiveBack, Signal, Release, Goto, wakeUpVars, TypeOK
  <2>2. QED
    BY <1>2, <1>3, <1>8, <2>1 DEF QueuedSlots
<1>9. ASSUME NEW t \in Tasks, TaskStep(t), Dequeue(t)
      PROVE  NoWaiterWithFreePermit' /\ FoundIsTrue'
  <2>1. /\ UNCHANGED <<counter, finished>> /\ pc'[t] \in {"add", "wake"}
        /\ pc'[t] = "add" => queue' = << >>
    BY <1>9 DEF Dequeue, Goto, wakeUpVars, TypeOK
  <2>2. QueuedSlots' \subseteq QueuedSlots
    <3>1. queue' = queue \/ (queue # << >> /\ queue' = Tail(queue))
      BY <1>9 DEF Dequeue
    <3>2. queue \in Seq(Slots)
      BY DEF TypeOK
    <3>3. QED
      BY <3>1, <3>2, QueueSlots DEF QueuedSlots
  <2>3. QED
    BY <1>2, <1>3, <1>9, <2>1, <2>2
<1>10. ASSUME NEW t \in Tasks, TaskStep(t), Wake(t) \/ SkipFinished(t)
       PROVE  NoWaiterWithFreePermit' /\ FoundIsTrue'
  <2>1. UNCHANGED <<counter, queue>> /\ pc'[t] \in {"idle", "dequeue"}
    BY <1>10 DEF Wake, SkipFinished, OneReleased, Goto, TypeOK
  <2>2. \A w \in Slots : finished[w] => finished'[w]
    BY <1>10 DEF Wake, HandOver, SkipFinished, wakeUpVars, TypeOK, WakeUpTypeOK
  <2>3. QED
    BY <1>2, <1>3, <1>10, <2>1, <2>2 DEF QueuedSlots
<1>11. ASSUME NEW t \in Tasks, TaskStep(t), Add(t)
       PROVE  NoWaiterWithFreePermit' /\ FoundIsTrue'
  <2>1. queue' = << >> /\ pc'[t] \in {"idle", "dequeue"}
    BY <1>11 DEF Add, FoundIsTrue, OneReleased, Goto, TypeOK
  <2>2. QueuedSlots' = {}
    BY <2>1 DEF QueuedSlots
  <2>3. QED
    BY <1>2, <1>11, <2>1, <2>2 DEF NoWaiterWithFreePermit
<1>12. ASSUME NEW w \in Slots, SlotStep(w) PROVE NoWaiterWithFreePermit' /\ FoundIsTrue'
  <2>1. UNCHANGED <<counter, queue, pc, seen>>
    BY <1>12 DEF SlotStep, ArmTimer, ExpireTimer, RunTimer, RunDangling, Rest
  <2>2. \A v \in Slots : finished[v] => finished'[v]
    BY <1>12 DEF SlotStep, ArmTimer, StartTimer, ExpireTimer, TimerDue, RunTimer, TimerRun,
                RunDangling, DanglingRun, GiveUp, TypeOK, WakeUpTypeOK
  <2>3. QED
    BY <1>3, <2>1, <2>2 DEF QueuedSlots, FoundIsTrue
<1>13. CASE UNCHANGED vars
  BY <1>13 DEF vars, wakeUpVars, NoWaiterWithFreePermit, FoundIsTrue, QueuedSlots
<1>14. \A t \in Tasks : ~DequeueOverlaps(t)
  BY DEF DequeueOverlaps
<1>15. QED
  BY <1>4, <1>5, <1>6, <1>7, <1>8, <1>9, <1>10, <1>11, <1>12, <1>13, <1>14
     DEF Next, TaskStep, SlotStep

\* On one thread with a strong compare-exchange no coroutine stays parked while a permit is
\* free: release() cannot miss one that failed try_acquire().
THEOREM NobodyForgotten ==
  ASSUME ~MultiThreaded, ~SpuriousCAS
  PROVE  Spec => []NoWaiterWithFreePermit
<1>1. TypeOK /\ NoWaiterWithFreePermit /\ FoundIsTrue /\ [Next]_vars
        => NoWaiterWithFreePermit' /\ FoundIsTrue'
  BY FreeStep
<1>2. Init => NoWaiterWithFreePermit /\ FoundIsTrue
  <2> SUFFICES ASSUME Init PROVE NoWaiterWithFreePermit /\ FoundIsTrue
    OBVIOUS
  <2>1. QueuedSlots = {}
    BY DEF Init, QueuedSlots
  <2>2. QED
    BY <2>1 DEF Init, NoWaiterWithFreePermit, FoundIsTrue
<1>3. QED
  BY <1>1, <1>2, TypeInit, TypeStep, PTL DEF Spec
=============================================================================

-------------------------- MODULE HttpSessionProofs --------------------------
(***************************************************************************)
(* Proofs about HttpSession for every set of sessions and every lifecycle, *)
(* with the service on the loop's thread or on its own.                    *)
(***************************************************************************)
EXTENDS HttpSession, TLAPS

\* Groups of steps that change the same things.
Making == Adopt \/ Emplace \/ BindErase \/ Lifecycle

\* A step of the coroutine of s other than the expiry of its timer.
CoStep(s) == Begin(s) \/ Arm(s) \/ Woken(s) \/ TimeOut(s)

-----------------------------------------------------------------------------
LEMMA TypeInit == Init => TypeOK
<1> SUFFICES ASSUME Init PROVE TypeOK
  OBVIOUS
<1>1. 0 \in 0 .. MaxLife /\ CtorLife \in 1 .. MaxLife
  BY SessionAssumption
<1>2. QED
  BY <1>1 DEF Init, TypeOK, Coroutine, Call

LEMMA ServiceType ==
  ASSUME TypeOK, CallsAreAbout, Service
  PROVE  TypeOK'
<1> USE SessionAssumption DEF TypeOK, CallsAreAbout, Coroutine, Call, ghosts, members, service
<1>1. ASSUME NEW s \in Sessions, Find(s) PROVE TypeOK'
  BY <1>1 DEF Find, Begins
<1>2. ASSUME NEW s \in Sessions, Construct(s) PROVE TypeOK'
  BY <1>2 DEF Construct
<1>3. ASSUME NEW s \in Sessions, Enter(s) PROVE TypeOK'
  BY <1>3 DEF Enter
<1>4. CASE Adopt
  BY <1>4 DEF Adopt
<1>5. CASE Emplace
  BY <1>5 DEF Emplace
<1>6. CASE BindErase
  BY <1>6 DEF BindErase
<1>7. CASE Lifecycle
  BY <1>7 DEF Lifecycle
<1>8. CASE SetRestart
  BY <1>8 DEF SetRestart, Begins
<1>9. CASE CancelTimer
  <2>1. 0 \in 0 .. MaxLife
    OBVIOUS
  <2>2. cur \in Sessions
    BY <1>9 DEF CancelTimer
  <2>3. co' \in [Sessions -> Coroutine] /\ left' \in [Sessions -> 0 .. MaxLife]
    BY <1>9, <2>1 DEF CancelTimer, CancelWait
  <2>4. age' \in [Sessions -> 0 .. MaxLife] /\ sure' \in [Sessions -> BOOLEAN]
    BY <1>9, <2>1 DEF CancelTimer
  <2>5. QED
    BY <1>9, <2>2, <2>3, <2>4 DEF CancelTimer, CancelWait
<1>10. CASE Expand
  BY <1>10 DEF Expand
<1>11. CASE Invalidate
  BY <1>11 DEF Invalidate, CancelWait
<1>12. CASE Destroy
  BY <1>12 DEF Destroy
<1>13. ASSUME NEW n \in 0 .. MaxLife, ChangeLife(n) PROVE TypeOK'
  <2>1. (IF n = 0 THEN 1 ELSE n) \in 1 .. MaxLife
    OBVIOUS
  <2>2. QED
    BY <1>13, <2>1 DEF ChangeLife
<1>14. ASSUME NEW h \in {"none", "user"}, OnTimeout(h) PROVE TypeOK'
  BY <1>14 DEF OnTimeout
<1>15. ASSUME NEW k \in BOOLEAN, Return(k) PROVE TypeOK'
  BY <1>15 DEF Return
<1>16. QED
  BY <1>1, <1>2, <1>3, <1>4, <1>5, <1>6, <1>7, <1>8, <1>9, <1>10, <1>11, <1>12, <1>13,
     <1>14, <1>15 DEF Service, GetOrMake, Calls

LEMMA LoopType ==
  ASSUME TypeOK, NEW s \in Sessions, LoopStep(s)
  PROVE  TypeOK'
<1> USE SessionAssumption DEF TypeOK, Coroutine, Call, ghosts, members, service
<1>1. CASE Begin(s)
  BY <1>1 DEF Begin, Loops, Moves
<1>2. CASE Arm(s)
  <2>1. second[s] \in 0 .. MaxLife
    OBVIOUS
  <2>2. QED
    BY <1>2, <2>1 DEF Arm, Moves
<1>3. CASE Expire(s)
  BY <1>3 DEF Expire
<1>4. CASE Woken(s)
  BY <1>4 DEF Woken, Loops, Moves
<1>5. CASE TimeOut(s)
  BY <1>5 DEF TimeOut, Moves
<1>6. QED
  BY <1>1, <1>2, <1>3, <1>4, <1>5 DEF LoopStep

LEMMA TickType == ASSUME TypeOK, Tick PROVE TypeOK'
<1> USE SessionAssumption DEF TypeOK, Tick, members, service
<1>1. left' \in [Sessions -> 0 .. MaxLife]
  OBVIOUS
<1>2. age' \in [Sessions -> 0 .. MaxLife]
  OBVIOUS
<1>3. QED
  BY <1>1, <1>2

-----------------------------------------------------------------------------
\* Who has been made and who has been used.
LEMMA CallsStep ==
  ASSUME TypeOK, CallsAreAbout, Next
  PROVE  CallsAreAbout'
<1> USE SessionAssumption DEF TypeOK, CallsAreAbout, Coroutine, Call, ghosts, members, service
<1>1. ASSUME NEW s \in Sessions, Find(s) PROVE CallsAreAbout'
  BY <1>1 DEF Find, Begins
<1>2. ASSUME NEW s \in Sessions, Construct(s) PROVE CallsAreAbout'
  BY <1>2 DEF Construct
<1>3. ASSUME NEW s \in Sessions, Enter(s) PROVE CallsAreAbout'
  BY <1>3 DEF Enter
<1>4. CASE Making
  BY <1>4 DEF Making, Adopt, Emplace, BindErase, Lifecycle
<1>5. CASE SetRestart
  BY <1>5 DEF SetRestart, Begins
<1>6. CASE CancelTimer
  BY <1>6 DEF CancelTimer, CancelWait
<1>7. CASE Expand \/ Destroy
  BY <1>7 DEF Expand, Destroy
<1>8. CASE Invalidate
  BY <1>8 DEF Invalidate, CancelWait
<1>9. ASSUME NEW n \in 0 .. MaxLife, ChangeLife(n) PROVE CallsAreAbout'
  BY <1>9 DEF ChangeLife
<1>10. ASSUME NEW h \in {"none", "user"}, OnTimeout(h) PROVE CallsAreAbout'
  BY <1>10 DEF OnTimeout
<1>11. ASSUME NEW k \in BOOLEAN, Return(k) PROVE CallsAreAbout'
  BY <1>11 DEF Return
<1>12. CASE Tick
  BY <1>12 DEF Tick
<1>13. ASSUME NEW s \in Sessions, LoopStep(s) PROVE CallsAreAbout'
  <2>1. /\ \A t \in Sessions : co'[t] = "none" => co[t] = "none"
        /\ UNCHANGED <<cur, pc, kept, sure>>
    BY <1>13 DEF LoopStep, Begin, Arm, Expire, Woken, TimeOut, Loops, Moves
  <2>2. QED
    BY <2>1
<1>14. QED
  BY <1>1, <1>2, <1>3, <1>4, <1>5, <1>6, <1>7, <1>8, <1>9, <1>10, <1>11, <1>12, <1>13
     DEF Next, Service, GetOrMake, Calls, Making

\* Only the two accesses of a use begin and end it, and a step of the coroutine of the
\* session spoils it.
LEMMA CalmStep ==
  ASSUME TypeOK, CalmUse, Next
  PROVE  CalmUse'
<1> USE SessionAssumption DEF TypeOK, CalmUse, ghosts, members, service
<1>1. ASSUME NEW s \in Sessions, Find(s) PROVE CalmUse'
  BY <1>1 DEF Find, Begins
<1>2. ASSUME NEW s \in Sessions, Construct(s) \/ Enter(s) PROVE CalmUse'
  BY <1>2 DEF Construct, Enter
<1>3. CASE Making
  BY <1>3 DEF Making, Adopt, Emplace, BindErase, Lifecycle
<1>4. CASE SetRestart
  BY <1>4 DEF SetRestart, Begins
<1>5. CASE CancelTimer
  BY <1>5 DEF CancelTimer
<1>6. CASE Expand \/ Destroy \/ Invalidate
  BY <1>6 DEF Expand, Destroy, Invalidate
<1>7. ASSUME NEW n \in 0 .. MaxLife, ChangeLife(n) PROVE CalmUse'
  BY <1>7 DEF ChangeLife
<1>8. ASSUME NEW h \in {"none", "user"}, OnTimeout(h) PROVE CalmUse'
  BY <1>8 DEF OnTimeout
<1>9. ASSUME NEW k \in BOOLEAN, Return(k) PROVE CalmUse'
  BY <1>9 DEF Return
<1>10. CASE Tick
  BY <1>10 DEF Tick
<1>11. ASSUME NEW s \in Sessions, Expire(s) PROVE CalmUse'
  BY <1>11 DEF Expire
<1>12. ASSUME NEW s \in Sessions, CoStep(s) PROVE CalmUse'
  <2>1. /\ calm' = (calm /\ cur # s) /\ UNCHANGED <<pc, cur>>
        /\ \A t \in Sessions \ {s} : co'[t] = co[t] /\ restart'[t] = restart[t]
        /\ \A t \in Sessions \ {s} : t \in map => t \in map'
    BY <1>12 DEF CoStep, Begin, Arm, Woken, TimeOut, Loops, Moves
  <2>2. QED
    BY <2>1
<1>13. QED
  BY <1>1, <1>2, <1>3, <1>4, <1>5, <1>6, <1>7, <1>8, <1>9, <1>10, <1>11, <1>12
     DEF Next, Service, GetOrMake, Calls, Making, LoopStep, CoStep

-----------------------------------------------------------------------------
\* The timer of a session that was used calmly does not remove it early.
LEMMA TimerStep ==
  ASSUME TypeOK, CallsAreAbout, CalmUse, TimerIsLate, Next
  PROVE  TimerIsLate'
<1> SUFFICES ASSUME NEW s \in Sessions, sure'[s], ~gone'
             PROVE  /\ s \notin map' => age'[s] >= second'[s]
                    /\ co'[s] = "waiting" => restart'[s] \/ left'[s] + age'[s] >= second'[s]
                    /\ co'[s] = "woken" => restart'[s] \/ age'[s] >= second'[s]
                    /\ co'[s] = "expired" => age'[s] >= second'[s]
  BY DEF TimerIsLate
<1> DEFINE Goal == /\ s \notin map' => age'[s] >= second'[s]
                   /\ co'[s] = "waiting" => restart'[s] \/ left'[s] + age'[s] >= second'[s]
                   /\ co'[s] = "woken" => restart'[s] \/ age'[s] >= second'[s]
                   /\ co'[s] = "expired" => age'[s] >= second'[s]
<1>0. /\ second[s] \in Nat /\ age[s] \in Nat /\ left[s] \in Nat
      /\ cur \in Sessions \cup {NoSession} /\ (pc = "idle" <=> cur = NoSession)
  BY SessionAssumption DEF TypeOK
<1>1. ASSUME sure[s], ~gone
      PROVE  /\ s \notin map => age[s] >= second[s]
             /\ co[s] = "waiting" => restart[s] \/ left[s] + age[s] >= second[s]
             /\ co[s] = "woken" => restart[s] \/ age[s] >= second[s]
             /\ co[s] = "expired" => age[s] >= second[s]
  BY <1>1 DEF TimerIsLate
\* A step that leaves s alone.
<1>2. ASSUME sure[s], ~gone, s \in map => s \in map',
             age'[s] = age[s], second'[s] = second[s], co'[s] = co[s],
             left'[s] = left[s], restart[s] => restart'[s]
      PROVE  Goal
  BY <1>1, <1>2, <1>0
<1>3. ASSUME NEW t \in Sessions, Find(t) PROVE Goal
  <2>1. s # t /\ sure[s] /\ restart'[s] = restart[s]
    BY <1>3 DEF Find, Begins, TypeOK
  <2>2. QED
    BY <1>2, <1>3, <2>1 DEF Find, Begins
<1>4. ASSUME NEW t \in Sessions, Construct(t) PROVE Goal
  <2>1. s # t /\ sure[s] /\ co'[s] = co[s]
    BY <1>4 DEF Construct, TypeOK, CallsAreAbout, ghosts
  <2>2. QED
    BY <1>2, <1>4, <2>1 DEF Construct, ghosts, members
<1>5. ASSUME NEW t \in Sessions, Enter(t) PROVE Goal
  BY <1>2, <1>5 DEF Enter, ghosts, members
<1>6. CASE Making
  <2>1. sure[s] /\ s # cur
    BY <1>6 DEF Making, Adopt, Emplace, BindErase, Lifecycle, CallsAreAbout, ghosts
  <2>2. second'[s] = second[s]
    BY <1>6, <2>1 DEF Making, Adopt, Emplace, BindErase, Lifecycle, members, TypeOK
  <2>3. QED
    BY <1>2, <1>6, <2>1, <2>2 DEF Making, Adopt, Emplace, BindErase, Lifecycle, members, ghosts
<1>7. CASE SetRestart
  <2>1. s # cur /\ sure[s] /\ restart'[s] = restart[s]
    BY <1>7, <1>0 DEF SetRestart, Begins, TypeOK
  <2>2. QED
    BY <1>2, <1>7, <2>1 DEF SetRestart, Begins
<1>8. CASE CancelTimer
  <2>1. cur \in Sessions
    BY <1>8, <1>0 DEF CancelTimer
  <2>2. CASE s = cur
    <3>1. calm
      BY <1>8, <2>1, <2>2 DEF CancelTimer, TypeOK
    <3>2. s \in map /\ restart[s] /\ co[s] # "expired"
      BY <3>1, <2>2 DEF CalmUse
    <3>3. QED
      BY <1>8, <2>1, <2>2, <3>2 DEF CancelTimer, CancelWait, members, TypeOK
  <2>3. CASE s # cur
    <3>1. sure[s] /\ age'[s] = age[s] /\ co'[s] = co[s] /\ left'[s] = left[s]
      BY <1>8, <2>1, <2>3 DEF CancelTimer, CancelWait, TypeOK
    <3>2. QED
      BY <1>2, <1>8, <3>1 DEF CancelTimer, members
  <2>4. QED
    BY <2>2, <2>3
<1>9. CASE Expand
  BY <1>2, <1>9 DEF Expand, ghosts, members
<1>10. CASE Invalidate
  <2>1. s # cur /\ sure[s] /\ co'[s] = co[s] /\ left'[s] = left[s]
    BY <1>10, <1>0 DEF Invalidate, CancelWait, TypeOK
  <2>2. QED
    BY <1>2, <1>10, <2>1 DEF Invalidate, members
<1>11. CASE Destroy
  BY <1>11 DEF Destroy
<1>12. ASSUME NEW n \in 0 .. MaxLife, ChangeLife(n) PROVE Goal
  <2>1. s # cur /\ sure[s] /\ second'[s] = second[s]
    BY <1>12, <1>0 DEF ChangeLife, TypeOK
  <2>2. QED
    BY <1>2, <1>12, <2>1 DEF ChangeLife
<1>13. ASSUME NEW h \in {"none", "user"}, OnTimeout(h) PROVE Goal
  BY <1>2, <1>13 DEF OnTimeout, ghosts
<1>14. ASSUME NEW k \in BOOLEAN, Return(k) PROVE Goal
  BY <1>2, <1>14 DEF Return, ghosts, members
<1>15. CASE Tick
  <2>1. /\ left'[s] = IF left[s] > 0 THEN left[s] - 1 ELSE 0
        /\ age'[s] = IF s \in map /\ age[s] < second[s] THEN age[s] + 1 ELSE age[s]
    BY <1>15 DEF Tick
  <2>2. sure[s] /\ ~gone /\ UNCHANGED <<map, second, restart, co>>
    BY <1>15 DEF Tick, members
  <2>3. QED
    BY <1>0, <1>1, <2>1, <2>2
<1>16. ASSUME NEW t \in Sessions, LoopStep(t) PROVE Goal
  <2>1. sure[s] /\ ~gone /\ UNCHANGED <<second, age>>
    BY <1>16 DEF LoopStep, Begin, Arm, Expire, Woken, TimeOut, Loops, Moves, members, ghosts
  <2>2. CASE t # s
    <3>1. /\ co'[s] = co[s] /\ left'[s] = left[s] /\ restart'[s] = restart[s]
          /\ s \in map => s \in map'
      BY <1>16, <2>2 DEF LoopStep, Begin, Arm, Expire, Woken, TimeOut, Loops, Moves,
                         members, TypeOK
    <3>2. QED
      BY <1>2, <2>1, <3>1
  <2>3. CASE t = s
    <3>1. CASE Begin(s)
      <4>1. co'[s] \in {"failed", "arming"} /\ map' = map
        BY <3>1 DEF Begin, Loops, Moves, TypeOK
      <4>2. QED
        BY <4>1, <1>1, <2>1
    <3>2. CASE Arm(s)
      <4>1. co'[s] = "waiting" /\ left'[s] = second[s] /\ map' = map
        BY <3>2 DEF Arm, Moves, TypeOK
      <4>2. QED
        BY <4>1, <1>1, <2>1, <1>0
    <3>3. CASE Expire(s)
      <4>1. co'[s] = "woken" /\ co[s] = "waiting" /\ left[s] = 0 /\ UNCHANGED <<map, restart>>
        BY <3>3 DEF Expire, members, TypeOK
      <4>2. QED
        BY <4>1, <1>1, <2>1, <1>0
    <3>4. CASE Woken(s)
      <4>1. /\ co[s] = "woken" /\ map' = map
            /\ co'[s] \in {"arming", "ended"} \/ (co'[s] = "expired" /\ (~restart[s] \/ Unowned(s)))
            /\ Unowned(s) => co'[s] # "expired"
        BY <3>4 DEF Woken, Loops, Moves, TypeOK
      <4>2. QED
        BY <4>1, <1>1, <2>1, <1>0
    <3>5. CASE TimeOut(s)
      <4>1. co[s] = "expired" /\ co'[s] \in {"ended", "failed"}
        BY <3>5 DEF TimeOut, Moves, TypeOK
      <4>2. QED
        BY <4>1, <1>1, <2>1, <1>0
    <3>6. QED
      BY <1>16, <2>3, <3>1, <3>2, <3>3, <3>4, <3>5 DEF LoopStep
  <2>4. QED
    BY <2>2, <2>3
<1>17. Goal
  BY <1>3, <1>4, <1>5, <1>6, <1>7, <1>8, <1>9, <1>10, <1>11, <1>12, <1>13, <1>14, <1>15, <1>16
     DEF Next, Service, GetOrMake, Calls, Making
<1>18. QED
  BY <1>17

\* After a quiet destruction nobody can reach the handler again.
LEMMA GoneStep ==
  ASSUME TypeOK, GoneIsQuiet, Next
  PROVE  GoneIsQuiet'
<1>1. CASE Destroy
  BY <1>1 DEF Destroy, GoneIsQuiet, TypeOK, service
<1>2. CASE Service /\ ~Destroy
  <2>1. UNCHANGED <<gone, dangling, risky>>
    BY <1>2 DEF Service, GetOrMake, Find, Construct, Enter, Calls, Adopt, Emplace, BindErase,
       Lifecycle, SetRestart, CancelTimer, Expand, Invalidate, ChangeLife, OnTimeout, Return,
       Begins, ghosts
  <2>2. ~(gone /\ ~risky)
    BY <1>2 DEF GoneIsQuiet, Service, GetOrMake, Find, Construct, Enter, Calls, Adopt, Emplace,
       BindErase, Lifecycle, SetRestart, CancelTimer, Expand, Invalidate, ChangeLife, OnTimeout,
       Return
  <2>3. QED
    BY <2>1, <2>2 DEF GoneIsQuiet, TypeOK
<1>3. CASE Tick
  BY <1>3 DEF Tick, GoneIsQuiet, members, service
<1>4. ASSUME NEW s \in Sessions, LoopStep(s) PROVE GoneIsQuiet'
  <2>1. UNCHANGED <<gone, risky, kept, pc, cur>>
    BY <1>4 DEF LoopStep, Begin, Arm, Expire, Woken, TimeOut, Loops, Moves, ghosts, service
  <2>2. dangling' => gone \/ dangling
    BY <1>4 DEF LoopStep, Begin, Arm, Expire, Woken, TimeOut, TypeOK
  <2>3. ASSUME gone, ~risky
        PROVE  map' = {} /\ ~dangling' /\ \A t \in Sessions : co'[t] # "expired"
    <3>1. map = {} /\ kept = {} /\ cur = NoSession /\ ~dangling /\ co[s] # "expired"
      BY <2>3 DEF GoneIsQuiet, TypeOK
    <3>2. Unowned(s)
      BY <3>1, SessionAssumption DEF Unowned
    <3>3. map' = {} /\ ~dangling'
      BY <1>4, <3>1 DEF LoopStep, Begin, Arm, Expire, Woken, TimeOut
    <3>4. co'[s] # "expired" /\ \A t \in Sessions \ {s} : co'[t] = co[t]
      BY <1>4, <3>1, <3>2 DEF LoopStep, Begin, Arm, Expire, Woken, TimeOut, Loops, Moves, TypeOK
    <3>5. QED
      BY <2>3, <3>3, <3>4 DEF GoneIsQuiet
  <2>4. QED
    BY <2>1, <2>2, <2>3 DEF GoneIsQuiet
<1>5. QED
  BY <1>1, <1>2, <1>3, <1>4 DEF Next

-----------------------------------------------------------------------------
LEMMA SessionInductive == Spec => []SessionInv
<1>1. Init => SessionInv
  BY TypeInit, SessionAssumption
     DEF SessionInv, Init, CallsAreAbout, CalmUse, TimerIsLate, GoneIsQuiet
<1>2. SessionInv /\ [Next]_vars => SessionInv'
  <2>1. ASSUME SessionInv, Next PROVE SessionInv'
    <3>1. TypeOK'
      BY <2>1, ServiceType, LoopType, TickType DEF SessionInv, Next
    <3>2. QED
      BY <2>1, <3>1, CallsStep, CalmStep, TimerStep, GoneStep DEF SessionInv
  <2>2. ASSUME SessionInv, UNCHANGED vars PROVE SessionInv'
    BY <2>2 DEF SessionInv, vars, members, service, ghosts, TypeOK, CallsAreAbout, CalmUse,
       TimerIsLate, GoneIsQuiet
  <2>3. QED
    BY <2>1, <2>2
<1>3. QED
  BY <1>1, <1>2, PTL DEF Spec

\* The session set keeps its types: above all, every session in the map has been made,
\* so that the coroutine that will remove it exists (session_set.h:122-137).
THEOREM SessionTypeCorrect == Spec => []TypeOK
<1>1. SessionInv => TypeOK
  BY DEF SessionInv
<1>2. QED
  BY <1>1, SessionInductive, PTL

\* For any sessions and lifecycles, a session that was last used without its coroutine
\* in between, less than a lifecycle ago, is still in the map (session.h:60-84).
THEOREM SessionIsKept == Spec => []SessionKept
<1>1. SessionInv => SessionKept
  <2> SUFFICES ASSUME SessionInv, NEW s \in Sessions, sure[s], age[s] < second[s], ~gone
               PROVE  s \in map
    BY DEF SessionKept
  <2>1. second[s] \in Nat /\ age[s] \in Nat
    BY SessionAssumption DEF SessionInv, TypeOK
  <2>2. s \notin map => age[s] >= second[s]
    BY DEF SessionInv, TimerIsLate
  <2>3. QED
    BY <2>1, <2>2
<1>2. QED
  BY <1>1, SessionInductive, PTL

\* erase() is called on a destroyed session set only when the application kept a session
\* or one was expiring at that moment (session.h:71, session_set.h:131).
THEOREM EraseIsSafe == Spec => []EraseMeetsTheSet
<1>1. SessionInv => EraseMeetsTheSet
  BY DEF SessionInv, GoneIsQuiet, EraseMeetsTheSet
<1>2. QED
  BY <1>1, SessionInductive, PTL
=============================================================================

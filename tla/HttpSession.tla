----------------------------- MODULE HttpSession -----------------------------
(***************************************************************************)
(* basic_session and basic_session_set (http/server/detail/session.h and   *)
(* session_set.h) with the look-up of context.h: a map from ids to         *)
(* sessions, and one coroutine per session that removes it when nobody has *)
(* used it for a lifecycle.                                                *)
(*                                                                         *)
(* Two threads meet here.  The service thread runs the request handlers:   *)
(* it finds, makes and expands sessions.  The loop thread runs the global  *)
(* io_context, to which every session dispatches its coroutine.  When both *)
(* are the same thread (sameLoop) the coroutine starts inside the          *)
(* constructor of the session.  The service thread's accesses of the       *)
(* atomic members are separate steps, and the coroutine is interleaved     *)
(* where one of them can change what it does; m_map_mutex is taken as a    *)
(* working lock.                                                           *)
(***************************************************************************)
EXTENDS Naturals, FiniteSets

CONSTANTS
  Sessions,   \* session objects; the uuid of each is its own
  NoSession,
  CtorLife,   \* the lifecycle given to the constructor
  SetLife,    \* m_lifecycle of the set
  MaxLife,    \* bound: the longest lifecycle an application asks for
  Managed     \* bound: the sessions an application does more with than look up

ASSUME SessionAssumption ==
  /\ NoSession \notin Sessions
  /\ Managed \subseteq Sessions
  /\ MaxLife \in Nat /\ CtorLife \in 1 .. MaxLife /\ SetLife \in 1 .. MaxLife

VARIABLES
  sameLoop,  \* the service runs on the global io_context
  map,       \* ids in m_session_map
  gone,      \* the session set has been destroyed
  kept,      \* sessions the application holds beyond the request
  second,    \* m_second
  restart,   \* m_restart
  handler,   \* m_timeout_handle: "none", "erase" or the application's "user"
  co,        \* where the coroutine of the session is
  left,      \* ticks until its timer expires, 0 without a wait
  pc, cur,   \* the service thread: its next access, the session it works on
  locked,    \* it holds the map's mutex in find()
  age,       \* ticks since the last use of a session in the map, up to m_second
  calm,      \* the coroutine has made no step since the current use began
  sure,      \* the last use was calm to its end and not undone by invalidate()
  risky,     \* when the set was destroyed a session was kept or expiring
  dangling   \* erase() was called on the destroyed set

service == <<pc, cur, locked>>
members == <<second, restart, handler>>
ghosts  == <<age, calm, sure, risky>>
vars == <<sameLoop, map, gone, kept, members, co, left, service, ghosts, dangling>>

\* "arming": m_restart is cleared; "woken": the
\* wait is over; "expired": m_restart was found clear; "failed": the coroutine
\* ended with an exception, which the detached token drops.
Coroutine == {"none", "queued", "arming", "waiting", "woken", "expired",
              "ended", "failed"}
Active    == {"queued", "arming", "waiting", "woken", "expired"}
Call      == {"idle", "adopt", "emplace", "bind", "life", "restart", "cancel", "handler"}

TypeOK ==
  /\ sameLoop \in BOOLEAN /\ gone \in BOOLEAN /\ locked \in BOOLEAN
  /\ risky \in BOOLEAN /\ dangling \in BOOLEAN
  /\ map \subseteq Sessions /\ kept \subseteq Sessions
  /\ second \in [Sessions -> 1 .. MaxLife]
  /\ restart \in [Sessions -> BOOLEAN]
  /\ handler \in [Sessions -> {"none", "erase", "user"}]
  /\ co \in [Sessions -> Coroutine]
  /\ left \in [Sessions -> 0 .. MaxLife]
  /\ pc \in Call /\ cur \in Sessions \cup {NoSession}
  /\ pc = "idle" <=> cur = NoSession
  /\ age \in [Sessions -> 0 .. MaxLife]
  /\ calm \in BOOLEAN /\ sure \in [Sessions -> BOOLEAN]
  /\ \A s \in map : co[s] # "none"

Init ==
  /\ sameLoop \in BOOLEAN
  /\ map = {} /\ gone = FALSE /\ kept = {}
  /\ second = [s \in Sessions |-> CtorLife]
  /\ restart = [s \in Sessions |-> FALSE]
  /\ handler = [s \in Sessions |-> "none"]
  /\ co = [s \in Sessions |-> "none"]
  /\ left = [s \in Sessions |-> 0]
  /\ pc = "idle" /\ cur = NoSession /\ locked = FALSE
  /\ age = [s \in Sessions |-> 0]
  /\ calm = FALSE
  /\ sure = [s \in Sessions |-> FALSE]
  /\ risky = FALSE /\ dangling = FALSE

-----------------------------------------------------------------------------
\* The service thread.  A use of a session is the pair of accesses that expand()
\* and set_lifecycle() end with: m_restart = true and m_timer.cancel().

\* A use of s begins.  It comes too late for a session that has been removed, or
\* whose coroutine is already past its test of m_restart.
Begins(s) ==
  /\ calm' = (s \in map /\ co[s] # "expired")
  /\ sure' = [sure EXCEPT ![s] = FALSE]
  /\ UNCHANGED <<age, risky>>

\* get_or_make() with an id that is in the map: find() takes the lock, and
\* expand() sets m_restart.
Find(s) ==
  /\ pc = "idle" /\ ~gone /\ s \in map
  /\ restart' = [restart EXCEPT ![s] = TRUE]
  /\ Begins(s)
  /\ pc' = "cancel" /\ cur' = s /\ locked' = TRUE
  /\ UNCHANGED <<sameLoop, map, gone, kept, second, handler, co, left, dangling>>

\* get_or_make() with an unknown id, or none: the constructor calls start(), which
\* dispatches the coroutine.  On the loop's own thread it runs at once and
\* shared_from_this() throws: no shared_ptr owns the session yet.
Construct(s) ==
  /\ pc = "idle" /\ ~gone /\ co[s] = "none"
  /\ co' = [co EXCEPT ![s] = IF sameLoop THEN "failed" ELSE "queued"]
  /\ pc' = "adopt" /\ cur' = s
  /\ UNCHANGED <<sameLoop, map, gone, kept, members, left, locked, ghosts, dangling>>

\* context.session(): get_or_make() with the id of the request's cookie.
GetOrMake(s) == Find(s) \/ Construct(s)

\* make_shared returns; shared_from_this() works from here on.
Adopt ==
  /\ pc = "adopt" /\ pc' = "emplace"
  /\ UNCHANGED <<sameLoop, map, gone, kept, members, co, left, cur, locked, ghosts, dangling>>

\* m_impl->emplace(session).
Emplace ==
  /\ pc = "emplace"
  /\ map' = map \cup {cur}
  /\ pc' = "bind"
  /\ UNCHANGED <<sameLoop, gone, kept, members, co, left, cur, locked, ghosts, dangling>>

\* session->on_timeout([this, id]{ m_impl->erase(id); }).
BindErase ==
  /\ pc = "bind"
  /\ handler' = [handler EXCEPT ![cur] = "erase"]
  /\ pc' = "life"
  /\ UNCHANGED <<sameLoop, map, gone, kept, second, restart, co, left, cur, locked, ghosts, dangling>>

\* set_lifecycle(lifecycle()): m_second, then m_restart, then the timer.
Lifecycle ==
  /\ pc = "life"
  /\ second' = [second EXCEPT ![cur] = SetLife]
  /\ pc' = "restart"
  /\ UNCHANGED <<sameLoop, map, gone, kept, restart, handler, co, left, cur, locked, ghosts, dangling>>

\* m_restart = true.
SetRestart ==
  /\ pc = "restart"
  /\ restart' = [restart EXCEPT ![cur] = TRUE]
  /\ Begins(cur)
  /\ pc' = "cancel"
  /\ UNCHANGED <<sameLoop, map, gone, kept, second, handler, co, left, cur, locked, dangling>>

\* m_timer.cancel() completes a pending wait; without one it does nothing.
CancelWait(s) ==
  /\ co' = [co EXCEPT ![s] = IF @ = "waiting" THEN "woken" ELSE @]
  /\ left' = [left EXCEPT ![s] = 0]

\* start() with m_restart set only cancels the timer; find() then unlocks.
CancelTimer ==
  /\ pc = "cancel"
  /\ CancelWait(cur)
  /\ pc' = "handler" /\ locked' = FALSE
  /\ age' = [age EXCEPT ![cur] = 0]
  /\ sure' = [sure EXCEPT ![cur] = calm] /\ calm' = FALSE
  /\ UNCHANGED <<sameLoop, map, gone, kept, members, cur, risky, dangling>>

\* What a request handler, or the application with a session it kept, may do with
\* the session.
Enter(s) ==
  /\ pc = "idle" /\ s \in kept
  /\ pc' = "handler" /\ cur' = s
  /\ UNCHANGED <<sameLoop, map, gone, kept, members, co, left, locked, ghosts, dangling>>

Expand ==
  /\ pc = "handler" /\ cur \in Managed /\ pc' = "restart"
  /\ UNCHANGED <<sameLoop, map, gone, kept, members, co, left, cur, locked, ghosts, dangling>>

\* set_lifecycle(n), which makes 0 a second; or expand(n), n being the sum.
ChangeLife(n) ==
  /\ pc = "handler" /\ cur \in Managed /\ pc' = "restart"
  /\ second' = [second EXCEPT ![cur] = IF n = 0 THEN 1 ELSE n]
  /\ sure' = [sure EXCEPT ![cur] = FALSE]
  /\ UNCHANGED <<sameLoop, map, gone, kept, restart, handler, co, left, cur, locked,
                 age, calm, risky, dangling>>

\* invalidate() cancels the timer and leaves m_restart alone.
Invalidate ==
  /\ pc = "handler" /\ cur \in Managed
  /\ CancelWait(cur)
  /\ sure' = [sure EXCEPT ![cur] = FALSE]
  /\ UNCHANGED <<sameLoop, map, gone, kept, members, service, age, calm, risky, dangling>>

\* on_timeout(f) and unbind_timeout() replace the set's handler.
OnTimeout(h) ==
  /\ pc = "handler" /\ cur \in Managed
  /\ handler' = [handler EXCEPT ![cur] = h]
  /\ UNCHANGED <<sameLoop, map, gone, kept, second, restart, co, left, service, ghosts, dangling>>

\* The handler returns; the application may keep the shared_ptr, or drop it.
Return(keep) ==
  /\ pc = "handler"
  /\ keep => cur \in Managed
  /\ kept' = IF keep THEN kept \cup {cur} ELSE kept \ {cur}
  /\ pc' = "idle" /\ cur' = NoSession
  /\ UNCHANGED <<sameLoop, map, gone, members, co, left, locked, ghosts, dangling>>

\* The server, and its session set with it, is destroyed.
Destroy ==
  /\ pc = "idle" /\ ~gone
  /\ gone' = TRUE /\ map' = {}
  /\ risky' = (kept # {} \/ \E s \in Sessions : co[s] = "expired")
  /\ UNCHANGED <<sameLoop, kept, members, co, left, service, age, calm, sure, dangling>>

-----------------------------------------------------------------------------
\* The loop thread: the coroutine of session s.  Another coroutine runs only
\* when this one is suspended.
Running == {"arming", "expired"}

LoopFree(s) == \A t \in Sessions \ {s} : co[t] \notin Running

Moves(s, c) ==
  /\ LoopFree(s)
  /\ co' = [co EXCEPT ![s] = c]
  /\ calm' = (calm /\ cur # s)
  /\ UNCHANGED <<sameLoop, gone, kept, second, handler, service, age, sure, risky>>

\* The head of the loop: m_restart = false.
Loops(s) == Moves(s, "arming") /\ restart' = [restart EXCEPT ![s] = FALSE]

\* The coroutine starts: shared_from_this(), and the head of the loop.
Begin(s) ==
  /\ co[s] = "queued"
  /\ IF cur = s /\ pc = "adopt"
     THEN Moves(s, "failed") /\ UNCHANGED restart
     ELSE Loops(s)
  /\ UNCHANGED <<map, left, dangling>>

\* Mutation: the timer is set one second short.
Arm_Short(s) ==
  /\ co[s] = "arming"
  /\ left' = [left EXCEPT ![s] = second[s] - 1]
  /\ Moves(s, "waiting")
  /\ UNCHANGED <<map, restart, dangling>>

\* expires_after(m_second) and async_wait.
Arm(s) ==
  /\ co[s] = "arming"
  /\ left' = [left EXCEPT ![s] = second[s]]
  /\ Moves(s, "waiting")
  /\ UNCHANGED <<map, restart, dangling>>

\* The timer expires: the completion of the wait is queued.
Expire(s) ==
  /\ co[s] = "waiting" /\ left[s] = 0
  /\ co' = [co EXCEPT ![s] = "woken"]
  /\ UNCHANGED <<sameLoop, map, gone, kept, members, left, service, ghosts, dangling>>

\* self.use_count() = 1: only the coroutine owns the session.
Unowned(s) == s \notin map /\ s \notin kept /\ cur # s

\* Mutation: m_restart stays set.
Woken_KeepRestart(s) ==
  /\ co[s] = "woken"
  /\ Moves(s, IF Unowned(s) THEN "ended" ELSE IF restart[s] THEN "arming" ELSE "expired")
  /\ UNCHANGED <<map, restart, left, dangling>>

\* Mutation: the owners are not counted.
Woken_NoCount(s) ==
  /\ co[s] = "woken"
  /\ IF restart[s] THEN Loops(s) ELSE Moves(s, "expired") /\ UNCHANGED restart
  /\ UNCHANGED <<map, left, dangling>>

\* After co_await: nobody else owns the session, it was restarted, or it has
\* timed out.
Woken(s) ==
  /\ co[s] = "woken"
  /\ IF restart[s] /\ ~Unowned(s)
     THEN Loops(s)
     ELSE Moves(s, IF Unowned(s) THEN "ended" ELSE "expired") /\ UNCHANGED restart
  /\ UNCHANGED <<map, left, dangling>>

\* m_timeout_handle(): the set's handler takes the lock and erases the id; an
\* empty std::function throws.
TimeOut(s) ==
  /\ co[s] = "expired"
  /\ \/ /\ handler[s] = "erase" /\ ~locked
        /\ map' = map \ {s} /\ dangling' = (dangling \/ gone)
        /\ Moves(s, "ended")
     \/ /\ handler[s] = "user"
        /\ Moves(s, "ended") /\ UNCHANGED <<map, dangling>>
     \/ /\ handler[s] = "none"
        /\ Moves(s, "failed") /\ UNCHANGED <<map, dangling>>
  /\ UNCHANGED <<restart, left>>

LoopStep(s) ==
  Begin(s) \/ Arm(s) \/ Expire(s) \/ Woken(s) \/ TimeOut(s)

\* A second passes.  Calls take no time by comparison: the service thread is
\* between two of them.
Tick ==
  /\ pc = "idle"
  /\ left' = [s \in Sessions |-> IF left[s] > 0 THEN left[s] - 1 ELSE 0]
  /\ age' = [s \in Sessions |-> IF s \in map /\ age[s] < second[s] THEN age[s] + 1 ELSE age[s]]
  /\ UNCHANGED <<sameLoop, map, gone, kept, members, co, service, calm, sure, risky, dangling>>

Calls == Adopt \/ Emplace \/ BindErase \/ Lifecycle \/ SetRestart \/ CancelTimer

Service ==
  \/ \E s \in Sessions : GetOrMake(s) \/ Enter(s)
  \/ Calls \/ Expand \/ Invalidate \/ Destroy
  \/ \E n \in 0 .. MaxLife : ChangeLife(n)
  \/ \E h \in {"none", "user"} : OnTimeout(h)
  \/ \E k \in BOOLEAN : Return(k)

Next == Service \/ Tick \/ \E s \in Sessions : LoopStep(s)

Spec == Init /\ [][Next]_vars

\* The io_context runs what is queued, time passes, and request handlers return.
FairSpec ==
  /\ Spec
  /\ SF_vars(Tick) /\ WF_vars(Calls) /\ SF_vars(Return(FALSE))
  /\ \A s \in Sessions : SF_vars(LoopStep(s))

-----------------------------------------------------------------------------
\* A session that was used less than a lifecycle ago is found again: the timer,
\* the restart flag and the removal never throw away a session in use.  It holds
\* for every use with which no step of the session's coroutine was interleaved,
\* an expiry that was already queued (session.h:70-77) included; a cancel() that
\* comes after the coroutine cleared m_restart and armed its timer again removes
\* the session at once, which is why the others are left out.
SessionKept ==
  \A s \in Sessions :
    sure[s] /\ age[s] < second[s] /\ ~gone => s \in map

\* erase() reaches the destroyed set (the handler of session_set.h:131 captures
\* this) only if the application kept a session or the set was destroyed while
\* one was expiring: use_count() (session.h:71) stops all the other coroutines.
EraseMeetsTheSet == dangling => risky

-----------------------------------------------------------------------------
\* Why the two invariants hold: what is true of every state besides.

\* Whatever session the service works on, or the application keeps, has been made; one
\* that is being made has not been used.
CallsAreAbout ==
  /\ cur # NoSession => co[cur] # "none"
  /\ \A s \in kept : co[s] # "none"
  /\ pc \in {"adopt", "emplace", "bind", "life"} => ~sure[cur]
  /\ \A s \in Sessions : co[s] = "none" => ~sure[s]

\* Between m_restart = true and cancel() of a use that is calm so far, the session is in
\* the map and its coroutine has m_restart still to test.
CalmUse ==
  calm => /\ pc = "cancel" /\ cur \in map
          /\ restart[cur] /\ co[cur] # "expired"

\* After a calm use the coroutine finds m_restart set, or its timer does not expire
\* before the lifecycle is over.
TimerIsLate ==
  \A s \in Sessions :
    sure[s] /\ ~gone =>
      /\ s \notin map => age[s] >= second[s]
      /\ co[s] = "waiting" => restart[s] \/ left[s] + age[s] >= second[s]
      /\ co[s] = "woken" => restart[s] \/ age[s] >= second[s]
      /\ co[s] = "expired" => age[s] >= second[s]

\* Once the set is gone, and was not destroyed at a bad moment, nobody but the
\* coroutines owns a session, and none of them will call the handler.
GoneIsQuiet ==
  /\ dangling => gone
  /\ gone /\ ~risky =>
       /\ map = {} /\ kept = {} /\ pc = "idle" /\ ~dangling
       /\ \A s \in Sessions : co[s] # "expired"

SessionInv == TypeOK /\ CallsAreAbout /\ CalmUse /\ TimerIsLate /\ GoneIsQuiet

Idle(s) == Unowned(s) \/ age[s] > 0

\* A session that is no longer used leaves the map and its coroutine, the last
\* owner, ends, so that it is freed (session.h:71-82): if the coroutine runs at all
\* and the application did not take the handler away from the set.
IdleIsFreed ==
  \A s \in Sessions :
    (Idle(s) /\ co[s] \in Active)
      ~> (~Idle(s) \/ (s \notin map /\ co[s] \notin Active) \/ handler[s] # "erase")
=============================================================================

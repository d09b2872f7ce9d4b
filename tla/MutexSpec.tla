------------------------------ MODULE MutexSpec ------------------------------
(***************************************************************************)
(* What a coroutine mutex promises (core/coro/mutex.h): one holder, parked *)
(* coroutines, ownership passed directly from the one that unlocks to a    *)
(* parked one.  Nobody is parked on a free mutex.                          *)
(***************************************************************************)
CONSTANTS Tasks, NoTask

VARIABLES holder, parked

vars == <<holder, parked>>

TypeOK == holder \in Tasks \cup {NoTask} /\ parked \in SUBSET Tasks

Init == holder = NoTask /\ parked = {}

\* A free mutex is taken, by lock() or by a try_lock.
Acquire(t) ==
  /\ holder = NoTask
  /\ holder' = t
  /\ UNCHANGED parked

\* lock() and try_lock_for/until() suspend behind the holder.
Park(t) ==
  /\ holder \notin {NoTask, t}
  /\ t \notin parked
  /\ parked' = parked \cup {t}
  /\ UNCHANGED holder

\* A timed wait gives up.
GiveUp(t) ==
  /\ t \in parked
  /\ parked' = parked \ {t}
  /\ UNCHANGED holder

\* unlock() passes the mutex on, or frees it when nobody is parked.
HandOver(t) ==
  /\ holder # NoTask
  /\ t \in parked
  /\ holder' = t
  /\ parked' = parked \ {t}

Release ==
  /\ holder # NoTask
  /\ parked = {}
  /\ holder' = NoTask
  /\ UNCHANGED parked

Next == Release \/ \E t \in Tasks : Acquire(t) \/ Park(t) \/ GiveUp(t) \/ HandOver(t)

Spec == Init /\ [][Next]_vars
=============================================================================

------------------------------ MODULE QueueSpec ------------------------------
(***************************************************************************)
(* What a queue promises (core/lock_free_queue.h, "public: // safe"): what *)
(* is enqueued is dequeued once, in order, and nothing else is dequeued.   *)
(***************************************************************************)
EXTENDS Sequences

CONSTANT Items

VARIABLES items, got

vars == <<items, got>>

TypeOK == items \in Seq(Items) /\ got \in Seq(Items)

Init == items = << >> /\ got = << >>

Put(x) == items' = Append(items, x) /\ UNCHANGED got

Take ==
  /\ items # << >>
  /\ got' = Append(got, Head(items))
  /\ items' = Tail(items)

Next == Take \/ \E x \in Items : Put(x)

Spec == Init /\ [][Next]_vars
=============================================================================

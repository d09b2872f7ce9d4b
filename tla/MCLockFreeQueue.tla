--------------------------- MODULE MCLockFreeQueue ---------------------------
(* Instances of LockFreeQueue for TLC. *)
EXTENDS LockFreeQueue, TLC

\* Heap blocks are interchangeable, and so are the threads of one kind.
Symmetry == Permutations(Nodes) \cup Permutations(Producers) \cup Permutations(Consumers)
=============================================================================

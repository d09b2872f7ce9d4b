---------------------------- MODULE MCCoSemaphore ----------------------------
(* Instances of CoSemaphore for TLC. *)
EXTENDS CoSemaphore, TLC

\* Coroutines are interchangeable, and so are heap blocks.
Symmetry == Permutations(Tasks) \cup Permutations(Slots)
=============================================================================

------------------------------ MODULE MCCoMutex ------------------------------
(* Instances of CoMutex for TLC. *)
EXTENDS CoMutex, TLC

\* Coroutines are interchangeable, and so are heap blocks.
Symmetry == Permutations(Tasks) \cup Permutations(Slots)
=============================================================================

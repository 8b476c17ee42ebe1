-------------------------- MODULE MCCachedFunction --------------------------
(* Instances of CachedFunction for TLC. *)
EXTENDS CachedFunction, TLC

\* Threads of one kind are interchangeable; used by the safety runs only.
ThreadSymmetry == Permutations(Callers) \union Permutations(Workers)
=============================================================================

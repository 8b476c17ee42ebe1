-------------------------- MODULE EvictionContract --------------------------
(***************************************************************************)
(* What the docstring of LFUEviction promises: the victim is a key of the  *)
(* lowest frequency and, among those, the one whose last access is oldest. *)
(* The contract keeps only the number of accesses of every tracked key and *)
(* the order of their last accesses; it knows no buckets.                  *)
(***************************************************************************)
EXTENDS Integers, SequencesExt

CONSTANTS Keys, None, MaxFreq

VARIABLES uses,     \* uses[k]: accesses since k was last tracked anew, 0 if untracked
          recent,   \* the tracked keys, the one accessed longest ago first
          victim    \* the last key evict_one returned, or None

vars == <<uses, recent, victim>>

Init == /\ uses = [k \in Keys |-> 0]
        /\ recent = <<>>
        /\ victim = None

Access(k) == /\ uses[k] < MaxFreq
             /\ uses' = [uses EXCEPT ![k] = @ + 1]
             /\ recent' = Append(RemoveFirst(recent, k), k)
             /\ victim' = None

Forget(k) == /\ uses' = [uses EXCEPT ![k] = 0]
             /\ recent' = RemoveFirst(recent, k)
             /\ victim' = None

\* Position i holds a key nobody is used less than, and the first such.
Evict == \E i \in DOMAIN recent :
           /\ \A j \in DOMAIN recent : uses[recent[i]] <= uses[recent[j]]
           /\ \A j \in 1..(i - 1) : uses[recent[i]] < uses[recent[j]]
           /\ victim' = recent[i]
           /\ uses' = [uses EXCEPT ![recent[i]] = 0]
           /\ recent' = RemoveFirst(recent, recent[i])

EvictNothing == recent = <<>> /\ victim' = None /\ UNCHANGED <<uses, recent>>

Next == \/ \E k \in Keys : Access(k) \/ Forget(k)
        \/ Evict \/ EvictNothing

Spec == Init /\ [][Next]_vars
=============================================================================

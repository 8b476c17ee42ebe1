---------------------------- MODULE CacheContract ---------------------------
(***************************************************************************)
(* What every backend promises an application that uses one key-value      *)
(* cache (the protocols of cachine/core/types.py, the "Cache Operations"   *)
(* of the README): a key that has expired is a missing key, for every      *)
(* method.  A bounded cache may drop other keys when it stores one.        *)
(***************************************************************************)
EXTENDS Integers

CONSTANTS Keys, Values, None, Ttls, Deltas

VARIABLES value,     \* the value of each key, or None for a missing one
          deadline,  \* when it expires, or None
          written,   \* the key the last step stored a value under, or None
          now

vars == <<value, deadline, written, now>>

Init == /\ value = [k \in Keys |-> None]
        /\ deadline = [k \in Keys |-> None]
        /\ written = None
        /\ now \in Nat

Deadline(ttl) == IF ttl = None THEN None ELSE now + ttl

\* Storing v under k with a deadline d, while the keys of D are dropped.
Keep(k, v, d, D) ==
  /\ value' = [j \in Keys |-> IF j \in D THEN None ELSE IF j = k THEN v ELSE value[j]]
  /\ deadline' = [j \in Keys |-> IF j \in D THEN None ELSE IF j = k THEN d ELSE deadline[j]]
  /\ UNCHANGED now

Put(k, v, ttl) == written' = k /\ \E D \in SUBSET (Keys \ {k}) : Keep(k, v, Deadline(ttl), D)

\* A counter that is missing starts at zero and takes the ttl; one that is
\* there keeps its deadline.
Add(k, delta, ttl) ==
  /\ written' = k
  /\ IF value[k] = None THEN Keep(k, delta, Deadline(ttl), {})
     ELSE Keep(k, value[k] + delta, deadline[k], {})

\* expire and persist apply to a key that is there.
Extend(k, ttl) == value[k] # None /\ written' = None /\ Keep(k, value[k], Deadline(ttl), {})

Drop(D) == /\ value' = [k \in Keys |-> IF k \in D THEN None ELSE value[k]]
           /\ deadline' = [k \in Keys |-> IF k \in D THEN None ELSE deadline[k]]
           /\ written' = None
           /\ UNCHANGED now

Tick == /\ now' = now + 1
        /\ written' = None
        /\ LET late == {k \in Keys : deadline[k] # None /\ deadline[k] <= now + 1} IN
           /\ value' = [k \in Keys |-> IF k \in late THEN None ELSE value[k]]
           /\ deadline' = [k \in Keys |-> IF k \in late THEN None ELSE deadline[k]]

Next ==
  \/ \E k \in Keys, ttl \in Ttls \union {None} :
       \/ \E v \in Values : Put(k, v, ttl)
       \/ \E delta \in Deltas : Add(k, delta, ttl)
       \/ Extend(k, ttl)
  \/ \E D \in SUBSET Keys : Drop(D)
  \/ Tick

Spec == Init /\ [][Next]_vars
=============================================================================

------------------------------- MODULE Flight -------------------------------
(***************************************************************************)
(* What `singleflight=True` promises to the callers of a decorated         *)
(* function (cachine/decorators/cached.py, docstring of cached): on a miss *)
(* one caller computes while the others wait.  A flight is one             *)
(* computation of one key, from the moment a thread takes the key until    *)
(* it gives the key back.                                                  *)
(***************************************************************************)
EXTENDS Naturals

CONSTANTS Threads, Keys, None

VARIABLES leader,   \* leader[k]: the thread whose flight for k is open, or None
          role      \* role[t]: what t does for the call it is in

vars == <<leader, role>>

Roles == {"out", "lead", "follow"}

TypeOK == /\ leader \in [Keys -> Threads \union {None}]
          /\ role \in [Threads -> Roles]

Init == /\ leader = [k \in Keys |-> None]
        /\ role = [t \in Threads |-> "out"]

\* A thread opens a flight only for a key that has none.
Open(t, k) == /\ role[t] = "out"
              /\ leader[k] = None
              /\ leader' = [leader EXCEPT ![k] = t]
              /\ role' = [role EXCEPT ![t] = "lead"]

\* A thread joins a flight that is open.
Join(t, k) == /\ role[t] = "out"
              /\ leader[k] # None
              /\ role' = [role EXCEPT ![t] = "follow"]
              /\ UNCHANGED leader

\* A follower leaves with the result; it never becomes a leader of its own.
Leave(t) == /\ role[t] = "follow"
            /\ role' = [role EXCEPT ![t] = "out"]
            /\ UNCHANGED leader

\* Only the leader closes its flight.
Close(t, k) == /\ role[t] = "lead"
               /\ leader[k] = t
               /\ leader' = [leader EXCEPT ![k] = None]
               /\ role' = [role EXCEPT ![t] = "out"]

Next == \E t \in Threads :
           \/ Leave(t)
           \/ \E k \in Keys : Open(t, k) \/ Join(t, k) \/ Close(t, k)

Spec == Init /\ [][Next]_vars
=============================================================================

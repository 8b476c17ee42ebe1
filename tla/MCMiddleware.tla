---------------------------- MODULE MCMiddleware ----------------------------
EXTENDS Middleware

\* Each order of up to three layers, none of them twice.
Orders == {s \in UNION {[1..n -> Layers] : n \in 0..3} :
             \A i, j \in DOMAIN s : s[i] = s[j] => i = j}

Backends == {[ser |-> "none", dumps |-> FALSE], [ser |-> "json", dumps |-> FALSE],
             [ser |-> "json", dumps |-> TRUE], [ser |-> "pickle", dumps |-> TRUE]}

MCStacks ==
  {[layers |-> o, ser |-> b.ser, dumps |-> b.dumps, async |-> a] :
     o \in Orders, b \in Backends, a \in BOOLEAN}
=============================================================================

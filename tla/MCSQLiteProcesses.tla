------------------------- MODULE MCSQLiteProcesses --------------------------
EXTENDS SQLiteProcesses, TLC

CONSTANTS k1, k2

\* One key is a counter; the other is stored, tagged and invalidated, stored
\* with ttls, or deleted and cleared.  Or both are cleared.
MCWorkloads ==
  {(k1 :> {"incr"}) @@ (k2 :> u) :
     u \in {{"set", "add_tags", "invalidate_tags"},
            {"store_text", "incr", "ttl"},
            {"get", "set", "ttl", "expire", "persist"},
            {"get_or_set", "delete", "add_tags", "clear"}}}
  \union {[k \in {k1, k2} |-> {"set", "clear_all"}]}
=============================================================================

--------------------------- MODULE MCRedisClients ---------------------------
EXTENDS RedisClients, TLC

CONSTANTS k1, k2

Both(does, ttls) == [k \in {k1, k2} |-> [does |-> does, ttls |-> ttls]]

\* A counter with and without a window; keys that are tagged, for ever or for
\* the same time; entries with ttls; a namespace that is cleared, also one that
\* has the database to itself.
MCWorkloads ==
  {(k1 :> [does |-> {"incr"}, ttls |-> T]) @@ (k2 :> [does |-> {}, ttls |-> {None}]) :
     T \in {{None}, {1}, {0}}}
  \union {Both({"set", "add_tags", "invalidate_tags"}, {None}),
          Both({"set", "add_tags"}, {2}),
          Both({"set", "add_tags", "clear_all"}, {None}),
          Both({"add_tags", "clear"}, {0}),
          Both({"set", "incr", "clear_all"}, {None})}
  \union {(k1 :> [does |-> {"get", "get_or_set", "delete", "expire", "touch", "persist"},
                  ttls |-> {0, 1}]) @@ (k2 :> [does |-> {}, ttls |-> {None}])}

\* Two keys with one tag, and the life of the set is that of the last one tagged.
MixedLives == {(k1 :> [does |-> {"set", "add_tags"}, ttls |-> {2}])
               @@ (k2 :> [does |-> {"set", "add_tags"}, ttls |-> {1}])}
=============================================================================

-------------------------- MODULE MCConnectionPool --------------------------
(* Instances of ConnectionPool for TLC. *)
EXTENDS ConnectionPool, TLC

\* DB's constructor always passes the same numbers.
FixedConfig == {[poolSize |-> 2, maxRetry |-> 2, testOnBorrow |-> TRUE]}

\* configure() called again with a smaller or larger pool.
ResizedConfigs == {[poolSize |-> 1, maxRetry |-> 1, testOnBorrow |-> TRUE],
                   [poolSize |-> 2, maxRetry |-> 2, testOnBorrow |-> FALSE]}

Symmetry == Permutations(Threads) \cup Permutations(Handles)

=============================================================================

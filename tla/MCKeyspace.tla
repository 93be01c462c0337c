---------------------------- MODULE MCKeyspace -----------------------------
(* Small instances of Keyspace for TLC.                                    *)
EXTENDS Keyspace

\* One ttl, and the -1 that removes a deadline.
MCTtl == {-1, 1}

\* The names of entries, keys and workers do not matter.
Symmetry == Permutations(Entry) \cup Permutations(Key) \cup Permutations(Worker)
=============================================================================

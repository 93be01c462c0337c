--------------------------- MODULE MCHMapChains ---------------------------
(***************************************************************************)
(* Instances of HMapChains for TLC; the hash codes are those of MCHMap.    *)
(***************************************************************************)
EXTENDS HMapChains, Bitwise

MCHashCode == [k \in Key |-> <<0, 8, 1, 9, 9, 3, 4>>[k]]
MCBitAnd(a, b) == a & b

\* Nodes 1, 2, 3, ... inserted one after the other, in the build with assertions
\* (the one the Makefile makes).
FillHashCode == [k \in Key |-> k]
Fill == /\ ~aborted
        /\ UNCHANGED NDEBUG
        /\ \E k \in Key : /\ \A j \in Key : j < k => j \in ToSet(hm_foreach_order(hmap))
                          /\ hm_insert(k)
FillInit == Init /\ ~NDEBUG
FillSpec == FillInit /\ [][Fill]_vars
=============================================================================

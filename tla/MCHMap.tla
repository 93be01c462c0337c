------------------------------ MODULE MCHMap ------------------------------
(***************************************************************************)
(* Instances of HMap for TLC.  Hash codes are chosen so that in the table  *)
(* of 4 slots, in the table of 10 that replaces it (mask 9) and in the     *)
(* next one the nodes share slots in different ways, and two nodes have    *)
(* the same hash code.                                                     *)
(***************************************************************************)
EXTENDS HMap, Bitwise

MCHashCode == [k \in Key |-> <<0, 8, 1, 9, 9, 3, 4>>[k]]
MCBitAnd(a, b) == a & b
=============================================================================

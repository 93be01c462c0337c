----------------------------- MODULE MCTtlHeap -----------------------------
(* Instances of TtlHeap for TLC: entries are interchangeable. *)
EXTENDS TtlHeap, TLC

EntrySymmetry == Permutations(Entry)
=============================================================================

------------------------------ MODULE TtlHeap ------------------------------
(***************************************************************************)
(* The deadlines of the entries, as entry_set_ttl                          *)
(* (src/storage/commands.cpp) and process_timers (src/core/sys_server.cpp) *)
(* keep them in the heap: set, moved, removed, taken from the head.        *)
(***************************************************************************)
EXTENDS Heap, FiniteSets

CONSTANTS Entry,        \* the entries
          Deadline      \* the deadlines they may be given

VARIABLES heap,         \* server_data.heap
          heap_idx      \* heap_idx of each entry

vars == <<heap, heap_idx>>

State(s) == heap' = s.heap /\ heap_idx' = s.idx

\* heap_delete and the reset of heap_idx that goes with it everywhere.
Unlink(e) ==
    LET s == heap_delete([heap |-> heap, idx |-> heap_idx], heap_idx[e])
    IN  State([s EXCEPT !.idx[e] = NoIdx])

Init == /\ heap = <<>>
        /\ heap_idx = [e \in Entry |-> NoIdx]

\* Mutant: the deadline is one too late.
SetTtl_late(e, d) ==
    State(heap_upsert([heap |-> heap, idx |-> heap_idx], heap_idx[e],
                      [val |-> d + 1, ref |-> e]))

\* entry_set_ttl with a ttl >= 0 that ends at d.
SetTtl(e, d) ==
    State(heap_upsert([heap |-> heap, idx |-> heap_idx], heap_idx[e],
                      [val |-> d, ref |-> e]))

\* entry_set_ttl with a ttl < 0.
RemoveTtl(e) == heap_idx[e] # NoIdx /\ Unlink(e)

\* process_timers takes the entry at the head.
TakeHead == heap # <<>> /\ Unlink(heap[1].ref)

Next == \/ \E e \in Entry : RemoveTtl(e) \/ \E d \in Deadline : SetTtl(e, d)
        \/ TakeHead

Spec == Init /\ [][Next]_vars
-----------------------------------------------------------------------------
\* The items of server_data.heap, and the positions heap_idx can have.
TypeOK == /\ heap \in Seq([val : Deadline, ref : Entry])
          /\ heap_idx \in [Entry -> 0 .. Cardinality(Entry)]

\* After any history of heap_upsert and heap_delete at any position the first
\* item is an earliest one: heap_update moves up or down, never both.
HeapOrdered == Ordered(heap)

\* Each entry's heap_idx is the position of its item and each item's entry
\* points back at it, however items were shifted in between.
BackReferences == Linked(heap, heap_idx)

\* The deadlines as callers see them: a value or none for each entry.
deadline == [e \in Entry |-> IF heap_idx[e] = NoIdx THEN {} ELSE {heap[heap_idx[e]].val}]

\* The deadline of e becomes that of D, if any, and no other entry's changes.
Gives(e, D) == deadline' = [deadline EXCEPT ![e] = D]

\* An operation on one entry changes its deadline as asked and no other
\* entry's, although heap_upsert and heap_delete move other items; and the one
\* process_timers takes from the head is the earliest.
DeadlinesExact ==
    [][/\ \A e \in Entry : /\ \A d \in Deadline : SetTtl(e, d) => Gives(e, {d})
                           /\ RemoveTtl(e) => Gives(e, {})
       /\ TakeHead => /\ Gives(heap[1].ref, {})
                      /\ \A e \in Entry : \A d \in deadline[e] : heap[1].val <= d]_vars
=============================================================================

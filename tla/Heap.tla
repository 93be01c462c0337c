-------------------------------- MODULE Heap --------------------------------
(***************************************************************************)
(* The binary min-heap of src/storage/heap.cpp.  An item is a deadline     *)
(* `val' and the entry `ref' whose heap_idx the heap keeps up to date.  The *)
(* operators act on a record s whose field `heap' is the heap and `idx' the *)
(* heap_idx of each entry.                                                 *)
(*                                                                         *)
(* Positions start at 1, as in a sequence: they are the positions of the   *)
(* code plus one, and a heap_idx of 0 is the code's (size_t)-1.            *)
(***************************************************************************)
EXTENDS Integers, Sequences

LOCAL INSTANCE SequencesExt

NoIdx == 0

parent(p) == p \div 2
left_child(p) == 2 * p
right_child(p) == 2 * p + 1

\* Mutant: the entry is not told its position.
Put_silent(s, p, item) == [s EXCEPT !.heap[p] = item]

\* heap[p] = item; *heap[p].ref = p
Put(s, p, item) == [s EXCEPT !.heap[p] = item, !.idx[item.ref] = p]

\* The loop that starts with the hole at p: ancestors with a greater deadline
\* come down, and the item of `pos' fills the hole that is left.
heap_up(s, pos) ==
    LET temp == s.heap[pos]
        up[p \in 1 .. pos] ==
            IF p > 1 /\ s.heap[parent(p)].val > temp.val
            THEN Put(up[parent(p)], p, s.heap[parent(p)])
            ELSE Put(s, p, temp)
    IN  up[pos]

\* The child the hole at p moves to, or p itself if neither is smaller than v.
Smallest(heap, p, v) ==
    LET l == left_child(p)
        r == right_child(p)
        m == IF l <= Len(heap) /\ heap[l].val < v THEN l ELSE p
        w == IF m = l THEN heap[l].val ELSE v
    IN  IF r <= Len(heap) /\ heap[r].val < w THEN r ELSE m

heap_down(s, pos) ==
    LET temp == s.heap[pos]
        down[p \in pos .. Len(s.heap)] ==
            LET c == Smallest(s.heap, p, temp.val)
            IN  IF c = p THEN Put(s, p, temp)
                         ELSE Put(down[c], p, s.heap[c])
    IN  down[pos]

\* Mutant: an item only moves down.
heap_update_down(s, pos) == heap_down(s, pos)

heap_update(s, pos) ==
    IF pos > 1 /\ s.heap[parent(pos)].val > s.heap[pos].val
    THEN heap_up(s, pos)
    ELSE heap_down(s, pos)

\* Mutant: an update gives its deadline to the head.
heap_upsert_head(s, pos, item) ==
    IF pos \in DOMAIN s.heap
    THEN heap_update([s EXCEPT !.heap[1].val = item.val], 1)
    ELSE heap_update([s EXCEPT !.heap = Append(@, item),
                               !.idx[item.ref] = Len(s.heap) + 1], Len(s.heap) + 1)

heap_upsert(s, pos, item) ==
    IF pos \in DOMAIN s.heap
    THEN heap_update(Put(s, pos, item), pos)
    ELSE heap_update([s EXCEPT !.heap = Append(@, item),
                               !.idx[item.ref] = Len(s.heap) + 1], Len(s.heap) + 1)

heap_delete(s, pos) ==
    LET h == Front([s.heap EXCEPT ![pos] = Last(s.heap)])
    IN  IF pos \in DOMAIN h
        THEN heap_update(Put([s EXCEPT !.heap = h], pos, h[pos]), pos)
        ELSE [s EXCEPT !.heap = h]
-----------------------------------------------------------------------------
\* No item is before its parent: the first is the earliest deadline.
Ordered(heap) == \A p \in 2 .. Len(heap) : heap[parent(p)].val <= heap[p].val

\* The heap and heap_idx point at each other.
Linked(heap, idx) ==
    /\ \A p \in DOMAIN heap : idx[heap[p].ref] = p
    /\ \A e \in DOMAIN idx : idx[e] # NoIdx => /\ idx[e] \in DOMAIN heap
                                               /\ heap[idx[e]].ref = e
=============================================================================

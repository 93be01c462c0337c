------------------------------ MODULE NodeSet ------------------------------
(***************************************************************************)
(* What a hash map promises its callers: it behaves as a set of nodes.     *)
(* Tables, slots, migration and load factor do not show.  `ret' is the     *)
(* last question with its answer: the node found, or nothing (a set of at  *)
(* most one node), and for the traversal every node with their count.      *)
(***************************************************************************)
CONSTANTS Key,        \* the nodes; a node is named by its key
          Size(_)     \* the number of elements of a set of nodes

VARIABLES nodes,      \* the nodes in the map
          ret         \* what the last operation was asked and returned

vars == <<nodes, ret>>

Result(op, asked, S) == [op |-> op, asked |-> asked, found |-> S, count |-> Size(S)]

\* Insertions and clearing return nothing.
Void == Result("void", {}, {})

Init == /\ nodes = {}
        /\ ret = Void

Lookup(k) == /\ ret' = Result("lookup", {k}, nodes \cap {k})
             /\ UNCHANGED nodes

Insert(k) == /\ k \notin nodes
             /\ nodes' = nodes \cup {k}
             /\ ret' = Void

Delete(k) == /\ ret' = Result("delete", {k}, nodes \cap {k})
             /\ nodes' = nodes \ {k}

Traverse == /\ ret' = Result("foreach", {}, nodes)
            /\ UNCHANGED nodes

Clear == /\ nodes' = {}
         /\ ret' = Void

Next == \/ \E k \in Key : Lookup(k) \/ Insert(k) \/ Delete(k)
        \/ Traverse
        \/ Clear

Spec == Init /\ [][Next]_vars
=============================================================================

------------------------------- MODULE HMap -------------------------------
(***************************************************************************)
(* The intrusive hash map of src/storage/hashtable.cpp: two tables, and a  *)
(* migration that moves at most k_rehashing_work nodes from the older one  *)
(* to the newer one in every operation.                                    *)
(*                                                                         *)
(* A node is named by its key.  A chain is the set of nodes it links: no   *)
(* operation tells two orders of a chain apart except by which node of the *)
(* slot a migration takes first, so that choice is left open here (module  *)
(* HMapChains has the lists and the loop, and implements this module).     *)
(* tab = NULL is the function with an empty domain.                        *)
(*                                                                         *)
(* The map is used by one thread at a time, so an operation is one step.   *)
(***************************************************************************)
EXTENDS Naturals, FiniteSets

CONSTANTS
    Key,                \* the nodes that may be in the map
    HashCode,           \* hash_code of each node
    BitAnd(_, _),       \* the & of the machine
    k_max_load_factor,
    k_rehashing_work

\* The largest mask a map of Cardinality(Key) nodes can reach.
MaxMask == 2 * Cardinality(Key) + 3

ASSUME KeyAssumption == IsFiniteSet(Key)
ASSUME HashAssumption == /\ HashCode \in [Key -> Nat]
                         /\ \A k \in Key, m \in 0 .. MaxMask :
                                BitAnd(HashCode[k], m) \in 0 .. m
ASSUME ConstantsAssumption == /\ k_max_load_factor \in Nat \ {0}
                              /\ k_rehashing_work \in Nat \ {0}

VARIABLES
    hmap,               \* the HMap: [older, newer, migration_pos]
    ret,                \* what the last operation was asked and returned
    aborted,            \* did an assert() fail?
    NDEBUG              \* is the build one in which assert() does nothing?

vars == <<hmap, ret, aborted, NDEBUG>>

Result(op, asked, S) == [op |-> op, asked |-> asked, found |-> S, count |-> Cardinality(S)]

\* hm_insert and hm_clear return nothing.
Void == Result("void", {}, {})
-----------------------------------------------------------------------------
(***************************************************************************)
(* One table.                                                              *)
(***************************************************************************)
NULL == [i \in {} |-> {}]
NoTable == [tab |-> NULL, mask |-> 0, size |-> 0]

\* The slot of node k in table t.
Slot(t, k) == BitAnd(HashCode[k], t.mask)

\* The nodes table t links.
Nodes(t) == {k \in Key : \E i \in DOMAIN t.tab : k \in t.tab[i]}

\* The condition h_init asserts.
PowerOfTwo(n) == n > 0 /\ BitAnd(n, n - 1) = 0

\* Mutant: the mask is the size.
h_init_mask(n) == [tab |-> [i \in 0 .. n - 1 |-> {}], mask |-> n, size |-> 0]

h_init(n) == [tab |-> [i \in 0 .. n - 1 |-> {}], mask |-> n - 1, size |-> 0]

h_lookup(t, k) == t.tab # NULL /\ k \in t.tab[Slot(t, k)]

\* h_insert for each node of K.
h_insert(t, K) ==
    [tab  |-> [i \in DOMAIN t.tab |-> t.tab[i] \cup {k \in K : Slot(t, k) = i}],
     mask |-> t.mask,
     size |-> t.size + Cardinality(K)]

\* h_detach for each node of K, wherever in the table it is linked.
h_detach(t, K) ==
    [tab  |-> [i \in DOMAIN t.tab |-> t.tab[i] \ K],
     mask |-> t.mask,
     size |-> t.size - Cardinality(K)]
-----------------------------------------------------------------------------
(***************************************************************************)
(* The two tables.                                                         *)
(***************************************************************************)
NoMap == [older |-> NoTable, newer |-> NoTable, migration_pos |-> 0]

Contents(m) == Nodes(m.newer) \cup Nodes(m.older)

hm_size(m) == m.newer.size + m.older.size

\* The nodes the scan of the older table has still ahead of it.
Ahead(m) == {k \in Key : \E i \in DOMAIN m.older.tab :
                            i >= m.migration_pos /\ k \in m.older.tab[i]}

\* How many nodes one call moves.
Quota(m) == IF m.older.size < k_rehashing_work THEN m.older.size
                                               ELSE k_rehashing_work

\* Batches(m): what one call can move.  <<K, last>> says that it moves the
\* nodes of K, `last' the last of them: the scan takes the slots in increasing
\* order and stops in the slot of `last'.
Batches(m) ==
    {b \in (SUBSET Ahead(m)) \X Ahead(m) :
        /\ Cardinality(b[1]) = Quota(m)
        /\ \A k \in b[1], j \in Ahead(m) \ b[1] :
                Slot(m.older, k) <= Slot(m.older, j)
        /\ b[2] \in b[1]
        /\ \A k \in b[1] : Slot(m.older, k) <= Slot(m.older, b[2])}

\* Mutant: the moved nodes stay linked in the older table.
Move_linked(m, K, last) == [older |-> [m.older EXCEPT !.size = @ - Cardinality(K)],
                            newer |-> h_insert(m.newer, K),
                            migration_pos |-> Slot(m.older, last)]

\* Mutant: the scan leaves a slot as soon as it has moved a node of it.
Move_skips(m, K, last) == [older |-> h_detach(m.older, K),
                           newer |-> h_insert(m.newer, K),
                           migration_pos |-> Slot(m.older, last) + 1]

Move(m, K, last) == [older |-> h_detach(m.older, K),
                     newer |-> h_insert(m.newer, K),
                     migration_pos |-> Slot(m.older, last)]

Discard(m) == IF m.older.size = 0 THEN [m EXCEPT !.older = NoTable] ELSE m

\* The states in which hm_help_rehashing may leave the map m.
hm_help_rehashing(m) ==
    IF m.older.size = 0
    THEN {Discard(m)}
    ELSE {Discard(Move(m, b[1], b[2])) : b \in Batches(m)}

\* hm_insert up to the test of the load factor.
Inserted(m, k) ==
    [m EXCEPT !.newer = h_insert(IF @.tab = NULL THEN h_init(4) ELSE @, {k})]

Overloaded(m) ==
    /\ m.older.tab = NULL
    /\ m.newer.size >= (m.newer.mask + 1) * k_max_load_factor

\* Mutant: the new table is as large as the old one.
RehashSize_same(m) == m.newer.mask + 1

\* The size hm_trigger_rehash gives the new table.
RehashSize(m) == (m.newer.size + 1) * 2

hm_trigger_rehash(m) == [older |-> m.newer,
                         newer |-> h_init(RehashSize(m)),
                         migration_pos |-> 0]
-----------------------------------------------------------------------------
(***************************************************************************)
(* The operations.                                                         *)
(***************************************************************************)
Init == /\ hmap = NoMap
        /\ ret = Void
        /\ aborted = FALSE
        /\ NDEBUG \in BOOLEAN

\* Mutant: the older table is not searched.
hm_lookup_newer(k) ==
    /\ hmap' \in hm_help_rehashing(hmap)
    /\ ret' = Result("lookup", {k}, IF h_lookup(hmap'.newer, k) THEN {k} ELSE {})
    /\ UNCHANGED aborted

\* Mutant: a lookup does not help rehashing.
hm_lookup_idle(k) ==
    /\ ret' = Result("lookup", {k},
                     IF h_lookup(hmap.newer, k) \/ h_lookup(hmap.older, k) THEN {k} ELSE {})
    /\ UNCHANGED <<hmap, aborted>>

hm_lookup(k) ==
    /\ hmap' \in hm_help_rehashing(hmap)
    /\ ret' = Result("lookup", {k},
                     IF h_lookup(hmap'.newer, k) \/ h_lookup(hmap'.older, k)
                     THEN {k} ELSE {})
    /\ UNCHANGED aborted

\* Every caller inserts a key it has just looked up and not found.
hm_insert(k) ==
    LET m == Inserted(hmap, k) IN
    /\ k \notin Contents(hmap)
    /\ Overloaded(m) => NDEBUG \/ PowerOfTwo(RehashSize(m))
    /\ hmap' \in hm_help_rehashing(IF Overloaded(m) THEN hm_trigger_rehash(m) ELSE m)
    /\ ret' = Void
    /\ UNCHANGED aborted

\* The insertion that triggers a rehash whose size h_init refuses: the node is
\* linked and the older table is the newer one when the process ends.
hm_insert_aborts(k) ==
    LET m == Inserted(hmap, k) IN
    /\ k \notin Contents(hmap)
    /\ Overloaded(m)
    /\ ~NDEBUG
    /\ ~PowerOfTwo(RehashSize(m))
    /\ hmap' = [m EXCEPT !.older = m.newer]
    /\ ret' = Void
    /\ aborted' = TRUE

hm_delete(k) ==
    /\ \E m \in hm_help_rehashing(hmap) :
        \/ /\ h_lookup(m.newer, k)
           /\ hmap' = [m EXCEPT !.newer = h_detach(@, {k})]
           /\ ret' = Result("delete", {k}, {k})
        \/ /\ ~h_lookup(m.newer, k)
           /\ h_lookup(m.older, k)
           /\ hmap' = [m EXCEPT !.older = h_detach(@, {k})]
           /\ ret' = Result("delete", {k}, {k})
        \/ /\ ~h_lookup(m.newer, k)
           /\ ~h_lookup(m.older, k)
           /\ hmap' = m
           /\ ret' = Result("delete", {k}, {})
    /\ UNCHANGED aborted

\* The traversal of all_keys: it announces hm_size nodes, then visits.
hm_foreach ==
    /\ ret' = [op |-> "foreach", asked |-> {}, found |-> Contents(hmap), count |-> hm_size(hmap)]
    /\ UNCHANGED <<hmap, aborted>>

hm_clear ==
    /\ hmap' = NoMap
    /\ ret' = Void
    /\ UNCHANGED aborted

Next ==
    /\ ~aborted
    /\ UNCHANGED NDEBUG
    /\ \/ \E k \in Key : \/ hm_lookup(k)
                         \/ hm_insert(k)
                         \/ hm_insert_aborts(k)
                         \/ hm_delete(k)
       \/ hm_foreach
       \/ hm_clear

Spec == Init /\ [][Next]_vars

\* The map keeps being used: lookups go on.
FairSpec == Spec /\ WF_vars(~aborted /\ UNCHANGED NDEBUG /\ \E k \in Key : hm_lookup(k))
-----------------------------------------------------------------------------
(***************************************************************************)
(* Properties.                                                             *)
(***************************************************************************)
IsTable(t) == \/ t = NoTable
              \/ \E m \in 0 .. MaxMask :
                    t \in [tab : [0 .. m -> SUBSET Key], mask : {m},
                          size : 0 .. Cardinality(Key)]

IsMap(m) == /\ m = [older |-> m.older, newer |-> m.newer,
                    migration_pos |-> m.migration_pos]
            /\ IsTable(m.older)
            /\ IsTable(m.newer)
            /\ m.migration_pos \in 0 .. MaxMask

Results == [op : {"void", "lookup", "delete", "foreach"}, asked : SUBSET Key,
            found : SUBSET Key, count : Nat]

\* Every node is linked in the slot of its hash code, so h_lookup finds it.
Placed(t) == \A i \in DOMAIN t.tab : \A k \in t.tab[i] : i = Slot(t, k)

\* The counter of a table is the number of nodes it links.
Counted(t) == t.size = Cardinality(Nodes(t))

\* The shapes of the map: an allocated table has mask + 1 slots.
TypeOK == /\ IsMap(hmap)
          /\ ret \in Results
          /\ aborted \in BOOLEAN
          /\ NDEBUG \in BOOLEAN

\* The two tables never hold the same node, each node is in the slot of its
\* hash code, and both counters are exact: no operation, at any stage of a
\* migration, loses a node, links it twice or miscounts (hm_help_rehashing
\* moves a node with h_detach and h_insert).
Consistent == ~aborted => /\ Nodes(hmap.newer) \cap Nodes(hmap.older) = {}
                          /\ Placed(hmap.newer) /\ Placed(hmap.older)
                          /\ Counted(hmap.newer) /\ Counted(hmap.older)

\* The scan of hm_help_rehashing has no bounds test: it ends because every
\* node of the older table is at migration_pos or after it.
ScanInBounds == ~aborted => Ahead(hmap) = Nodes(hmap.older)

\* The load factor is never reached at rest, although hm_insert does not test
\* it while a migration is going on: the migration is always over first.
LoadBounded ==
    ~aborted /\ hmap.newer # NoTable =>
        hmap.newer.size < (hmap.newer.mask + 1) * k_max_load_factor

\* A map that keeps being used finishes its migration and frees the older
\* table (hm_help_rehashing).
MigrationEnds == (~aborted /\ hmap.older # NoTable) ~> (hmap.older = NoTable)

\* Callers see a set of nodes: lookups, deletions and traversals answer as if
\* the nodes were in one place, whatever a migration has moved so far.
Set == INSTANCE NodeSet WITH nodes <- Contents(hmap), Size <- Cardinality
ImplementsNodeSet == Set!Spec
=============================================================================

---------------------------- MODULE HMapChains ----------------------------
(***************************************************************************)
(* The hash map of src/storage/hashtable.cpp with its chains as lists and  *)
(* the loop of hm_help_rehashing as a loop.  It is checked to implement    *)
(* HMap, which the proofs are about: there a chain is a set and the loop   *)
(* is described by the batch of nodes it moves.                            *)
(***************************************************************************)
EXTENDS Naturals, FiniteSets, Sequences, SequencesExt

CONSTANTS Key, HashCode, BitAnd(_, _), k_max_load_factor, k_rehashing_work

VARIABLES hmap, ret, aborted, NDEBUG        \* as in HMap

vars == <<hmap, ret, aborted, NDEBUG>>

Result(op, asked, S) == [op |-> op, asked |-> asked, found |-> S, count |-> Cardinality(S)]

\* hm_insert and hm_clear return nothing.
Void == Result("void", {}, {})

NULL == <<>>
NoTable == [tab |-> NULL, mask |-> 0, size |-> 0]
NoMap == [older |-> NoTable, newer |-> NoTable, migration_pos |-> 0]
-----------------------------------------------------------------------------
Slot(t, k) == BitAnd(HashCode[k], t.mask)

PowerOfTwo(n) == n > 0 /\ BitAnd(n, n - 1) = 0

h_init(n) == [tab |-> [i \in 0 .. n - 1 |-> <<>>], mask |-> n - 1, size |-> 0]

\* The links to node k in its chain: at most one.
h_lookup(t, k) == IF t.tab = NULL THEN {}
                  ELSE {j \in DOMAIN t.tab[Slot(t, k)] : t.tab[Slot(t, k)][j] = k}

\* Mutant: the node does not link to the rest of the chain.
h_insert_drops(t, k) == [t EXCEPT !.tab[Slot(t, k)] = <<k>>, !.size = @ + 1]

h_insert(t, k) == [t EXCEPT !.tab[Slot(t, k)] = <<k>> \o @, !.size = @ + 1]

h_detach(t, i, j) == [t EXCEPT !.tab[i] = RemoveAt(@, j), !.size = @ - 1]

RECURSIVE Rehash(_, _)
Rehash(m, work) ==
    IF ~(work < k_rehashing_work /\ m.older.size > 0) THEN m
    ELSE IF m.older.tab[m.migration_pos] = <<>>
         THEN Rehash([m EXCEPT !.migration_pos = @ + 1], work)
         ELSE LET k == Head(m.older.tab[m.migration_pos]) IN
              Rehash([m EXCEPT !.older = h_detach(@, m.migration_pos, 1),
                               !.newer = h_insert(@, k)], work + 1)

\* Mutant: the empty table is not discarded.
hm_help_rehashing_keeps(m) == Rehash(m, 0)

hm_help_rehashing(m) ==
    LET r == Rehash(m, 0) IN
    IF r.older.size = 0 /\ r.older.tab # NULL THEN [r EXCEPT !.older = NoTable]
                                              ELSE r

hm_trigger_rehash(m) == [older |-> m.newer,
                         newer |-> h_init((m.newer.size + 1) * 2),
                         migration_pos |-> 0]

\* The nodes h_foreach visits, in its order: slot by slot, each chain from its
\* head.
h_foreach(t) == FoldLeft(LAMBDA s, i : s \o t.tab[i - 1], <<>>,
                         [i \in 1 .. Cardinality(DOMAIN t.tab) |-> i])

hm_foreach_order(m) == h_foreach(m.newer) \o h_foreach(m.older)
-----------------------------------------------------------------------------
Init == hmap = NoMap /\ ret = Void /\ aborted = FALSE /\ NDEBUG \in BOOLEAN

hm_lookup(k) ==
    /\ hmap' = hm_help_rehashing(hmap)
    /\ ret' = Result("lookup", {k},
                     IF h_lookup(hmap'.newer, k) \cup h_lookup(hmap'.older, k) # {}
                     THEN {k} ELSE {})
    /\ UNCHANGED aborted

\* Every caller inserts a key it has just looked up and not found.
hm_insert(k) ==
    LET m == [hmap EXCEPT !.newer =
                  h_insert(IF @.tab = NULL THEN h_init(4) ELSE @, k)]
        full == /\ m.older.tab = NULL
                /\ m.newer.size >= (m.newer.mask + 1) * k_max_load_factor
        fails == full /\ ~NDEBUG /\ ~PowerOfTwo((m.newer.size + 1) * 2)
    IN
    /\ k \notin ToSet(hm_foreach_order(hmap))
    /\ aborted' = fails
    /\ hmap' = IF fails THEN [m EXCEPT !.older = m.newer]
               ELSE hm_help_rehashing(IF full THEN hm_trigger_rehash(m) ELSE m)
    /\ ret' = Void

hm_delete(k) ==
    LET m == hm_help_rehashing(hmap)
        new == h_lookup(m.newer, k)
        old == h_lookup(m.older, k)
    IN
    /\ \/ \E j \in new :
            /\ hmap' = [m EXCEPT !.newer = h_detach(@, Slot(@, k), j)]
            /\ ret' = Result("delete", {k}, {k})
       \/ \E j \in old :
            /\ new = {}
            /\ hmap' = [m EXCEPT !.older = h_detach(@, Slot(@, k), j)]
            /\ ret' = Result("delete", {k}, {k})
       \/ /\ new = {} /\ old = {}
          /\ hmap' = m
          /\ ret' = Result("delete", {k}, {})
    /\ UNCHANGED aborted

hm_foreach ==
    /\ ret' = [op |-> "foreach", asked |-> {}, found |-> ToSet(hm_foreach_order(hmap)),
               count |-> hmap.newer.size + hmap.older.size]
    /\ UNCHANGED <<hmap, aborted>>

hm_clear == hmap' = NoMap /\ ret' = Void /\ UNCHANGED aborted

Next ==
    /\ ~aborted
    /\ UNCHANGED NDEBUG
    /\ \/ \E k \in Key : hm_lookup(k) \/ hm_insert(k) \/ hm_delete(k)
       \/ hm_foreach
       \/ hm_clear

Spec == Init /\ [][Next]_vars
-----------------------------------------------------------------------------
\* The traversal behind `keys' calls back once per node and as often as
\* hm_size says: all_keys writes hm_size as the length of the array before
\* the first callback (src/storage/commands.cpp).
TraversalExact == LET s == hm_foreach_order(hmap) IN
                  ~aborted => /\ Len(s) = hmap.newer.size + hmap.older.size
                              /\ Cardinality(ToSet(s)) = Len(s)

\* h_init's "size must be a power of 2", which hm_trigger_rehash has to respect.
AssertsHold == ~aborted

\* The lists and the loop do what HMap says: each call of hm_help_rehashing
\* moves one of the batches HMap allows, and every operation answers alike.
AsSets(t) == [t EXCEPT !.tab = [i \in DOMAIN t.tab |-> ToSet(t.tab[i])]]
H == INSTANCE HMap WITH hmap <- [hmap EXCEPT !.older = AsSets(@), !.newer = AsSets(@)]
ImplementsHMap == H!Spec
=============================================================================

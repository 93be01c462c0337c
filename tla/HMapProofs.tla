---------------------------- MODULE HMapProofs ----------------------------
(***************************************************************************)
(* Proofs about HMap, for every finite set of nodes, every hash function,  *)
(* every load factor and every amount of rehashing work per operation.     *)
(***************************************************************************)
EXTENDS HMap, FiniteSetTheorems, TLAPS

\* What holds of the map between any two calls of the functions of one table:
\* its type, Consistent and ScanInBounds, of any map m.
Struct(m) ==
    /\ IsMap(m)
    /\ m.newer = NoTable => m.older = NoTable
    /\ Nodes(m.newer) \cap Nodes(m.older) = {}
    /\ Placed(m.newer) /\ Placed(m.older)
    /\ Counted(m.newer) /\ Counted(m.older)
    /\ Ahead(m) = Nodes(m.older)

\* LoadBounded, made inductive: each node still to be moved needs room for
\* itself and for a node inserted by the operation that moves it.
Load(m) ==
    LET room == (m.newer.mask + 1) * k_max_load_factor IN
    /\ m.newer # NoTable => m.newer.size + 2 * m.older.size < room
    /\ m.older # NoTable => m.newer.size + 2 < room

\* A failed assert() leaves the map half rehashed, in a process that is gone.
IInv == /\ TypeOK
        /\ ~aborted => Struct(hmap) /\ Load(hmap)
-----------------------------------------------------------------------------
\* Sets of nodes are finite, and have at most Cardinality(Key) elements.
LEMMA NodeSets ==
    ASSUME NEW S \in SUBSET Key
    PROVE  /\ IsFiniteSet(S)
           /\ Cardinality(S) \in 0 .. Cardinality(Key)
           /\ Cardinality(Key) \in Nat
<1>1. IsFiniteSet(S) /\ Cardinality(S) <= Cardinality(Key)
  BY KeyAssumption, FS_Subset
<1>2. Cardinality(S) \in Nat /\ Cardinality(Key) \in Nat
  BY <1>1, KeyAssumption, FS_CardinalityType
<1> QED BY <1>1, <1>2

\* A slot is one of the slots of the table.
LEMMA SlotInTable ==
    ASSUME NEW t, t.mask \in 0 .. MaxMask, NEW k \in Key
    PROVE  Slot(t, k) \in 0 .. t.mask
BY HashAssumption DEF Slot

\* The two kinds of table.
LEMMA TableCases ==
    ASSUME NEW t, IsTable(t)
    PROVE  /\ t.mask \in 0 .. MaxMask
           /\ t.mask \in Nat
           /\ t.size \in 0 .. Cardinality(Key)
           /\ t.size \in Nat
           /\ t = [tab |-> t.tab, mask |-> t.mask, size |-> t.size]
           /\ t = NoTable <=> t.tab = NULL
           /\ t # NoTable => t.tab \in [0 .. t.mask -> SUBSET Key]
           /\ DOMAIN t.tab \in SUBSET Nat
           /\ t = NoTable => Nodes(t) = {} /\ t.size = 0
<1>0. Cardinality(Key) \in Nat /\ MaxMask \in Nat
  BY NodeSets DEF MaxMask
<1>1. CASE t = NoTable
  BY <1>0, <1>1 DEF NoTable, NULL, Nodes
<1>2. CASE t # NoTable
  <2>1. PICK m \in 0 .. MaxMask :
            t \in [tab : [0 .. m -> SUBSET Key], mask : {m},
                   size : 0 .. Cardinality(Key)]
    BY <1>2 DEF IsTable
  <2>2. /\ t.mask = m /\ t.tab \in [0 .. m -> SUBSET Key]
        /\ t.size \in 0 .. Cardinality(Key)
        /\ t = [tab |-> t.tab, mask |-> t.mask, size |-> t.size]
    BY <2>1
  <2>3. DOMAIN t.tab = 0 .. m /\ 0 \in 0 .. m
    BY <2>2, <1>0
  <2>4. t.tab # NULL
    BY <2>3 DEF NULL
  <2> QED BY <1>0, <1>2, <2>2, <2>3, <2>4
<1> QED BY <1>1, <1>2

\* h_lookup finds exactly the nodes of the table.
LEMMA LookupFinds ==
    ASSUME NEW t, IsTable(t), Placed(t), NEW k \in Key
    PROVE  h_lookup(t, k) <=> k \in Nodes(t)
<1>1. CASE t.tab = NULL
  BY <1>1, TableCases DEF h_lookup, Nodes
<1>2. CASE t.tab # NULL
  <2>1. DOMAIN t.tab = 0 .. t.mask /\ Slot(t, k) \in DOMAIN t.tab
    BY <1>2, TableCases, SlotInTable
  <2> QED BY <1>2, <2>1 DEF h_lookup, Nodes, Placed
<1> QED BY <1>1, <1>2
-----------------------------------------------------------------------------
\* Linking nodes that are not in the table (h_insert).
LEMMA InsertTable ==
    ASSUME NEW t, IsTable(t), t # NoTable, Placed(t), Counted(t),
           NEW K \in SUBSET Key, K \cap Nodes(t) = {}
    PROVE  LET u == h_insert(t, K) IN
           /\ IsTable(u) /\ u # NoTable /\ Placed(u) /\ Counted(u)
           /\ Nodes(u) = Nodes(t) \cup K
           /\ u.mask = t.mask /\ u.size = t.size + Cardinality(K)
<1> DEFINE u == h_insert(t, K)
<1>1. /\ t.mask \in 0 .. MaxMask /\ t.mask \in Nat
      /\ t.tab \in [0 .. t.mask -> SUBSET Key]
      /\ t.size \in Nat
  BY TableCases
<1>2. /\ u.tab = [i \in 0 .. t.mask |-> t.tab[i] \cup {k \in K : Slot(t, k) = i}]
      /\ u.mask = t.mask
      /\ u.size = t.size + Cardinality(K)
      /\ u = [tab |-> u.tab, mask |-> u.mask, size |-> u.size]
  BY <1>1 DEF h_insert
<1>3. u.tab \in [0 .. t.mask -> SUBSET Key]
  BY <1>1, <1>2
<1>4. \A k \in Key : Slot(u, k) = Slot(t, k) /\ Slot(t, k) \in 0 .. t.mask
  BY <1>1, <1>2, SlotInTable DEF Slot
<1>5. Nodes(u) = Nodes(t) \cup K
  BY <1>1, <1>2, <1>4 DEF Nodes
<1>6. Placed(u)
  BY <1>1, <1>2, <1>4 DEF Placed
<1>7. Cardinality(Nodes(u)) = Cardinality(Nodes(t)) + Cardinality(K)
  <2>1. Nodes(t) \in SUBSET Key /\ Nodes(t) \cap K = {}
    BY DEF Nodes
  <2>2. /\ IsFiniteSet(Nodes(t)) /\ IsFiniteSet(K)
        /\ Cardinality(Nodes(t)) \in Nat /\ Cardinality(K) \in Nat
    BY <2>1, NodeSets
  <2>3. Cardinality(Nodes(t) \cup K)
           = Cardinality(Nodes(t)) + Cardinality(K) - Cardinality(Nodes(t) \cap K)
    BY <2>2, FS_Union
  <2>4. Cardinality(Nodes(t) \cap K) = 0
    BY <2>1, FS_EmptySet
  <2> QED BY <1>5, <2>2, <2>3, <2>4
<1>8. Counted(u)
  BY <1>2, <1>7 DEF Counted
<1>9. u.size \in 0 .. Cardinality(Key)
  <2>1. Nodes(u) \in SUBSET Key
    BY DEF Nodes
  <2> QED BY <1>8, <2>1, NodeSets DEF Counted
<1>10. IsTable(u)
  BY <1>1, <1>2, <1>3, <1>9 DEF IsTable
<1>11. u # NoTable
  <2>1. 0 \in DOMAIN u.tab
    BY <1>1, <1>2
  <2>2. u.tab # NULL
    BY <2>1 DEF NULL
  <2> QED BY <2>2 DEF NoTable
<1> QED BY <1>2, <1>5, <1>6, <1>8, <1>10, <1>11

\* Unlinking nodes of the table (h_detach).
LEMMA DetachTable ==
    ASSUME NEW t, IsTable(t), t # NoTable, Placed(t), Counted(t),
           NEW K \in SUBSET Nodes(t)
    PROVE  LET u == h_detach(t, K) IN
           /\ IsTable(u) /\ u # NoTable /\ Placed(u) /\ Counted(u)
           /\ Nodes(u) = Nodes(t) \ K
           /\ u.mask = t.mask /\ u.size = t.size - Cardinality(K)
<1> DEFINE u == h_detach(t, K)
<1>1. /\ t.mask \in 0 .. MaxMask /\ t.mask \in Nat
      /\ t.tab \in [0 .. t.mask -> SUBSET Key]
      /\ t.size \in Nat
  BY TableCases
<1>2. /\ u.tab = [i \in 0 .. t.mask |-> t.tab[i] \ K]
      /\ u.mask = t.mask
      /\ u.size = t.size - Cardinality(K)
      /\ u = [tab |-> u.tab, mask |-> u.mask, size |-> u.size]
  BY <1>1 DEF h_detach
<1>3. u.tab \in [0 .. t.mask -> SUBSET Key]
  BY <1>1, <1>2
<1>4. \A k \in Key : Slot(u, k) = Slot(t, k)
  BY <1>2 DEF Slot
<1>5. Nodes(u) = Nodes(t) \ K
  BY <1>1, <1>2 DEF Nodes
<1>6. Placed(u)
  BY <1>1, <1>2, <1>4 DEF Placed
<1>7. Cardinality(Nodes(u)) = Cardinality(Nodes(t)) - Cardinality(K)
  <2>1. Nodes(t) \in SUBSET Key /\ Nodes(t) \cap K = K
    BY DEF Nodes
  <2> QED BY <1>5, <2>1, NodeSets, FS_Difference
<1>8. Counted(u)
  BY <1>2, <1>7 DEF Counted
<1>9. u.size \in 0 .. Cardinality(Key)
  <2>1. Nodes(u) \in SUBSET Key
    BY DEF Nodes
  <2> QED BY <1>8, <2>1, NodeSets DEF Counted
<1>10. IsTable(u)
  BY <1>1, <1>2, <1>3, <1>9 DEF IsTable
<1>11. u # NoTable
  <2>1. 0 \in DOMAIN u.tab
    BY <1>1, <1>2
  <2>2. u.tab # NULL
    BY <2>1 DEF NULL
  <2> QED BY <2>2 DEF NoTable
<1> QED BY <1>2, <1>5, <1>6, <1>8, <1>10, <1>11

\* A new table (h_init).
LEMMA InitTable ==
    ASSUME NEW n \in 1 .. MaxMask + 1
    PROVE  LET u == h_init(n) IN
           /\ IsTable(u) /\ u # NoTable /\ Placed(u) /\ Counted(u)
           /\ Nodes(u) = {} /\ u.mask = n - 1 /\ u.size = 0
<1> DEFINE u == h_init(n)
<1>0. Cardinality(Key) \in Nat /\ MaxMask \in Nat
  BY NodeSets DEF MaxMask
<1>1. /\ u.tab = [i \in 0 .. n - 1 |-> {}] /\ u.mask = n - 1 /\ u.size = 0
      /\ u = [tab |-> u.tab, mask |-> u.mask, size |-> u.size]
      /\ n - 1 \in 0 .. MaxMask
  BY <1>0 DEF h_init
<1>2. IsTable(u)
  <2>1. u.tab \in [0 .. n - 1 -> SUBSET Key]
    BY <1>1
  <2> QED BY <1>0, <1>1, <2>1 DEF IsTable
<1>3. Nodes(u) = {} /\ Placed(u)
  BY <1>1 DEF Nodes, Placed
<1>4. Counted(u)
  BY <1>1, <1>3, FS_EmptySet DEF Counted
<1>5. u # NoTable
  <2>1. 0 \in DOMAIN u.tab
    BY <1>0, <1>1
  <2>2. u.tab # NULL
    BY <2>1 DEF NULL
  <2> QED BY <2>2 DEF NoTable
<1> QED BY <1>1, <1>2, <1>3, <1>4, <1>5
-----------------------------------------------------------------------------
\* Giving up an empty older table changes nothing else.
LEMMA DiscardEmpty ==
    ASSUME NEW m, Struct(m)
    PROVE  LET r == Discard(m) IN
           /\ Struct(r) /\ Contents(r) = Contents(m)
           /\ r.newer = m.newer /\ r.older.size = m.older.size
           /\ r.older # NoTable => r.older.size > 0
<1>1. /\ IsTable(m.older) /\ IsTable(m.newer)
      /\ Counted(m.older) /\ m.older.size \in Nat
  BY TableCases DEF Struct, IsMap
<1>2. CASE m.older.size = 0
  <2> DEFINE r == [m EXCEPT !.older = NoTable]
  <2>1. Discard(m) = r
    BY <1>2 DEF Discard
  <2>2. /\ r = [older |-> NoTable, newer |-> m.newer,
                migration_pos |-> m.migration_pos]
        /\ m.migration_pos \in 0 .. MaxMask
    BY DEF Struct, IsMap
  <2>3. Nodes(m.older) = {}
    <3>1. Nodes(m.older) \in SUBSET Key
      BY DEF Nodes
    <3> QED BY <1>1, <1>2, <3>1, NodeSets, FS_EmptySet DEF Counted
  <2>4. /\ IsTable(NoTable) /\ Nodes(NoTable) = {} /\ Placed(NoTable)
        /\ NoTable.size = 0 /\ DOMAIN NoTable.tab = {}
    BY DEF IsTable, Nodes, NoTable, NULL, Placed
  <2>5. Counted(NoTable)
    BY <2>4, FS_EmptySet DEF Counted
  <2>6. Ahead(r) = {}
    BY <2>2, <2>4 DEF Ahead
  <2>7. Struct(r)
    BY <1>1, <2>2, <2>4, <2>5, <2>6 DEF Struct, IsMap
  <2> QED BY <1>2, <2>1, <2>2, <2>3, <2>4, <2>7 DEF Contents
<1>3. CASE m.older.size # 0
  BY <1>1, <1>3 DEF Discard
<1> QED BY <1>2, <1>3

\* Moving a batch of nodes keeps the structure and the contents of the map, and
\* leaves nothing behind the position at which the scan stops.
LEMMA MoveBatch ==
    ASSUME NEW m, Struct(m), m.older.size > 0, NEW b \in Batches(m)
    PROVE  LET r == Move(m, b[1], b[2]) IN
           /\ Struct(r) /\ Contents(r) = Contents(m)
           /\ r.newer.mask = m.newer.mask /\ r.newer # NoTable
           /\ Cardinality(b[1]) \in 1 .. m.older.size
           /\ r.newer.size = m.newer.size + Cardinality(b[1])
           /\ r.older.size = m.older.size - Cardinality(b[1])
<1> DEFINE K == b[1]
           last == b[2]
           r == Move(m, K, last)
<1>1. /\ IsTable(m.older) /\ IsTable(m.newer)
      /\ Placed(m.older) /\ Placed(m.newer)
      /\ Counted(m.older) /\ Counted(m.newer)
      /\ Nodes(m.newer) \cap Nodes(m.older) = {}
      /\ Ahead(m) = Nodes(m.older)
  BY DEF Struct, IsMap
<1>2. m.older # NoTable /\ m.newer # NoTable
  BY DEF Struct, NoTable
<1>3. /\ K \in SUBSET Nodes(m.older) /\ last \in K
      /\ \A k \in K, j \in Nodes(m.older) \ K :
            Slot(m.older, k) <= Slot(m.older, j)
      /\ Cardinality(K) = Quota(m)
  BY <1>1 DEF Batches
<1>4. /\ m.older.size \in Nat /\ m.older.mask \in 0 .. MaxMask
      /\ m.older.mask \in Nat
      /\ m.older.tab \in [0 .. m.older.mask -> SUBSET Key]
  BY <1>1, <1>2, TableCases
<1>5. Cardinality(K) \in 1 .. m.older.size
  BY <1>3, <1>4, ConstantsAssumption DEF Quota
<1>6. K \in SUBSET Key /\ last \in Key /\ K \cap Nodes(m.newer) = {}
  BY <1>1, <1>3 DEF Nodes
<1>7. /\ r = [older |-> r.older, newer |-> r.newer, migration_pos |-> r.migration_pos]
      /\ r.older = h_detach(m.older, K) /\ r.newer = h_insert(m.newer, K)
      /\ r.migration_pos = Slot(m.older, last)
  BY DEF Move
<1>8. /\ IsTable(r.older) /\ r.older # NoTable /\ Placed(r.older) /\ Counted(r.older)
      /\ Nodes(r.older) = Nodes(m.older) \ K
      /\ r.older.mask = m.older.mask
      /\ r.older.size = m.older.size - Cardinality(K)
  BY <1>1, <1>2, <1>3, <1>7, DetachTable
<1>9. /\ IsTable(r.newer) /\ r.newer # NoTable /\ Placed(r.newer) /\ Counted(r.newer)
      /\ Nodes(r.newer) = Nodes(m.newer) \cup K
      /\ r.newer.mask = m.newer.mask
      /\ r.newer.size = m.newer.size + Cardinality(K)
  BY <1>1, <1>2, <1>6, <1>7, InsertTable
<1>10. Slot(m.older, last) \in 0 .. m.older.mask
  BY <1>4, <1>6, SlotInTable
<1>11. r.migration_pos \in 0 .. MaxMask
  <2>1. MaxMask \in Nat
    BY NodeSets DEF MaxMask
  <2> QED BY <1>4, <1>7, <1>10, <2>1
<1>12. Ahead(r) = Nodes(r.older)
  <2>1. ASSUME NEW i \in DOMAIN r.older.tab, NEW k \in r.older.tab[i]
        PROVE  i >= r.migration_pos
    <3>1. r.older.tab = [j \in 0 .. m.older.mask |-> m.older.tab[j] \ K]
      BY <1>4, <1>7 DEF h_detach
    <3>2. i \in 0 .. m.older.mask /\ k \in m.older.tab[i] /\ k \notin K
      BY <2>1, <3>1
    <3>3. k \in Nodes(m.older) /\ i = Slot(m.older, k)
      BY <1>1, <1>4, <3>2 DEF Nodes, Placed
    <3> QED BY <1>3, <1>7, <1>10, <3>2, <3>3
  <2> QED BY <2>1 DEF Ahead, Nodes
<1>13. Struct(r)
  BY <1>1, <1>3, <1>7, <1>8, <1>9, <1>11, <1>12 DEF Struct, IsMap
<1>14. Contents(r) = Contents(m)
  BY <1>3, <1>8, <1>9 DEF Contents
<1> QED BY <1>5, <1>8, <1>9, <1>13, <1>14

\* hm_help_rehashing keeps the contents, and moves at least one node of an
\* older table that has any.
LEMMA HelpRehashing ==
    ASSUME NEW m, Struct(m), NEW r \in hm_help_rehashing(m)
    PROVE  /\ Struct(r) /\ Contents(r) = Contents(m)
           /\ r.newer.mask = m.newer.mask
           /\ r.newer = NoTable <=> m.newer = NoTable
           /\ r.older # NoTable => r.older.size > 0
           /\ \E q \in 0 .. m.older.size :
                 /\ r.newer.size = m.newer.size + q
                 /\ r.older.size = m.older.size - q
                 /\ m.older.size > 0 => q > 0
<1>1. m.older.size \in Nat /\ m.newer.size \in Nat
  BY TableCases DEF Struct, IsMap
<1>2. CASE m.older.size = 0
  <2>1. r = Discard(m)
    BY <1>2 DEF hm_help_rehashing
  <2>2. /\ Struct(r) /\ Contents(r) = Contents(m)
        /\ r.newer = m.newer /\ r.older.size = m.older.size
        /\ r.older # NoTable => r.older.size > 0
    BY <2>1, DiscardEmpty
  <2> QED BY <1>1, <1>2, <2>2
<1>3. CASE m.older.size # 0
  <2>1. PICK b \in Batches(m) : r = Discard(Move(m, b[1], b[2]))
    BY <1>3 DEF hm_help_rehashing
  <2> DEFINE n == Move(m, b[1], b[2])
  <2>2. m.older.size > 0
    BY <1>1, <1>3
  <2>3. /\ Struct(n) /\ Contents(n) = Contents(m)
        /\ n.newer.mask = m.newer.mask /\ n.newer # NoTable
        /\ Cardinality(b[1]) \in 1 .. m.older.size
        /\ n.newer.size = m.newer.size + Cardinality(b[1])
        /\ n.older.size = m.older.size - Cardinality(b[1])
    BY <2>2, MoveBatch
  <2> HIDE DEF n
  <2>4. /\ Struct(r) /\ Contents(r) = Contents(n)
        /\ r.newer = n.newer /\ r.older.size = n.older.size
        /\ r.older # NoTable => r.older.size > 0
    BY <2>1, <2>3, DiscardEmpty DEF n
  <2>5. m.newer # NoTable
    BY <2>2 DEF Struct, NoTable
  <2> QED BY <1>1, <2>3, <2>4, <2>5
<1> QED BY <1>2, <1>3
-----------------------------------------------------------------------------
\* hm_insert links the node in the newer table, which it allocates if need be.
LEMMA InsertMap ==
    ASSUME NEW m, Struct(m), NEW k \in Key, k \notin Contents(m)
    PROVE  LET r == Inserted(m, k) IN
           /\ Struct(r) /\ Contents(r) = Contents(m) \cup {k}
           /\ r.newer # NoTable /\ r.older = m.older
           /\ r.newer.size = m.newer.size + 1
           /\ r.newer.mask = IF m.newer = NoTable THEN 3 ELSE m.newer.mask
<1> DEFINE t == IF m.newer.tab = NULL THEN h_init(4) ELSE m.newer
           r == Inserted(m, k)
<1>1. /\ IsTable(m.older) /\ IsTable(m.newer)
      /\ m.migration_pos \in 0 .. MaxMask
      /\ m.newer = NoTable <=> m.newer.tab = NULL
      /\ m.newer = NoTable => Nodes(m.newer) = {} /\ m.newer.size = 0
  BY TableCases DEF Struct, IsMap
<1>2. 4 \in 1 .. MaxMask + 1
  BY NodeSets DEF MaxMask
<1>3. /\ IsTable(t) /\ t # NoTable /\ Placed(t) /\ Counted(t)
      /\ Nodes(t) = Nodes(m.newer) /\ t.size = m.newer.size
      /\ t.mask = IF m.newer = NoTable THEN 3 ELSE m.newer.mask
  <2>1. CASE m.newer.tab = NULL
    <3>1. /\ IsTable(h_init(4)) /\ h_init(4) # NoTable
          /\ Placed(h_init(4)) /\ Counted(h_init(4))
          /\ Nodes(h_init(4)) = {} /\ h_init(4).mask = 3 /\ h_init(4).size = 0
      BY <1>2, InitTable
    <3> QED BY <1>1, <2>1, <3>1
  <2>2. CASE m.newer.tab # NULL
    BY <1>1, <2>2 DEF Struct
  <2> QED BY <2>1, <2>2
<1>4. {k} \in SUBSET Key /\ {k} \cap Nodes(m.newer) = {} /\ k \notin Nodes(m.older)
  BY DEF Contents
<1>5. /\ r = [older |-> m.older, newer |-> h_insert(t, {k}),
              migration_pos |-> m.migration_pos]
  BY DEF Inserted, Struct, IsMap
<1> HIDE DEF t
<1>6. Cardinality({k}) = 1
  BY FS_Singleton
<1>7. /\ IsTable(r.newer) /\ r.newer # NoTable /\ Placed(r.newer) /\ Counted(r.newer)
      /\ Nodes(r.newer) = Nodes(m.newer) \cup {k}
      /\ r.newer.mask = t.mask /\ r.newer.size = t.size + 1
  BY <1>3, <1>4, <1>5, <1>6, InsertTable
<1>8. r.older = m.older /\ r.migration_pos = m.migration_pos
  BY <1>5
<1>9. Ahead(r) = Ahead(m)
  BY <1>8 DEF Ahead
<1>10. Struct(r)
  BY <1>1, <1>4, <1>5, <1>7, <1>8, <1>9 DEF Struct, IsMap
<1> QED BY <1>3, <1>7, <1>8, <1>10 DEF Contents

\* hm_trigger_rehash makes the whole table the older one.
LEMMA TriggerMap ==
    ASSUME NEW m, Struct(m), m.older.tab = NULL, m.newer # NoTable
    PROVE  LET r == hm_trigger_rehash(m) IN
           /\ Struct(r) /\ Contents(r) = Contents(m)
           /\ r.newer # NoTable /\ r.newer.size = 0
           /\ r.newer.mask + 1 = 2 * (m.newer.size + 1)
           /\ r.older.size = m.newer.size
<1> DEFINE n == RehashSize(m)
           r == hm_trigger_rehash(m)
<1>1. /\ IsTable(m.newer) /\ m.newer.size \in 0 .. Cardinality(Key)
      /\ m.newer.size \in Nat
      /\ m.older = NoTable /\ Nodes(m.older) = {}
  BY TableCases DEF Struct, IsMap
<1>2. n \in 1 .. MaxMask + 1 /\ n = 2 * (m.newer.size + 1)
  BY <1>1, NodeSets DEF MaxMask, RehashSize
<1>3. /\ r = [older |-> m.newer, newer |-> h_init(n), migration_pos |-> 0]
  BY DEF hm_trigger_rehash
<1> HIDE DEF n
<1>4. /\ IsTable(r.newer) /\ r.newer # NoTable /\ Placed(r.newer) /\ Counted(r.newer)
      /\ Nodes(r.newer) = {} /\ r.newer.mask = n - 1 /\ r.newer.size = 0
  BY <1>2, <1>3, InitTable
<1>5. r.older = m.newer /\ r.migration_pos = 0 /\ 0 \in 0 .. MaxMask
  BY <1>3, NodeSets DEF MaxMask
<1>6. Ahead(r) = Nodes(r.older)
  BY <1>1, <1>5, TableCases DEF Ahead, Nodes
<1>7. Struct(r)
  BY <1>1, <1>3, <1>4, <1>5, <1>6 DEF Struct, IsMap
<1> QED BY <1>1, <1>2, <1>4, <1>5, <1>7 DEF Contents

\* hm_delete unlinks a node of the newer table.
LEMMA DeleteNewer ==
    ASSUME NEW m, Struct(m), NEW k \in Key, h_lookup(m.newer, k)
    PROVE  LET r == [m EXCEPT !.newer = h_detach(@, {k})] IN
           /\ Struct(r) /\ k \in Contents(m) /\ Contents(r) = Contents(m) \ {k}
           /\ r.newer # NoTable /\ m.newer # NoTable /\ r.older = m.older
           /\ r.newer.size = m.newer.size - 1 /\ r.newer.mask = m.newer.mask
<1> DEFINE r == [m EXCEPT !.newer = h_detach(@, {k})]
<1>1. /\ IsTable(m.older) /\ IsTable(m.newer) /\ Placed(m.newer) /\ Counted(m.newer)
      /\ m.migration_pos \in 0 .. MaxMask
      /\ Nodes(m.newer) \cap Nodes(m.older) = {}
  BY DEF Struct, IsMap
<1>2. {k} \in SUBSET Nodes(m.newer) /\ m.newer # NoTable
  BY <1>1, LookupFinds, TableCases DEF h_lookup
<1>3. Cardinality({k}) = 1
  BY FS_Singleton
<1>4. r = [older |-> m.older, newer |-> h_detach(m.newer, {k}),
           migration_pos |-> m.migration_pos]
  BY DEF Struct, IsMap
<1>5. /\ IsTable(r.newer) /\ r.newer # NoTable /\ Placed(r.newer) /\ Counted(r.newer)
      /\ Nodes(r.newer) = Nodes(m.newer) \ {k}
      /\ r.newer.mask = m.newer.mask /\ r.newer.size = m.newer.size - 1
  BY <1>1, <1>2, <1>3, <1>4, DetachTable
<1>6. r.older = m.older /\ r.migration_pos = m.migration_pos
  BY <1>4
<1>7. Ahead(r) = Ahead(m)
  BY <1>6 DEF Ahead
<1>8. Struct(r)
  BY <1>1, <1>4, <1>5, <1>6, <1>7 DEF Struct, IsMap
<1> QED BY <1>1, <1>2, <1>5, <1>6, <1>8 DEF Contents

\* hm_delete unlinks a node of the older table; migration_pos stays behind
\* every node that is left.
LEMMA DeleteOlder ==
    ASSUME NEW m, Struct(m), NEW k \in Key, h_lookup(m.older, k)
    PROVE  LET r == [m EXCEPT !.older = h_detach(@, {k})] IN
           /\ Struct(r) /\ k \in Contents(m) /\ Contents(r) = Contents(m) \ {k}
           /\ r.older # NoTable /\ m.older # NoTable /\ r.newer = m.newer
           /\ r.older.size = m.older.size - 1
<1> DEFINE r == [m EXCEPT !.older = h_detach(@, {k})]
<1>1. /\ IsTable(m.older) /\ IsTable(m.newer) /\ Placed(m.older) /\ Counted(m.older)
      /\ m.migration_pos \in 0 .. MaxMask
      /\ Nodes(m.newer) \cap Nodes(m.older) = {}
      /\ Ahead(m) = Nodes(m.older)
  BY DEF Struct, IsMap
<1>2. {k} \in SUBSET Nodes(m.older) /\ m.older # NoTable
  BY <1>1, LookupFinds, TableCases DEF h_lookup
<1>3. Cardinality({k}) = 1
  BY FS_Singleton
<1>4. r = [older |-> h_detach(m.older, {k}), newer |-> m.newer,
           migration_pos |-> m.migration_pos]
  BY DEF Struct, IsMap
<1>5. /\ IsTable(r.older) /\ r.older # NoTable /\ Placed(r.older) /\ Counted(r.older)
      /\ Nodes(r.older) = Nodes(m.older) \ {k}
      /\ r.older.mask = m.older.mask /\ r.older.size = m.older.size - 1
  BY <1>1, <1>2, <1>3, <1>4, DetachTable
<1>6. r.newer = m.newer /\ r.migration_pos = m.migration_pos
  BY <1>4
<1>7. Ahead(r) = Ahead(m) \ {k}
  BY <1>4, <1>6 DEF Ahead, h_detach
<1>8. Struct(r)
  BY <1>1, <1>2, <1>4, <1>5, <1>6, <1>7 DEF Struct, IsMap
<1> QED BY <1>1, <1>2, <1>5, <1>6, <1>8 DEF Contents
-----------------------------------------------------------------------------
\* The size of a set of at most one node is a natural number.
LEMMA ResultType ==
    ASSUME NEW S \in SUBSET Key, NEW A \in SUBSET Key,
           NEW op \in {"void", "lookup", "delete", "foreach"}
    PROVE  Result(op, A, S) \in Results
BY NodeSets DEF Result, Results

\* The map HMap{}.
LEMMA EmptyMap == Struct(NoMap) /\ Load(NoMap) /\ Contents(NoMap) = {}
<1>1. /\ IsTable(NoTable) /\ Nodes(NoTable) = {} /\ Placed(NoTable)
      /\ DOMAIN NoTable.tab = {}
  BY DEF IsTable, Nodes, NoTable, NULL, Placed
<1>2. Counted(NoTable)
  BY <1>1, FS_EmptySet DEF Counted, NoTable
<1>3. /\ NoMap.older = NoTable /\ NoMap.newer = NoTable /\ NoMap.migration_pos = 0
      /\ NoMap = [older |-> NoMap.older, newer |-> NoMap.newer,
                  migration_pos |-> NoMap.migration_pos]
  BY DEF NoMap
<1>4. Ahead(NoMap) = {} /\ 0 \in 0 .. MaxMask
  BY <1>1, <1>3, NodeSets DEF Ahead, MaxMask
<1>5. Struct(NoMap)
  BY <1>1, <1>2, <1>3, <1>4 DEF Struct, IsMap
<1> QED BY <1>1, <1>3, <1>5 DEF Load, Contents

\* An HMap as its members are initialised satisfies the invariant and is empty.
LEMMA InitInv == Init => IInv /\ Set!Init
<1> SUFFICES ASSUME Init
             PROVE  IInv /\ Set!Init
  OBVIOUS
<1>1. hmap = NoMap /\ ret = Void /\ aborted = FALSE /\ NDEBUG \in BOOLEAN
  BY DEF Init
<1>2. IsMap(hmap) /\ ret \in Results
  BY <1>1, EmptyMap, ResultType DEF Struct, Void
<1>3. IInv
  BY <1>1, <1>2, EmptyMap DEF IInv, TypeOK
<1> QED BY <1>1, <1>3, EmptyMap DEF Set!Init, Void, Set!Void, Result, Set!Result

\* The room in a table with n slots is at least n.
LEMMA Room ==
    ASSUME NEW n \in Nat
    PROVE  n <= n * k_max_load_factor /\ n * k_max_load_factor \in Nat
BY ConstantsAssumption

\* The load bound survives a call of hm_help_rehashing.
LEMMA HelpLoad ==
    ASSUME NEW m, Struct(m), Load(m), NEW r \in hm_help_rehashing(m)
    PROVE  Load(r)
<1>1. /\ r.newer.mask = m.newer.mask
      /\ r.newer = NoTable <=> m.newer = NoTable
      /\ r.older # NoTable => r.older.size > 0
      /\ Struct(r)
  BY HelpRehashing
<1>2. PICK q \in 0 .. m.older.size : /\ r.newer.size = m.newer.size + q
                                     /\ r.older.size = m.older.size - q
  BY HelpRehashing
<1>3. /\ m.older.size \in Nat /\ m.newer.size \in Nat /\ m.newer.mask \in Nat
      /\ r.older # NoTable => r.newer # NoTable
  BY <1>1, TableCases DEF Struct, IsMap
<1> DEFINE room == (m.newer.mask + 1) * k_max_load_factor
<1>4. room \in Nat
  BY <1>3, Room
<1>5. m.newer # NoTable => m.newer.size + 2 * m.older.size < room
  BY DEF Load
<1> HIDE DEF room
<1>6. /\ r.newer # NoTable => r.newer.size + 2 * r.older.size < room
      /\ r.older # NoTable => r.newer.size + 2 < room
  BY <1>1, <1>2, <1>3, <1>4, <1>5
<1> QED BY <1>1, <1>6 DEF Load, room

\* The load bound after hm_insert: a migration gains a node of room in the
\* older table for the node that was inserted.
LEMMA InsertLoad ==
    ASSUME Struct(hmap), Load(hmap), NEW k \in Key, k \notin Contents(hmap),
           hm_insert(k)
    PROVE  Struct(hmap') /\ Load(hmap') /\ Contents(hmap') = Contents(hmap) \cup {k}
<1> DEFINE m == Inserted(hmap, k)
           n == IF Overloaded(m) THEN hm_trigger_rehash(m) ELSE m
<1>1. /\ Struct(m) /\ Contents(m) = Contents(hmap) \cup {k}
      /\ m.newer # NoTable /\ m.older = hmap.older
      /\ m.newer.size = hmap.newer.size + 1
      /\ hmap.newer # NoTable => m.newer.mask = hmap.newer.mask
  BY InsertMap
<1>2. hmap' \in hm_help_rehashing(n)
  BY DEF hm_insert
<1> HIDE DEF m
<1>3. /\ IsTable(m.older) /\ IsTable(m.newer)
      /\ m.older.size \in Nat /\ m.newer.size \in Nat /\ m.newer.mask \in Nat
      /\ hmap.newer.size \in Nat
      /\ m.older = NoTable <=> m.older.tab = NULL
      /\ m.older = NoTable => m.older.size = 0
  BY <1>1, TableCases DEF Struct, IsMap
<1>4. CASE Overloaded(m)
  <2>1. /\ Struct(n) /\ Contents(n) = Contents(m)
        /\ n.newer # NoTable /\ n.newer.size = 0
        /\ n.newer.mask + 1 = 2 * (m.newer.size + 1)
        /\ n.older.size = m.newer.size
    BY <1>1, <1>4, TriggerMap DEF Overloaded
  <2>2. 2 * (m.newer.size + 1) <= (n.newer.mask + 1) * k_max_load_factor
    BY <1>3, <2>1, Room
  <2>3. m.newer.size >= 1
    BY <1>1, <1>3
  <2>4. Load(n)
    <3> DEFINE room == (n.newer.mask + 1) * k_max_load_factor
    <3>1. room \in Nat
      BY <1>3, <2>1, Room
    <3> HIDE DEF room
    <3>2. n.newer.size + 2 * n.older.size < room /\ n.newer.size + 2 < room
      BY <1>3, <2>1, <2>2, <2>3, <3>1 DEF room
    <3> QED BY <3>2 DEF Load, room
  <2> HIDE DEF n
  <2> QED BY <1>1, <1>2, <2>1, <2>4, HelpLoad, HelpRehashing
<1>5. CASE ~Overloaded(m)
  <2>1. n = m
    BY <1>5
  <2>2. hmap' \in hm_help_rehashing(m)
    BY <1>2, <2>1
  <2>3. /\ Struct(hmap') /\ Contents(hmap') = Contents(m)
        /\ hmap'.newer.mask = m.newer.mask /\ hmap'.newer # NoTable
        /\ hmap'.older # NoTable => hmap'.older.size > 0
    BY <1>1, <2>2, HelpRehashing
  <2>4. PICK q \in 0 .. m.older.size : /\ hmap'.newer.size = m.newer.size + q
                                       /\ hmap'.older.size = m.older.size - q
                                       /\ m.older.size > 0 => q > 0
    BY <1>1, <2>2, HelpRehashing
  <2> DEFINE room == (m.newer.mask + 1) * k_max_load_factor
  <2>5. room \in Nat
    BY <1>3, Room
  <2>6. CASE m.older = NoTable
    <3>1. m.newer.size < room
      BY <1>3, <1>5, <2>5, <2>6 DEF Overloaded
    <3> HIDE DEF room
    <3>a. hmap'.older.size = 0 /\ hmap'.newer.size = m.newer.size
      BY <1>3, <2>4, <2>6
    <3>b. hmap'.older = NoTable
      BY <2>3, <3>a
    <3>2. /\ hmap'.newer.size + 2 * hmap'.older.size < room
          /\ hmap'.older = NoTable
      BY <1>3, <2>5, <3>a, <3>b, <3>1
    <3> QED BY <1>1, <2>3, <3>2 DEF Load, room
  <2>7. CASE m.older # NoTable
    <3>1. hmap.newer # NoTable
      BY <1>1, <2>7 DEF Struct
    <3>2. /\ hmap.newer.size + 2 * m.older.size < room
          /\ hmap.newer.size + 2 < room
      BY <1>1, <2>7, <3>1 DEF Load
    <3> HIDE DEF room
    <3>3. /\ hmap'.newer.size + 2 * hmap'.older.size < room
          /\ hmap'.older # NoTable => hmap'.newer.size + 2 < room
      BY <1>1, <1>3, <2>3, <2>4, <2>5, <3>2
    <3> QED BY <1>1, <2>3, <3>3 DEF Load, room
  <2> QED BY <1>1, <2>3, <2>6, <2>7
<1> QED BY <1>4, <1>5

\* What the failed assert() of h_init leaves behind: the node is linked, and the
\* older table is the newer one.
LEMMA AbortMap ==
    ASSUME Struct(hmap), NEW k \in Key, k \notin Contents(hmap)
    PROVE  LET m == Inserted(hmap, k)
               r == [m EXCEPT !.older = m.newer] IN
           Overloaded(m) => IsMap(r) /\ Contents(r) = Contents(hmap) \cup {k}
<1> DEFINE m == Inserted(hmap, k)
           r == [m EXCEPT !.older = m.newer]
<1>1. Struct(m) /\ Contents(m) = Contents(hmap) \cup {k} /\ m.older = hmap.older
  BY InsertMap
<1> HIDE DEF m
<1>2. r = [older |-> m.newer, newer |-> m.newer, migration_pos |-> m.migration_pos]
  BY <1>1 DEF Struct, IsMap
<1>3. IsMap(r)
  BY <1>1, <1>2 DEF Struct, IsMap
<1>4. ASSUME Overloaded(m) PROVE Nodes(m.older) = {}
  BY <1>1, <1>4, TableCases DEF Struct, IsMap, Overloaded
<1>5. Overloaded(m) => Contents(r) = Contents(m)
  BY <1>2, <1>4 DEF Contents
<1> QED BY <1>1, <1>3, <1>5 DEF m

\* Every step preserves the invariant, and acts on the contents of the map as
\* the operation of NodeSet does.
LEMMA NextInv ==
    ASSUME IInv, [Next]_vars
    PROVE  IInv' /\ [Set!Next]_(Set!vars)
<1>0. CASE UNCHANGED vars
  <2>1. hmap' = hmap /\ ret' = ret /\ aborted' = aborted /\ NDEBUG' = NDEBUG
    BY <1>0 DEF vars
  <2>2. UNCHANGED Set!vars
    BY <2>1 DEF Set!vars
  <2> QED BY <2>1, <2>2 DEF IInv, TypeOK
<1> SUFFICES ASSUME Next
             PROVE  IInv' /\ Set!Next
  BY <1>0
<1>1. /\ Struct(hmap) /\ Load(hmap) /\ NDEBUG \in BOOLEAN
      /\ aborted = FALSE /\ NDEBUG' = NDEBUG
  BY DEF IInv, TypeOK, Next
<1>a. ASSUME Struct(hmap'), Load(hmap'), ret' \in Results, aborted' = aborted
      PROVE  IInv'
  BY <1>a, <1>1 DEF IInv, TypeOK, Struct
<1>2. ASSUME NEW k \in Key, hm_lookup(k)
      PROVE  IInv' /\ Set!Lookup(k)
  <2>1. hmap' \in hm_help_rehashing(hmap)
    BY <1>2 DEF hm_lookup
  <2>2. Struct(hmap') /\ Contents(hmap') = Contents(hmap) /\ Load(hmap')
    BY <1>1, <2>1, HelpRehashing, HelpLoad
  <2>3. /\ h_lookup(hmap'.newer, k) <=> k \in Nodes(hmap'.newer)
        /\ h_lookup(hmap'.older, k) <=> k \in Nodes(hmap'.older)
    BY <2>2, LookupFinds DEF Struct, IsMap
  <2>4. ret' = Result("lookup", {k}, Contents(hmap) \cap {k}) /\ UNCHANGED aborted
    BY <1>2, <2>2, <2>3 DEF hm_lookup, Contents
  <2>5. ret' \in Results
    BY <2>4, ResultType
  <2> QED BY <1>a, <2>2, <2>4, <2>5 DEF Set!Lookup, Result, Set!Result
<1>3. ASSUME NEW k \in Key, hm_insert(k)
      PROVE  IInv' /\ Set!Insert(k)
  <2>1. k \notin Contents(hmap) /\ ret' = Void /\ UNCHANGED aborted
    BY <1>3 DEF hm_insert
  <2>2. Struct(hmap') /\ Load(hmap') /\ Contents(hmap') = Contents(hmap) \cup {k}
    BY <1>1, <1>3, <2>1, InsertLoad
  <2>3. ret' \in Results
    BY <2>1, ResultType DEF Void
  <2> QED BY <1>a, <2>1, <2>2, <2>3 DEF Set!Insert, Void, Set!Void, Result, Set!Result
<1>4. ASSUME NEW k \in Key, hm_insert_aborts(k)
      PROVE  IInv' /\ Set!Insert(k)
  <2>1. /\ k \notin Contents(hmap) /\ Overloaded(Inserted(hmap, k))
        /\ hmap' = [Inserted(hmap, k) EXCEPT !.older = Inserted(hmap, k).newer]
        /\ ret' = Void /\ aborted' = TRUE
    BY <1>4 DEF hm_insert_aborts
  <2>2. IsMap(hmap') /\ Contents(hmap') = Contents(hmap) \cup {k}
    BY <1>1, <2>1, AbortMap
  <2>3. ret' \in Results
    BY <2>1, ResultType DEF Void
  <2>4. IInv'
    BY <1>1, <2>1, <2>2, <2>3 DEF IInv, TypeOK
  <2> QED BY <2>1, <2>2, <2>4 DEF Set!Insert, Void, Set!Void, Result, Set!Result
<1>5. ASSUME NEW k \in Key, hm_delete(k)
      PROVE  IInv' /\ Set!Delete(k)
  <2>1. PICK m \in hm_help_rehashing(hmap) :
        \/ /\ h_lookup(m.newer, k)
           /\ hmap' = [m EXCEPT !.newer = h_detach(@, {k})]
           /\ ret' = Result("delete", {k}, {k})
        \/ /\ h_lookup(m.older, k)
           /\ hmap' = [m EXCEPT !.older = h_detach(@, {k})]
           /\ ret' = Result("delete", {k}, {k})
        \/ /\ ~h_lookup(m.newer, k)
           /\ ~h_lookup(m.older, k)
           /\ hmap' = m
           /\ ret' = Result("delete", {k}, {})
    BY <1>5 DEF hm_delete
  <2>2. /\ Struct(m) /\ Contents(m) = Contents(hmap) /\ Load(m)
        /\ m.older # NoTable => m.older.size > 0
    BY <1>1, HelpRehashing, HelpLoad
  <2>3. /\ m.older.size \in Nat /\ m.newer.size \in Nat /\ m.newer.mask \in Nat
        /\ m.older # NoTable => m.newer # NoTable
        /\ (m.newer.mask + 1) * k_max_load_factor \in Nat
    BY <2>2, TableCases, Room DEF Struct, IsMap
  <2> DEFINE room == (m.newer.mask + 1) * k_max_load_factor
  <2>4. /\ room \in Nat
        /\ m.newer # NoTable => m.newer.size + 2 * m.older.size < room
        /\ m.older # NoTable => m.newer.size + 2 < room
    BY <2>2, <2>3 DEF Load
  <2> HIDE DEF room
  <2> SUFFICES /\ Struct(hmap') /\ Load(hmap')
               /\ Contents(hmap') = Contents(hmap) \ {k}
               /\ ret' = Result("delete", {k}, Contents(hmap) \cap {k})
    <3>1. ret' \in Results /\ UNCHANGED aborted
      BY <1>5, ResultType DEF hm_delete
    <3> QED BY <1>a, <3>1 DEF Set!Delete, Result, Set!Result
  <2>5. CASE /\ h_lookup(m.newer, k)
             /\ hmap' = [m EXCEPT !.newer = h_detach(@, {k})]
             /\ ret' = Result("delete", {k}, {k})
    <3>1. /\ Struct(hmap') /\ k \in Contents(m) /\ Contents(hmap') = Contents(m) \ {k}
          /\ hmap'.newer # NoTable /\ m.newer # NoTable /\ hmap'.older = m.older
          /\ hmap'.newer.size = m.newer.size - 1 /\ hmap'.newer.mask = m.newer.mask
      BY <2>2, <2>5, DeleteNewer
    <3>2. /\ hmap'.newer.size + 2 * hmap'.older.size < room
          /\ hmap'.older # NoTable => hmap'.newer.size + 2 < room
      BY <2>3, <2>4, <3>1
    <3>3. Load(hmap')
      BY <3>1, <3>2 DEF Load, room
    <3>4. Contents(hmap) \cap {k} = {k}
      BY <2>2, <3>1
    <3> QED BY <2>2, <2>5, <3>1, <3>3, <3>4
  <2>6. CASE /\ h_lookup(m.older, k)
             /\ hmap' = [m EXCEPT !.older = h_detach(@, {k})]
             /\ ret' = Result("delete", {k}, {k})
    <3>1. /\ Struct(hmap') /\ k \in Contents(m) /\ Contents(hmap') = Contents(m) \ {k}
          /\ m.older # NoTable /\ hmap'.newer = m.newer
          /\ hmap'.older.size = m.older.size - 1
      BY <2>2, <2>6, DeleteOlder
    <3>2. /\ hmap'.newer.size + 2 * hmap'.older.size < room
          /\ hmap'.newer.size + 2 < room
      BY <2>3, <2>4, <3>1
    <3>3. Load(hmap')
      BY <3>1, <3>2 DEF Load, room
    <3>4. Contents(hmap) \cap {k} = {k}
      BY <2>2, <3>1
    <3> QED BY <2>2, <2>6, <3>1, <3>3, <3>4
  <2>7. CASE /\ ~h_lookup(m.newer, k)
             /\ ~h_lookup(m.older, k)
             /\ hmap' = m
             /\ ret' = Result("delete", {k}, {})
    <3>1. k \notin Contents(m)
      BY <2>2, <2>7, LookupFinds DEF Struct, IsMap, Contents
    <3>2. Contents(m) \cap {k} = {} /\ Contents(m) \ {k} = Contents(m)
      BY <3>1
    <3> QED BY <2>2, <2>7, <3>2
  <2>8. QED BY <2>1, <2>5, <2>6, <2>7
<1>6. ASSUME hm_foreach
      PROVE  IInv' /\ Set!Traverse
  <2>1. /\ hmap' = hmap /\ aborted' = aborted
        /\ ret' = [op |-> "foreach", asked |-> {}, found |-> Contents(hmap), count |-> hm_size(hmap)]
    BY <1>6 DEF hm_foreach
  <2>2. Contents(hmap) \in SUBSET Key
    BY DEF Contents, Nodes
  <2>3. hm_size(hmap) = Cardinality(Contents(hmap))
    <3>1. /\ Nodes(hmap.newer) \in SUBSET Key /\ Nodes(hmap.older) \in SUBSET Key
          /\ Nodes(hmap.newer) \cap Nodes(hmap.older) = {}
          /\ Counted(hmap.newer) /\ Counted(hmap.older)
      BY <1>1 DEF Struct, Nodes
    <3>2. /\ IsFiniteSet(Nodes(hmap.newer)) /\ IsFiniteSet(Nodes(hmap.older))
          /\ Cardinality(Nodes(hmap.newer)) \in Nat
          /\ Cardinality(Nodes(hmap.older)) \in Nat
      BY <3>1, NodeSets
    <3>3. Cardinality(Nodes(hmap.newer) \cup Nodes(hmap.older))
            = Cardinality(Nodes(hmap.newer)) + Cardinality(Nodes(hmap.older))
              - Cardinality(Nodes(hmap.newer) \cap Nodes(hmap.older))
      BY <3>2, FS_Union
    <3>4. Cardinality(Nodes(hmap.newer) \cap Nodes(hmap.older)) = 0
      BY <3>1, FS_EmptySet
    <3> QED BY <3>1, <3>2, <3>3, <3>4 DEF hm_size, Contents, Counted
  <2>4. ret' = Result("foreach", {}, Contents(hmap))
    BY <2>1, <2>3 DEF Result
  <2>5. ret' \in Results
    BY <2>2, <2>4, ResultType
  <2> QED BY <1>1, <1>a, <2>1, <2>4, <2>5 DEF Set!Traverse, Result, Set!Result
<1>7. ASSUME hm_clear
      PROVE  IInv' /\ Set!Clear
  <2>1. /\ hmap' = NoMap /\ ret' = Void /\ aborted' = aborted
    BY <1>7 DEF hm_clear
  <2>2. Struct(NoMap) /\ Load(NoMap) /\ Contents(NoMap) = {}
    BY EmptyMap
  <2>3. ret' \in Results
    BY <2>1, ResultType DEF Void
  <2> QED BY <1>a, <2>1, <2>2, <2>3 DEF Set!Clear, Void, Set!Void, Result, Set!Result
<1> QED
  BY <1>2, <1>3, <1>4, <1>5, <1>6, <1>7 DEF Next, Set!Next
-----------------------------------------------------------------------------
\* The invariant holds in every reachable state.
THEOREM Invariance == Spec => []IInv
<1>1. Init => IInv
  BY InitInv
<1>2. IInv /\ [Next]_vars => IInv'
  BY NextInv
<1> QED BY <1>1, <1>2, PTL DEF Spec

\* Type correctness: the tables keep their shapes through every insertion,
\* rehash, migration and deletion.
THEOREM TypeCorrect == Spec => []TypeOK
<1>1. IInv => TypeOK
  BY DEF IInv
<1> QED BY <1>1, Invariance, PTL

\* At every stage of a migration each node is in one table only, in the slot in
\* which h_lookup looks for it, and the two counters are exact.
THEOREM MapConsistent == Spec => []Consistent
<1>1. IInv => Consistent
  BY DEF IInv, Consistent, Struct
<1> QED BY <1>1, Invariance, PTL

\* The loop of hm_help_rehashing, which tests no bound, never scans past the
\* older table: no node is behind migration_pos.
THEOREM ScanBounded == Spec => []ScanInBounds
<1>1. IInv => ScanInBounds
  BY DEF IInv, ScanInBounds, Struct
<1> QED BY <1>1, Invariance, PTL

\* The load factor is bounded although hm_insert does not test it while a
\* migration is under way, for every k_max_load_factor and k_rehashing_work.
THEOREM LoadFactorBounded == Spec => []LoadBounded
<1>1. IInv => LoadBounded
  <2> SUFFICES ASSUME IInv, ~aborted, hmap.newer # NoTable
               PROVE  hmap.newer.size < (hmap.newer.mask + 1) * k_max_load_factor
    BY DEF LoadBounded
  <2>1. /\ hmap.older.size \in Nat /\ hmap.newer.size \in Nat
        /\ hmap.newer.mask + 1 \in Nat
    BY TableCases DEF IInv, Struct, IsMap
  <2> DEFINE room == (hmap.newer.mask + 1) * k_max_load_factor
  <2>2. room \in Nat
    BY <2>1, Room
  <2>3. hmap.newer.size + 2 * hmap.older.size < room
    BY DEF IInv, Load
  <2> HIDE DEF room
  <2>4. hmap.newer.size < room
    BY <2>1, <2>2, <2>3
  <2> QED BY <2>4 DEF room
<1> QED BY <1>1, Invariance, PTL

\* The hash map implements a set of nodes: what lookups, deletions and
\* traversals answer does not depend on how far a migration has got.
THEOREM Refinement == Spec => ImplementsNodeSet
<1>1. Init => Set!Init
  BY InitInv
<1>2. IInv /\ [Next]_vars => [Set!Next]_(Set!vars)
  BY NextInv
<1> QED BY <1>1, <1>2, Invariance, PTL DEF Spec, ImplementsNodeSet, Set!Spec
=============================================================================

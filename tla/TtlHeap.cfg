CONSTANTS
    Entry = {e1, e2, e3, e4, e5, e6}
    Deadline = {1, 2, 3, 4}
SPECIFICATION Spec
SYMMETRY EntrySymmetry
INVARIANTS TypeOK HeapOrdered BackReferences
PROPERTY DeadlinesExact

------------------------------ MODULE MCJsonDb ------------------------------
EXTENDS JsonDb, TLC
CONSTANTS one, two, a, b
MCName == {a, b}
MCRootName == {"r"}
MCScalar == {[type |-> "INTEGER", value |-> 1]}
MCObserver == {one, two}
Symmetry == Permutations(MCObserver) \cup Permutations(MCName)
=============================================================================

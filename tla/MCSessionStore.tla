--------------------------- MODULE MCSessionStore ---------------------------
EXTENDS SessionStore, TLC

\* The instances are interchangeable.
StoreSymmetry == Permutations(Stores)

\* Bounds: after a write that lacks only its newline, three records (the one that lacks it,
\* the one that continues its line and the one that is then refused); where somebody selects
\* a parent, two faults within the first two records only.
FewRecords ==
    /\ unended => Len(par) < MaxEntries
    /\ branched /\ faults = MaxFaults => Len(par) < 3
=============================================================================

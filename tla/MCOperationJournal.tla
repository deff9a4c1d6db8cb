------------------------- MODULE MCOperationJournal -------------------------
(* TLC instances of OperationJournal.                                      *)
EXTENDS OperationJournal, TLC

\* Processes are interchangeable.
Symmetry == Permutations(Runtimes \ Active)
=============================================================================

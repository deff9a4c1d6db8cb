--------------------------- MODULE MCTurnMailbox ---------------------------
(* TLC instances of TurnMailbox.                                           *)
EXTENDS TurnMailbox, TLC

\* Senders are interchangeable.
Symmetry == Permutations(Senders)
=============================================================================

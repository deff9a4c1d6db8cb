-------------------------- MODULE MCOrchestration --------------------------
(* TLC instance of Orchestration: the commands are alike.                  *)
EXTENDS Orchestration, TLC

CommandsAlike == Permutations(Commands)
=============================================================================

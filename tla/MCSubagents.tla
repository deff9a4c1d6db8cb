---------------------------- MODULE MCSubagents ----------------------------
(* TLC instance of Subagents.                                              *)
EXTENDS Subagents
=============================================================================

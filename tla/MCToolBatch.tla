---------------------------- MODULE MCToolBatch ----------------------------
(* TLC instances of ToolBatch.                                             *)
EXTENDS ToolBatch
=============================================================================

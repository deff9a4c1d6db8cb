-------------------------- MODULE MCProcessService --------------------------
(* TLC instance of ProcessService.                                         *)
EXTENDS ProcessService
=============================================================================

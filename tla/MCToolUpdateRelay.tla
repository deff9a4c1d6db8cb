------------------------- MODULE MCToolUpdateRelay -------------------------
(* TLC instance of ToolUpdateRelay.                                        *)
EXTENDS ToolUpdateRelay
=============================================================================

--------------------------- MODULE MCBoardOverlap ---------------------------
(* The small databases of MCBoardService for the history of BoardOverlap.   *)
EXTENDS BoardOverlap, MCBoardService
=============================================================================

--------------------------- MODULE MCWorldStateLog ---------------------------
(* A finite instance of WorldStateLog.                                     *)
EXTENDS WorldStateLog, TLC
=============================================================================

--------------------------- MODULE MCProcessManager ---------------------------
(* A finite instance of ProcessManager: a server of the preferences, a      *)
(* controller and the name server.                                          *)
EXTENDS ProcessManager

SomePid == [id \in Id |-> IF id \in Server THEN {1, 2} ELSE {1}]
=============================================================================

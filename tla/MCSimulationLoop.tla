-------------------------- MODULE MCSimulationLoop --------------------------
(* Finite instances of SimulationLoop: who drives the item.                *)
EXTENDS SimulationDiscipline

\* Either a user at the toolbar or a Python script.
OneClient == {{"toolbar"}, {"script"}}

\* A user and a script at the same time.
BothClients == {{"toolbar", "script"}}

ScriptOnly == {{"script"}}
=============================================================================

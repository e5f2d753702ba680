--------------------- MODULE MCSqliteTelemetryRepository ---------------------
(* Instances of SqliteTelemetryRepository for TLC: the GUI thread, alone or *)
(* with one other thread that submits.                                      *)
EXTENDS SqliteTelemetryRepository

CONSTANTS gui, other
=============================================================================

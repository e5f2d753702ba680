------------------------- MODULE MCTelemetryDatabase -------------------------
(* An instance of TelemetryDatabase for TLC: batches of one chunk and of    *)
(* two, for both tables.                                                    *)
EXTENDS TelemetryDatabase

CONSTANTS gui, d1, d2

MCBatches == {[table |-> "telemetry", rows |-> <<d1, d2, d1>>],
              [table |-> "device_status", rows |-> <<d1, d1>>]}
=============================================================================

------------------------- MODULE MCMonitoringSession -------------------------
(***************************************************************************)
(* One device, and the worker's attempts not counted: the delay between    *)
(* attempts makes no difference to the session.                            *)
(***************************************************************************)
EXTENDS MonitoringSession
=============================================================================

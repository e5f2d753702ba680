------------------------ MODULE MCTcpConnectionWorker ------------------------
(***************************************************************************)
(* Small instances of TcpConnectionWorker: a delay below the least one and *)
(* one above the default maximum; timeouts off (a negative value counts as *)
(* 0) and on.                                                              *)
(***************************************************************************)
EXTENDS TcpConnectionWorker

ReconnectDelays == {-1, 40000}
OffAndOn == {-1, 200}
=============================================================================

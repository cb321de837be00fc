------------------------------ MODULE MCTcpEcho ------------------------------
(***************************************************************************)
(* Instances of TcpEcho for TLC.                                           *)
(***************************************************************************)
EXTENDS TcpEcho

CONSTANTS c1, c2

=============================================================================

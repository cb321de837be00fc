------------------------------ MODULE MCFifoChat ------------------------------
(***************************************************************************)
(* Instances of FifoChat for TLC: two clients; 0 is also typed, and -1     *)
(* stands for every number that names no process.                          *)
(***************************************************************************)
EXTENDS FifoChat

MCClients == {11, 12}
MCDests == {0, 11, 12}
MCJunk == -1

=============================================================================

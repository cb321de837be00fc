----------------------------- MODULE MCMsgqRelay -----------------------------
(***************************************************************************)
(* Instances of MsgqRelay for TLC.                                         *)
(***************************************************************************)
EXTENDS MsgqRelay

\* Pids 11 and 12 are the clients; 1 is the server's own type, 0 is no type.
MCClients == {11, 12}
MCPeers == {11, 12}
MCOneReader == {12}
MCOddDests == {0, 1, 12}

=============================================================================

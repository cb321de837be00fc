---------------------------- MODULE MCSelectEpoll ----------------------------
(***************************************************************************)
(* Instances of SelectEpoll for TLC.                                       *)
(***************************************************************************)
EXTENDS SelectEpoll

CONSTANTS c1, c2

=============================================================================

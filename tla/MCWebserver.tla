----------------------------- MODULE MCWebserver -----------------------------
(***************************************************************************)
(* Instances of Webserver for TLC.                                         *)
(***************************************************************************)
EXTENDS Webserver

CONSTANTS p1, p2, p3

=============================================================================

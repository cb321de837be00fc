--------------------------- MODULE MCShmExchange ----------------------------
(***************************************************************************)
(* Instances of ShmExchange for TLC.                                       *)
(***************************************************************************)
EXTENDS ShmExchange

CONSTANTS s1, s2, c1, c2

=============================================================================

-------------------------------- MODULE Turns -------------------------------
(***************************************************************************)
(* What pipe.c and sem_wait_post.c promise: two processes speak by turns,  *)
(* whatever they use to wait for each other.                               *)
(***************************************************************************)
EXTENDS Naturals

VARIABLES
    first,   \* how often the one has spoken that begins
    second   \* how often the other has

vars == <<first, second>>

Init == first = 0 /\ second = 0

First == first = second /\ first' = first + 1 /\ UNCHANGED second
Second == second < first /\ second' = second + 1 /\ UNCHANGED first

Spec == Init /\ [][First \/ Second]_vars

=============================================================================

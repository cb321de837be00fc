------------------------------ MODULE Collector ------------------------------
(***************************************************************************)
(* What both halves of the benchmark promise: each of the Messages that    *)
(* has been sent is counted once, and the collector is finished when it    *)
(* has counted them all, not earlier.                                      *)
(***************************************************************************)
EXTENDS Naturals, FiniteSets

CONSTANT Messages

VARIABLES sent, counted, finished

vars == <<sent, counted, finished>>

Init == sent = {} /\ counted = 0 /\ finished = FALSE

Send ==
    /\ \E m \in Messages \ sent : sent' = sent \cup {m}
    /\ UNCHANGED <<counted, finished>>

Count ==
    /\ counted < Cardinality(sent)
    /\ counted' = counted + 1
    /\ UNCHANGED <<sent, finished>>

Finish ==
    /\ counted = Cardinality(Messages) /\ ~finished
    /\ finished' = TRUE
    /\ UNCHANGED <<sent, counted>>

Next == Send \/ Count \/ Finish

Spec == Init /\ [][Next]_vars

=============================================================================

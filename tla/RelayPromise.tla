---------------------------- MODULE RelayPromise -----------------------------
(***************************************************************************)
(* What a chat relay promises its users: lines for a user wait in that     *)
(* user's box, and the user reads each of them once, in the order in which *)
(* the relay accepted them.  While every user stays connected nothing else *)
(* happens to a box; after a user has left, the left-over reader may take  *)
(* a line out of somebody else's box.  The relay may go down and come up   *)
(* again; one line at most goes down with it.                              *)
(***************************************************************************)
EXTENDS Integers, Sequences

CONSTANTS Users, Lines

VARIABLES
    waiting,  \* for each user, the lines accepted and not yet read
    ahead,    \* pairs of these lines: the first was accepted before the second
    shown,    \* for each user, the lines shown to that user
    left,     \* the users who have left
    up        \* whether the relay is running

vars == <<waiting, ahead, shown, left, up>>

Init ==
    /\ waiting = [u \in Users |-> {}]
    /\ ahead = [u \in Users |-> {}]
    /\ shown = [u \in Users |-> <<>>]
    /\ left = {}
    /\ up = TRUE

\* Nobody waits for line l or has been shown it.
Fresh(l) == \A u \in Users : l \notin waiting[u] /\ \A i \in DOMAIN shown[u] : shown[u][i] # l

Show(u, l) == shown' = [shown EXCEPT ![u] = Append(@, l)]

TakeOut(u, l) ==
    /\ waiting' = [waiting EXCEPT ![u] = @ \ {l}]
    /\ ahead' = [ahead EXCEPT ![u] = {x \in @ : x[1] # l /\ x[2] # l}]

\* The relay accepts a line for user u.
Accept(u) ==
    /\ UNCHANGED <<shown, left, up>>
    /\ \E l \in Lines :
          /\ Fresh(l)
          /\ waiting' = [waiting EXCEPT ![u] = @ \cup {l}]
          /\ ahead' = [ahead EXCEPT ![u] = @ \cup (waiting[u] \X {l})]

\* User u reads the line that nothing is ahead of.
Read(u) ==
    /\ \E l \in waiting[u] :
          /\ \A m \in waiting[u] : <<m, l>> \notin ahead[u]
          /\ TakeOut(u, l)
          /\ Show(u, l)
    /\ UNCHANGED <<left, up>>

\* The reader left behind by user u takes a line: out of the box of user v,
\* or one that is for no user.
Stray(u) ==
    /\ u \in left
    /\ \/ \E v \in Users : \E l \in waiting[v] : TakeOut(v, l) /\ Show(u, l)
       \/ /\ \E l \in Lines : Fresh(l) /\ Show(u, l)
          /\ UNCHANGED <<waiting, ahead>>
    /\ UNCHANGED <<left, up>>

Leave(u) ==
    /\ left' = left \cup {u}
    /\ UNCHANGED <<waiting, ahead, shown, up>>

\* The relay goes down, and with it the line it was passing on, if any.
GoDown ==
    /\ up /\ up' = FALSE
    /\ \/ UNCHANGED <<waiting, ahead>>
       \/ \E u \in Users : \E l \in waiting[u] : TakeOut(u, l)
    /\ UNCHANGED <<shown, left>>

ComeUp ==
    /\ ~up /\ up' = TRUE
    /\ UNCHANGED <<waiting, ahead, shown, left>>

Next ==
    \/ \E u \in Users : Accept(u) \/ Read(u) \/ Stray(u) \/ Leave(u)
    \/ GoDown
    \/ ComeUp

Spec == Init /\ [][Next]_vars

=============================================================================

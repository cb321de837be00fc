----------------------------- MODULE Labs_proofs -----------------------------
(***************************************************************************)
(* Theorems about the programs of PipeLab and IpcLab, for every number of  *)
(* rounds: pipe.c and sem_wait_post.c take turns, and the semaphores count *)
(* what they stand for.  Each program has an invariant of its own, which   *)
(* says how the place every process has reached in its script goes with    *)
(* the semaphores, the pipes and what has been printed.                    *)
(***************************************************************************)
EXTENDS LabTurns, UnixCalls_proofs

-----------------------------------------------------------------------------
\* sem_wait_post.c takes turns

\* Process p has spoken when q has as often, q when p is ahead, or nobody has.
Speaks(p, q) ==
    \/ /\ Len(out[p]) = Len(out[q])
       /\ Len(out'[p]) = Len(out[p]) + 1 /\ Len(out'[q]) = Len(out[q])
    \/ /\ Len(out[q]) < Len(out[p])
       /\ Len(out'[q]) = Len(out[q]) + 1 /\ Len(out'[p]) = Len(out[p])
    \/ Len(out'[p]) = Len(out[p]) /\ Len(out'[q]) = Len(out[q])

-----------------------------------------------------------------------------
\* sem_wait_post.c
LEMMA WaitPostChildIs ==
    /\ IsSeq(WaitPostChild) /\ Len(WaitPostChild) = 3 * Rounds + 2
    /\ \A i \in 0..Rounds - 1 : /\ WaitPostChild[3 * i + 1] = SemOp("b", -1)
                                /\ WaitPostChild[3 * i + 2] = Puts("child")
                                /\ WaitPostChild[3 * i + 3] = SemOp("a", 1)
    /\ WaitPostChild[3 * Rounds + 1] = SemUnlink("a")
    /\ WaitPostChild[3 * Rounds + 2] = SemUnlink("b")
<1> DEFINE loop == Times(Rounds, <<SemOp("b", -1), Puts("child"), SemOp("a", 1)>>)
           all == loop \o Unlinked
<1>1. Cycle3(loop, Rounds, SemOp("b", -1), Puts("child"), SemOp("a", 1))
  BY Rounds3, RoundsNat
<1>2. /\ IsSeq(Unlinked) /\ Len(Unlinked) = 2
      /\ Unlinked[1] = SemUnlink("a") /\ Unlinked[2] = SemUnlink("b")
  BY Lists DEF Unlinked
<1>3. WaitPostChild = all
  BY DEF WaitPostChild
<1> HIDE DEF loop
<1>4. Linked(all, loop, Unlinked)
  BY <1>1, <1>2, Links DEF Cycle3
<1> HIDE DEF all
<1>5. /\ IsSeq(all) /\ Len(all) = 3 * Rounds + 2
      /\ \A i \in 1..3 * Rounds : all[i] = loop[i]
      /\ all[3 * Rounds + 1] = SemUnlink("a") /\ all[3 * Rounds + 2] = SemUnlink("b")
  BY <1>1, <1>2, <1>4 DEF Linked, Cycle3
<1>6. \A i \in 0..Rounds - 1 : \A j \in 1..3 : 3 * i + j \in 1..3 * Rounds
  BY RoundsNat
<1> QED
  BY <1>1, <1>3, <1>5, <1>6 DEF Cycle3

LEMMA WaitPostIs ==
    /\ IsSeq(WaitPost) /\ Len(WaitPost) = 3 * Rounds + 6
    /\ WaitPost[1] = SemOpen("a", 1) /\ WaitPost[2] = SemOpen("b", 0)
    /\ WaitPost[3] = Fork(WaitPostChild)
    /\ \A i \in 0..Rounds - 1 : /\ WaitPost[3 * i + 4] = SemOp("a", -1)
                                /\ WaitPost[3 * i + 5] = Puts("parent")
                                /\ WaitPost[3 * i + 6] = SemOp("b", 1)
    /\ WaitPost[3 * Rounds + 4] = Wait
    /\ WaitPost[3 * Rounds + 5] = SemUnlink("a")
    /\ WaitPost[3 * Rounds + 6] = SemUnlink("b")
<1> DEFINE start == <<SemOpen("a", 1), SemOpen("b", 0), Fork(WaitPostChild)>>
           loop == Times(Rounds, <<SemOp("a", -1), Puts("parent"), SemOp("b", 1)>>)
           two == start \o loop
           three == two \o <<Wait>>
           all == three \o Unlinked
<1>1. Cycle3(loop, Rounds, SemOp("a", -1), Puts("parent"), SemOp("b", 1))
  BY Rounds3, RoundsNat
<1>2. /\ IsSeq(Unlinked) /\ Len(Unlinked) = 2
      /\ Unlinked[1] = SemUnlink("a") /\ Unlinked[2] = SemUnlink("b")
  BY Lists DEF Unlinked
<1>3. /\ IsSeq(start) /\ Len(start) = 3
      /\ start[1] = SemOpen("a", 1) /\ start[2] = SemOpen("b", 0)
      /\ start[3] = Fork(WaitPostChild)
  BY Lists
<1>4. WaitPost = all
  BY DEF WaitPost
<1> HIDE DEF start, loop
<1>5. Linked(two, start, loop)
  BY <1>1, <1>3, Links DEF Cycle3
<1> HIDE DEF two
<1>6. IsSeq(<<Wait>>) /\ Len(<<Wait>>) = 1 /\ <<Wait>>[1] = Wait
  BY Singles
<1>7. Linked(three, two, <<Wait>>)
  BY <1>5, <1>6, Links DEF Linked
<1> HIDE DEF three
<1>8. Linked(all, three, Unlinked)
  <2>1. IsSeq(three)
    BY <1>7 DEF Linked
  <2> QED
    BY <1>2, <2>1, Links
<1> HIDE DEF all
<1>9. /\ Len(two) = 3 * Rounds + 3 /\ Len(loop) = 3 * Rounds
      /\ \A i \in 1..3 : two[i] = start[i]
      /\ \A i \in 1..3 * Rounds : two[3 + i] = loop[i]
  BY <1>1, <1>3, <1>5, RoundsNat DEF Linked, Cycle3
<1>10. /\ Len(three) = 3 * Rounds + 4
       /\ \A i \in 1..3 * Rounds + 3 : three[i] = two[i]
       /\ three[3 * Rounds + 4] = Wait
  BY <1>6, <1>7, <1>9, RoundsNat DEF Linked
<1>11. /\ IsSeq(all) /\ Len(all) = 3 * Rounds + 6
       /\ \A i \in 1..3 * Rounds + 4 : all[i] = three[i]
       /\ all[3 * Rounds + 5] = SemUnlink("a") /\ all[3 * Rounds + 6] = SemUnlink("b")
  BY <1>2, <1>8, <1>10, RoundsNat DEF Linked
<1>12. \A i \in 1..3 * Rounds : all[3 + i] = loop[i]
  BY <1>9, <1>10, <1>11, RoundsNat
<1>13. ASSUME NEW i \in 0..Rounds - 1
       PROVE  /\ all[3 * i + 4] = loop[3 * i + 1]
              /\ all[3 * i + 5] = loop[3 * i + 2]
              /\ all[3 * i + 6] = loop[3 * i + 3]
  <2>1. \A j \in 1..3 : 3 * i + j \in 1..3 * Rounds /\ 3 + (3 * i + j) = 3 * i + (3 + j)
    BY RoundsNat
  <2>2. \A j \in 1..3 : all[3 * i + (3 + j)] = loop[3 * i + j]
    BY <1>12, <2>1
  <2> QED
    BY <2>2
<1>14. /\ all[1] = start[1] /\ all[2] = start[2] /\ all[3] = start[3]
       /\ all[3 * Rounds + 4] = Wait
  BY <1>9, <1>10, <1>11, RoundsNat
<1> QED
  BY <1>1, <1>3, <1>4, <1>11, <1>13, <1>14 DEF Cycle3

\* m runs main of sem_wait_post.c and is in call j of round i; its child c makes t
\* more calls after its rounds.
MainAt(m, i, j) ==
    /\ proc[m].st = "run" /\ proc[m].todo = From(WaitPost, 3 * i + j + 4)
    /\ {<<"a", "s">>, <<"b", "s">>} \subseteq proc[m].fds
ChildAt(m, c, i, j, t) ==
    /\ proc[c].ppid = m
    /\ \/ proc[c].st = "run" /\ proc[c].todo = From(WaitPostChild, 3 * i + j + t + 1)
       \/ proc[c].st = "zombie" /\ i = Rounds

Places(i1, j1, i2, j2, t) ==
    /\ i1 \in 0..Rounds /\ i2 \in 0..Rounds /\ {j1, j2, t} \subseteq 0..2
    /\ i1 = Rounds => j1 = 0
    /\ i2 = Rounds => j2 = 0
    /\ i2 # Rounds => t = 0

\* The token is in one of the semaphores or taken out.
Tokens(i1, j1, i2, j2) ==
    /\ sem["a"] = 1 + i2 - i1 - (IF j1 = 0 THEN 0 ELSE 1) /\ sem["a"] >= 0
    /\ sem["b"] = i1 - i2 - (IF j2 = 0 THEN 0 ELSE 1) /\ sem["b"] >= 0

Words(m, c, i1, j1, i2, j2) ==
    /\ Len(out[m]) = i1 + (IF j1 = 2 THEN 1 ELSE 0)
    /\ Len(out[c]) = i2 + (IF j2 = 2 THEN 1 ELSE 0)

InTurn(m, c, i1, j1, i2, j2, t) ==
    /\ Places(i1, j1, i2, j2, t) /\ MainAt(m, i1, j1) /\ ChildAt(m, c, i2, j2, t)
    /\ Tokens(i1, j1, i2, j2) /\ Words(m, c, i1, j1, i2, j2)

\* Before the fork, at call k
Starts(m, c, k) ==
    /\ proc[m].st = "run" /\ proc[m].todo = From(WaitPost, k) /\ proc[c].st = "none"
    /\ sem["a"] = (IF k = 1 THEN NoSem ELSE 1) /\ (k > 1 => <<"a", "s">> \in proc[m].fds)
    /\ sem["b"] = (IF k = 3 THEN 0 ELSE NoSem) /\ (k = 3 => <<"b", "s">> \in proc[m].fds)
    /\ Len(out[m]) = 0 /\ Len(out[c]) = 0

\* After the wait: the token is back in its semaphore, or unlinked with it.
Done(m, c) ==
    /\ proc[c].st = "gone" /\ sem["a"] \in {NoSem, 1} /\ sem["b"] \in {NoSem, 0}
    /\ proc[m].st = "run" =>
           \E k \in 3 * Rounds + 5..3 * Rounds + 7 : proc[m].todo = From(WaitPost, k)

\* Others are not there yet, or came before and are no children.
Pair(m, c) ==
    \A q \in Pids \ {m, c} :
        \/ c < q /\ proc[q].st = "none"
        \/ q < m /\ proc[q].st # "none" /\ proc[q].ppid = 0

WaitPostInv(m, c) ==
    /\ Quiet /\ Pair(m, c)
    /\ \/ \E k \in 1..3 : Starts(m, c, k)
       \/ \E i1 \in 0..Rounds, j1 \in 0..2, i2 \in 0..Rounds, j2 \in 0..2, t \in 0..2 :
             InTurn(m, c, i1, j1, i2, j2, t)
       \/ Done(m, c)

LEMMA Named == 1 \in Pids /\ 2 \in Pids /\ "a" \in Objects /\ "b" \in Objects
BY PipeAssumption

LEMMA GoesPair ==
    ASSUME NEW m \in Pids, NEW c \in Pids, m # c,
           Pair(m, c), NEW p \in {m, c}, NEW s, NEW k, Goes(p, s, k)
    PROVE  Pair(m, c)'
BY DEF Pair, Goes

LEMMA StartsTurn ==
    ASSUME NEW m \in Pids, NEW c \in Pids, m # c,
           TInv, Quiet, Pair(m, c), NEW k \in 1..3, Starts(m, c, k), Turn(m)
    PROVE  WaitPostInv(m, c)' /\ Speaks(m, c)
<1>1. Table(proc) /\ Semaphores
  BY DEF TInv, IInv
<1>2. ASSUME k = 1 PROVE WaitPostInv(m, c)' /\ Speaks(m, c)
  <2>1. Reached(m, WaitPost, 1, SemOpen("a", 1))
    BY <1>1, <1>2, WaitPostIs, RoundsNat DEF Reached, Starts
  <2>2. /\ Goes(m, WaitPost, 1 + 1) /\ proc'[m].fds = proc[m].fds \cup {<<"a", "s">>}
        /\ sem'["a"] = 1 /\ sem'["b"] = sem["b"]
        /\ UNCHANGED out
    <3>1. Opened("a", 1) /\ Goes(m, WaitPost, 1 + 1)
          /\ proc'[m].fds = proc[m].fds \cup {<<"a", "s">>} /\ UNCHANGED out
      BY <1>1, <2>1, OnSemOpen, Named
    <3> QED
      BY <1>2, <3>1, Named DEF Starts, Opened, OnlySem
  <2>3. Starts(m, c, 2)'
    BY <1>2, <2>2, Named DEF Starts, Goes
  <2>4. Quiet' /\ Pair(m, c)'
    BY <2>2, Named, GoesQuiet, GoesPair
  <2> QED
    BY <2>2, <2>3, <2>4 DEF WaitPostInv, Speaks
<1>3. ASSUME k = 2 PROVE WaitPostInv(m, c)' /\ Speaks(m, c)
  <2>1. Reached(m, WaitPost, 2, SemOpen("b", 0))
    BY <1>1, <1>3, WaitPostIs, RoundsNat DEF Reached, Starts
  <2>2. /\ Goes(m, WaitPost, 2 + 1) /\ proc'[m].fds = proc[m].fds \cup {<<"b", "s">>}
        /\ sem'["b"] = 0 /\ sem'["a"] = sem["a"]
        /\ UNCHANGED out
    <3>1. Opened("b", 0) /\ Goes(m, WaitPost, 2 + 1)
          /\ proc'[m].fds = proc[m].fds \cup {<<"b", "s">>} /\ UNCHANGED out
      BY <1>1, <2>1, OnSemOpen, Named
    <3> QED
      BY <1>3, <3>1, Named DEF Starts, Opened, OnlySem
  <2>3. Starts(m, c, 3)'
    BY <1>3, <2>2, Named DEF Starts, Goes
  <2>4. Quiet' /\ Pair(m, c)'
    BY <2>2, Named, GoesQuiet, GoesPair
  <2> QED
    BY <2>2, <2>3, <2>4 DEF WaitPostInv, Speaks
<1>4. ASSUME k = 3 PROVE WaitPostInv(m, c)' /\ Speaks(m, c)
  <2>1. Reached(m, WaitPost, 3, Fork(WaitPostChild))
    BY <1>1, <1>4, WaitPostIs, RoundsNat DEF Reached, Starts
  <2>2. \A q \in Pids : proc[q].st = "none" => c <= q
    BY PidsPositive DEF Starts, Pair
  <2>3. /\ proc'[m].st = "run" /\ proc'[m].todo = From(WaitPost, 4)
        /\ proc'[m].fds = proc[m].fds
        /\ proc'[c].st = "run" /\ proc'[c].todo = WaitPostChild /\ proc'[c].ppid = m
        /\ Only({m, c}) /\ Quiet' /\ UNCHANGED <<sem, out>>
    <3>1. proc[c].st = "none"
      BY DEF Starts
    <3> QED
      BY <2>1, <2>2, <3>1, OnFork
  <2>4. From(WaitPostChild, 1) = WaitPostChild
    BY Ends, WaitPostChildIs
  <2>5. MainAt(m, 0, 0)' /\ ChildAt(m, c, 0, 0, 0)' /\ Tokens(0, 0, 0, 0)' /\ Words(m, c, 0, 0, 0, 0)'
    BY <1>4, <2>3, <2>4 DEF MainAt, ChildAt, Tokens, Words, Starts
  <2>6. Places(0, 0, 0, 0, 0)
    BY RoundsNat DEF Places
  <2>7. InTurn(m, c, 0, 0, 0, 0, 0)'
    BY <2>5, <2>6 DEF InTurn, Places
  <2>8. Pair(m, c)'
    BY <2>3 DEF Pair, Only
  <2>9. WaitPostInv(m, c)'
    BY <2>3, <2>7, <2>8, RoundsNat DEF WaitPostInv
  <2> QED
    BY <2>3, <2>9 DEF Speaks
<1> QED
  BY <1>2, <1>3, <1>4

LEMMA MainGoes ==
    ASSUME NEW m \in Pids, NEW c \in Pids, m # c,
           NEW i, NEW j, NEW i1, NEW j1, NEW i2, NEW j2, NEW t,
           MainAt(m, i1, j1), ChildAt(m, c, i2, j2, t),
           Goes(m, WaitPost, 3 * i + j + 4), proc'[m].fds = proc[m].fds
    PROVE  MainAt(m, i, j)' /\ ChildAt(m, c, i2, j2, t)'
BY Named DEF MainAt, ChildAt, Goes

LEMMA ChildGoes ==
    ASSUME NEW m \in Pids, NEW c \in Pids, m # c,
           NEW i, NEW j, NEW u, NEW i1, NEW j1, NEW i2, NEW j2, NEW t,
           MainAt(m, i1, j1), ChildAt(m, c, i2, j2, t), proc[c].st = "run",
           Goes(c, WaitPostChild, 3 * i + j + u + 1)
    PROVE  MainAt(m, i1, j1)' /\ ChildAt(m, c, i, j, u)'
BY Named DEF MainAt, ChildAt, Goes

\* A turn of main between the fork and the end of the wait
LEMMA MainTurn ==
    ASSUME NEW m \in Pids, NEW c \in Pids, m # c,
           TInv, Quiet, Pair(m, c), NEW i1, NEW j1, NEW i2, NEW j2, NEW t,
           InTurn(m, c, i1, j1, i2, j2, t), Turn(m)
    PROVE  WaitPostInv(m, c)' /\ Speaks(m, c)
<1>1. Table(proc) /\ Semaphores /\ Output
  BY DEF TInv, IInv
<1>2. /\ Places(i1, j1, i2, j2, t) /\ MainAt(m, i1, j1) /\ ChildAt(m, c, i2, j2, t)
      /\ Tokens(i1, j1, i2, j2) /\ Words(m, c, i1, j1, i2, j2)
  BY DEF InTurn
<1>3. /\ i1 \in 0..Rounds /\ i2 \in 0..Rounds /\ j1 \in 0..2 /\ j2 \in 0..2 /\ t \in 0..2
      /\ (i1 = Rounds => j1 = 0)
  BY <1>2 DEF Places
<1>4. CASE i1 = Rounds
  <2>1. Reached(m, WaitPost, 3 * Rounds + 4, Wait)
    BY <1>1, <1>2, <1>3, <1>4, WaitPostIs, RoundsNat DEF Reached, MainAt
  <2>2. Children(m) = {c}
    <3>1. proc[m].ppid # m
      BY Named DEF TInv, IInv, ProcessTable
    <3>2. proc[c].ppid = m /\ proc[c].st \in {"run", "zombie"}
      BY <1>2 DEF ChildAt
    <3>3. \A q \in Pids \ {m, c} : proc[q].st \notin {"run", "zombie"} \/ proc[q].ppid # m
      BY PidsPositive DEF Pair
    <3> QED
      BY <3>1, <3>2, <3>3 DEF Children
  <2>3. /\ proc'[c].st = "gone"
        /\ proc'[m].st = "run" /\ proc'[m].todo = From(WaitPost, 3 * Rounds + 4 + 1)
        /\ proc[c].st = "zombie" /\ Only({m, c})
        /\ Quiet' /\ UNCHANGED <<sem, out>>
    <3> DEFINE k == 3 * Rounds + 4
    <3>4. Reached(m, WaitPost, k, Wait) /\ IInv
      BY <2>1 DEF TInv
    <3> HIDE DEF k
    <3>5. /\ Children(m) = {} \/ \E q \in Children(m) : Reaps(m, q)
          /\ proc'[m].st = "run" /\ proc'[m].todo = From(WaitPost, k + 1)
          /\ AllAlike /\ UNCHANGED <<sem, out>>
      BY <3>4, OnWait
    <3>1. /\ \E q \in Children(m) : Reaps(m, q)
          /\ proc'[m].st = "run" /\ proc'[m].todo = From(WaitPost, 3 * Rounds + 4 + 1)
          /\ AllAlike
          /\ UNCHANGED <<sem, out>>
      BY <2>2, <3>5 DEF k
    <3>2. Quiet'
      BY <3>1, AlikeQuiet
    <3>3. Reaps(m, c)
      BY <2>2, <3>1
    <3> QED
      BY <3>1, <3>2, <3>3 DEF Reaps
  <2>4. Done(m, c)' /\ Pair(m, c)'
    BY <1>2, <1>3, <1>4, <2>3, RoundsNat DEF Done, Pair, Only, ChildAt, Places, Tokens
  <2> QED
    BY <2>3, <2>4 DEF WaitPostInv, Speaks
<1>5. ASSUME i1 # Rounds, j1 = 0 PROVE WaitPostInv(m, c)' /\ Speaks(m, c)
  <2>1. Reached(m, WaitPost, 3 * i1 + 4, SemOp("a", -1))
    BY <1>1, <1>2, <1>3, <1>5, WaitPostIs, RoundsNat DEF Reached, MainAt
  <2>2. /\ Goes(m, WaitPost, 3 * i1 + 4 + 1) /\ proc'[m].fds = proc[m].fds
        /\ sem["a"] + -1 >= 0 /\ sem'["a"] = sem["a"] + -1 /\ sem'["b"] = sem["b"]
        /\ UNCHANGED out
    BY <1>1, <2>1, OnSemOp, Named
  <2>3. 3 * i1 + 4 + 1 = 3 * i1 + 1 + 4
    BY <1>3
  <2>4. MainAt(m, i1, 1)' /\ ChildAt(m, c, i2, j2, t)'
    BY <1>2, <2>2, <2>3, MainGoes
  <2>5. Places(i1, 1, i2, j2, t)
    BY <1>2, <1>5 DEF Places
  <2>6. Tokens(i1, 1, i2, j2)' /\ Words(m, c, i1, 1, i2, j2)'
    BY <1>2, <1>3, <1>5, <2>2, RoundsNat DEF Tokens, Words
  <2>7. InTurn(m, c, i1, 1, i2, j2, t)'
    BY <2>4, <2>5, <2>6 DEF InTurn, Places
  <2>8. Quiet' /\ Pair(m, c)'
    BY <2>2, Named, GoesQuiet, GoesPair
  <2> QED
    BY <1>3, <2>2, <2>7, <2>8 DEF WaitPostInv, Speaks
<1>6. ASSUME i1 # Rounds, j1 = 1 PROVE WaitPostInv(m, c)' /\ Speaks(m, c)
  <2>1. Reached(m, WaitPost, 3 * i1 + 5, Puts("parent"))
    BY <1>1, <1>2, <1>3, <1>6, WaitPostIs, RoundsNat DEF Reached, MainAt
  <2>2. /\ Goes(m, WaitPost, 3 * i1 + 5 + 1) /\ proc'[m].fds = proc[m].fds
        /\ out' = [out EXCEPT ![m] = Append(@, "parent")] /\ UNCHANGED sem
    BY <2>1, OnPuts, Named
  <2>3. 3 * i1 + 5 + 1 = 3 * i1 + 2 + 4
    BY <1>3
  <2>4. MainAt(m, i1, 2)' /\ ChildAt(m, c, i2, j2, t)'
    BY <1>2, <2>2, <2>3, MainGoes
  <2>5. Places(i1, 2, i2, j2, t)
    BY <1>2, <1>6 DEF Places
  <2>6. Len(out'[m]) = Len(out[m]) + 1 /\ out'[c] = out[c]
    <3>1. Len(out'[m]) = Len(out[m]) + 1 /\ \A q \in Pids \ {m} : out'[q] = out[q]
      BY <1>1, <2>2, Spoke, Named
    <3> QED
      BY <3>1, Named
  <2>7. Tokens(i1, 2, i2, j2)' /\ Words(m, c, i1, 2, i2, j2)'
    BY <1>2, <1>3, <1>6, <2>2, <2>6, RoundsNat DEF Tokens, Words
  <2>8. InTurn(m, c, i1, 2, i2, j2, t)'
    BY <2>4, <2>5, <2>7 DEF InTurn, Places
  <2>9. Quiet' /\ Pair(m, c)'
    BY <2>2, Named, GoesQuiet, GoesPair
  <2>10. Len(out[m]) = Len(out[c])
    BY <1>2, <1>3, <1>6, RoundsNat DEF Tokens, Words
  <2> QED
    BY <1>3, <2>6, <2>8, <2>9, <2>10 DEF WaitPostInv, Speaks
<1>7. ASSUME i1 # Rounds, j1 = 2 PROVE WaitPostInv(m, c)' /\ Speaks(m, c)
  <2>1. Reached(m, WaitPost, 3 * i1 + 6, SemOp("b", 1))
    BY <1>1, <1>2, <1>3, <1>7, WaitPostIs, RoundsNat DEF Reached, MainAt
  <2>2. /\ Goes(m, WaitPost, 3 * i1 + 6 + 1) /\ proc'[m].fds = proc[m].fds
        /\ sem'["b"] = sem["b"] + 1 /\ sem'["a"] = sem["a"]
        /\ UNCHANGED out
    BY <1>1, <2>1, OnSemOp, Named
  <2>3. 3 * i1 + 6 + 1 = 3 * (i1 + 1) + 0 + 4
    BY <1>3
  <2>4. MainAt(m, i1 + 1, 0)' /\ ChildAt(m, c, i2, j2, t)'
    BY <1>2, <2>2, <2>3, MainGoes
  <2>5. Places(i1 + 1, 0, i2, j2, t)
    BY <1>2, <1>7, RoundsNat DEF Places
  <2>6. Tokens(i1 + 1, 0, i2, j2)' /\ Words(m, c, i1 + 1, 0, i2, j2)'
    <3>1. Tokens(i1 + 1, 0, i2, j2)'
      BY <1>2, <1>3, <1>7, <2>2 DEF Tokens
    <3>2. Words(m, c, i1 + 1, 0, i2, j2)'
      BY <1>2, <1>3, <1>7, <2>2 DEF Words
    <3> QED
      BY <3>1, <3>2
  <2>7. InTurn(m, c, i1 + 1, 0, i2, j2, t)'
    BY <2>4, <2>5, <2>6 DEF InTurn, Places
  <2>8. Quiet' /\ Pair(m, c)'
    BY <2>2, Named, GoesQuiet, GoesPair
  <2>9. i1 + 1 \in 0..Rounds
    BY <1>3, <1>7, RoundsNat
  <2> QED
    BY <1>3, <2>2, <2>7, <2>8, <2>9 DEF WaitPostInv, Speaks
<1> QED
  BY <1>3, <1>4, <1>5, <1>6, <1>7

\* A turn of the child
LEMMA ChildTurn ==
    ASSUME NEW m \in Pids, NEW c \in Pids, m # c,
           TInv, Quiet, Pair(m, c), NEW i1, NEW j1, NEW i2, NEW j2, NEW t,
           InTurn(m, c, i1, j1, i2, j2, t), Turn(c)
    PROVE  WaitPostInv(m, c)' /\ Speaks(m, c)
<1>1. Table(proc) /\ Semaphores /\ Output
  BY DEF TInv, IInv
<1>2. /\ Places(i1, j1, i2, j2, t) /\ MainAt(m, i1, j1) /\ ChildAt(m, c, i2, j2, t)
      /\ Tokens(i1, j1, i2, j2) /\ Words(m, c, i1, j1, i2, j2)
  BY DEF InTurn
<1>3. /\ i1 \in 0..Rounds /\ i2 \in 0..Rounds /\ j1 \in 0..2 /\ j2 \in 0..2 /\ t \in 0..2
      /\ (i1 = Rounds => j1 = 0) /\ (i2 = Rounds => j2 = 0) /\ (i2 # Rounds => t = 0)
  BY <1>2 DEF Places
<1>4. proc[c].st = "run" /\ proc[c].todo = From(WaitPostChild, 3 * i2 + j2 + t + 1)
  BY <1>2, Running DEF ChildAt
<1>5. ASSUME i2 # Rounds, j2 = 0 PROVE WaitPostInv(m, c)' /\ Speaks(m, c)
  <2>1. Reached(c, WaitPostChild, 3 * i2 + 1, SemOp("b", -1))
    BY <1>1, <1>3, <1>4, <1>5, WaitPostChildIs, RoundsNat DEF Reached
  <2>2. /\ Goes(c, WaitPostChild, 3 * i2 + 1 + 1)
        /\ sem["b"] + -1 >= 0 /\ sem'["b"] = sem["b"] + -1 /\ sem'["a"] = sem["a"]
        /\ UNCHANGED out
    BY <1>1, <2>1, OnSemOp, Named
  <2>3. 3 * i2 + 1 + 1 = 3 * i2 + 1 + 0 + 1
    BY <1>3
  <2>4. MainAt(m, i1, j1)' /\ ChildAt(m, c, i2, 1, 0)'
    BY <1>2, <1>4, <2>2, <2>3, ChildGoes
  <2>5. Places(i1, j1, i2, 1, 0)
    BY <1>2, <1>5 DEF Places
  <2>6. Tokens(i1, j1, i2, 1)' /\ Words(m, c, i1, j1, i2, 1)'
    BY <1>2, <1>3, <1>5, <2>2, RoundsNat DEF Tokens, Words
  <2>7. InTurn(m, c, i1, j1, i2, 1, 0)'
    BY <2>4, <2>5, <2>6 DEF InTurn, Places
  <2>8. Quiet' /\ Pair(m, c)'
    BY <2>2, Named, GoesQuiet, GoesPair
  <2> QED
    BY <1>3, <2>2, <2>7, <2>8 DEF WaitPostInv, Speaks
<1>6. ASSUME i2 # Rounds, j2 = 1 PROVE WaitPostInv(m, c)' /\ Speaks(m, c)
  <2>1. Reached(c, WaitPostChild, 3 * i2 + 2, Puts("child"))
    BY <1>1, <1>3, <1>4, <1>6, WaitPostChildIs, RoundsNat DEF Reached
  <2>2. /\ Goes(c, WaitPostChild, 3 * i2 + 2 + 1)
        /\ out' = [out EXCEPT ![c] = Append(@, "child")] /\ UNCHANGED sem
    BY <2>1, OnPuts, Named
  <2>3. 3 * i2 + 2 + 1 = 3 * i2 + 2 + 0 + 1
    BY <1>3
  <2>4. MainAt(m, i1, j1)' /\ ChildAt(m, c, i2, 2, 0)'
    BY <1>2, <1>4, <2>2, <2>3, ChildGoes
  <2>5. Places(i1, j1, i2, 2, 0)
    BY <1>2, <1>6 DEF Places
  <2>6. Len(out'[c]) = Len(out[c]) + 1 /\ out'[m] = out[m]
    <3>1. Len(out'[c]) = Len(out[c]) + 1 /\ \A q \in Pids \ {c} : out'[q] = out[q]
      BY <1>1, <2>2, Spoke, Named
    <3> QED
      BY <3>1, Named
  <2>7. Tokens(i1, j1, i2, 2)' /\ Words(m, c, i1, j1, i2, 2)'
    BY <1>2, <1>3, <1>6, <2>2, <2>6, RoundsNat DEF Tokens, Words
  <2>8. InTurn(m, c, i1, j1, i2, 2, 0)'
    BY <2>4, <2>5, <2>7 DEF InTurn, Places
  <2>9. Quiet' /\ Pair(m, c)'
    BY <2>2, Named, GoesQuiet, GoesPair
  <2>10. Len(out[c]) < Len(out[m])
    BY <1>2, <1>3, <1>6, RoundsNat DEF Tokens, Words
  <2> QED
    BY <1>3, <2>6, <2>8, <2>9, <2>10 DEF WaitPostInv, Speaks
<1>7. ASSUME i2 # Rounds, j2 = 2 PROVE WaitPostInv(m, c)' /\ Speaks(m, c)
  <2>1. Reached(c, WaitPostChild, 3 * i2 + 3, SemOp("a", 1))
    BY <1>1, <1>3, <1>4, <1>7, WaitPostChildIs, RoundsNat DEF Reached
  <2>2. /\ Goes(c, WaitPostChild, 3 * i2 + 3 + 1)
        /\ sem'["a"] = sem["a"] + 1 /\ sem'["b"] = sem["b"]
        /\ UNCHANGED out
    BY <1>1, <2>1, OnSemOp, Named
  <2>3. 3 * i2 + 3 + 1 = 3 * (i2 + 1) + 0 + 0 + 1
    BY <1>3
  <2>4. MainAt(m, i1, j1)' /\ ChildAt(m, c, i2 + 1, 0, 0)'
    BY <1>2, <1>4, <2>2, <2>3, ChildGoes
  <2>5. Places(i1, j1, i2 + 1, 0, 0)
    BY <1>2, <1>7, RoundsNat DEF Places
  <2>6. Tokens(i1, j1, i2 + 1, 0)' /\ Words(m, c, i1, j1, i2 + 1, 0)'
    BY <1>2, <1>3, <1>7, <2>2, RoundsNat DEF Tokens, Words
  <2>7. InTurn(m, c, i1, j1, i2 + 1, 0, 0)'
    BY <2>4, <2>5, <2>6 DEF InTurn, Places
  <2>8. Quiet' /\ Pair(m, c)'
    BY <2>2, Named, GoesQuiet, GoesPair
  <2>9. i2 + 1 \in 0..Rounds
    BY <1>3, <1>7, RoundsNat
  <2> QED
    BY <1>3, <2>2, <2>7, <2>8, <2>9 DEF WaitPostInv, Speaks
<1>8. ASSUME i2 = Rounds, NEW x \in {"a", "b"}, NEW u \in 0..1, t = u,
             WaitPostChild[3 * Rounds + u + 1] = SemUnlink(x)
      PROVE  WaitPostInv(m, c)' /\ Speaks(m, c)
  <2>1. Reached(c, WaitPostChild, 3 * Rounds + u + 1, SemUnlink(x))
    BY <1>1, <1>3, <1>4, <1>8, WaitPostChildIs, RoundsNat DEF Reached
  <2>2. m \in Pids \ {c} /\ <<x, "s">> \in proc[m].fds
    BY <1>2, <1>8, Named DEF MainAt
  <2>3. /\ Goes(c, WaitPostChild, 3 * Rounds + u + 1 + 1) /\ sem' = sem
        /\ UNCHANGED out
    BY <1>1, <2>1, <2>2, OnUnlink, Named
  <2>4. 3 * Rounds + u + 1 + 1 = 3 * i2 + 0 + (u + 1) + 1
    BY <1>8, RoundsNat
  <2>5. MainAt(m, i1, j1)' /\ ChildAt(m, c, i2, 0, u + 1)'
    BY <1>2, <1>4, <2>3, <2>4, ChildGoes
  <2>6. Places(i1, j1, i2, 0, u + 1)
    BY <1>2, <1>8 DEF Places
  <2>7. Tokens(i1, j1, i2, 0)' /\ Words(m, c, i1, j1, i2, 0)'
    BY <1>2, <1>3, <1>8, <2>3 DEF Tokens, Words
  <2>8. InTurn(m, c, i1, j1, i2, 0, u + 1)'
    BY <2>5, <2>6, <2>7 DEF InTurn, Places
  <2>9. Quiet' /\ Pair(m, c)'
    BY <2>3, Named, GoesQuiet, GoesPair
  <2>10. u + 1 \in 0..2
    OBVIOUS
  <2> QED
    BY <1>3, <2>3, <2>8, <2>9, <2>10 DEF WaitPostInv, Speaks
<1>9. ASSUME i2 = Rounds, t = 2 PROVE WaitPostInv(m, c)' /\ Speaks(m, c)
  <2>1. proc[c].todo = <<>>
    <3>1. 3 * i2 + j2 + t + 1 = Len(WaitPostChild) + 1
      BY <1>3, <1>9, WaitPostChildIs, RoundsNat
    <3> QED
      BY <1>4, <3>1, Ends, WaitPostChildIs
  <2>2. proc[c].ppid = m /\ proc[m].st = "run"
    BY <1>2 DEF ChildAt, MainAt
  <2>3. /\ proc'[c].st = "zombie" /\ proc'[c].ppid = m
        /\ proc'[m].st = "run" /\ proc'[m].todo = proc[m].todo /\ proc'[m].fds = proc[m].fds
        /\ \A q \in Pids \ {c} :
              /\ proc[q].st # "zombie" => proc'[q].st = proc[q].st
              /\ proc[q].ppid # c => proc'[q].st = proc[q].st /\ proc'[q].ppid = proc[q].ppid
        /\ Quiet' /\ UNCHANGED <<sem, out>>
    BY <1>1, <2>1, <2>2, OnQuietEnd, Named
  <2>4. MainAt(m, i1, j1)' /\ ChildAt(m, c, i2, 0, 2)'
    BY <1>2, <1>9, <2>3 DEF MainAt, ChildAt
  <2>5. Tokens(i1, j1, i2, 0)' /\ Words(m, c, i1, j1, i2, 0)'
    BY <1>2, <1>3, <1>9, <2>3 DEF Tokens, Words
  <2>6. InTurn(m, c, i1, j1, i2, 0, 2)'
    BY <1>2, <1>3, <1>9, <2>4, <2>5 DEF InTurn, Places
  <2>7. Pair(m, c)'
    BY <2>3, PidsPositive DEF Pair
  <2> QED
    BY <1>3, <2>3, <2>6, <2>7 DEF WaitPostInv, Speaks
<1>10. CASE i2 = Rounds
  <2>1. CASE t = 0
    <3>1. WaitPostChild[3 * Rounds + 0 + 1] = SemUnlink("a")
      BY WaitPostChildIs, RoundsNat
    <3> QED
      BY <1>8, <1>10, <2>1, <3>1
  <2>2. CASE t = 1
    <3>1. WaitPostChild[3 * Rounds + 1 + 1] = SemUnlink("b")
      BY WaitPostChildIs, RoundsNat
    <3> QED
      BY <1>8, <1>10, <2>2, <3>1
  <2> QED
    BY <1>3, <1>9, <1>10, <2>1, <2>2
<1> QED
  BY <1>3, <1>5, <1>6, <1>7, <1>10

\* What main does after its wait
LEMMA DoneTurn ==
    ASSUME NEW m \in Pids, NEW c \in Pids, m # c,
           TInv, Quiet, Pair(m, c), Done(m, c), Turn(m)
    PROVE  WaitPostInv(m, c)' /\ Speaks(m, c)
<1>1. Table(proc) /\ Semaphores /\ proc[m].st = "run"
  BY Running DEF TInv, IInv
<1>2. PICK k \in 3 * Rounds + 5..3 * Rounds + 7 : proc[m].todo = From(WaitPost, k)
  BY <1>1 DEF Done
<1>3. ASSUME NEW x \in {"a", "b"}, k # 3 * Rounds + 7, WaitPost[k] = SemUnlink(x)
      PROVE  WaitPostInv(m, c)' /\ Speaks(m, c)
  <2>1. Reached(m, WaitPost, k, SemUnlink(x))
    <3>1. k \in 1..Len(WaitPost)
      BY <1>3, WaitPostIs, RoundsNat
    <3> QED
      BY <1>1, <1>2, <1>3, <3>1, WaitPostIs DEF Reached
  <2>2. /\ Goes(m, WaitPost, k + 1) /\ UNCHANGED out
        /\ sem'[x] \in {NoSem, sem[x]} /\ \A y \in {"a", "b"} \ {x} : sem'[y] = sem[y]
    <3>1. x \in Objects /\ \A y \in {"a", "b"} \ {x} : y \in Objects \ {x}
      BY Named
    <3>2. /\ Goes(m, WaitPost, k + 1) /\ UNCHANGED out
          /\ sem'[x] \in {NoSem, sem[x]} /\ OnlySem(x)
      BY <1>1, <2>1, <3>1, OnUnlink
    <3> QED
      BY <3>1, <3>2 DEF OnlySem
  <2>3. k + 1 \in 3 * Rounds + 5..3 * Rounds + 7
    BY <1>3, RoundsNat
  <2>4. Done(m, c)'
    BY <2>2, <2>3, Named DEF Done, Goes
  <2>5. Quiet' /\ Pair(m, c)'
    BY <2>2, Named, GoesQuiet, GoesPair
  <2> QED
    BY <2>2, <2>4, <2>5 DEF WaitPostInv, Speaks
<1>4. CASE k = 3 * Rounds + 7
  <2>1. proc[m].todo = <<>>
    BY <1>2, <1>4, Ends, WaitPostIs, RoundsNat
  <2>2. /\ proc'[m].st # "run"
        /\ \A q \in Pids \ {m} :
              /\ proc[q].st # "zombie" => proc'[q].st = proc[q].st
              /\ proc[q].ppid # m => proc'[q].st = proc[q].st /\ proc'[q].ppid = proc[q].ppid
        /\ Quiet' /\ UNCHANGED <<sem, out>>
    BY <1>1, <2>1, OnQuietEnd
  <2>3. Done(m, c)' /\ Pair(m, c)'
    BY <2>2, PidsPositive DEF Done, Pair
  <2> QED
    BY <2>2, <2>3 DEF WaitPostInv, Speaks
<1>5. k = 3 * Rounds + 5 \/ k = 3 * Rounds + 6 \/ k = 3 * Rounds + 7
  BY RoundsNat
<1> QED
  BY <1>3, <1>4, <1>5, WaitPostIs

LEMMA WaitPostTurn ==
    ASSUME NEW m \in Pids, NEW c \in Pids, m # c,
           TInv, WaitPostInv(m, c), NEW p \in {m, c}, Turn(p)
    PROVE  WaitPostInv(m, c)' /\ Speaks(m, c)
<1>1. Quiet /\ Pair(m, c)
  BY DEF WaitPostInv
<1>2. Turn(p) /\ proc[p].st = "run"
  BY Running
<1>3. p = m \/ p = c
  OBVIOUS
<1>4. ASSUME NEW k \in 1..3, Starts(m, c, k) PROVE WaitPostInv(m, c)' /\ Speaks(m, c)
  BY <1>1, <1>2, <1>3, <1>4, StartsTurn DEF Starts
<1>5. ASSUME NEW i1, NEW j1, NEW i2, NEW j2, NEW t, InTurn(m, c, i1, j1, i2, j2, t)
      PROVE  WaitPostInv(m, c)' /\ Speaks(m, c)
  BY <1>1, <1>2, <1>3, <1>5, MainTurn, ChildTurn
<1>6. ASSUME Done(m, c) PROVE WaitPostInv(m, c)' /\ Speaks(m, c)
  BY <1>1, <1>2, <1>3, <1>6, DoneTurn DEF Done
<1> QED
  BY <1>4, <1>5, <1>6 DEF WaitPostInv

LEMMA WaitPostInit ==
    ASSUME Init, program = "waitpost"
    PROVE  WaitPostInv(1, 2)
<1>1. Scripts[program] = <<WaitPost>>
  <2>1. "waitpost" \in DOMAIN IpcScripts /\ IpcScripts["waitpost"] = <<WaitPost>>
    BY DEF IpcScripts
  <2> QED
    BY <2>1, IpcAssumption DEF Init
<1>2. DOMAIN <<WaitPost>> = {1} /\ <<WaitPost>>[1] = WaitPost
  OBVIOUS
<1>3. /\ proc[1] = [NoProc EXCEPT !.st = "run", !.todo = WaitPost]
      /\ \A q \in Pids \ {1} : proc[q] = NoProc
  BY <1>1, <1>2, Named DEF Init
<1>4. proc[1].todo = From(WaitPost, 1)
  BY <1>3, Ends, WaitPostIs DEF NoProc
<1>5. Quiet /\ Pair(1, 2)
  <2>1. /\ proc[1].caught = <<>> /\ proc[1].mask = {} /\ proc[1].pending = {}
        /\ proc[1].timer = FALSE
        /\ NoProc.caught = <<>> /\ NoProc.mask = {} /\ NoProc.pending = {}
        /\ NoProc.timer = FALSE /\ NoProc.st = "none"
    BY <1>3 DEF NoProc
  <2>2. \A q \in Pids : q = 1 \/ proc[q] = NoProc
    BY <1>3
  <2>3. Quiet
    BY <2>1, <2>2 DEF Quiet, Plain
  <2>4. \A q \in Pids \ {1, 2} : 2 < q /\ proc[q].st = "none"
    BY <2>1, <2>2, PidsPositive
  <2> QED
    BY <2>3, <2>4 DEF Pair
<1>6. Len(out[1]) = 0 /\ Len(out[2]) = 0 /\ sem["a"] = NoSem /\ sem["b"] = NoSem
  BY Named DEF Init
<1>7. Starts(1, 2, 1)
  BY <1>3, <1>4, <1>6, Named DEF Starts, NoProc
<1> QED
  BY <1>5, <1>7 DEF WaitPostInv

-----------------------------------------------------------------------------
\* pipe.c

LEMMA PipeChildIs ==
    /\ IsSeq(PipeChild) /\ Len(PipeChild) = 4 * Rounds + 2
    /\ PipeChild[1] = Close("a", "w") /\ PipeChild[2] = Close("b", "r")
    /\ \A i \in 0..Rounds - 1 : /\ PipeChild[4 * i + 3] = Sleep
                                /\ PipeChild[4 * i + 4] = Read("a", 1)
                                /\ PipeChild[4 * i + 5] = Tell
                                /\ PipeChild[4 * i + 6] = Write("b", <<"fine">>)
<1> DEFINE start == <<Close("a", "w"), Close("b", "r")>>
           loop == Times(Rounds, <<Sleep, Read("a", 1), Tell, Write("b", <<"fine">>)>>)
           all == start \o loop
<1>1. Cycle4(loop, Rounds, Sleep, Read("a", 1), Tell, Write("b", <<"fine">>))
  BY Rounds4, RoundsNat
<1>2. /\ IsSeq(start) /\ Len(start) = 2
      /\ start[1] = Close("a", "w") /\ start[2] = Close("b", "r")
  BY Lists
<1>3. PipeChild = all
  BY DEF PipeChild
<1> HIDE DEF start, loop
<1>4. Linked(all, start, loop)
  BY <1>1, <1>2, Links DEF Cycle4
<1> HIDE DEF all
<1>5. /\ IsSeq(all) /\ Len(all) = 4 * Rounds + 2
      /\ all[1] = start[1] /\ all[2] = start[2]
      /\ \A i \in 1..4 * Rounds : all[2 + i] = loop[i]
  BY <1>1, <1>2, <1>4, RoundsNat DEF Linked, Cycle4
<1>6. ASSUME NEW i \in 0..Rounds - 1
      PROVE  /\ all[4 * i + 3] = loop[4 * i + 1] /\ all[4 * i + 4] = loop[4 * i + 2]
             /\ all[4 * i + 5] = loop[4 * i + 3] /\ all[4 * i + 6] = loop[4 * i + 4]
  <2>1. \A j \in 1..4 : 4 * i + j \in 1..4 * Rounds /\ 2 + (4 * i + j) = 4 * i + (2 + j)
    BY RoundsNat
  <2>2. \A j \in 1..4 : all[4 * i + (2 + j)] = loop[4 * i + j]
    BY <1>5, <2>1
  <2> QED
    BY <2>2
<1> QED
  BY <1>1, <1>2, <1>3, <1>5, <1>6 DEF Cycle4

LEMMA PipeMainIs ==
    /\ IsSeq(PipeMain) /\ Len(PipeMain) = 4 * Rounds + 5
    /\ PipeMain[1] = Pipe("a") /\ PipeMain[2] = Pipe("b") /\ PipeMain[3] = Fork(PipeChild)
    /\ PipeMain[4] = Close("a", "r") /\ PipeMain[5] = Close("b", "w")
    /\ \A i \in 0..Rounds - 1 : /\ PipeMain[4 * i + 6] = Write("a", <<"how">>)
                                /\ PipeMain[4 * i + 7] = Sleep
                                /\ PipeMain[4 * i + 8] = Read("b", 1)
                                /\ PipeMain[4 * i + 9] = Tell
<1> DEFINE start == <<Pipe("a"), Pipe("b"), Fork(PipeChild), Close("a", "r"), Close("b", "w")>>
           loop == Times(Rounds, <<Write("a", <<"how">>), Sleep, Read("b", 1), Tell>>)
           all == start \o loop
<1>1. Cycle4(loop, Rounds, Write("a", <<"how">>), Sleep, Read("b", 1), Tell)
  BY Rounds4, RoundsNat
<1>2. /\ IsSeq(start) /\ Len(start) = 5
      /\ start[1] = Pipe("a") /\ start[2] = Pipe("b") /\ start[3] = Fork(PipeChild)
      /\ start[4] = Close("a", "r") /\ start[5] = Close("b", "w")
  BY Lists
<1>3. PipeMain = all
  BY DEF PipeMain
<1> HIDE DEF start, loop
<1>4. Linked(all, start, loop)
  BY <1>1, <1>2, Links DEF Cycle4
<1> HIDE DEF all
<1>5. /\ IsSeq(all) /\ Len(all) = 4 * Rounds + 5
      /\ \A i \in 1..5 : all[i] = start[i]
      /\ \A i \in 1..4 * Rounds : all[5 + i] = loop[i]
  BY <1>1, <1>2, <1>4, RoundsNat DEF Linked, Cycle4
<1>6. ASSUME NEW i \in 0..Rounds - 1
      PROVE  /\ all[4 * i + 6] = loop[4 * i + 1] /\ all[4 * i + 7] = loop[4 * i + 2]
             /\ all[4 * i + 8] = loop[4 * i + 3] /\ all[4 * i + 9] = loop[4 * i + 4]
  <2>1. \A j \in 1..4 : 4 * i + j \in 1..4 * Rounds /\ 5 + (4 * i + j) = 4 * i + (5 + j)
    BY RoundsNat
  <2>2. \A j \in 1..4 : all[4 * i + (5 + j)] = loop[4 * i + j]
    BY <1>5, <2>1
  <2> QED
    BY <2>2
<1> QED
  BY RoundsNat, <1>1, <1>2, <1>3, <1>5, <1>6 DEF Cycle4

\* main of pipe.c in call j of round i, where the two calls before the first round
\* count from -2 on, and its child in the same way
PipeMainAt(i, j) ==
    \/ /\ proc[1].st = "run" /\ proc[1].todo = From(PipeMain, 4 * i + j + 6)
       /\ {<<"a", "w">>, <<"b", "r">>} \subseteq proc[1].fds
    \/ proc[1].st \in {"zombie", "gone"} /\ i = Rounds
PipeChildAt(i, j) ==
    \/ /\ proc[2].st = "run" /\ proc[2].todo = From(PipeChild, 4 * i + j + 3)
       /\ {<<"a", "r">>, <<"b", "w">>} \subseteq proc[2].fds
    \/ proc[2].st \in {"zombie", "gone"} /\ i = Rounds

\* There main has written w messages and read r, and the child has read r and
\* printed s of them.
MainPlace(i, j, w, r) ==
    /\ i \in 0..Rounds /\ j \in -2..3 /\ w \in 0..Rounds /\ r \in 0..Rounds
    /\ j < 0 => i = 0
    /\ i = Rounds => j <= 0
    /\ w = i + (IF j >= 1 THEN 1 ELSE 0) /\ r = i + (IF j = 3 THEN 1 ELSE 0)
ChildPlace(i, j, r, s) ==
    /\ i \in 0..Rounds /\ j \in -2..3 /\ r \in 0..Rounds /\ s \in 0..Rounds
    /\ j < 0 => i = 0
    /\ i = Rounds => j <= 0
    /\ r = i + (IF j >= 2 THEN 1 ELSE 0) /\ s = i + (IF j = 3 THEN 1 ELSE 0)

\* What the pipes hold is what was written to them and not read yet.
Flow(w1, r1, w2, r2) ==
    /\ Len(chan["a"]) = w1 - r2 /\ Len(chan["a"]) \in Nat
    /\ Len(chan["b"]) = w2 - r1 /\ Len(chan["b"]) \in Nat

PipeWords(s1, s2) == Len(out[1]) = s1 /\ Len(out[2]) = s2

PipeInTurn(i1, j1, w1, r1, i2, j2, r2, s2) ==
    /\ MainPlace(i1, j1, w1, r1) /\ ChildPlace(i2, j2, r2, s2)
    /\ PipeMainAt(i1, j1) /\ PipeChildAt(i2, j2)
    /\ Flow(w1, r1, i2, r2) /\ PipeWords(i1, s2)

PipeStarts(k) ==
    /\ proc[1].st = "run" /\ proc[1].todo = From(PipeMain, k) /\ proc[2].st = "none"
    /\ k > 1 => {<<"a", "r">>, <<"a", "w">>} \subseteq proc[1].fds
    /\ k = 3 => {<<"b", "r">>, <<"b", "w">>} \subseteq proc[1].fds
    /\ Len(chan["a"]) = 0 /\ Len(chan["b"]) = 0 /\ Len(out[1]) = 0 /\ Len(out[2]) = 0

PipeInv ==
    /\ Quiet /\ Pair(1, 2)
    /\ \/ \E k \in 1..3 : PipeStarts(k)
       \/ \E i1, w1, r1, i2, r2, s2 \in 0..Rounds, j1, j2 \in -2..3 :
             PipeInTurn(i1, j1, w1, r1, i2, j2, r2, s2)

LEMMA PipeInTurnInv ==
    ASSUME Quiet', Pair(1, 2)',
           NEW i1, NEW j1, NEW w1, NEW r1, NEW i2, NEW j2, NEW r2, NEW s2,
           MainPlace(i1, j1, w1, r1), ChildPlace(i2, j2, r2, s2),
           PipeMainAt(i1, j1)', PipeChildAt(i2, j2)',
           Flow(w1, r1, i2, r2)', PipeWords(i1, s2)'
    PROVE  PipeInv'
<1>1. PipeInTurn(i1, j1, w1, r1, i2, j2, r2, s2)'
  BY DEF PipeInTurn, MainPlace, ChildPlace
<1>2. /\ i1 \in 0..Rounds /\ j1 \in -2..3 /\ w1 \in 0..Rounds /\ r1 \in 0..Rounds
      /\ i2 \in 0..Rounds /\ j2 \in -2..3 /\ r2 \in 0..Rounds /\ s2 \in 0..Rounds
  BY DEF MainPlace, ChildPlace
<1> QED
  BY <1>1, <1>2 DEF PipeInv

LEMMA PipeStartsTurn ==
    ASSUME TInv, Quiet, Pair(1, 2), NEW k \in 1..3, PipeStarts(k), Turn(1)
    PROVE  PipeInv' /\ Speaks(2, 1)
<1>1. Table(proc)
  BY DEF TInv, IInv
<1>2. ASSUME k # 3, NEW x \in {"a", "b"}, x = (IF k = 1 THEN "a" ELSE "b")
      PROVE  PipeInv' /\ Speaks(2, 1)
  <2>1. Reached(1, PipeMain, k, Pipe(x))
    BY <1>1, <1>2, PipeMainIs, RoundsNat DEF Reached, PipeStarts
  <2>2. /\ Goes(1, PipeMain, k + 1) /\ proc'[1].fds = proc[1].fds \cup {<<x, "r">>, <<x, "w">>}
        /\ UNCHANGED <<chan, out>>
    BY <2>1, OnPipe, Named
  <2>3. PipeStarts(k + 1)'
    BY <1>2, <2>2, Named DEF PipeStarts, Goes
  <2>4. Quiet' /\ Pair(1, 2)'
    BY <2>2, Named, GoesQuiet, GoesPair
  <2>5. k + 1 \in 1..3
    BY <1>2
  <2> QED
    BY <2>2, <2>3, <2>4, <2>5 DEF PipeInv, Speaks
<1>3. ASSUME k = 3 PROVE PipeInv' /\ Speaks(2, 1)
  <2>1. Reached(1, PipeMain, 3, Fork(PipeChild))
    BY <1>1, <1>3, PipeMainIs, RoundsNat DEF Reached, PipeStarts
  <2>3. proc[1].st = "run" /\ proc[2].st = "none"
    BY DEF PipeStarts
  <2>2. \A q \in Pids : proc[q].st = "none" => 2 <= q
    BY <2>3, PidsPositive DEF Pair
  <2>4. /\ proc'[1].st = "run" /\ proc'[1].todo = From(PipeMain, 4)
        /\ proc'[1].fds = proc[1].fds
        /\ proc'[2].st = "run" /\ proc'[2].todo = PipeChild /\ proc'[2].fds = proc[1].fds
        /\ Only({1, 2}) /\ Quiet' /\ UNCHANGED <<chan, out>>
    BY <2>1, <2>2, <2>3, OnFork, Named
  <2>5. From(PipeChild, 1) = PipeChild
    BY Ends, PipeChildIs
  <2>6. PipeMainAt(0, -2)' /\ PipeChildAt(0, -2)'
    BY <1>3, <2>4, <2>5 DEF PipeMainAt, PipeChildAt, PipeStarts
  <2>7. Flow(0, 0, 0, 0)' /\ PipeWords(0, 0)'
    BY <2>4 DEF Flow, PipeWords, PipeStarts
  <2>8. MainPlace(0, -2, 0, 0) /\ ChildPlace(0, -2, 0, 0)
    BY RoundsNat DEF MainPlace, ChildPlace
  <2>9. Pair(1, 2)'
    BY <2>4 DEF Pair, Only
  <2>10. PipeInv'
    BY <2>4, <2>6, <2>7, <2>8, <2>9, PipeInTurnInv
  <2> QED
    BY <2>4, <2>10 DEF Speaks
<1> QED
  BY <1>2, <1>3

LEMMA PipeMainGoes ==
    ASSUME NEW i, NEW j, NEW i1, NEW j1, NEW i2, NEW j2,
           PipeMainAt(i1, j1), PipeChildAt(i2, j2), proc[1].st = "run",
           Goes(1, PipeMain, 4 * i + j + 6),
           NEW e, e \notin {<<"a", "w">>, <<"b", "r">>},
           proc'[1].fds = proc[1].fds \/ proc'[1].fds = proc[1].fds \ {e}
    PROVE  PipeMainAt(i, j)' /\ PipeChildAt(i2, j2)'
BY Named DEF PipeMainAt, PipeChildAt, Goes

LEMMA PipeChildGoes ==
    ASSUME NEW i, NEW j, NEW i1, NEW j1, NEW i2, NEW j2,
           PipeMainAt(i1, j1), PipeChildAt(i2, j2), proc[2].st = "run",
           Goes(2, PipeChild, 4 * i + j + 3),
           NEW e, e \notin {<<"a", "r">>, <<"b", "w">>},
           proc'[2].fds = proc[2].fds \/ proc'[2].fds = proc[2].fds \ {e}
    PROVE  PipeMainAt(i1, j1)' /\ PipeChildAt(i, j)'
BY Named DEF PipeMainAt, PipeChildAt, Goes

LEMMA PipeMainTurn ==
    ASSUME TInv, Quiet, Pair(1, 2),
           NEW i1, NEW j1, NEW w1, NEW r1, NEW i2, NEW j2, NEW r2, NEW s2,
           PipeInTurn(i1, j1, w1, r1, i2, j2, r2, s2), Turn(1)
    PROVE  PipeInv' /\ Speaks(2, 1)
<1>1. Table(proc) /\ Channels /\ Output
  BY DEF TInv, IInv
<1>2. PipeMainAt(i1, j1) /\ PipeChildAt(i2, j2)
  BY DEF PipeInTurn
<1>3. /\ MainPlace(i1, j1, w1, r1) /\ ChildPlace(i2, j2, r2, s2)
      /\ i1 \in 0..Rounds /\ i2 \in 0..Rounds /\ j1 \in -2..3 /\ j2 \in -2..3
      /\ (i1 # Rounds => i1 \in 0..Rounds - 1) /\ (i2 # Rounds => i2 \in 0..Rounds - 1)
      /\ (i1 = Rounds => j1 <= 0) /\ (i2 = Rounds => j2 <= 0)
      /\ (j1 < 0 => i1 = 0) /\ (j2 < 0 => i2 = 0)
  BY RoundsNat DEF PipeInTurn, MainPlace, ChildPlace
<1>4. /\ Flow(w1, r1, i2, r2) /\ PipeWords(i1, s2)
      /\ i1 \in Int /\ w1 \in Int /\ r1 \in Int
      /\ i2 \in Int /\ r2 \in Int /\ s2 \in Int
  BY RoundsNat DEF PipeInTurn, MainPlace, ChildPlace
<1>5. /\ proc[1].st = "run" /\ proc[1].todo = From(PipeMain, 4 * i1 + j1 + 6)
      /\ {<<"a", "w">>, <<"b", "r">>} \subseteq proc[1].fds
  BY <1>2, Running DEF PipeMainAt
<1>6. ASSUME NEW x \in {"a", "b"}, NEW e \in {"r", "w"},
             <<x, e>> \notin {<<"a", "w">>, <<"b", "r">>},
             j1 \in -2..-1, PipeMain[6 + j1] = Close(x, e)
      PROVE  PipeInv' /\ Speaks(2, 1)
  <2>1. Reached(1, PipeMain, 6 + j1, Close(x, e))
    <3>1. i1 = 0 /\ 4 * i1 + j1 + 6 = 6 + j1 /\ 6 + j1 \in 1..4 * Rounds + 5
      BY <1>3, <1>6, RoundsNat
    <3> QED
      BY <1>1, <1>5, <1>6, <3>1, PipeMainIs DEF Reached
  <2>2. /\ Goes(1, PipeMain, 6 + j1 + 1) /\ proc'[1].fds = proc[1].fds \ {<<x, e>>}
        /\ UNCHANGED <<chan, out>>
    BY <2>1, OnClose, Named
  <2>3. 6 + j1 + 1 = 4 * 0 + (j1 + 1) + 6
    BY <1>6
  <2>4. PipeMainAt(0, j1 + 1)' /\ PipeChildAt(i2, j2)'
    BY <1>2, <1>5, <1>6, <2>2, <2>3, PipeMainGoes
  <2>5. MainPlace(0, j1 + 1, 0, 0)
    BY <1>6, RoundsNat, <1>3 DEF MainPlace
  <2>6. Flow(0, 0, i2, r2)' /\ PipeWords(0, s2)'
    <3>1. w1 = 0 /\ r1 = 0 /\ i1 = 0
      BY <1>3, <1>6 DEF MainPlace
    <3>2. UNCHANGED <<chan, out>>
      BY <2>2
    <3> QED
      BY <1>4, <3>1, <3>2 DEF Flow, PipeWords
  <2>7. Quiet' /\ Pair(1, 2)'
    BY <2>2, Named, GoesQuiet, GoesPair
  <2>8. PipeInv'
    BY <1>2, <1>3, <2>4, <2>5, <2>6, <2>7, PipeInTurnInv
  <2> QED
    BY <2>2, <2>8 DEF Speaks
<1>7. ASSUME i1 # Rounds, j1 = 0 PROVE PipeInv' /\ Speaks(2, 1)
  <2>1. Reached(1, PipeMain, 4 * i1 + 6, Write("a", <<"how">>))
    BY <1>1, <1>3, <1>5, <1>7, PipeMainIs, RoundsNat, SMTT(20) DEF Reached
  <2>2. <<"a", "r">> \in proc[2].fds
    <3>1. i2 # Rounds
      BY <1>3, <1>4, <1>7, RoundsNat DEF Flow, MainPlace, ChildPlace
    <3> QED
      BY <1>2, <3>1 DEF PipeChildAt
  <2>3. /\ Goes(1, PipeMain, 4 * i1 + 6 + 1) /\ proc'[1].fds = proc[1].fds
        /\ Len(chan'["a"]) = Len(chan["a"]) + 1 /\ chan'["b"] = chan["b"]
        /\ UNCHANGED out
    BY <1>1, <2>1, <2>2, OnWrite, Named, ZenonT(30)
  <2>4. 4 * i1 + 6 + 1 = 4 * i1 + 1 + 6
    BY <1>3
  <2>5. PipeMainAt(i1, 1)' /\ PipeChildAt(i2, j2)'
    <3>1. <<"a", "q">> \notin {<<"a", "w">>, <<"b", "r">>, <<"a", "r">>, <<"b", "w">>}
      OBVIOUS
    <3> QED
      BY <1>2, <1>5, <2>3, <2>4, <3>1, PipeMainGoes
  <2>6. MainPlace(i1, 1, i1 + 1, i1)
    BY <1>3, <1>7, RoundsNat DEF MainPlace
  <2>7. Flow(i1 + 1, i1, i2, r2)' /\ PipeWords(i1, s2)'
    <3>1. w1 = i1 /\ r1 = i1
      BY <1>3, <1>7 DEF MainPlace
    <3>2. Len(chan'["a"]) = Len(chan["a"]) + 1 /\ chan'["b"] = chan["b"] /\ UNCHANGED out
      BY <2>3
    <3> QED
      BY <1>4, <3>1, <3>2 DEF Flow, PipeWords
  <2>8. Quiet' /\ Pair(1, 2)'
    BY <2>3, Named, GoesQuiet, GoesPair
  <2>9. PipeInv'
    BY <1>2, <1>3, <2>5, <2>6, <2>7, <2>8, PipeInTurnInv
  <2> QED
    BY <2>3, <2>9 DEF Speaks
<1>8. ASSUME i1 # Rounds, j1 = 1 PROVE PipeInv' /\ Speaks(2, 1)
  <2>1. Reached(1, PipeMain, 4 * i1 + 7, Sleep)
    BY <1>1, <1>3, <1>5, <1>8, PipeMainIs, RoundsNat, SMTT(20) DEF Reached
  <2>2. /\ Goes(1, PipeMain, 4 * i1 + 7 + 1) /\ proc'[1].fds = proc[1].fds
        /\ UNCHANGED <<chan, out>>
    BY <2>1, OnSleep, Named
  <2>3. 4 * i1 + 7 + 1 = 4 * i1 + 2 + 6
    BY <1>3
  <2>4. PipeMainAt(i1, 2)' /\ PipeChildAt(i2, j2)'
    <3>1. <<"a", "q">> \notin {<<"a", "w">>, <<"b", "r">>, <<"a", "r">>, <<"b", "w">>}
      OBVIOUS
    <3> QED
      BY <1>2, <1>5, <2>2, <2>3, <3>1, PipeMainGoes
  <2>5. MainPlace(i1, 2, i1 + 1, i1)
    BY <1>3, <1>8, RoundsNat DEF MainPlace
  <2>6. Flow(i1 + 1, i1, i2, r2)' /\ PipeWords(i1, s2)'
    <3>1. w1 = i1 + 1 /\ r1 = i1
      BY <1>3, <1>8 DEF MainPlace
    <3>2. UNCHANGED <<chan, out>>
      BY <2>2
    <3> QED
      BY <1>4, <3>1, <3>2 DEF Flow, PipeWords
  <2>7. Quiet' /\ Pair(1, 2)'
    BY <2>2, Named, GoesQuiet, GoesPair
  <2>8. PipeInv'
    BY <1>2, <1>3, <2>4, <2>5, <2>6, <2>7, PipeInTurnInv
  <2> QED
    BY <2>2, <2>8 DEF Speaks
<1>9. ASSUME i1 # Rounds, j1 = 2 PROVE PipeInv' /\ Speaks(2, 1)
  <2>1. Reached(1, PipeMain, 4 * i1 + 8, Read("b", 1))
    BY <1>1, <1>3, <1>5, <1>9, PipeMainIs, RoundsNat, SMTT(20) DEF Reached
  <2>2. Len(chan["b"]) > 0 \/ <<"b", "w">> \in proc[2].fds
    <3>1. i2 = Rounds => Len(chan["b"]) > 0
      BY <1>3, <1>4, <1>9, RoundsNat DEF Flow, MainPlace, ChildPlace
    <3> QED
      BY <1>2, <3>1 DEF PipeChildAt
  <2>3. /\ Goes(1, PipeMain, 4 * i1 + 8 + 1) /\ proc'[1].fds = proc[1].fds
        /\ Len(chan["b"]) > 0 /\ Len(chan'["b"]) = Len(chan["b"]) - 1
        /\ chan'["a"] = chan["a"]
        /\ UNCHANGED out
    BY <1>1, <2>1, <2>2, OnRead, Named
  <2>4. 4 * i1 + 8 + 1 = 4 * i1 + 3 + 6
    BY <1>3
  <2>5. PipeMainAt(i1, 3)' /\ PipeChildAt(i2, j2)'
    <3>1. <<"a", "q">> \notin {<<"a", "w">>, <<"b", "r">>, <<"a", "r">>, <<"b", "w">>}
      OBVIOUS
    <3> QED
      BY <1>2, <1>5, <2>3, <2>4, <3>1, PipeMainGoes
  <2>6. MainPlace(i1, 3, i1 + 1, i1 + 1)
    BY <1>3, <1>9, RoundsNat DEF MainPlace
  <2>7. Flow(i1 + 1, i1 + 1, i2, r2)' /\ PipeWords(i1, s2)'
    <3>1. w1 = i1 + 1 /\ r1 = i1
      BY <1>3, <1>9 DEF MainPlace
    <3>2. /\ Len(chan["b"]) > 0 /\ Len(chan'["b"]) = Len(chan["b"]) - 1
          /\ chan'["a"] = chan["a"] /\ UNCHANGED out
      BY <2>3
    <3> QED
      BY <1>4, <3>1, <3>2 DEF Flow, PipeWords
  <2>8. Quiet' /\ Pair(1, 2)'
    BY <2>3, Named, GoesQuiet, GoesPair
  <2>9. PipeInv'
    BY <1>2, <1>3, <2>5, <2>6, <2>7, <2>8, PipeInTurnInv
  <2> QED
    BY <2>3, <2>9 DEF Speaks
<1>10. ASSUME i1 # Rounds, j1 = 3 PROVE PipeInv' /\ Speaks(2, 1)
  <2>1. Reached(1, PipeMain, 4 * i1 + 9, Tell)
    BY <1>1, <1>3, <1>5, <1>10, PipeMainIs, RoundsNat, SMTT(20) DEF Reached
  <2>2. /\ Goes(1, PipeMain, 4 * i1 + 9 + 1) /\ proc'[1].fds = proc[1].fds
        /\ out' = [out EXCEPT ![1] = Append(@, proc[1].reg)] /\ UNCHANGED chan
    BY <2>1, OnTell, Named
  <2>3. 4 * i1 + 9 + 1 = 4 * (i1 + 1) + 0 + 6
    BY <1>3
  <2>4. PipeMainAt(i1 + 1, 0)' /\ PipeChildAt(i2, j2)'
    <3>1. <<"a", "q">> \notin {<<"a", "w">>, <<"b", "r">>, <<"a", "r">>, <<"b", "w">>}
      OBVIOUS
    <3> QED
      BY <1>2, <1>5, <2>2, <2>3, <3>1, PipeMainGoes
  <2>5. MainPlace(i1 + 1, 0, i1 + 1, i1 + 1)
    BY <1>3, <1>10, RoundsNat DEF MainPlace
  <2>6. Len(out'[1]) = Len(out[1]) + 1 /\ out'[2] = out[2]
    <3>1. Len(out'[1]) = Len(out[1]) + 1 /\ \A q \in Pids \ {1} : out'[q] = out[q]
      BY <1>1, <2>2, Spoke, Named
    <3> QED
      BY <3>1, Named
  <2>7. Flow(i1 + 1, i1 + 1, i2, r2)' /\ PipeWords(i1 + 1, s2)'
    <3>1. w1 = i1 + 1 /\ r1 = i1 + 1
      BY <1>3, <1>10 DEF MainPlace
    <3>2. UNCHANGED chan
      BY <2>2
    <3> QED
      BY <1>4, <3>1, <3>2, <2>6 DEF Flow, PipeWords
  <2>8. Quiet' /\ Pair(1, 2)'
    BY <2>2, Named, GoesQuiet, GoesPair
  <2>9. PipeInv'
    BY <1>2, <1>3, <2>4, <2>5, <2>7, <2>8, PipeInTurnInv
  <2>10. Len(out[1]) < Len(out[2])
    BY <1>3, <1>4, <1>10, RoundsNat DEF Flow, PipeWords, MainPlace, ChildPlace
  <2> QED
    BY <2>6, <2>9, <2>10 DEF Speaks
<1>11. ASSUME i1 = Rounds, j1 = 0 PROVE PipeInv' /\ Speaks(2, 1)
  <2>1. proc[1].todo = <<>>
    <3>1. 4 * i1 + j1 + 6 = Len(PipeMain) + 1
      BY <1>11, PipeMainIs, RoundsNat
    <3> QED
      BY <1>5, <3>1, Ends, PipeMainIs
  <2>2. /\ proc'[1].st \in {"zombie", "gone"}
        /\ proc'[2].todo = proc[2].todo /\ proc'[2].fds = proc[2].fds
        /\ proc[2].st # "zombie" => proc'[2].st = proc[2].st
        /\ proc[2].st = "zombie" => proc'[2].st \in {"zombie", "gone"}
        /\ \A r \in Pids \ {1} :
              /\ proc[r].st # "zombie" => proc'[r].st = proc[r].st
              /\ proc[r].ppid # 1 => proc'[r].st = proc[r].st /\ proc'[r].ppid = proc[r].ppid
        /\ Quiet' /\ UNCHANGED <<chan, out>>
    BY <1>1, <2>1, OnQuietEnd, Named
  <2>3. PipeMainAt(i1, j1)' /\ PipeChildAt(i2, j2)'
    BY <1>2, <1>11, <2>2 DEF PipeMainAt, PipeChildAt
  <2>4. Flow(w1, r1, i2, r2)' /\ PipeWords(i1, s2)'
    BY <1>4, <2>2 DEF Flow, PipeWords
  <2>5. Pair(1, 2)'
    BY <2>2, PidsPositive DEF Pair
  <2>6. PipeInv'
    BY <1>2, <1>3, <2>2, <2>3, <2>4, <2>5, PipeInTurnInv
  <2> QED
    BY <2>2, <2>6 DEF Speaks
<1>12. CASE j1 < 0
  <2>1. CASE j1 = -2
    <3>1. PipeMain[6 + j1] = Close("a", "r")
      BY <2>1, PipeMainIs
    <3> QED
      BY <1>6, <2>1, <3>1
  <2>2. CASE j1 = -1
    <3>1. PipeMain[6 + j1] = Close("b", "w")
      BY <2>2, PipeMainIs
    <3> QED
      BY <1>6, <2>2, <3>1
  <2> QED
    BY <1>3, <1>12, <2>1, <2>2
<1>13. j1 \in 0..3 \/ j1 < 0
  BY <1>3
<1>14. i1 = Rounds /\ j1 >= 0 => j1 = 0
  BY <1>3
<1> QED
  BY <1>7, <1>8, <1>9, <1>10, <1>11, <1>12, <1>13, <1>14

LEMMA PipeChildTurn ==
    ASSUME TInv, Quiet, Pair(1, 2),
           NEW i1, NEW j1, NEW w1, NEW r1, NEW i2, NEW j2, NEW r2, NEW s2,
           PipeInTurn(i1, j1, w1, r1, i2, j2, r2, s2), Turn(2)
    PROVE  PipeInv' /\ Speaks(2, 1)
<1>1. Table(proc) /\ Channels /\ Output
  BY DEF TInv, IInv
<1>2. PipeMainAt(i1, j1) /\ PipeChildAt(i2, j2)
  BY DEF PipeInTurn
<1>3. /\ MainPlace(i1, j1, w1, r1) /\ ChildPlace(i2, j2, r2, s2)
      /\ i1 \in 0..Rounds /\ i2 \in 0..Rounds /\ j1 \in -2..3 /\ j2 \in -2..3
      /\ (i1 # Rounds => i1 \in 0..Rounds - 1) /\ (i2 # Rounds => i2 \in 0..Rounds - 1)
      /\ (i1 = Rounds => j1 <= 0) /\ (i2 = Rounds => j2 <= 0)
      /\ (j1 < 0 => i1 = 0) /\ (j2 < 0 => i2 = 0)
  BY RoundsNat DEF PipeInTurn, MainPlace, ChildPlace
<1>4. /\ Flow(w1, r1, i2, r2) /\ PipeWords(i1, s2)
      /\ i1 \in Int /\ w1 \in Int /\ r1 \in Int
      /\ i2 \in Int /\ r2 \in Int /\ s2 \in Int
  BY RoundsNat DEF PipeInTurn, MainPlace, ChildPlace
<1>5. /\ proc[2].st = "run" /\ proc[2].todo = From(PipeChild, 4 * i2 + j2 + 3)
      /\ {<<"a", "r">>, <<"b", "w">>} \subseteq proc[2].fds
  BY <1>2, Running DEF PipeChildAt
<1>6. ASSUME NEW x \in {"a", "b"}, NEW e \in {"r", "w"},
             <<x, e>> \notin {<<"a", "r">>, <<"b", "w">>},
             j2 \in -2..-1, PipeChild[3 + j2] = Close(x, e)
      PROVE  PipeInv' /\ Speaks(2, 1)
  <2>1. Reached(2, PipeChild, 3 + j2, Close(x, e))
    <3>1. i2 = 0 /\ 4 * i2 + j2 + 3 = 3 + j2 /\ 3 + j2 \in 1..4 * Rounds + 2
      BY <1>3, <1>6, RoundsNat
    <3> QED
      BY <1>1, <1>5, <1>6, <3>1, PipeChildIs DEF Reached
  <2>2. /\ Goes(2, PipeChild, 3 + j2 + 1) /\ proc'[2].fds = proc[2].fds \ {<<x, e>>}
        /\ UNCHANGED <<chan, out>>
    BY <2>1, OnClose, Named
  <2>3. 3 + j2 + 1 = 4 * 0 + (j2 + 1) + 3
    BY <1>6
  <2>4. PipeMainAt(i1, j1)' /\ PipeChildAt(0, j2 + 1)'
    BY <1>2, <1>5, <1>6, <2>2, <2>3, PipeChildGoes
  <2>5. ChildPlace(0, j2 + 1, 0, 0)
    BY <1>6, RoundsNat, <1>3 DEF ChildPlace
  <2>6. Flow(w1, r1, 0, 0)' /\ PipeWords(i1, 0)'
    <3>1. r2 = 0 /\ s2 = 0 /\ i2 = 0
      BY <1>3, <1>6 DEF ChildPlace
    <3>2. UNCHANGED <<chan, out>>
      BY <2>2
    <3> QED
      BY <1>4, <3>1, <3>2 DEF Flow, PipeWords
  <2>7. Quiet' /\ Pair(1, 2)'
    BY <2>2, Named, GoesQuiet, GoesPair
  <2>8. PipeInv'
    BY <1>2, <1>3, <2>4, <2>5, <2>6, <2>7, PipeInTurnInv
  <2> QED
    BY <2>2, <2>8 DEF Speaks
<1>7. ASSUME i2 # Rounds, j2 = 0 PROVE PipeInv' /\ Speaks(2, 1)
  <2>1. Reached(2, PipeChild, 4 * i2 + 3, Sleep)
    BY <1>1, <1>3, <1>5, <1>7, PipeChildIs, RoundsNat, SMTT(20) DEF Reached
  <2>2. /\ Goes(2, PipeChild, 4 * i2 + 3 + 1) /\ proc'[2].fds = proc[2].fds
        /\ UNCHANGED <<chan, out>>
    BY <2>1, OnSleep, Named
  <2>3. 4 * i2 + 3 + 1 = 4 * i2 + 1 + 3
    BY <1>3
  <2>4. PipeMainAt(i1, j1)' /\ PipeChildAt(i2, 1)'
    <3>1. <<"a", "q">> \notin {<<"a", "w">>, <<"b", "r">>, <<"a", "r">>, <<"b", "w">>}
      OBVIOUS
    <3> QED
      BY <1>2, <1>5, <2>2, <2>3, <3>1, PipeChildGoes
  <2>5. ChildPlace(i2, 1, i2, i2)
    BY <1>3, <1>7, RoundsNat DEF ChildPlace
  <2>6. Flow(w1, r1, i2, i2)' /\ PipeWords(i1, i2)'
    <3>1. r2 = i2 /\ s2 = i2
      BY <1>3, <1>7 DEF ChildPlace
    <3>2. UNCHANGED <<chan, out>>
      BY <2>2
    <3> QED
      BY <1>4, <3>1, <3>2 DEF Flow, PipeWords
  <2>7. Quiet' /\ Pair(1, 2)'
    BY <2>2, Named, GoesQuiet, GoesPair
  <2>8. PipeInv'
    BY <1>2, <1>3, <2>4, <2>5, <2>6, <2>7, PipeInTurnInv
  <2> QED
    BY <2>2, <2>8 DEF Speaks
<1>8. ASSUME i2 # Rounds, j2 = 1 PROVE PipeInv' /\ Speaks(2, 1)
  <2>1. Reached(2, PipeChild, 4 * i2 + 4, Read("a", 1))
    BY <1>1, <1>3, <1>5, <1>8, PipeChildIs, RoundsNat, SMTT(20) DEF Reached
  <2>2. Len(chan["a"]) > 0 \/ <<"a", "w">> \in proc[1].fds
    <3>1. i1 = Rounds => Len(chan["a"]) > 0
      BY <1>3, <1>4, <1>8, RoundsNat DEF Flow, MainPlace, ChildPlace
    <3> QED
      BY <1>2, <3>1 DEF PipeMainAt
  <2>3. /\ Goes(2, PipeChild, 4 * i2 + 4 + 1) /\ proc'[2].fds = proc[2].fds
        /\ Len(chan["a"]) > 0 /\ Len(chan'["a"]) = Len(chan["a"]) - 1
        /\ chan'["b"] = chan["b"]
        /\ UNCHANGED out
    BY <1>1, <2>1, <2>2, OnRead, Named
  <2>4. 4 * i2 + 4 + 1 = 4 * i2 + 2 + 3
    BY <1>3
  <2>5. PipeMainAt(i1, j1)' /\ PipeChildAt(i2, 2)'
    <3>1. <<"a", "q">> \notin {<<"a", "w">>, <<"b", "r">>, <<"a", "r">>, <<"b", "w">>}
      OBVIOUS
    <3> QED
      BY <1>2, <1>5, <2>3, <2>4, <3>1, PipeChildGoes
  <2>6. ChildPlace(i2, 2, i2 + 1, i2)
    BY <1>3, <1>8, RoundsNat DEF ChildPlace
  <2>7. Flow(w1, r1, i2, i2 + 1)' /\ PipeWords(i1, i2)'
    <3>1. r2 = i2 /\ s2 = i2
      BY <1>3, <1>8 DEF ChildPlace
    <3>2. /\ Len(chan["a"]) > 0 /\ Len(chan'["a"]) = Len(chan["a"]) - 1
          /\ chan'["b"] = chan["b"] /\ UNCHANGED out
      BY <2>3
    <3> QED
      BY <1>4, <3>1, <3>2 DEF Flow, PipeWords
  <2>8. Quiet' /\ Pair(1, 2)'
    BY <2>3, Named, GoesQuiet, GoesPair
  <2>9. PipeInv'
    BY <1>2, <1>3, <2>5, <2>6, <2>7, <2>8, PipeInTurnInv
  <2> QED
    BY <2>3, <2>9 DEF Speaks
<1>9. ASSUME i2 # Rounds, j2 = 2 PROVE PipeInv' /\ Speaks(2, 1)
  <2>1. Reached(2, PipeChild, 4 * i2 + 5, Tell)
    BY <1>1, <1>3, <1>5, <1>9, PipeChildIs, RoundsNat, SMTT(20) DEF Reached
  <2>2. /\ Goes(2, PipeChild, 4 * i2 + 5 + 1) /\ proc'[2].fds = proc[2].fds
        /\ out' = [out EXCEPT ![2] = Append(@, proc[2].reg)] /\ UNCHANGED chan
    BY <2>1, OnTell, Named
  <2>3. 4 * i2 + 5 + 1 = 4 * i2 + 3 + 3
    BY <1>3
  <2>4. PipeMainAt(i1, j1)' /\ PipeChildAt(i2, 3)'
    <3>1. <<"a", "q">> \notin {<<"a", "w">>, <<"b", "r">>, <<"a", "r">>, <<"b", "w">>}
      OBVIOUS
    <3> QED
      BY <1>2, <1>5, <2>2, <2>3, <3>1, PipeChildGoes
  <2>5. ChildPlace(i2, 3, i2 + 1, i2 + 1)
    BY <1>3, <1>9, RoundsNat DEF ChildPlace
  <2>6. Len(out'[2]) = Len(out[2]) + 1 /\ out'[1] = out[1]
    <3>1. Len(out'[2]) = Len(out[2]) + 1 /\ \A q \in Pids \ {2} : out'[q] = out[q]
      BY <1>1, <2>2, Spoke, Named
    <3> QED
      BY <3>1, Named
  <2>7. Flow(w1, r1, i2, i2 + 1)' /\ PipeWords(i1, i2 + 1)'
    <3>1. r2 = i2 + 1 /\ s2 = i2
      BY <1>3, <1>9 DEF ChildPlace
    <3>2. UNCHANGED chan
      BY <2>2
    <3> QED
      BY <1>4, <3>1, <3>2, <2>6 DEF Flow, PipeWords
  <2>8. Quiet' /\ Pair(1, 2)'
    BY <2>2, Named, GoesQuiet, GoesPair
  <2>9. PipeInv'
    BY <1>2, <1>3, <2>4, <2>5, <2>7, <2>8, PipeInTurnInv
  <2>10. Len(out[1]) = Len(out[2])
    BY <1>3, <1>4, <1>9, RoundsNat DEF Flow, PipeWords, MainPlace, ChildPlace
  <2> QED
    BY <2>6, <2>9, <2>10 DEF Speaks
<1>10. ASSUME i2 # Rounds, j2 = 3 PROVE PipeInv' /\ Speaks(2, 1)
  <2>1. Reached(2, PipeChild, 4 * i2 + 6, Write("b", <<"fine">>))
    BY <1>1, <1>3, <1>5, <1>10, PipeChildIs, RoundsNat, SMTT(20) DEF Reached
  <2>2. <<"b", "r">> \in proc[1].fds
    <3>1. i1 # Rounds
      BY <1>3, <1>4, <1>10, RoundsNat DEF Flow, MainPlace, ChildPlace
    <3> QED
      BY <1>2, <3>1 DEF PipeMainAt
  <2>3. /\ Goes(2, PipeChild, 4 * i2 + 6 + 1) /\ proc'[2].fds = proc[2].fds
        /\ Len(chan'["b"]) = Len(chan["b"]) + 1 /\ chan'["a"] = chan["a"]
        /\ UNCHANGED out
    BY <1>1, <2>1, <2>2, OnWrite, Named, ZenonT(30)
  <2>4. 4 * i2 + 6 + 1 = 4 * (i2 + 1) + 0 + 3
    BY <1>3
  <2>5. PipeMainAt(i1, j1)' /\ PipeChildAt(i2 + 1, 0)'
    <3>1. <<"a", "q">> \notin {<<"a", "w">>, <<"b", "r">>, <<"a", "r">>, <<"b", "w">>}
      OBVIOUS
    <3> QED
      BY <1>2, <1>5, <2>3, <2>4, <3>1, PipeChildGoes
  <2>6. ChildPlace(i2 + 1, 0, i2 + 1, i2 + 1)
    BY <1>3, <1>10, RoundsNat DEF ChildPlace
  <2>7. Flow(w1, r1, i2 + 1, i2 + 1)' /\ PipeWords(i1, i2 + 1)'
    <3>1. r2 = i2 + 1 /\ s2 = i2 + 1
      BY <1>3, <1>10 DEF ChildPlace
    <3>2. Len(chan'["b"]) = Len(chan["b"]) + 1 /\ chan'["a"] = chan["a"] /\ UNCHANGED out
      BY <2>3
    <3> QED
      BY <1>4, <3>1, <3>2 DEF Flow, PipeWords
  <2>8. Quiet' /\ Pair(1, 2)'
    BY <2>3, Named, GoesQuiet, GoesPair
  <2>9. PipeInv'
    BY <1>2, <1>3, <2>5, <2>6, <2>7, <2>8, PipeInTurnInv
  <2> QED
    BY <2>3, <2>9 DEF Speaks
<1>11. ASSUME i2 = Rounds, j2 = 0 PROVE PipeInv' /\ Speaks(2, 1)
  <2>1. proc[2].todo = <<>>
    <3>1. 4 * i2 + j2 + 3 = Len(PipeChild) + 1
      BY <1>11, PipeChildIs, RoundsNat
    <3> QED
      BY <1>5, <3>1, Ends, PipeChildIs
  <2>2. /\ proc'[2].st \in {"zombie", "gone"}
        /\ proc'[1].todo = proc[1].todo /\ proc'[1].fds = proc[1].fds
        /\ proc[1].st # "zombie" => proc'[1].st = proc[1].st
        /\ proc[1].st = "zombie" => proc'[1].st \in {"zombie", "gone"}
        /\ \A r \in Pids \ {2} :
              /\ proc[r].st # "zombie" => proc'[r].st = proc[r].st
              /\ proc[r].ppid # 2 => proc'[r].st = proc[r].st /\ proc'[r].ppid = proc[r].ppid
        /\ Quiet' /\ UNCHANGED <<chan, out>>
    BY <1>1, <2>1, OnQuietEnd, Named
  <2>3. PipeMainAt(i1, j1)' /\ PipeChildAt(i2, j2)'
    BY <1>2, <1>11, <2>2 DEF PipeMainAt, PipeChildAt
  <2>4. Flow(w1, r1, i2, r2)' /\ PipeWords(i1, s2)'
    BY <1>4, <2>2 DEF Flow, PipeWords
  <2>5. Pair(1, 2)'
    BY <2>2, PidsPositive DEF Pair
  <2>6. PipeInv'
    BY <1>2, <1>3, <2>2, <2>3, <2>4, <2>5, PipeInTurnInv
  <2> QED
    BY <2>2, <2>6 DEF Speaks
<1>12. CASE j2 < 0
  <2>1. CASE j2 = -2
    <3>1. PipeChild[3 + j2] = Close("a", "w")
      BY <2>1, PipeChildIs
    <3> QED
      BY <1>6, <2>1, <3>1
  <2>2. CASE j2 = -1
    <3>1. PipeChild[3 + j2] = Close("b", "r")
      BY <2>2, PipeChildIs
    <3> QED
      BY <1>6, <2>2, <3>1
  <2> QED
    BY <1>3, <1>12, <2>1, <2>2
<1>13. j2 \in 0..3 \/ j2 < 0
  BY <1>3
<1>14. i2 = Rounds /\ j2 >= 0 => j2 = 0
  BY <1>3
<1> QED
  BY <1>7, <1>8, <1>9, <1>10, <1>11, <1>12, <1>13, <1>14

LEMMA PipeTurn ==
    ASSUME TInv, PipeInv, Next
    PROVE  PipeInv' /\ Speaks(2, 1)
<1>1. Quiet /\ Pair(1, 2)
  BY DEF PipeInv
<1>2. PICK p \in Pids : Turn(p) /\ proc[p].st = "run"
  BY <1>1, OnlyTurns
<1>3. p = 1 \/ p = 2
  BY <1>1, <1>2, PidsPositive DEF Pair
<1>4. ASSUME NEW k \in 1..3, PipeStarts(k) PROVE PipeInv' /\ Speaks(2, 1)
  BY <1>1, <1>2, <1>3, <1>4, PipeStartsTurn DEF PipeStarts
<1>5. ASSUME NEW i1, NEW j1, NEW w1, NEW r1, NEW i2, NEW j2, NEW r2, NEW s2,
             PipeInTurn(i1, j1, w1, r1, i2, j2, r2, s2)
      PROVE  PipeInv' /\ Speaks(2, 1)
  BY <1>1, <1>2, <1>3, <1>5, PipeMainTurn, PipeChildTurn
<1> QED
  BY <1>4, <1>5 DEF PipeInv

LEMMA PipeInit ==
    ASSUME Init, program = "pipe"
    PROVE  PipeInv
<1>1. Scripts[program] = <<PipeMain>>
  <2>1. "pipe" \in DOMAIN PipeScripts /\ PipeScripts["pipe"] = <<PipeMain>>
    BY DEF PipeScripts
  <2> QED
    BY <2>1, PipeAssumption DEF Init
<1>2. DOMAIN <<PipeMain>> = {1} /\ <<PipeMain>>[1] = PipeMain
  OBVIOUS
<1>3. /\ proc[1] = [NoProc EXCEPT !.st = "run", !.todo = PipeMain]
      /\ \A q \in Pids \ {1} : proc[q] = NoProc
  BY <1>1, <1>2, Named DEF Init
<1>4. proc[1].todo = From(PipeMain, 1)
  BY <1>3, Ends, PipeMainIs DEF NoProc
<1>5. Quiet /\ Pair(1, 2)
  <2>1. /\ proc[1].caught = <<>> /\ proc[1].mask = {} /\ proc[1].pending = {}
        /\ proc[1].timer = FALSE
        /\ NoProc.caught = <<>> /\ NoProc.mask = {} /\ NoProc.pending = {}
        /\ NoProc.timer = FALSE /\ NoProc.st = "none"
    BY <1>3 DEF NoProc
  <2>2. \A q \in Pids : q = 1 \/ proc[q] = NoProc
    BY <1>3
  <2>3. Quiet
    BY <2>1, <2>2 DEF Quiet, Plain
  <2>4. \A q \in Pids \ {1, 2} : 2 < q /\ proc[q].st = "none"
    BY <2>1, <2>2, PidsPositive
  <2> QED
    BY <2>3, <2>4 DEF Pair
<1>6. Len(out[1]) = 0 /\ Len(out[2]) = 0 /\ Len(chan["a"]) = 0 /\ Len(chan["b"]) = 0
  BY Named DEF Init
<1>7. PipeStarts(1)
  BY <1>3, <1>4, <1>6, Named DEF PipeStarts, NoProc
<1> QED
  BY <1>5, <1>7 DEF PipeInv

-----------------------------------------------------------------------------
\* The promise

LabInv ==
    /\ TInv
    /\ program = "waitpost" => WaitPostInv(1, 2)
    /\ program = "pipe" => PipeInv

LEMMA StartsSilent == Init => LabInv /\ T!Init
<1> SUFFICES ASSUME Init PROVE LabInv /\ T!Init
  OBVIOUS
<1>1. LabInv
  BY InitTInv, WaitPostInit, PipeInit DEF LabInv
<1>2. Len(out[1]) = 0 /\ Len(out[2]) = 0
  BY Named DEF Init
<1> QED
  BY <1>1, <1>2 DEF T!Init, Spoken

LEMMA StepTakesTurns == LabInv /\ [Next]_vars => LabInv' /\ [T!First \/ T!Second]_(T!vars)
<1> SUFFICES ASSUME LabInv, [Next]_vars
             PROVE  LabInv' /\ (T!First \/ T!Second \/ UNCHANGED T!vars)
  OBVIOUS
<1>1. TInv' /\ program' = program
  <2>1. TInv'
    BY StepTInv DEF LabInv
  <2>2. program' = program
    BY DEF Next, Turn, Deliver, Ring, vars
  <2> QED
    BY <2>1, <2>2
<1>2. CASE UNCHANGED vars
  <2>1. WaitPostInv(1, 2) => WaitPostInv(1, 2)'
    <3>1. \A k : Starts(1, 2, k) => Starts(1, 2, k)'
      BY <1>2 DEF vars, Starts
    <3>2. \A i1, j1, i2, j2, t :
             InTurn(1, 2, i1, j1, i2, j2, t) => InTurn(1, 2, i1, j1, i2, j2, t)'
      <4>1. \A i, j, t : /\ MainAt(1, i, j) => MainAt(1, i, j)'
                         /\ ChildAt(1, 2, i, j, t) => ChildAt(1, 2, i, j, t)'
        BY <1>2 DEF vars, MainAt, ChildAt
      <4>2. \A i1, j1, i2, j2 : /\ Tokens(i1, j1, i2, j2) => Tokens(i1, j1, i2, j2)'
                                /\ Words(1, 2, i1, j1, i2, j2) => Words(1, 2, i1, j1, i2, j2)'
        BY <1>2 DEF vars, Tokens, Words
      <4>3. \A i1, j1, i2, j2, t : Places(i1, j1, i2, j2, t) <=> Places(i1, j1, i2, j2, t)'
        BY DEF Places
      <4> QED
        BY <4>1, <4>2, <4>3 DEF InTurn
    <3>3. Done(1, 2) => Done(1, 2)'
      BY <1>2 DEF vars, Done
    <3>4. (Quiet => Quiet') /\ (Pair(1, 2) => Pair(1, 2)')
      BY <1>2 DEF vars, Quiet, Plain, Pair
    <3> QED
      BY <3>1, <3>2, <3>3, <3>4 DEF WaitPostInv
  <2>2. PipeInv => PipeInv'
    <3>1. \A k : PipeStarts(k) => PipeStarts(k)'
      BY <1>2 DEF vars, PipeStarts
    <3>2. \A i1, j1, w1, r1, i2, j2, r2, s2 :
             PipeInTurn(i1, j1, w1, r1, i2, j2, r2, s2)
                 => PipeInTurn(i1, j1, w1, r1, i2, j2, r2, s2)'
      BY <1>2 DEF vars, PipeInTurn, MainPlace, ChildPlace, PipeMainAt, PipeChildAt, Flow, PipeWords
    <3>3. (Quiet => Quiet') /\ (Pair(1, 2) => Pair(1, 2)')
      BY <1>2 DEF vars, Quiet, Plain, Pair
    <3>4. ASSUME NEW k \in 1..3, PipeStarts(k), Quiet, Pair(1, 2) PROVE PipeInv'
      BY <3>1, <3>3, <3>4 DEF PipeInv
    <3>5. ASSUME NEW i1 \in 0..Rounds, NEW w1 \in 0..Rounds, NEW r1 \in 0..Rounds,
                 NEW i2 \in 0..Rounds, NEW r2 \in 0..Rounds, NEW s2 \in 0..Rounds,
                 NEW j1 \in -2..3, NEW j2 \in -2..3,
                 PipeInTurn(i1, j1, w1, r1, i2, j2, r2, s2), Quiet, Pair(1, 2)
          PROVE  PipeInv'
      <4>1. PipeInTurn(i1, j1, w1, r1, i2, j2, r2, s2)'
        BY <3>2, <3>5
      <4>2. MainPlace(i1, j1, w1, r1) /\ ChildPlace(i2, j2, r2, s2)
        BY <3>5 DEF PipeInTurn
      <4>3. /\ PipeMainAt(i1, j1)' /\ PipeChildAt(i2, j2)'
            /\ Flow(w1, r1, i2, r2)' /\ PipeWords(i1, s2)'
        BY <4>1 DEF PipeInTurn
      <4> QED
        BY <3>3, <3>5, <4>2, <4>3, PipeInTurnInv
    <3> QED
      BY <3>4, <3>5 DEF PipeInv
  <2>3. UNCHANGED T!vars
    BY <1>2 DEF vars, T!vars, Spoken
  <2> QED
    BY <1>1, <2>1, <2>2, <2>3 DEF LabInv
<1>3. CASE Next /\ program = "waitpost"
  <2>1. WaitPostInv(1, 2)' /\ Speaks(1, 2)
    <3>1. Quiet /\ Pair(1, 2)
      BY <1>3 DEF LabInv, WaitPostInv
    <3>2. PICK p \in Pids : Turn(p) /\ proc[p].st = "run"
      BY <1>3, <3>1, OnlyTurns
    <3>3. p \in {1, 2}
      BY <3>1, <3>2, PidsPositive DEF Pair
    <3> QED
      BY <1>3, <3>2, <3>3, WaitPostTurn, Named DEF LabInv
  <2>2. /\ Spoken(2, 1) = Len(out[1]) /\ Spoken(2, 1)' = Len(out'[1])
        /\ Spoken(1, 2) = Len(out[2]) /\ Spoken(1, 2)' = Len(out'[2])
    BY <1>1, <1>3 DEF Spoken
  <2>3. T!First \/ T!Second \/ UNCHANGED T!vars
    BY <2>1, <2>2 DEF Speaks, T!First, T!Second, T!vars
  <2> QED
    BY <1>1, <1>3, <2>1, <2>3 DEF LabInv
<1>4. CASE Next /\ program = "pipe"
  <2>1. PipeInv' /\ Speaks(2, 1)
    BY <1>4, PipeTurn DEF LabInv
  <2>2. /\ Spoken(2, 1) = Len(out[2]) /\ Spoken(2, 1)' = Len(out'[2])
        /\ Spoken(1, 2) = Len(out[1]) /\ Spoken(1, 2)' = Len(out'[1])
    BY <1>1, <1>4 DEF Spoken
  <2>3. T!First \/ T!Second \/ UNCHANGED T!vars
    BY <2>1, <2>2 DEF Speaks, T!First, T!Second, T!vars
  <2> QED
    BY <1>1, <1>4, <2>1, <2>3 DEF LabInv
<1>5. CASE program \notin {"waitpost", "pipe"}
  <2>1. UNCHANGED T!vars
    BY <1>1, <1>5 DEF Spoken, T!vars
  <2> QED
    BY <1>1, <1>5, <2>1 DEF LabInv
<1> QED
  BY <1>2, <1>3, <1>4, <1>5

\* The two processes of pipe.c and those of sem_wait_post.c take turns, however
\* many rounds they make and however much the pipes hold: a process prints only
\* after the write or the sem_post that follows the other's line, and neither
\* finds a pipe at its end or without a reader (pipe.c:39-71,
\* sem_wait_post.c:41-51).
THEOREM TurnsKept == Spec => TakesTurns
BY StartsSilent, StepTakesTurns, PTL DEF Spec, TakesTurns, T!Spec

-----------------------------------------------------------------------------
\* Semaphores: how many processes are about to make certain calls, and how often
\* something has been printed

\* The processes that are about to make one of the calls in C
Doing(C) == {p \in Pids : proc[p].todo # <<>> /\ Now(p) \in C}

\* Everybody but p is in Doing(C) if he was.
Others(p, C) == \A q \in Pids \ {p} : q \in Doing(C)' <=> q \in Doing(C)

LEMMA Counted ==
    ASSUME NEW p \in Pids, NEW C, Others(p, C)
    PROVE  /\ Cardinality(Doing(C)) \in Nat
           /\ Cardinality(Doing(C))' \in Nat
           /\ (p \in Doing(C) <=> p \in Doing(C)') => Cardinality(Doing(C))' = Cardinality(Doing(C))
           /\ p \in Doing(C) /\ p \notin Doing(C)' => Cardinality(Doing(C))' = Cardinality(Doing(C)) - 1
           /\ p \notin Doing(C) /\ p \in Doing(C)' => Cardinality(Doing(C))' = Cardinality(Doing(C)) + 1
<1> DEFINE A == Doing(C)
           B == Doing(C)'
<1>1. IsFiniteSet(A) /\ IsFiniteSet(B) /\ A \subseteq Pids /\ B \subseteq Pids
  <2>1. A \subseteq Pids /\ B \subseteq Pids
    BY DEF Doing
  <2> QED
    BY <2>1, SystemAssumption, FS_Subset
<1>2. \A q \in Pids \ {p} : q \in A <=> q \in B
  BY DEF Others
<1> HIDE DEF A, B
<1>3. CASE p \in A <=> p \in B
  <2>1. A = B
    BY <1>1, <1>2, <1>3
  <2> QED
    BY <1>1, <1>3, <2>1, FS_CardinalityType DEF A, B
<1>4. CASE p \in A /\ p \notin B
  <2>1. B = A \ {p}
    BY <1>1, <1>2, <1>4
  <2>2. Cardinality(B) = Cardinality(A) - 1
    BY <1>1, <1>4, <2>1, FS_RemoveElement
  <2> QED
    BY <1>1, <1>4, <2>2, FS_CardinalityType DEF A, B
<1>5. CASE p \notin A /\ p \in B
  <2>1. B = A \cup {p}
    BY <1>1, <1>2, <1>5
  <2>2. Cardinality(B) = Cardinality(A) + 1
    BY <1>1, <1>5, <2>1, FS_AddElement
  <2> QED
    BY <1>1, <1>5, <2>2, FS_CardinalityType DEF A, B
<1> QED
  BY <1>3, <1>4, <1>5

\* The same for what has been printed
LEMMA SaidIs ==
    \A v : \A x : x \in Said(v) <=>
        \E q \in Pids : \E i \in DOMAIN out[q] : x = <<q, i>> /\ out[q][i] = v
BY DEF Said

LEMMA SaidFinite ==
    ASSUME Output, NEW v
    PROVE  IsFiniteSet(Said(v)) /\ Cardinality(Said(v)) \in Nat
<1> DEFINE places(q) == {q} \X {i \in DOMAIN out[q] : out[q][i] = v}
           all == {places(q) : q \in Pids}
<1>1. ASSUME NEW q \in Pids PROVE IsFiniteSet(places(q))
  <2>1. DOMAIN out[q] = 1..Len(out[q]) /\ Len(out[q]) \in Nat
    BY Joined DEF Output
  <2>2. IsFiniteSet(DOMAIN out[q])
    BY <2>1, FS_Interval
  <2>3. IsFiniteSet({i \in DOMAIN out[q] : out[q][i] = v})
    BY <2>2, FS_Subset
  <2>4. IsFiniteSet({q})
    BY FS_Singleton
  <2> QED
    BY <2>3, <2>4, FS_Product
<1>2. IsFiniteSet(all)
  <2> DEFINE f == [q \in Pids |-> places(q)]
  <2>1. f \in Surjection(Pids, all)
    BY DEF Surjection
  <2> HIDE DEF places, f, all
  <2> QED
    BY <2>1, SystemAssumption, FS_Surjection
<1>3. IsFiniteSet(UNION all)
  <2>1. \A bag \in all : IsFiniteSet(bag)
    BY <1>1
  <2> HIDE DEF all
  <2> QED
    BY <1>2, <2>1, FS_UNION
<1>4. Said(v) = UNION all
  BY DEF Said
<1> QED
  BY <1>3, <1>4, FS_CardinalityType

LEMMA SaidMore ==
    ASSUME Output, Output', NEW p \in Pids, NEW v, NEW w, out' = [out EXCEPT ![p] = Append(@, w)]
    PROVE  /\ v = w => Cardinality(Said(v))' = Cardinality(Said(v)) + 1
           /\ v # w => Cardinality(Said(v))' = Cardinality(Said(v))
<1>1. PICK S : out[p] \in Seq(S)
  BY DEF Output, IsSeq
<1> DEFINE n == Len(out[p]) + 1
<1>2. /\ out[p] \in Seq(S \cup {w}) /\ n \in Nat \ {0}
      /\ DOMAIN out[p] = 1..n - 1
  BY <1>1
<1>3. /\ DOMAIN out'[p] = 1..n /\ out'[p][n] = w /\ \A i \in 1..n - 1 : out'[p][i] = out[p][i]
      /\ \A q \in Pids \ {p} : out'[q] = out[q]
  BY <1>2, AppendProperties DEF Output
<1> HIDE DEF n
<1>4. CASE v = w
  <2>1. <<p, n>> \notin Said(v)
    BY <1>2, SaidIs
  <2>2. ASSUME NEW x PROVE x \in Said(v)' <=> x \in Said(v) \cup {<<p, n>>}
    <3>1. x \in Said(v)' <=>
             \E q \in Pids : \E i \in DOMAIN out'[q] : x = <<q, i>> /\ out'[q][i] = v
      BY DEF Said
    <3>2. x \in Said(v) <=>
             \E q \in Pids : \E i \in DOMAIN out[q] : x = <<q, i>> /\ out[q][i] = v
      BY SaidIs
    <3>3. \A q \in Pids : q = p \/ q \in Pids \ {p}
      OBVIOUS
    <3>4. \A i : i \in 1..n <=> i \in 1..n - 1 \/ i = n
      BY <1>2
    <3>5. \A q \in Pids : \A i :
             i \in DOMAIN out'[q] /\ out'[q][i] = v
                <=> (i \in DOMAIN out[q] /\ out[q][i] = v) \/ (q = p /\ i = n)
      BY <1>2, <1>3, <1>4, <3>3, <3>4
    <3>6. (\E q \in Pids : \E i \in DOMAIN out'[q] : x = <<q, i>> /\ out'[q][i] = v)
             <=> \/ \E q \in Pids : \E i \in DOMAIN out[q] : x = <<q, i>> /\ out[q][i] = v
                 \/ x = <<p, n>>
      BY <3>5, Zenon
    <3> QED
      BY <3>1, <3>2, <3>6
  <2>3. Said(v)' = Said(v) \cup {<<p, n>>}
    BY <2>2
  <2> QED
    BY <1>4, <2>1, <2>3, SaidFinite, FS_AddElement
<1>5. CASE v # w
  <2>2. ASSUME NEW x PROVE x \in Said(v)' <=> x \in Said(v)
    <3>1. x \in Said(v)' <=>
             \E q \in Pids : \E i \in DOMAIN out'[q] : x = <<q, i>> /\ out'[q][i] = v
      BY DEF Said
    <3>2. x \in Said(v) <=>
             \E q \in Pids : \E i \in DOMAIN out[q] : x = <<q, i>> /\ out[q][i] = v
      BY SaidIs
    <3> QED
      BY <1>2, <1>3, <1>5, <3>1, <3>2
  <2>3. Said(v)' = Said(v)
    BY <2>2
  <2> QED
    BY <1>5, <2>3, SaidFinite
<1> QED
  BY <1>4, <1>5

-----------------------------------------------------------------------------
\* Scripts of a few calls

\* s has a call in C at k.
Ahead(s, k, C) == k \in 1..Len(s) /\ s[k] \in C

\* All calls of s are in C, and exactly those after one in X are in Y.
Consists(s, C) == IsSeq(s) /\ \A k \in 1..Len(s) : s[k] \in C
Leads(s, X, Y) ==
    /\ IsSeq(s) /\ ~Ahead(s, 1, Y)
    /\ \A k \in 1..Len(s) : s[k] \in X <=> Ahead(s, k + 1, Y)

LEMMA JoinConsists ==
    ASSUME NEW s, NEW t, NEW C, Consists(s, C), Consists(t, C)
    PROVE  Consists(s \o t, C)
<1>1. /\ IsSeq(s \o t) /\ Len(s \o t) = Len(s) + Len(t)
      /\ \A i \in 1..Len(s) : (s \o t)[i] = s[i]
      /\ \A i \in 1..Len(t) : (s \o t)[Len(s) + i] = t[i]
      /\ Len(s) \in Nat /\ Len(t) \in Nat
  BY Joined DEF Consists
<1>2. ASSUME NEW k \in 1..Len(s) + Len(t) PROVE (s \o t)[k] \in C
  <2>1. CASE k <= Len(s)
    BY <1>1, <2>1 DEF Consists
  <2>2. CASE k > Len(s)
    <3> DEFINE i == k - Len(s)
    <3>1. i \in 1..Len(t) /\ k = Len(s) + i
      BY <1>1, <2>2
    <3> QED
      BY <1>1, <3>1 DEF Consists
  <2> QED
    BY <1>1, <2>1, <2>2
<1> QED
  BY <1>1, <1>2 DEF Consists

LEMMA JoinLeads ==
    ASSUME NEW s, NEW t, NEW X, NEW Y, Leads(s, X, Y), Leads(t, X, Y)
    PROVE  Leads(s \o t, X, Y)
<1> DEFINE u == s \o t
<1>1. /\ IsSeq(u) /\ Len(u) = Len(s) + Len(t)
      /\ \A i \in 1..Len(s) : u[i] = s[i]
      /\ \A i \in 1..Len(t) : u[Len(s) + i] = t[i]
      /\ Len(s) \in Nat /\ Len(t) \in Nat
  BY Joined DEF Leads
<1> HIDE DEF u
<1>2. \A k \in 1..Len(s) : Ahead(u, k, Y) <=> Ahead(s, k, Y)
  BY <1>1 DEF Ahead
<1>3. ASSUME NEW k \in 1..Len(t) + 1 PROVE Ahead(u, Len(s) + k, Y) <=> Ahead(t, k, Y)
  BY <1>1 DEF Ahead
<1>4. ~Ahead(u, 1, Y)
  <2>1. CASE Len(s) = 0
    <3>1. Ahead(u, 0 + 1, Y) <=> Ahead(t, 1, Y)
      BY <1>1, <1>3, <2>1
    <3> QED
      BY <3>1 DEF Leads
  <2>2. CASE Len(s) > 0
    BY <1>1, <1>2, <2>2 DEF Leads
  <2> QED
    BY <1>1, <2>1, <2>2
<1>5. ASSUME NEW k \in 1..Len(u) PROVE u[k] \in X <=> Ahead(u, k + 1, Y)
  <2>1. CASE k < Len(s)
    <3>1. u[k] = s[k] /\ (Ahead(u, k + 1, Y) <=> Ahead(s, k + 1, Y))
      BY <1>1, <1>2, <2>1
    <3> QED
      BY <1>1, <2>1, <3>1 DEF Leads
  <2>2. CASE k = Len(s)
    <3>1. u[k] = s[k] /\ (Ahead(u, k + 1, Y) <=> Ahead(t, 1, Y)) /\ ~Ahead(s, k + 1, Y)
      BY <1>1, <1>3, <2>2 DEF Ahead
    <3> QED
      BY <1>1, <2>2, <3>1 DEF Leads
  <2>3. CASE k > Len(s)
    <3> DEFINE i == k - Len(s)
    <3>1. i \in 1..Len(t) /\ k = Len(s) + i /\ k + 1 = Len(s) + (i + 1) /\ i + 1 \in 1..Len(t) + 1
      BY <1>1, <2>3
    <3>2. u[k] = t[i] /\ (Ahead(u, k + 1, Y) <=> Ahead(t, i + 1, Y))
      BY <1>1, <1>3, <3>1
    <3> QED
      BY <3>1, <3>2 DEF Leads
  <2> QED
    BY <1>1, <2>1, <2>2, <2>3
<1> QED
  BY <1>1, <1>4, <1>5 DEF Leads, u

LEMMA NeutralLeads ==
    ASSUME NEW s, NEW C, Consists(s, C), NEW X, NEW Y, C \cap X = {}, C \cap Y = {}
    PROVE  Leads(s, X, Y)
BY DEF Leads, Consists, Ahead

LEMMA Cycle2Leads ==
    ASSUME NEW n \in Nat, NEW x, NEW y, NEW X, NEW Y, x \in X <=> y \in Y, y \notin X, x \notin Y
    PROVE  /\ Consists(Times(n, <<x, y>>), {x, y})
           /\ Leads(Times(n, <<x, y>>), X, Y)
<1> DEFINE s == Times(n, <<x, y>>)
<1>1. IsSeq(s) /\ Len(s) = 2 * n /\ \A i \in 0..n - 1 : s[2 * i + 1] = x /\ s[2 * i + 2] = y
  <2>1. Cycle2(s, n, x, y)
    BY Rounds2
  <2> HIDE DEF s
  <2> QED
    BY <2>1 DEF Cycle2
<1> HIDE DEF s
<1>2. ASSUME NEW k \in 1..2 * n
      PROVE  \E i \in 0..n - 1 : k = 2 * i + 1 \/ k = 2 * i + 2
  <2> DEFINE i == (k - 1) \div 2
  <2>1. i \in 0..n - 1 /\ (k = 2 * i + 1 \/ k = 2 * i + 2)
    OBVIOUS
  <2> QED
    BY <2>1
<1>3. Consists(s, {x, y})
  BY <1>1, <1>2 DEF Consists
<1>4. ~Ahead(s, 1, Y)
  <2>1. n > 0 => s[2 * 0 + 1] = x
    BY <1>1
  <2> QED
    BY <1>1, <2>1 DEF Ahead
<1>5. ASSUME NEW k \in 1..2 * n PROVE s[k] \in X <=> Ahead(s, k + 1, Y)
  <2>1. PICK i \in 0..n - 1 : k = 2 * i + 1 \/ k = 2 * i + 2
    BY <1>2
  <2>2. CASE k = 2 * i + 1
    <3>1. s[k] = x /\ s[k + 1] = y /\ k + 1 \in 1..2 * n
      BY <1>1, <2>2
    <3> QED
      BY <1>1, <3>1 DEF Ahead
  <2>3. CASE k = 2 * i + 2
    <3>1. s[k] = y
      BY <1>1, <2>3
    <3>2. ASSUME k + 1 \in 1..2 * n PROVE s[k + 1] = x
      <4> DEFINE j == i + 1
      <4>1. j \in 0..n - 1 /\ k + 1 = 2 * j + 1
        BY <2>3, <3>2
      <4> QED
        BY <1>1, <4>1
    <3> QED
      BY <1>1, <3>1, <3>2 DEF Ahead
  <2> QED
    BY <2>1, <2>2, <2>3
<1>6. Leads(s, X, Y)
  BY <1>1, <1>4, <1>5 DEF Leads
<1> QED
  BY <1>3, <1>6 DEF s

LEMMA Cycle3Leads ==
    ASSUME NEW n \in Nat, NEW x, NEW y, NEW z, NEW X, NEW Y,
           x \in X <=> y \in Y, y \in X <=> z \in Y, z \notin X, x \notin Y
    PROVE  /\ Consists(Times(n, <<x, y, z>>), {x, y, z})
           /\ Leads(Times(n, <<x, y, z>>), X, Y)
<1> DEFINE s == Times(n, <<x, y, z>>)
<1>1. /\ IsSeq(s) /\ Len(s) = 3 * n
      /\ \A i \in 0..n - 1 : s[3 * i + 1] = x /\ s[3 * i + 2] = y /\ s[3 * i + 3] = z
  <2>1. Cycle3(s, n, x, y, z)
    BY Rounds3
  <2> HIDE DEF s
  <2> QED
    BY <2>1 DEF Cycle3
<1> HIDE DEF s
<1>2. ASSUME NEW k \in 1..3 * n
      PROVE  \E i \in 0..n - 1 : k = 3 * i + 1 \/ k = 3 * i + 2 \/ k = 3 * i + 3
  <2> DEFINE i == (k - 1) \div 3
  <2>1. i \in 0..n - 1 /\ (k = 3 * i + 1 \/ k = 3 * i + 2 \/ k = 3 * i + 3)
    OBVIOUS
  <2> QED
    BY <2>1
<1>3. Consists(s, {x, y, z})
  <2>1. ASSUME NEW k \in 1..3 * n PROVE s[k] \in {x, y, z}
    <3>1. PICK i \in 0..n - 1 : k = 3 * i + 1 \/ k = 3 * i + 2 \/ k = 3 * i + 3
      BY <1>2
    <3> QED
      BY <1>1, <3>1
  <2> QED
    BY <1>1, <2>1 DEF Consists
<1>4. ~Ahead(s, 1, Y)
  <2>1. n > 0 => s[3 * 0 + 1] = x
    BY <1>1
  <2> QED
    BY <1>1, <2>1 DEF Ahead
<1>5. ASSUME NEW k \in 1..3 * n PROVE s[k] \in X <=> Ahead(s, k + 1, Y)
  <2>1. PICK i \in 0..n - 1 : k = 3 * i + 1 \/ k = 3 * i + 2 \/ k = 3 * i + 3
    BY <1>2
  <2>2. CASE k = 3 * i + 1
    <3>1. s[k] = x /\ s[k + 1] = y /\ k + 1 \in 1..3 * n
      BY <1>1, <2>2
    <3> QED
      BY <1>1, <3>1 DEF Ahead
  <2>3. CASE k = 3 * i + 2
    <3>1. s[k] = y /\ s[k + 1] = z /\ k + 1 \in 1..3 * n
      BY <1>1, <2>3
    <3> QED
      BY <1>1, <3>1 DEF Ahead
  <2>4. CASE k = 3 * i + 3
    <3>1. s[k] = z
      BY <1>1, <2>4
    <3>2. ASSUME k + 1 \in 1..3 * n PROVE s[k + 1] = x
      <4> DEFINE j == i + 1
      <4>1. j \in 0..n - 1 /\ k + 1 = 3 * j + 1
        BY <2>4, <3>2
      <4> QED
        BY <1>1, <4>1
    <3> QED
      BY <1>1, <3>1, <3>2 DEF Ahead
  <2> QED
    BY <2>1, <2>2, <2>3, <2>4
<1>6. Leads(s, X, Y)
  BY <1>1, <1>4, <1>5 DEF Leads
<1> QED
  BY <1>3, <1>6 DEF s

\* Everybody has the rest of one of the scripts in SS to do.
Runs(SS) == \A q \in Pids : \E s \in SS : \E k \in 1..Len(s) + 1 : proc[q].todo = From(s, k)

\* p makes call k of s, and the others stay in C or out of it.
Moves(p, s, k, C) ==
    /\ IsSeq(s) /\ k \in 1..Len(s)
    /\ proc[p].todo = From(s, k) /\ proc'[p].todo = From(s, k + 1) /\ Others(p, C)

LEMMA Heads ==
    ASSUME NEW s, IsSeq(s), NEW k \in 1..Len(s) + 1, NEW C
    PROVE  From(s, k) # <<>> /\ Head(From(s, k)) \in C <=> Ahead(s, k, C)
<1>1. Len(s) \in Nat
  BY Joined
<1>2. CASE k \in 1..Len(s)
  BY <1>2, Onward DEF Ahead
<1>3. CASE k = Len(s) + 1
  BY <1>1, <1>3, Ends DEF Ahead
<1> QED
  BY <1>1, <1>2, <1>3

LEMMA Moving ==
    ASSUME NEW p \in Pids, NEW s, NEW k, NEW X, NEW Y, Moves(p, s, k, Y), Leads(s, X, Y)
    PROVE  /\ Cardinality(Doing(Y)) \in Nat /\ Cardinality(Doing(Y))' \in Nat
           /\ Cardinality(Doing(Y))' = Cardinality(Doing(Y)) + (IF s[k] \in X THEN 1 ELSE 0)
                                                             - (IF s[k] \in Y THEN 1 ELSE 0)
<1>1. Len(s) \in Nat /\ k \in 1..Len(s) + 1 /\ k + 1 \in 1..Len(s) + 1
  BY Joined DEF Moves
<1>2. p \in Doing(Y) <=> Ahead(s, k, Y)
  <2>1. From(s, k) # <<>> /\ Head(From(s, k)) \in Y <=> Ahead(s, k, Y)
    BY <1>1, Heads DEF Moves
  <2> QED
    BY <2>1 DEF Moves, Doing, Now
<1>3. p \in Doing(Y)' <=> Ahead(s, k + 1, Y)
  <2>1. From(s, k + 1) # <<>> /\ Head(From(s, k + 1)) \in Y <=> Ahead(s, k + 1, Y)
    BY <1>1, Heads DEF Moves
  <2> QED
    BY <2>1 DEF Moves, Doing, Now
<1>4. (Ahead(s, k, Y) <=> s[k] \in Y) /\ (Ahead(s, k + 1, Y) <=> s[k] \in X)
  BY DEF Moves, Leads, Ahead
<1>5. Others(p, Y)
  BY DEF Moves
<1> DEFINE n == Cardinality(Doing(Y))
<1>6. /\ n \in Nat /\ n' \in Nat
      /\ (s[k] \in Y <=> s[k] \in X) => n' = n
      /\ s[k] \in Y /\ ~(s[k] \in X) => n' = n - 1
      /\ s[k] \in X /\ ~(s[k] \in Y) => n' = n + 1
  BY <1>2, <1>3, <1>4, <1>5, Counted
<1> HIDE DEF n
<1>7. n' = n + (IF s[k] \in X THEN 1 ELSE 0) - (IF s[k] \in Y THEN 1 ELSE 0)
  BY <1>6
<1> QED
  BY <1>6, <1>7 DEF n

LEMMA GoesMoves ==
    ASSUME NEW p \in Pids, NEW s, NEW k, NEW c, Reached(p, s, k, c), Goes(p, s, k + 1)
    PROVE  /\ \A C : Moves(p, s, k, C)
           /\ \A SS : s \in SS /\ Runs(SS) => Runs(SS)'
<1>1. /\ IsSeq(s) /\ k \in 1..Len(s) /\ proc[p].todo = From(s, k) /\ proc'[p].todo = From(s, k + 1)
      /\ \A q \in Pids \ {p} : proc'[q].todo = proc[q].todo
  BY DEF Reached, Goes
<1>2. \A C : Others(p, C)
  BY <1>1 DEF Others, Doing, Now
<1>3. \A C : Moves(p, s, k, C)
  BY <1>1, <1>2 DEF Moves
<1>4. ASSUME NEW SS, s \in SS, Runs(SS) PROVE Runs(SS)'
  <2>1. k + 1 \in 1..Len(s) + 1
    BY <1>1, Joined
  <2>2. ASSUME NEW q \in Pids
        PROVE  \E u \in SS : \E i \in 1..Len(u) + 1 : proc'[q].todo = From(u, i)
    BY <1>1, <1>4, <2>1 DEF Runs
  <2> QED
    BY <2>2 DEF Runs
<1> QED
  BY <1>3, <1>4

\* The end of a process leaves all of that alone.
LEMMA EndMoves ==
    ASSUME NEW p \in Pids, Table(proc), Turn(p), proc[p].todo = <<>>, Quiet
    PROVE  /\ \A C : Cardinality(Doing(C))' = Cardinality(Doing(C))
           /\ \A SS : Runs(SS) => Runs(SS)'
           /\ Quiet' /\ UNCHANGED <<program, chan, sem, out>>
<1>1. /\ proc'[p].todo = proc[p].todo
      /\ \A q \in Pids \ {p} : proc'[q].todo = proc[q].todo
      /\ Quiet' /\ UNCHANGED <<program, chan, sem, out>>
  BY OnQuietEnd
<1>2. \A q \in Pids : proc'[q].todo = proc[q].todo
  BY <1>1
<1>3. \A C : Doing(C)' = Doing(C)
  BY <1>2 DEF Doing, Now
<1>4. \A SS : Runs(SS) => Runs(SS)'
  BY <1>2 DEF Runs
<1> QED
  BY <1>1, <1>3, <1>4

\* A process that turns is over or makes one of the calls of the scripts.
LEMMA RunsReached ==
    ASSUME TInv, NEW SS, NEW C, Runs(SS), \A s \in SS : Consists(s, C), NEW p \in Pids
    PROVE  \/ proc[p].todo = <<>>
           \/ \E s \in SS : \E k \in 1..Len(s) : \E c \in C : Reached(p, s, k, c) /\ s[k] = c
<1>0. PICK s \in SS : \E k \in 1..Len(s) + 1 : proc[p].todo = From(s, k)
  BY DEF Runs
<1>1. PICK k \in 1..Len(s) + 1 : proc[p].todo = From(s, k)
  BY <1>0
<1>2. IsSeq(s) /\ Len(s) \in Nat
  BY Joined DEF Consists
<1>3. CASE k = Len(s) + 1
  BY <1>1, <1>2, <1>3, Ends
<1>4. CASE k \in 1..Len(s)
  BY <1>1, <1>2, <1>4 DEF Reached, TInv, IInv, Consists
<1> QED
  BY <1>2, <1>3, <1>4

\* The calls in C that print are calls of Puts.
Printing(C) == \A c \in C : c.op = "puts" => c = Puts(c.val)

LEMMA AboutIs ==
    ASSUME TInv, NEW SS, NEW C, Runs(SS), \A s \in SS : Consists(s, C), Printing(C), NEW v
    PROVE  About(v) = Doing({Puts(v)})
<1> SUFFICES ASSUME NEW p \in Pids PROVE p \in About(v) <=> p \in Doing({Puts(v)})
  BY DEF About, Doing
<1>1. Puts(v).op = "puts" /\ Puts(v).val = v
  BY DEF Puts
<1>2. proc[p].todo # <<>> => proc[p].st = "run" /\ Now(p) \in C
  <2>1. proc[p].todo # <<>> => proc[p].st = "run"
    BY DEF TInv, IInv, ProcessTable
  <2>2. ASSUME NEW s \in SS, NEW k \in 1..Len(s), NEW c \in C, Reached(p, s, k, c) PROVE Now(p) \in C
    BY <2>2, Given
  <2> QED
    BY <2>1, <2>2, RunsReached
<1>3. proc[p].todo # <<>> /\ Now(p).op = "puts" => Now(p) = Puts(Now(p).val)
  BY <1>2 DEF Printing
<1> QED
  BY <1>1, <1>2, <1>3 DEF About, Doing, At, Now

\* How many v have been printed or are about to be
Count(v) == Cardinality(Said(v)) + Cardinality(Doing({Puts(v)}))

-----------------------------------------------------------------------------
\* producer.c and consumer.c

ShelfCalls == {SemOpen("a", 0), SemRaise("a", 1), Puts("added"),
               SemOp("a", -1), Puts("got"), Sleep}

LEMMA ShelfCallsDiffer ==
    /\ SemOpen("a", 0) \notin {SemRaise("a", 1), Puts("added"), SemOp("a", -1), Puts("got"), Sleep}
    /\ SemRaise("a", 1) \notin {Puts("added"), SemOp("a", -1), Puts("got"), Sleep}
    /\ SemOp("a", -1) \notin {Puts("added"), Puts("got"), Sleep}
    /\ Puts("added") \notin {Puts("got"), Sleep} /\ Puts("got") # Sleep
<1>1. /\ SemOpen("a", 0).op = "semopen" /\ SemRaise("a", 1).op = "semop" /\ Sleep.op = "sleep"
      /\ SemOp("a", -1).op = "semop" /\ SemOp("a", -1).by = -1 /\ SemRaise("a", 1).by = 1
      /\ Puts("added").op = "puts" /\ Puts("added").val = "added"
      /\ Puts("got").op = "puts" /\ Puts("got").val = "got"
  BY DEF SemOpen, SemRaise, SemOp, Puts, Sleep
<1> QED
  BY <1>1

LEMMA ShelfScripts ==
    \A s \in {Producer, Consumer} :
        /\ Consists(s, ShelfCalls)
        /\ Leads(s, {SemRaise("a", 1)}, {Puts("added")})
        /\ Leads(s, {SemOp("a", -1)}, {Puts("got")})
<1> DEFINE open == SemOpen("a", 0)
           raise == SemRaise("a", 1)
           added == Puts("added")
           lower == SemOp("a", -1)
           got == Puts("got")
           first == <<open>>
           adds == Times(Rounds, <<raise, added>>)
           gets == Times(2 * Rounds, <<lower, got, Sleep>>)
<1>1. /\ open \notin {raise, added, lower, got, Sleep} /\ raise \notin {added, lower, got, Sleep}
      /\ lower \notin {added, got, Sleep} /\ added \notin {got, Sleep} /\ got # Sleep
      /\ ShelfCalls = {open, raise, added, lower, got, Sleep}
  BY ShelfCallsDiffer DEF ShelfCalls
<1>2. Producer = first \o adds /\ Consumer = first \o gets
  BY DEF Producer, Consumer
<1> HIDE DEF open, raise, added, lower, got
<1>3. Consists(first, {open})
  <2>1. IsSeq(<<open>>) /\ Len(<<open>>) = 1 /\ <<open>>[1] = open
    BY Singles
  <2> QED
    BY <2>1 DEF Consists
<1>4. /\ Consists(adds, {raise, added}) /\ Leads(adds, {raise}, {added})
      /\ Leads(adds, {lower}, {got})
  BY <1>1, Cycle2Leads, RoundsNat
<1>5. /\ Consists(gets, {lower, got, Sleep}) /\ Leads(gets, {lower}, {got})
      /\ Leads(gets, {raise}, {added})
  <2>1. 2 * Rounds \in Nat
    BY RoundsNat
  <2> DEFINE n == 2 * Rounds
  <2> HIDE DEF n
  <2>2. n \in Nat => /\ Consists(Times(n, <<lower, got, Sleep>>), {lower, got, Sleep})
                     /\ Leads(Times(n, <<lower, got, Sleep>>), {lower}, {got})
                     /\ Leads(Times(n, <<lower, got, Sleep>>), {raise}, {added})
    BY <1>1, Cycle3Leads
  <2> QED
    BY <2>1, <2>2 DEF n
<1> HIDE DEF first, adds, gets
<1>6. Leads(first, {raise}, {added}) /\ Leads(first, {lower}, {got})
  BY <1>1, <1>3, NeutralLeads
<1>7. Consists(first, ShelfCalls) /\ Consists(adds, ShelfCalls) /\ Consists(gets, ShelfCalls)
  BY <1>1, <1>3, <1>4, <1>5 DEF Consists
<1>8. Consists(Producer, ShelfCalls) /\ Consists(Consumer, ShelfCalls)
  BY <1>2, <1>7, JoinConsists
<1>9. /\ Leads(Producer, {raise}, {added}) /\ Leads(Consumer, {raise}, {added})
      /\ Leads(Producer, {lower}, {got}) /\ Leads(Consumer, {lower}, {got})
  BY <1>2, <1>4, <1>5, <1>6, JoinLeads
<1> QED
  BY <1>8, <1>9 DEF raise, added, lower, got

\* The semaphore is the number of objects added and not got.
ShelfInv ==
    /\ Quiet /\ Runs({Producer, Consumer})
    /\ \/ sem["a"] = NoSem /\ Count("added") = 0 /\ Count("got") = 0
       \/ sem["a"] \in {0, 1} /\ sem["a"] = Count("added") - Count("got")

LEMMA ShelfTurn ==
    ASSUME TInv, TInv', ShelfInv, Next
    PROVE  ShelfInv'
<1>1. Quiet /\ Runs({Producer, Consumer}) /\ Table(proc) /\ Semaphores /\ Output /\ Output'
  BY DEF ShelfInv, TInv, IInv
<1>2. PICK p \in Pids : Turn(p) /\ proc[p].st = "run"
  BY <1>1, OnlyTurns
<1> DEFINE A == Cardinality(Said("added"))
           G == Cardinality(Said("got"))
           a == Cardinality(Doing({Puts("added")}))
           g == Cardinality(Doing({Puts("got")}))
<1>3. \/ sem["a"] = NoSem /\ A + a = 0 /\ G + g = 0
      \/ sem["a"] \in {0, 1} /\ sem["a"] = (A + a) - (G + g)
  BY DEF ShelfInv, Count
<1>4. ASSUME Quiet', Runs({Producer, Consumer})',
             \/ sem'["a"] = NoSem /\ A' + a' = 0 /\ G' + g' = 0
             \/ sem'["a"] \in {0, 1} /\ sem'["a"] = (A' + a') - (G' + g')
      PROVE  ShelfInv'
  BY <1>4 DEF ShelfInv, Count
<1>5. A \in Nat /\ G \in Nat
  BY <1>1, SaidFinite
<1> HIDE DEF A, G, a, g
<1>6. CASE proc[p].todo = <<>>
  <2>1. a' = a /\ g' = g /\ Runs({Producer, Consumer})' /\ Quiet' /\ UNCHANGED <<sem, out>>
    BY <1>1, <1>2, <1>6, EndMoves DEF a, g
  <2>2. A' = A /\ G' = G
    BY <2>1 DEF A, G, Said
  <2> QED
    BY <1>3, <1>4, <2>1, <2>2
<1>7. ASSUME NEW s \in {Producer, Consumer}, NEW k \in 1..Len(s), NEW c \in ShelfCalls,
             Reached(p, s, k, c), s[k] = c
      PROVE  ShelfInv'
  <2>1. /\ Leads(s, {SemRaise("a", 1)}, {Puts("added")})
        /\ Leads(s, {SemOp("a", -1)}, {Puts("got")})
    BY ShelfScripts
  <2>2. ASSUME Goes(p, s, k + 1)
        PROVE  /\ Quiet' /\ Runs({Producer, Consumer})'
               /\ a \in Nat /\ a' \in Nat /\ g \in Nat /\ g' \in Nat
               /\ a' = a + (IF c = SemRaise("a", 1) THEN 1 ELSE 0) - (IF c = Puts("added") THEN 1 ELSE 0)
               /\ g' = g + (IF c = SemOp("a", -1) THEN 1 ELSE 0) - (IF c = Puts("got") THEN 1 ELSE 0)
    <3>1. Quiet'
      BY <1>1, <2>2, GoesQuiet
    <3>2. /\ Moves(p, s, k, {Puts("added")}) /\ Moves(p, s, k, {Puts("got")})
          /\ Runs({Producer, Consumer})'
      BY <1>1, <1>7, <2>2, GoesMoves
    <3>3. /\ a \in Nat /\ a' \in Nat
          /\ a' = a + (IF c \in {SemRaise("a", 1)} THEN 1 ELSE 0) - (IF c \in {Puts("added")} THEN 1 ELSE 0)
      BY <1>7, <2>1, <3>2, Moving DEF a
    <3>4. /\ g \in Nat /\ g' \in Nat
          /\ g' = g + (IF c \in {SemOp("a", -1)} THEN 1 ELSE 0) - (IF c \in {Puts("got")} THEN 1 ELSE 0)
      BY <1>7, <2>1, <3>2, Moving DEF g
    <3> QED
      BY <3>1, <3>2, <3>3, <3>4
  <2>3. UNCHANGED out => A' = A /\ G' = G
    BY DEF A, G, Said
  <2>4. "a" \in Objects
    BY IpcAssumption
  <2>5. CASE c = SemOpen("a", 0)
    <3>1. /\ Goes(p, s, k + 1) /\ UNCHANGED out
          /\ sem["a"] = NoSem => sem'["a"] = 0
          /\ sem["a"] # NoSem => sem'["a"] = sem["a"]
      <4>1. Goes(p, s, k + 1) /\ Opened("a", 0) /\ UNCHANGED out
        <5>1. Reached(p, s, k, SemOpen("a", 0))
          BY <1>7, <2>5
        <5> QED
          BY <1>1, <1>2, <2>4, <5>1, OnSemOpen
      <4> QED
        BY <4>1 DEF Opened
    <3>2. a' = a /\ g' = g
      BY <2>2, <2>5, <3>1, ShelfCallsDiffer
    <3> QED
      BY <1>3, <1>4, <2>2, <2>3, <3>1, <3>2, SMTT(20) DEF NoSem
  <2>6. CASE c = SemRaise("a", 1)
    <3>1. Goes(p, s, k + 1) /\ UNCHANGED out /\ sem["a"] = 0 /\ sem'["a"] = 1
      BY <1>1, <1>2, <1>7, <2>4, <2>6, OnSemRaise
    <3>2. a' = a + 1 /\ g' = g
      BY <2>2, <2>6, <3>1, ShelfCallsDiffer
    <3>4. A' + a' = A + a + 1 /\ G' + g' = G + g
      BY <1>5, <2>2, <3>1, <3>2, <2>3
    <3>5. sem["a"] = (A + a) - (G + g)
      BY <1>3, <3>1 DEF NoSem
    <3>6. sem'["a"] = 1 /\ sem'["a"] = (A' + a') - (G' + g')
      <4>1. /\ A \in Nat /\ a \in Nat /\ G \in Nat /\ g \in Nat
            /\ (A + a) - (G + g) = 0
        BY <1>5, <2>2, <3>1, <3>5
      <4>2. (A + a + 1) - (G + g) = 1
        BY <4>1
      <4> QED
        BY <3>1, <3>4, <4>2
    <3> QED
      BY <1>4, <2>2, <3>1, <3>6
  <2>7. CASE c = Puts("added")
    <3>1. Goes(p, s, k + 1) /\ UNCHANGED sem /\ out' = [out EXCEPT ![p] = Append(@, "added")]
      BY <1>1, <1>2, <1>7, <2>7, OnPuts
    <3>2. a' = a - 1 /\ g' = g
      BY <2>2, <2>7, <3>1, ShelfCallsDiffer
    <3>3. A' = A + 1 /\ G' = G
      BY <1>1, <3>1, SaidMore DEF A, G
    <3>4. A' + a' = A + a /\ G' + g' = G + g
      BY <1>5, <2>2, <3>1, <3>2, <3>3
    <3> QED
      BY <1>3, <1>4, <1>5, <2>2, <3>1, <3>4 DEF NoSem
  <2>8. CASE c = SemOp("a", -1)
    <3>1. Goes(p, s, k + 1) /\ UNCHANGED out /\ sem["a"] + -1 >= 0 /\ sem'["a"] = sem["a"] + -1
      BY <1>1, <1>2, <1>7, <2>4, <2>8, OnSemOp
    <3>2. a' = a /\ g' = g + 1
      BY <2>2, <2>8, <3>1, ShelfCallsDiffer
    <3>4. A' + a' = A + a /\ G' + g' = G + g + 1
      BY <1>5, <2>2, <3>1, <3>2, <2>3
    <3>5. sem["a"] = (A + a) - (G + g)
      BY <1>3, <3>1 DEF NoSem
    <3>6. sem'["a"] = 0 /\ sem'["a"] = (A' + a') - (G' + g')
      <4>1. sem["a"] = 1
        BY <1>3, <3>1 DEF NoSem
      <4>2. sem'["a"] = 0
        BY <3>1, <4>1
      <4>3. (A' + a') - (G' + g') = 0
        <5>1. (A' + a') - (G' + g') = (A + a) - (G + g + 1)
          BY <3>4
        <5>2. A \in Nat /\ G \in Nat /\ a \in Nat /\ g \in Nat
          BY <1>5, <2>2, <3>1
        <5>3. (A + a) - (G + g + 1) = 0
          BY <3>5, <4>1, <5>2
        <5> QED
          BY <5>1, <5>3
      <4> QED
        BY <4>2, <4>3
    <3> QED
      BY <1>4, <2>2, <3>1, <3>6
  <2>9. CASE c = Puts("got")
    <3>1. Goes(p, s, k + 1) /\ UNCHANGED sem /\ out' = [out EXCEPT ![p] = Append(@, "got")]
      BY <1>1, <1>2, <1>7, <2>9, OnPuts
    <3>2. a' = a /\ g' = g - 1
      BY <2>2, <2>9, <3>1, ShelfCallsDiffer
    <3>3. A' = A /\ G' = G + 1
      BY <1>1, <3>1, SaidMore DEF A, G
    <3>4. A' + a' = A + a /\ G' + g' = G + g
      BY <1>5, <2>2, <3>1, <3>2, <3>3
    <3> QED
      BY <1>3, <1>4, <1>5, <2>2, <3>1, <3>4 DEF NoSem
  <2>10. CASE c = Sleep
    <3>1. Goes(p, s, k + 1) /\ UNCHANGED <<sem, out>>
      BY <1>1, <1>2, <1>7, <2>10, OnSleep
    <3>2. a' = a /\ g' = g
      BY <2>2, <2>10, <3>1, ShelfCallsDiffer
    <3> QED
      BY <1>3, <1>4, <2>2, <2>3, <3>1, <3>2
  <2> QED
    BY <2>5, <2>6, <2>7, <2>8, <2>9, <2>10 DEF ShelfCalls
<1>8. \A s \in {Producer, Consumer} : Consists(s, ShelfCalls)
  BY ShelfScripts
<1>9. \/ proc[p].todo = <<>>
      \/ \E s \in {Producer, Consumer} : \E k \in 1..Len(s) : \E c \in ShelfCalls :
             Reached(p, s, k, c) /\ s[k] = c
  <2> DEFINE SS == {Producer, Consumer}
  <2>1. Runs(SS) /\ \A s \in SS : Consists(s, ShelfCalls)
    BY <1>1, <1>8
  <2> HIDE DEF SS
  <2>2. \/ proc[p].todo = <<>>
        \/ \E s \in SS : \E k \in 1..Len(s) : \E c \in ShelfCalls : Reached(p, s, k, c) /\ s[k] = c
    BY <2>1, RunsReached, ZenonT(30)
  <2> QED
    BY <2>2 DEF SS
<1> QED
  BY <1>6, <1>7, <1>9

LEMMA ShelfCounts ==
    ASSUME TInv, ShelfInv, program = "shelf"
    PROVE  ObjectsAccounted
<1>1. Printing(ShelfCalls)
  BY DEF Printing, ShelfCalls, Puts, SemOpen, SemRaise, SemOp, Sleep
<1>2. About("added") = Doing({Puts("added")}) /\ About("got") = Doing({Puts("got")})
  BY <1>1, AboutIs, ShelfScripts DEF ShelfInv
<1> QED
  BY <1>2 DEF ShelfInv, ObjectsAccounted, Count

-----------------------------------------------------------------------------
\* A fork puts a process into the table that begins with code.
LEMMA ForkMoves ==
    ASSUME NEW p \in Pids, NEW s, NEW k, NEW code, Reached(p, s, k, Fork(code)), Turn(p),
           TInv, Quiet, IsSeq(code)
    PROVE  /\ \A C : ~Ahead(code, 1, C) => Moves(p, s, k, C)
           /\ \A SS : s \in SS /\ code \in SS /\ Runs(SS) => Runs(SS)'
           /\ Quiet' /\ UNCHANGED <<program, chan, sem, out>>
<1> DEFINE free == {q \in Pids : proc[q].st = "none"}
<1>1. CASE free = {}
  <2>1. Goes(p, s, k + 1) /\ UNCHANGED <<program, chan, sem, out>>
    BY <1>1, OnFullFork
  <2> QED
    BY <2>1, GoesQuiet, GoesMoves
<1>2. CASE free # {}
  <2>1. PICK r \in free : \A q \in free : r <= q
    BY <1>2, Least, PidsPositive
  <2>2. r \in Pids /\ proc[r].st = "none" /\ proc[r].todo = <<>>
    BY <2>1 DEF TInv, IInv, ProcessTable
  <2>3. /\ p # r /\ proc'[p].todo = From(s, k + 1) /\ proc'[r].todo = code /\ Only({p, r})
        /\ Quiet' /\ UNCHANGED <<program, chan, sem, out>>
    <3>1. \A q \in Pids : proc[q].st = "none" => r <= q
      BY <2>1
    <3> QED
      BY <2>2, <3>1, OnFork, SMTT(20)
  <2>4. From(code, 1) = code /\ 1 \in 1..Len(code) + 1
    BY Ends, Joined
  <2>5. \A q \in Pids \ {p, r} : proc'[q].todo = proc[q].todo
    BY <2>3 DEF Only
  <2>6. ASSUME NEW C, ~Ahead(code, 1, C) PROVE Moves(p, s, k, C)
    <3>1. r \notin Doing(C) /\ r \notin Doing(C)'
      <4>1. ~(From(code, 1) # <<>> /\ Head(From(code, 1)) \in C)
        BY <2>4, <2>6, Heads
      <4> QED
        BY <2>2, <2>3, <2>4, <4>1 DEF Doing, Now
    <3>2. \A q \in Pids \ {p, r} : q \in Doing(C)' <=> q \in Doing(C)
      BY <2>5 DEF Doing, Now
    <3>3. Others(p, C)
      BY <3>1, <3>2 DEF Others
    <3> QED
      BY <2>3, <3>3 DEF Moves, Reached
  <2>7. ASSUME NEW SS, s \in SS, code \in SS, Runs(SS) PROVE Runs(SS)'
    <3>1. k + 1 \in 1..Len(s) + 1
      BY Joined DEF Reached
    <3>2. ASSUME NEW q \in Pids
          PROVE  \E u \in SS : \E i \in 1..Len(u) + 1 : proc'[q].todo = From(u, i)
      BY <2>3, <2>4, <2>5, <2>7, <3>1 DEF Runs
    <3> QED
      BY <3>2 DEF Runs
  <2> QED
    BY <2>3, <2>6, <2>7
<1> QED
  BY <1>1, <1>2

-----------------------------------------------------------------------------
\* semopPC.c

SemopCalls == {SemOpen("a", 0), SetVal("a", 0), Fork(SemopChild), Sleep,
               Puts("releasing"), SemOp("a", 1), SemOp("a", -1), Puts("acquired")}

LEMMA SemopCallsDiffer ==
    /\ SemOpen("a", 0) \notin {Puts("releasing"), SemOp("a", 1), SemOp("a", -1), Puts("acquired")}
    /\ SetVal("a", 0) \notin {Puts("releasing"), SemOp("a", 1), SemOp("a", -1), Puts("acquired")}
    /\ Fork(SemopChild) \notin {Puts("releasing"), SemOp("a", 1), SemOp("a", -1), Puts("acquired")}
    /\ Sleep \notin {Puts("releasing"), SemOp("a", 1), SemOp("a", -1), Puts("acquired")}
    /\ Puts("releasing") \notin {SemOp("a", 1), SemOp("a", -1), Puts("acquired")}
    /\ SemOp("a", 1) \notin {SemOp("a", -1), Puts("acquired")}
    /\ SemOp("a", -1) # Puts("acquired")
<1>1. /\ SemOpen("a", 0).op = "semopen" /\ SetVal("a", 0).op = "setval" /\ Sleep.op = "sleep"
      /\ Fork(SemopChild).op = "fork"
      /\ SemOp("a", -1).op = "semop" /\ SemOp("a", -1).by = -1
      /\ SemOp("a", 1).op = "semop" /\ SemOp("a", 1).by = 1
      /\ Puts("releasing").op = "puts" /\ Puts("releasing").val = "releasing"
      /\ Puts("acquired").op = "puts" /\ Puts("acquired").val = "acquired"
  BY DEF SemOpen, SetVal, Fork, SemOp, Puts, Sleep
<1> QED
  BY <1>1

LEMMA SemopScripts ==
    /\ \A s \in {SemopPC, SemopChild} :
          /\ Consists(s, SemopCalls)
          /\ Leads(s, {SemOp("a", -1)}, {Puts("acquired")})
          /\ Leads(s, {Puts("releasing")}, {SemOp("a", 1)})
<1> DEFINE open == SemOpen("a", 0)
           reset == SetVal("a", 0)
           fork == Fork(SemopChild)
           lower == SemOp("a", -1)
           raise == SemOp("a", 1)
           acquired == Puts("acquired")
           releasing == Puts("releasing")
           start == <<open, reset, fork>>
           releases == Times(Rounds, <<Sleep, releasing, raise>>)
           acquires == Times(Rounds, <<lower, acquired, Sleep>>)
<1>1. /\ open \notin {releasing, raise, lower, acquired}
      /\ reset \notin {releasing, raise, lower, acquired}
      /\ fork \notin {releasing, raise, lower, acquired}
      /\ Sleep \notin {releasing, raise, lower, acquired}
      /\ releasing \notin {raise, lower, acquired} /\ raise \notin {lower, acquired}
      /\ lower # acquired
      /\ SemopCalls = {open, reset, fork, Sleep, releasing, raise, lower, acquired}
  BY SemopCallsDiffer DEF SemopCalls
<1>2. SemopPC = start \o releases /\ SemopChild = acquires
  BY DEF SemopPC, SemopChild
<1> HIDE DEF open, reset, fork, lower, raise, acquired, releasing
<1>3. Consists(start, {open, reset, fork})
  <2>1. /\ IsSeq(start) /\ Len(start) = 3
        /\ start[1] = open /\ start[2] = reset /\ start[3] = fork
    BY Lists
  <2> QED
    BY <2>1 DEF Consists
<1>4. /\ Consists(releases, {Sleep, releasing, raise})
      /\ Leads(releases, {lower}, {acquired}) /\ Leads(releases, {releasing}, {raise})
  BY <1>1, Cycle3Leads, RoundsNat
<1>5. /\ Consists(acquires, {lower, acquired, Sleep})
      /\ Leads(acquires, {lower}, {acquired}) /\ Leads(acquires, {releasing}, {raise})
  BY <1>1, Cycle3Leads, RoundsNat
<1> HIDE DEF start, releases, acquires
<1>6. Leads(start, {lower}, {acquired}) /\ Leads(start, {releasing}, {raise})
  BY <1>1, <1>3, NeutralLeads
<1>7. Consists(start, SemopCalls) /\ Consists(releases, SemopCalls) /\ Consists(acquires, SemopCalls)
  BY <1>1, <1>3, <1>4, <1>5 DEF Consists
<1>8. Consists(SemopPC, SemopCalls)
  BY <1>2, <1>7, JoinConsists
<1>9. Leads(SemopPC, {lower}, {acquired}) /\ Leads(SemopPC, {releasing}, {raise})
  BY <1>2, <1>4, <1>6, JoinLeads
<1> QED
  BY <1>2, <1>5, <1>7, <1>8, <1>9 DEF lower, acquired, releasing, raise

\* What has been acquired was announced before, and so was what can be.
SemopInv ==
    /\ Quiet /\ Runs({SemopPC, SemopChild})
    /\ LET spent == Count("acquired") + Cardinality(Doing({SemOp("a", 1)}))
           given == Cardinality(Said("releasing"))
       IN  \/ sem["a"] = NoSem /\ spent <= given
           \/ sem["a"] >= 0 /\ sem["a"] + spent <= given

LEMMA SemopTurn ==
    ASSUME TInv, TInv', SemopInv, Next
    PROVE  SemopInv'
<1>1. /\ Quiet /\ Runs({SemopPC, SemopChild}) /\ Table(proc) /\ Semaphores /\ Output /\ Output'
      /\ sem["a"] \in Int /\ "a" \in Objects
  BY IpcAssumption DEF SemopInv, TInv, IInv, Semaphores
<1>2. PICK p \in Pids : Turn(p) /\ proc[p].st = "run"
  BY <1>1, OnlyTurns
<1> DEFINE A == Cardinality(Said("acquired"))
           R == Cardinality(Said("releasing"))
           a == Cardinality(Doing({Puts("acquired")}))
           u == Cardinality(Doing({SemOp("a", 1)}))
           x == sem["a"]
           n == (A + a) + u
<1>3. (x = NoSem /\ n <= R) \/ (x >= 0 /\ x + n <= R)
  BY DEF SemopInv, Count
<1>4. ASSUME Quiet', Runs({SemopPC, SemopChild})',
             (x' = NoSem /\ n' <= R') \/ (x' >= 0 /\ x' + n' <= R')
      PROVE  SemopInv'
  BY <1>4 DEF SemopInv, Count
<1>5. A \in Nat /\ R \in Nat /\ x \in Int
  BY <1>1, SaidFinite
<1> HIDE DEF A, R, a, u
<1>6. UNCHANGED out => A' = A /\ R' = R
  BY DEF A, R, Said
<1>7. CASE proc[p].todo = <<>>
  <2>1. a' = a /\ u' = u /\ Runs({SemopPC, SemopChild})' /\ Quiet' /\ UNCHANGED <<sem, out>>
    BY <1>1, <1>2, <1>7, EndMoves DEF a, u
  <2> QED
    BY <1>3, <1>4, <1>6, <2>1
<1>8. ASSUME NEW s \in {SemopPC, SemopChild}, NEW k \in 1..Len(s), NEW c \in SemopCalls,
             Reached(p, s, k, c), s[k] = c
      PROVE  SemopInv'
  <2>1. Leads(s, {SemOp("a", -1)}, {Puts("acquired")}) /\ Leads(s, {Puts("releasing")}, {SemOp("a", 1)})
    BY SemopScripts
  <2>2. ASSUME Moves(p, s, k, {Puts("acquired")}), Moves(p, s, k, {SemOp("a", 1)})
        PROVE  /\ a \in Nat /\ a' \in Nat /\ u \in Nat /\ u' \in Nat
               /\ a' = a + (IF c = SemOp("a", -1) THEN 1 ELSE 0) - (IF c = Puts("acquired") THEN 1 ELSE 0)
               /\ u' = u + (IF c = Puts("releasing") THEN 1 ELSE 0) - (IF c = SemOp("a", 1) THEN 1 ELSE 0)
    <3>1. /\ a \in Nat /\ a' \in Nat
          /\ a' = a + (IF c \in {SemOp("a", -1)} THEN 1 ELSE 0) - (IF c \in {Puts("acquired")} THEN 1 ELSE 0)
      BY <1>8, <2>1, <2>2, Moving, SMTT(20) DEF a
    <3>2. /\ u \in Nat /\ u' \in Nat
          /\ u' = u + (IF c \in {Puts("releasing")} THEN 1 ELSE 0) - (IF c \in {SemOp("a", 1)} THEN 1 ELSE 0)
      BY <1>8, <2>1, <2>2, Moving DEF u
    <3> QED
      BY <3>1, <3>2
  <2>3. ASSUME Goes(p, s, k + 1)
        PROVE  /\ Quiet' /\ Runs({SemopPC, SemopChild})'
               /\ Moves(p, s, k, {Puts("acquired")}) /\ Moves(p, s, k, {SemOp("a", 1)})
    BY <1>1, <1>8, <2>3, GoesQuiet, GoesMoves
  <2>4. ASSUME Quiet', Runs({SemopPC, SemopChild})', n' + R <= n + R', n \in Int, n' \in Int,
               R' \in Int, x' = x \/ x' = 0
        PROVE  SemopInv'
    <3> HIDE DEF n, x
    <3>1. (x' = NoSem /\ n' <= R') \/ (x' >= 0 /\ x' + n' <= R')
      <4>1. ASSUME NEW y \in Int, NEW m \in Int, NEW q \in Int, y = x \/ y = 0, m + R <= n + q
            PROVE  (y = NoSem /\ m <= q) \/ (y >= 0 /\ y + m <= q)
        BY <1>3, <1>5, <2>4, <4>1 DEF NoSem
      <4>2. x' \in Int
        BY <1>5, <2>4
      <4> QED
        BY <2>4, <4>1, <4>2, Zenon
    <3> QED
      BY <1>4, <2>4, <3>1
  <2>14. ASSUME a \in Nat, a' \in Nat, u \in Nat, u' \in Nat
         PROVE  /\ n \in Int
                /\ A' = A /\ a' = a /\ u' = u => n' = n
                /\ A' = A /\ a' = a /\ u' = u + 1 => n' = n + 1
                /\ A' = A /\ a' = a /\ u' = u - 1 => n' = n - 1
                /\ A' = A /\ a' = a + 1 /\ u' = u => n' = n + 1
                /\ A' = A + 1 /\ a' = a - 1 /\ u' = u => n' = n
    BY <1>5, <2>14
  <2>5. CASE c = SemOpen("a", 0)
    <3>1. Goes(p, s, k + 1) /\ Opened("a", 0) /\ UNCHANGED out
      <4>1. Reached(p, s, k, SemOpen("a", 0))
        BY <1>8, <2>5
      <4> QED
        BY <1>1, <1>2, <4>1, OnSemOpen
    <3>2. a' = a /\ u' = u
      BY <2>2, <2>3, <2>5, <3>1, SemopCallsDiffer
    <3>3. n' = n /\ R' = R /\ n \in Int
      BY <1>6, <2>2, <2>3, <2>14, <3>1, <3>2
    <3>4. x' = x \/ x' = 0
      BY <3>1 DEF Opened
    <3> HIDE DEF n, x
    <3> QED
      BY <1>5, <2>3, <2>4, <3>1, <3>3, <3>4
  <2>6. CASE c = SetVal("a", 0)
    <3>1. Goes(p, s, k + 1) /\ x' = 0 /\ UNCHANGED out
      <4>1. Reached(p, s, k, SetVal("a", 0))
        BY <1>8, <2>6
      <4>2. Goes(p, s, k + 1) /\ SetTo("a", 0) /\ UNCHANGED out
        BY <1>1, <1>2, <4>1, OnSetVal
      <4> QED
        BY <4>2 DEF SetTo
    <3>2. a' = a /\ u' = u
      BY <2>2, <2>3, <2>6, <3>1, SemopCallsDiffer
    <3>3. n' = n /\ R' = R /\ n \in Int
      BY <1>6, <2>2, <2>3, <2>14, <3>1, <3>2
    <3> HIDE DEF n, x
    <3> QED
      BY <1>5, <2>3, <2>4, <3>1, <3>3
  <2>7. CASE c = Fork(SemopChild)
    <3>1. /\ ~Ahead(SemopChild, 1, {Puts("acquired")}) /\ ~Ahead(SemopChild, 1, {SemOp("a", 1)})
          /\ IsSeq(SemopChild)
      BY SemopScripts DEF Leads
    <3>2. /\ Moves(p, s, k, {Puts("acquired")}) /\ Moves(p, s, k, {SemOp("a", 1)})
          /\ Quiet' /\ Runs({SemopPC, SemopChild})' /\ UNCHANGED <<sem, out>>
      BY <1>1, <1>2, <1>8, <2>7, <3>1, ForkMoves
    <3>3. a' = a /\ u' = u
      BY <2>2, <2>7, <3>2, SemopCallsDiffer
    <3>4. n' = n /\ R' = R /\ x' = x /\ n \in Int
      BY <1>6, <2>2, <2>14, <3>2, <3>3
    <3> HIDE DEF n, x
    <3> QED
      BY <1>5, <2>4, <3>2, <3>4
  <2>8. CASE c = Sleep
    <3>1. Goes(p, s, k + 1) /\ UNCHANGED <<sem, out>>
      BY <1>1, <1>2, <1>8, <2>8, OnSleep
    <3>2. a' = a /\ u' = u
      BY <2>2, <2>3, <2>8, <3>1, SemopCallsDiffer
    <3>3. n' = n /\ R' = R /\ x' = x /\ n \in Int
      BY <1>6, <2>2, <2>3, <2>14, <3>1, <3>2
    <3> HIDE DEF n, x
    <3> QED
      BY <1>5, <2>3, <2>4, <3>1, <3>3
  <2>9. CASE c = Puts("releasing")
    <3>1. Goes(p, s, k + 1) /\ UNCHANGED sem /\ out' = [out EXCEPT ![p] = Append(@, "releasing")]
      BY <1>1, <1>2, <1>8, <2>9, OnPuts
    <3>2. a' = a /\ u' = u + 1
      BY <2>2, <2>3, <2>9, <3>1, SemopCallsDiffer
    <3>3. A' = A /\ R' = R + 1
      BY <1>1, <3>1, SaidMore DEF A, R
    <3>4. n' = n + 1 /\ n \in Int /\ x' = x
      BY <2>2, <2>3, <2>14, <3>1, <3>2, <3>3
    <3> HIDE DEF n, x
    <3> QED
      BY <1>5, <2>3, <2>4, <3>1, <3>3, <3>4
  <2>10. CASE c = SemOp("a", 1)
    <3>1. Goes(p, s, k + 1) /\ UNCHANGED out /\ x + 1 >= 0 /\ x' = x + 1
      BY <1>1, <1>2, <1>8, <2>10, OnSemOp
    <3>2. a' = a /\ u' = u - 1
      BY <2>2, <2>3, <2>10, <3>1, SemopCallsDiffer
    <3>3. n' = n - 1 /\ R' = R /\ n \in Int
      BY <1>6, <2>2, <2>3, <2>14, <3>1, <3>2
    <3> HIDE DEF n, x
    <3>4. x' >= 0 /\ x' + n' <= R'
      BY <1>3, <1>5, <3>1, <3>3 DEF NoSem
    <3> QED
      BY <1>4, <2>3, <3>1, <3>4
  <2>11. CASE c = SemOp("a", -1)
    <3>1. Goes(p, s, k + 1) /\ UNCHANGED out /\ x + -1 >= 0 /\ x' = x + -1
      BY <1>1, <1>2, <1>8, <2>11, OnSemOp
    <3>2. a' = a + 1 /\ u' = u
      BY <2>2, <2>3, <2>11, <3>1, SemopCallsDiffer
    <3>3. n' = n + 1 /\ R' = R /\ n \in Int
      BY <1>6, <2>2, <2>3, <2>14, <3>1, <3>2
    <3> HIDE DEF n, x
    <3>4. x' >= 0 /\ x' + n' <= R'
      BY <1>3, <1>5, <3>1, <3>3 DEF NoSem
    <3> QED
      BY <1>4, <2>3, <3>1, <3>4
  <2>12. CASE c = Puts("acquired")
    <3>1. Goes(p, s, k + 1) /\ UNCHANGED sem /\ out' = [out EXCEPT ![p] = Append(@, "acquired")]
      BY <1>1, <1>2, <1>8, <2>12, OnPuts
    <3>2. a' = a - 1 /\ u' = u
      BY <2>2, <2>3, <2>12, <3>1, SemopCallsDiffer
    <3>3. A' = A + 1 /\ R' = R
      BY <1>1, <3>1, SaidMore DEF A, R
    <3>4. n' = n /\ n \in Int /\ x' = x
      BY <2>2, <2>3, <2>14, <3>1, <3>2, <3>3
    <3> HIDE DEF n, x
    <3> QED
      BY <1>5, <2>3, <2>4, <3>1, <3>3, <3>4
  <2> QED
    BY <2>5, <2>6, <2>7, <2>8, <2>9, <2>10, <2>11, <2>12 DEF SemopCalls
<1>9. \/ proc[p].todo = <<>>
      \/ \E s \in {SemopPC, SemopChild} : \E k \in 1..Len(s) : \E c \in SemopCalls :
             Reached(p, s, k, c) /\ s[k] = c
  <2> DEFINE SS == {SemopPC, SemopChild}
  <2>1. Runs(SS) /\ \A s \in SS : Consists(s, SemopCalls)
    BY <1>1, SemopScripts
  <2> HIDE DEF SS
  <2>2. \/ proc[p].todo = <<>>
        \/ \E s \in SS : \E k \in 1..Len(s) : \E c \in SemopCalls : Reached(p, s, k, c) /\ s[k] = c
    BY <2>1, RunsReached, ZenonT(30)
  <2> QED
    BY <2>2 DEF SS
<1> QED
  BY <1>7, <1>8, <1>9

LEMMA SemopCounts ==
    ASSUME TInv, SemopInv, program = "semop"
    PROVE  ObjectsAccounted
<1>1. Printing(SemopCalls)
  BY DEF Printing, SemopCalls, Puts, SemOpen, SetVal, Fork, SemOp, Sleep
<1>2. About("acquired") = Doing({Puts("acquired")})
  BY <1>1, AboutIs, SemopScripts DEF SemopInv
<1>3. /\ Cardinality(Doing({SemOp("a", 1)})) \in Nat /\ Cardinality(About("releasing")) \in Nat
      /\ Count("acquired") \in Nat /\ Cardinality(Said("releasing")) \in Nat
  <2>1. \A C : Cardinality(Doing(C)) \in Nat
    <3>1. \A C : Doing(C) \subseteq Pids
      BY DEF Doing
    <3> QED
      BY <3>1, SystemAssumption, FS_Subset, FS_CardinalityType
  <2>2. About("releasing") \subseteq Pids
    BY DEF About
  <2> QED
    BY <2>1, <2>2, SystemAssumption, FS_Subset, FS_CardinalityType, SaidFinite DEF Count, TInv
<1>4. sem["a"] \in Int
  BY IpcAssumption DEF TInv, Semaphores
<1>5. Count("acquired") <= Cardinality(Said("releasing")) + Cardinality(About("releasing"))
  BY <1>3, <1>4 DEF SemopInv
<1> QED
  BY <1>2, <1>5 DEF ObjectsAccounted, Count

-----------------------------------------------------------------------------
\* binarySemaphores.c

\* What comes after s in s \o t is t.
LEMMA After ==
    ASSUME NEW s, NEW t, IsSeq(s), IsSeq(t), t # <<>>
    PROVE  From(s \o t, Len(s) + 1) = t
<1> DEFINE S == {s[i] : i \in DOMAIN s} \cup {t[i] : i \in DOMAIN t}
<1>1. s \in Seq(S) /\ t \in Seq(S)
  <2>1. s \in Seq({s[i] : i \in DOMAIN s}) /\ t \in Seq({t[i] : i \in DOMAIN t})
    BY DEF IsSeq
  <2>2. \A A, B : A \subseteq B => Seq(A) \subseteq Seq(B)
    OBVIOUS
  <2> QED
    BY <2>1, <2>2
<1> HIDE DEF S
<1>2. /\ Len(s) \in Nat /\ Len(t) \in Nat /\ Len(t) > 0 /\ Len(s \o t) = Len(s) + Len(t)
      /\ SubSeq(t, 1, Len(t)) = t
  <2>1. Len(t) \in Nat /\ Len(t) > 0
    BY Rest
  <2> QED
    BY <1>1, <2>1, Joined, SubSeqFull
<1> DEFINE a == Len(s)
           b == Len(t)
<1>3. SubSeq(s \o t, a + 1, a + b) = SubSeq(t, a + 1 - a, a + b - a)
  <2>1. a + 1 \in a + 1..a + b /\ a + b \in a + 1..a + b
    BY <1>2
  <2> QED
    BY <1>1, <2>1, SubSeqOfConcat2
<1>4. a + 1 - a = 1 /\ a + b - a = b
  BY <1>2
<1> QED
  BY <1>2, <1>3, <1>4 DEF From

LEMMA Assoc ==
    ASSUME NEW s, NEW t, NEW u, IsSeq(s), IsSeq(t), IsSeq(u)
    PROVE  (s \o t) \o u = s \o (t \o u)
<1> DEFINE S == {s[i] : i \in DOMAIN s} \cup {t[i] : i \in DOMAIN t} \cup {u[i] : i \in DOMAIN u}
<1>1. s \in Seq(S) /\ t \in Seq(S) /\ u \in Seq(S)
  <2>1. /\ s \in Seq({s[i] : i \in DOMAIN s}) /\ t \in Seq({t[i] : i \in DOMAIN t})
        /\ u \in Seq({u[i] : i \in DOMAIN u})
    BY DEF IsSeq
  <2>2. \A A, B : A \subseteq B => Seq(A) \subseteq Seq(B)
    OBVIOUS
  <2> QED
    BY <2>1, <2>2
<1> HIDE DEF S
<1> QED
  BY <1>1, ConcatAssociative

-----------------------------------------------------------------------------
\* binarySemaphores.c

SetUp == {SemOpen("b", 0), InitSemAvailable, Fork(Guarded \o Guarded)}
Inside == {Puts("in"), Puts("out"), ReleaseSem}
Entered == {ReserveSem, Puts("in"), Puts("out")}
SectionCalls == {ReserveSem, Puts("in"), Puts("out"), ReleaseSem}

LEMMA SectionCallsDiffer ==
    /\ ReserveSem \notin Inside /\ ReleaseSem \notin Entered
    /\ Puts("in") \in Inside \cap Entered /\ Puts("out") \in Inside \cap Entered
    /\ ReserveSem \in Entered /\ ReleaseSem \in Inside
    /\ SetUp \cap Inside = {}
    /\ Printing(SectionCalls) /\ Printing(SetUp \cup SectionCalls)
<1>1. /\ ReserveSem.op = "semop" /\ ReserveSem.by = -1
      /\ ReleaseSem.op = "semop" /\ ReleaseSem.by = 1
      /\ Puts("in").op = "puts" /\ Puts("in").val = "in"
      /\ Puts("out").op = "puts" /\ Puts("out").val = "out"
      /\ SemOpen("b", 0).op = "semopen" /\ InitSemAvailable.op = "setval"
      /\ Fork(Guarded \o Guarded).op = "fork"
  BY DEF ReserveSem, ReleaseSem, SemOp, Puts, SemOpen, InitSemAvailable, SetVal, Fork
<1>2. Printing(SetUp \cup SectionCalls)
  BY <1>1 DEF Printing, SetUp, SectionCalls
<1> QED
  BY <1>1, <1>2 DEF Inside, Entered, SetUp, Printing

LEMMA SectionScripts ==
    LET twice == Guarded \o Guarded IN
    /\ Consists(twice, SectionCalls) /\ Leads(twice, Entered, Inside) /\ twice # <<>>
    /\ Consists(Sections, SetUp \cup SectionCalls)
    /\ IsSeq(Sections) /\ Len(Sections) \in Nat /\ 1..3 \subseteq 1..Len(Sections)
    /\ Sections[1] = SemOpen("b", 0) /\ Sections[2] = InitSemAvailable
    /\ Sections[3] = Fork(twice) /\ From(Sections, 4) = twice
<1> DEFINE twice == Guarded \o Guarded
           open == SemOpen("b", 0)
           fork == Fork(twice)
           start == <<open, InitSemAvailable, fork>>
           in == Puts("in")
           out0 == Puts("out")
<1>1. Guarded = <<ReserveSem, in, out0, ReleaseSem>> /\ Sections = (start \o Guarded) \o Guarded
  BY DEF Guarded, Sections
<1>2. /\ ReserveSem \notin Inside /\ ReleaseSem \notin Entered
      /\ in \in Inside \cap Entered /\ out0 \in Inside \cap Entered
      /\ ReserveSem \in Entered /\ ReleaseSem \in Inside
      /\ SectionCalls = {ReserveSem, in, out0, ReleaseSem}
      /\ SetUp = {open, InitSemAvailable, fork}
  BY SectionCallsDiffer DEF SectionCalls, SetUp
<1> HIDE DEF open, in, out0, fork
<1>3. /\ IsSeq(Guarded) /\ Len(Guarded) = 4
      /\ Guarded[1] = ReserveSem /\ Guarded[2] = in
      /\ Guarded[3] = out0 /\ Guarded[4] = ReleaseSem
  <2>1. Guarded \in Seq({ReserveSem, in, out0, ReleaseSem})
    BY <1>1
  <2> QED
    BY <1>1, <2>1, SeqIs
<1>4. Consists(Guarded, SectionCalls)
  BY <1>2, <1>3 DEF Consists
<1>5. Leads(Guarded, Entered, Inside)
  <2>1. \A k : k \in 1..4 <=> k = 1 \/ k = 2 \/ k = 3 \/ k = 4
    OBVIOUS
  <2>2. /\ Ahead(Guarded, 1 + 1, Inside) /\ Ahead(Guarded, 2 + 1, Inside)
        /\ Ahead(Guarded, 3 + 1, Inside) /\ ~Ahead(Guarded, 4 + 1, Inside)
        /\ ~Ahead(Guarded, 1, Inside)
    BY <1>2, <1>3 DEF Ahead
  <2> QED
    BY <1>2, <1>3, <2>1, <2>2 DEF Leads
<1>6. IsSeq(start) /\ Len(start) = 3 /\ start[1] = open /\ start[2] = InitSemAvailable /\ start[3] = fork
  BY Lists
<1>7. Consists(start, SetUp \cup SectionCalls)
  BY <1>2, <1>6 DEF Consists
<1> HIDE DEF start
<1>8. Consists(twice, SectionCalls) /\ Leads(twice, Entered, Inside)
  BY <1>4, <1>5, JoinConsists, JoinLeads
<1>9. IsSeq(twice) /\ Len(twice) = 8 /\ twice # <<>>
  <2>1. Len(twice) = Len(Guarded) + Len(Guarded) /\ IsSeq(twice)
    BY <1>3, Joined
  <2>2. Len(twice) = 8
    BY <1>3, <2>1
  <2> QED
    BY <2>1, <2>2
<1>10. Sections = start \o twice
  <2>1. (start \o Guarded) \o Guarded = start \o (Guarded \o Guarded)
    BY <1>3, <1>6, Assoc, SMTT(20)
  <2> QED
    BY <1>1, <2>1
<1> HIDE DEF twice
<1>11. Linked(Sections, start, twice)
  BY <1>6, <1>9, <1>10, Links
<1>12. From(Sections, 3 + 1) = twice
  BY <1>6, <1>9, <1>10, After
<1>13. Consists(Sections, SetUp \cup SectionCalls)
  <2>1. Consists(twice, SetUp \cup SectionCalls)
    BY <1>8 DEF Consists
  <2> QED
    BY <1>7, <1>10, <2>1, JoinConsists
<1> QED
  BY <1>6, <1>8, <1>9, <1>11, <1>12, <1>13 DEF Linked, twice, open, fork

\* Process 1 sets the semaphore before anybody else is there.
SettingUp ==
    \E k \in 1..3 : /\ proc[1].todo = From(Sections, k)
                    /\ \A q \in Pids \ {1} : proc[q].todo = <<>>
                    /\ k = 3 => sem["b"] = 1

\* The semaphore is 1 when nobody is inside and 0 when one process is.
Guarding ==
    /\ Runs({Guarded \o Guarded})
    /\ sem["b"] >= 0 /\ sem["b"] + Cardinality(Doing(Inside)) = 1

SectionsInv == Quiet /\ (SettingUp \/ Guarding)

\* RunsReached for one script
LEMMA ScriptReached ==
    ASSUME TInv, NEW s, NEW C, Runs({s}), Consists(s, C), NEW p \in Pids
    PROVE  \/ proc[p].todo = <<>>
           \/ \E k \in 1..Len(s) : \E c \in C : Reached(p, s, k, c) /\ s[k] = c
<1> DEFINE SS == {s}
<1>1. Runs(SS) /\ \A t \in SS : Consists(t, C)
  OBVIOUS
<1>2. \A t \in SS : t = s
  OBVIOUS
<1> HIDE DEF SS
<1>3. \/ proc[p].todo = <<>>
      \/ \E t \in SS : \E k \in 1..Len(t) : \E c \in C : Reached(p, t, k, c) /\ t[k] = c
  BY <1>1, RunsReached, ZenonT(30)
<1> QED
  BY <1>2, <1>3

LEMMA GuardingTurn ==
    ASSUME TInv, Quiet, Guarding, NEW p \in Pids, Turn(p), proc[p].st = "run"
    PROVE  Quiet' /\ Guarding'
<1> DEFINE twice == Guarded \o Guarded
           SS == {twice}
           x == sem["b"]
           n == Cardinality(Doing(Inside))
<1>1. /\ Runs(SS) /\ Consists(twice, SectionCalls) /\ Leads(twice, Entered, Inside)
      /\ Table(proc) /\ Semaphores /\ "b" \in Objects /\ x \in Int /\ x >= 0 /\ x + n = 1
  BY SectionScripts, IpcAssumption DEF Guarding, TInv, IInv, Semaphores
<1>2. ASSUME Quiet', Runs(SS)', x' >= 0, x' + n' = 1 PROVE Quiet' /\ Guarding'
  BY <1>2 DEF Guarding
<1>3. twice \in SS
  OBVIOUS
<1> HIDE DEF SS, twice
<1>4. CASE proc[p].todo = <<>>
  <2>1. n' = n /\ Runs(SS)' /\ Quiet' /\ UNCHANGED sem
    BY <1>1, <1>4, EndMoves
  <2> QED
    BY <1>1, <1>2, <2>1
<1>5. ASSUME NEW k \in 1..Len(twice), NEW c \in SectionCalls, Reached(p, twice, k, c), twice[k] = c
      PROVE  Quiet' /\ Guarding'
  <2>1. ASSUME Goes(p, twice, k + 1)
        PROVE  /\ Quiet' /\ Runs(SS)' /\ n \in Nat /\ n' \in Nat
               /\ n' = n + (IF c \in Entered THEN 1 ELSE 0) - (IF c \in Inside THEN 1 ELSE 0)
    <3>1. Quiet' /\ Runs(SS)' /\ Moves(p, twice, k, Inside)
      BY <1>1, <1>3, <1>5, <2>1, GoesQuiet, GoesMoves
    <3>2. /\ n \in Nat /\ n' \in Nat
          /\ n' = n + (IF twice[k] \in Entered THEN 1 ELSE 0) - (IF twice[k] \in Inside THEN 1 ELSE 0)
      BY <1>1, <3>1, Moving
    <3> QED
      BY <1>5, <3>1, <3>2
  <2> HIDE DEF n
  <2>2. CASE c = ReserveSem
    <3>1. Goes(p, twice, k + 1) /\ x + -1 >= 0 /\ x' = x + -1
      BY <1>1, <1>5, <2>2, OnSemOp DEF ReserveSem
    <3>2. n' = n + 1 /\ n \in Nat
      BY <2>1, <2>2, <3>1, SectionCallsDiffer
    <3> HIDE DEF x
    <3>3. x' >= 0 /\ x' + n' = 1
      BY <1>1, <3>1, <3>2
    <3> QED
      BY <1>2, <2>1, <3>1, <3>3
  <2>3. CASE c = ReleaseSem
    <3>1. Goes(p, twice, k + 1) /\ x' = x + 1
      BY <1>1, <1>5, <2>3, OnSemOp DEF ReleaseSem
    <3>2. n' = n - 1 /\ n \in Nat
      BY <2>1, <2>3, <3>1, SectionCallsDiffer
    <3> HIDE DEF x
    <3>3. x' >= 0 /\ x' + n' = 1
      BY <1>1, <3>1, <3>2
    <3> QED
      BY <1>2, <2>1, <3>1, <3>3
  <2>4. ASSUME NEW v, c = Puts(v), c \in Entered, c \in Inside PROVE Quiet' /\ Guarding'
    <3>1. Goes(p, twice, k + 1) /\ UNCHANGED sem
      BY <1>5, <2>4, OnPuts
    <3>2. n' = n
      BY <2>1, <2>4, <3>1
    <3> QED
      BY <1>1, <1>2, <2>1, <3>1, <3>2
  <2>5. CASE c = Puts("in") \/ c = Puts("out")
    BY <2>4, <2>5, SectionCallsDiffer
  <2> QED
    BY <1>5, <2>2, <2>3, <2>5 DEF SectionCalls
<1>6. \/ proc[p].todo = <<>>
      \/ \E k \in 1..Len(twice) : \E c \in SectionCalls : Reached(p, twice, k, c) /\ twice[k] = c
  <2>1. Runs({twice})
    BY <1>1 DEF SS
  <2> QED
    BY <1>1, <2>1, ScriptReached
<1> QED
  BY <1>4, <1>5, <1>6

LEMMA SettingUpTurn ==
    ASSUME TInv, Quiet, SettingUp, NEW p \in Pids, Turn(p), proc[p].st = "run"
    PROVE  Quiet' /\ (SettingUp \/ Guarding)'
<1> DEFINE twice == Guarded \o Guarded
<1>0. 1 \in Pids /\ "b" \in Objects /\ Table(proc) /\ Semaphores
  BY IpcAssumption DEF TInv, IInv
<1>1. PICK k \in 1..3 : /\ proc[1].todo = From(Sections, k)
                        /\ \A q \in Pids \ {1} : proc[q].todo = <<>>
                        /\ k = 3 => sem["b"] = 1
  BY DEF SettingUp
<1>2. /\ IsSeq(Sections) /\ 1..3 \subseteq 1..Len(Sections)
      /\ Sections[1] = SemOpen("b", 0) /\ Sections[2] = InitSemAvailable
      /\ Sections[3] = Fork(twice) /\ From(Sections, 4) = twice
      /\ Leads(twice, Entered, Inside) /\ twice # <<>>
  BY SectionScripts
<1>3. CASE proc[p].todo = <<>>
  <2>1. /\ proc'[p].todo = proc[p].todo
        /\ \A q \in Pids \ {p} : proc'[q].todo = proc[q].todo
        /\ Quiet' /\ UNCHANGED sem
    BY <1>0, <1>3, OnQuietEnd
  <2>2. \A q \in Pids : proc'[q].todo = proc[q].todo
    BY <2>1
  <2> QED
    BY <1>0, <1>1, <2>1, <2>2 DEF SettingUp
<1>4. CASE p = 1
  <2>1. Reached(1, Sections, k, Sections[k])
    BY <1>0, <1>1, <1>2 DEF Reached
  <2>2. ASSUME Goes(1, Sections, k + 1), k \in 1..2, k = 2 => sem'["b"] = 1
        PROVE  Quiet' /\ SettingUp'
    <3>1. proc'[1].todo = From(Sections, k + 1) /\ \A q \in Pids \ {1} : proc'[q].todo = <<>>
      BY <1>1, <2>2 DEF Goes
    <3>2. Quiet'
      BY <1>0, <2>2, GoesQuiet
    <3>3. k + 1 \in 1..3 /\ (k + 1 = 3 => sem'["b"] = 1)
      BY <2>2
    <3> QED
      BY <3>1, <3>2, <3>3 DEF SettingUp
  <2>3. CASE k = 1
    <3>1. Goes(1, Sections, k + 1)
      <4>1. Reached(p, Sections, k, SemOpen("b", 0))
        BY <1>2, <1>4, <2>1, <2>3
      <4>2. Goes(p, Sections, k + 1) /\ Opened("b", 0)
        BY <1>0, <4>1, OnSemOpen
      <4> QED
        BY <1>4, <4>2
    <3> QED
      BY <2>2, <2>3, <3>1
  <2>4. CASE k = 2
    <3>1. Goes(1, Sections, k + 1) /\ sem'["b"] = 1
      <4>1. Reached(p, Sections, k, SetVal("b", 1))
        BY <1>2, <1>4, <2>1, <2>4 DEF InitSemAvailable
      <4>2. Goes(p, Sections, k + 1) /\ SetTo("b", 1)
        BY <1>0, <4>1, OnSetVal
      <4> QED
        BY <1>4, <4>2 DEF SetTo
    <3> QED
      BY <2>2, <2>4, <3>1
  <2>5. CASE k = 3
    <3>1. Reached(1, Sections, k, Fork(twice))
      BY <1>2, <2>1, <2>5
    <3>2. From(Sections, k + 1) = twice /\ IsSeq(twice) /\ ~Ahead(twice, 1, Inside) /\ sem["b"] = 1
      BY <1>1, <1>2, <2>5 DEF Leads
    <3> HIDE DEF twice
    <3>3. Moves(1, Sections, k, Inside) /\ Quiet' /\ UNCHANGED sem
      BY <1>0, <1>4, <3>1, <3>2, ForkMoves
    <3>4. \A q \in Pids : proc'[q].todo = twice \/ proc'[q].todo = <<>>
      <4> DEFINE free == {q \in Pids : proc[q].st = "none"}
      <4>1. CASE free = {}
        <5>1. Goes(1, Sections, k + 1)
          BY <1>0, <1>4, <3>1, <4>1, OnFullFork
        <5> QED
          BY <1>1, <3>2, <5>1 DEF Goes
      <4>2. CASE free # {}
        <5>1. PICK r \in free : \A q \in free : r <= q
          BY <4>2, Least, PidsPositive
        <5>2. \A q \in Pids : proc[q].st = "none" => r <= q
          BY <5>1
        <5>3. /\ proc'[1].todo = From(Sections, k + 1) /\ proc'[r].todo = twice
              /\ Only({1, r})
          BY <1>0, <1>4, <3>1, <5>1, <5>2, OnFork
        <5> QED
          BY <1>1, <3>2, <5>3 DEF Only
      <4> QED
        BY <4>1, <4>2
    <3>5. Runs({twice})'
      <4>1. From(twice, 1) = twice /\ From(twice, Len(twice) + 1) = <<>> /\ Len(twice) \in Nat
        BY <3>2, Ends, Joined
      <4>2. 1 \in 1..Len(twice) + 1 /\ Len(twice) + 1 \in 1..Len(twice) + 1
        BY <4>1
      <4> QED
        BY <3>4, <4>1, <4>2 DEF Runs
    <3>6. Doing(Inside)' = {}
      <4>1. ASSUME NEW q \in Pids PROVE q \notin Doing(Inside)'
        <5>1. From(twice, 1) = twice /\ 1 \in 1..Len(twice) + 1
          BY <3>2, Ends, Joined
        <5>2. ~(twice # <<>> /\ Head(twice) \in Inside)
          <6>1. From(twice, 1) # <<>> /\ Head(From(twice, 1)) \in Inside <=> Ahead(twice, 1, Inside)
            BY <3>2, <5>1, Heads
          <6> QED
            BY <3>2, <5>1, <6>1
        <5> QED
          BY <3>4, <5>2 DEF Doing, Now
      <4> QED
        BY <4>1 DEF Doing
    <3>7. Cardinality(Doing(Inside))' = 0
      BY <3>6, FS_EmptySet
    <3>8. sem'["b"] = 1
      BY <3>2, <3>3
    <3> QED
      BY <3>3, <3>5, <3>7, <3>8 DEF Guarding, twice
  <2> QED
    BY <2>2, <2>3, <2>4, <2>5
<1>5. CASE p # 1
  BY <1>1, <1>3, <1>5
<1> QED
  BY <1>4, <1>5

LEMMA SectionsTurn ==
    ASSUME TInv, SectionsInv, Next
    PROVE  SectionsInv'
<1>1. PICK p \in Pids : Turn(p) /\ proc[p].st = "run"
  BY OnlyTurns DEF SectionsInv
<1> QED
  BY <1>1, GuardingTurn, SettingUpTurn DEF SectionsInv

LEMMA SectionsCount ==
    ASSUME TInv, SectionsInv
    PROVE  Alone
<1> DEFINE twice == Guarded \o Guarded
           C == SetUp \cup SectionCalls
           SS == {Sections, twice}
<1>1. /\ \A s \in SS : Consists(s, C)
      /\ 1..3 \subseteq 1..Len(Sections) /\ IsSeq(Sections) /\ IsSeq(twice) /\ Len(Sections) \in Nat
      /\ \A k \in 1..3 : Sections[k] \in SetUp
  <2>1. Consists(twice, C) /\ Consists(Sections, C)
    BY SectionScripts DEF Consists
  <2>2. \A k \in 1..3 : k = 1 \/ k = 2 \/ k = 3
    OBVIOUS
  <2> QED
    BY <2>1, <2>2, SectionScripts DEF Consists, SetUp
<1>2. 1 \in Pids
  BY IpcAssumption
<1>3. Printing(C)
  BY SectionCallsDiffer
<1> HIDE DEF C
<1>4. Runs(SS) /\ Cardinality(Doing(Inside)) <= 1
  <2> HIDE DEF twice
  <2>1. CASE SettingUp
    <3>1. PICK k \in 1..3 : /\ proc[1].todo = From(Sections, k)
                            /\ \A q \in Pids \ {1} : proc[q].todo = <<>>
      BY <2>1 DEF SettingUp
    <3>2. Runs(SS)
      <4>1. From(Sections, Len(Sections) + 1) = <<>> /\ Len(Sections) + 1 \in 1..Len(Sections) + 1
            /\ k \in 1..Len(Sections) + 1
        BY <1>1, Ends
      <4> QED
        BY <3>1, <4>1 DEF Runs
    <3>3. Doing(Inside) = {}
      <4>1. Now(1) \in SetUp
        BY <1>1, <3>1, Onward DEF Now
      <4> QED
        BY <3>1, <4>1, SectionCallsDiffer DEF Doing
    <3> QED
      BY <3>2, <3>3, FS_EmptySet
  <2>2. CASE Guarding
    <3>1. Runs({twice}) /\ sem["b"] >= 0 /\ sem["b"] + Cardinality(Doing(Inside)) = 1
      BY <2>2 DEF Guarding, twice
    <3>2. Cardinality(Doing(Inside)) \in Nat /\ sem["b"] \in Int
      <4>1. Doing(Inside) \subseteq Pids
        BY DEF Doing
      <4> QED
        BY <4>1, SystemAssumption, FS_Subset, FS_CardinalityType, IpcAssumption DEF TInv, Semaphores
    <3> QED
      BY <3>1, <3>2 DEF Runs
  <2> QED
    BY <2>1, <2>2 DEF SectionsInv
<1> HIDE DEF SS
<1>5. About("in") = Doing({Puts("in")}) /\ About("out") = Doing({Puts("out")})
  BY <1>1, <1>3, <1>4, AboutIs
<1>6. {p \in Pids : At(p, "semop") /\ Now(p) = ReleaseSem} \subseteq Doing({ReleaseSem})
  BY DEF At, Doing
<1>7. /\ Doing({ReleaseSem}) \subseteq Doing(Inside) /\ Doing({Puts("in")}) \subseteq Doing(Inside)
      /\ Doing({Puts("out")}) \subseteq Doing(Inside)
  BY DEF Doing, Inside
<1> DEFINE S == About("in") \cup About("out") \cup {p \in Pids : At(p, "semop") /\ Now(p) = ReleaseSem}
<1>8. S \subseteq Doing(Inside) /\ IsFiniteSet(Doing(Inside))
  <2>1. Doing(Inside) \subseteq Pids
    BY DEF Doing
  <2> QED
    BY <1>5, <1>6, <1>7, <2>1, SystemAssumption, FS_Subset
<1>9. Cardinality(S) <= 1
  <2> HIDE DEF S
  <2>1. Cardinality(S) <= Cardinality(Doing(Inside)) /\ Cardinality(S) \in Nat
        /\ Cardinality(Doing(Inside)) \in Nat
    BY <1>8, FS_Subset, FS_CardinalityType
  <2> QED
    BY <1>4, <2>1
<1> QED
  BY <1>9 DEF Alone

-----------------------------------------------------------------------------
\* Calls and ends of processes that signals may reach

\* Nobody catches or blocks signals, but some may get one.
AllPlain == \A q \in Pids : Plain(q)

\* The others but those in S still have to do what they had, and as many run.
Steady(p, S) ==
    \A q \in Pids \ ({p} \cup S) :
        /\ proc'[q].todo = proc[q].todo /\ proc'[q].pending = proc[q].pending
        /\ proc'[q].st = "run" <=> proc[q].st = "run"
        /\ proc'[q].st = "none" <=> proc[q].st = "none"
        /\ proc[q].ppid # p => proc'[q].ppid = proc[q].ppid

\* p has made call k of s, without others but those in S.
Advances(p, s, k, S) ==
    /\ proc'[p].st = "run" /\ proc'[p].todo = From(s, k + 1)
    /\ proc'[p].ppid = proc[p].ppid /\ proc'[p].pending = proc[p].pending
    /\ Steady(p, S) /\ AllPlain'

\* r has just been forked by p.
Forked(p, r, code) ==
    /\ r \in Pids \ {p} /\ proc[r].st = "none" /\ \A q \in Pids : proc[q].st = "none" => r <= q
    /\ proc'[r].st = "run" /\ proc'[r].todo = code
    /\ proc'[r].ppid = p /\ proc'[r].pending = {}

LEMMA AlikePlain ==
    ASSUME AllPlain, NEW S, \A q \in S : Alike(q), \A q \in Pids \ S : Plain(q)'
    PROVE  AllPlain'
<1>1. ASSUME NEW q \in Pids PROVE Plain(q)'
  <2>1. CASE q \in S
    BY <2>1, Zenon DEF AllPlain, Alike, Plain
  <2>2. CASE q \notin S
    BY <2>2
  <2> QED
    BY <2>1, <2>2
<1> QED
  BY <1>1 DEF AllPlain

LEMMA GoesAdvances ==
    ASSUME AllPlain, NEW p \in Pids, NEW s, NEW k, Goes(p, s, k + 1), proc[p].st = "run"
    PROVE  Advances(p, s, k, {})
<1>1. Steady(p, {})
  BY DEF Goes, Steady
<1>2. \A q \in Pids : q = p \/ q \in Pids \ {p}
  OBVIOUS
<1>3. \A q \in Pids : Alike(q)
  BY <1>2 DEF Goes, Alike
<1>4. AllPlain'
  BY <1>3, AlikePlain
<1> QED
  BY <1>1, <1>3, <1>4 DEF Advances, Goes, Alike

LEMMA ForkAdvances ==
    ASSUME AllPlain, NEW p \in Pids, NEW s, NEW k, NEW code, Reached(p, s, k, Fork(code)), Turn(p)
    PROVE  /\ \/ Advances(p, s, k, {}) /\ \A q \in Pids : proc[q].st # "none"
              \/ \E r \in Pids : Forked(p, r, code) /\ Advances(p, s, k, {r})
           /\ UNCHANGED <<program, chan, sem, out>>
<1> DEFINE free == {q \in Pids : proc[q].st = "none"}
<1>0. proc[p].st = "run"
  BY Running
<1>1. CASE free = {}
  <2>1. \A q \in Pids : proc[q].st # "none"
    BY <1>1
  <2>2. Goes(p, s, k + 1) /\ UNCHANGED <<program, chan, sem, out>>
    BY <2>1, OnFullFork
  <2> QED
    BY <1>0, <2>1, <2>2, GoesAdvances
<1>2. CASE free # {}
  <2>1. PICK r \in free : \A q \in free : r <= q
    BY <1>2, Least, PidsPositive
  <2>2. r \in Pids /\ proc[r].st = "none" /\ \A q \in Pids : proc[q].st = "none" => r <= q
    BY <2>1
  <2>3. /\ p # r /\ proc'[p].st = "run" /\ proc'[p].todo = From(s, k + 1)
        /\ proc'[p].ppid = proc[p].ppid /\ Alike(p)
        /\ proc'[r].st = "run" /\ proc'[r].todo = code /\ proc'[r].ppid = p
        /\ Inherits(r, p) /\ Only({p, r})
        /\ UNCHANGED <<program, chan, sem, out>>
    BY <2>2, OnFork
  <2>4. Steady(p, {r})
    BY <2>3 DEF Steady, Only
  <2>5. AllPlain'
    <3>1. \A q \in Pids \ {r} : Alike(q)
      BY <2>3 DEF Only, Alike
    <3>2. Plain(r)'
      BY <2>3, Zenon DEF Inherits, AllPlain, Plain
    <3> DEFINE S == Pids \ {r}
    <3>3. (\A q \in S : Alike(q)) /\ \A q \in Pids \ S : Plain(q)'
      BY <3>1, <3>2
    <3> HIDE DEF S
    <3> QED
      BY <3>3, AlikePlain
  <2>6. Forked(p, r, code)
    BY <2>2, <2>3 DEF Forked, Inherits
  <2> QED
    BY <2>2, <2>3, <2>4, <2>5, <2>6 DEF Advances, Alike
<1> QED
  BY <1>1, <1>2

LEMMA WaitAdvances ==
    ASSUME TInv, AllPlain, NEW p \in Pids, NEW s, NEW k, Reached(p, s, k, Wait), Turn(p)
    PROVE  /\ Advances(p, s, k, {}) /\ UNCHANGED <<program, chan, sem, out>>
           /\ \/ Children(p) = {} /\ Only({p})
              \/ \E q \in Children(p) : Reaps(p, q)
<1>1. /\ proc'[p].st = "run" /\ proc'[p].todo = From(s, k + 1)
      /\ proc'[p].ppid = proc[p].ppid
      /\ \/ Children(p) = {} /\ Only({p})
         \/ \E q \in Children(p) : Reaps(p, q)
      /\ AllAlike /\ OthersStay(p)
      /\ UNCHANGED <<program, chan, sem, out>>
  BY OnWait DEF TInv
<1>2. \A q \in Pids : Alike(q)
  BY <1>1 DEF AllAlike
<1>3. AllPlain'
  BY <1>2, AlikePlain
<1>4. \A q \in Pids \ {p} : proc'[q].st = "none" <=> proc[q].st = "none"
  BY <1>1 DEF Reaps, Only
<1>5. Steady(p, {})
  BY <1>1, <1>2, <1>4 DEF Steady, OthersStay, Alike
<1> QED
  BY <1>1, <1>2, <1>3, <1>5 DEF Advances, Alike

\* p has ended.
Leaves(p) ==
    /\ proc'[p].st \notin {"run", "none"} /\ proc'[p].todo = <<>> /\ proc'[p].pending = {}
    /\ proc'[p].ppid = proc[p].ppid
    /\ Steady(p, {}) /\ AllPlain'

LEMMA EndedLeaves ==
    ASSUME TInv, AllPlain, NEW p \in Pids, NEW v, proc' = Ended(p, v)
    PROVE  Leaves(p)
<1>1. Table(proc)
  BY DEF TInv, IInv
<1>2. /\ proc'[p].st = IF proc[p].ppid \in Pids /\ proc[proc[p].ppid].st = "run"
                       THEN "zombie" ELSE "gone"
      /\ proc'[p].ppid = proc[p].ppid
      /\ proc'[p].todo = <<>> /\ proc'[p].pending = {}
      /\ \A q \in Pids \ {p} :
            /\ proc'[q].todo = proc[q].todo
            /\ proc'[q].pending = proc[q].pending
            /\ proc[q].st # "zombie" => proc'[q].st = proc[q].st
            /\ proc[q].ppid # p => proc'[q].st = proc[q].st /\ proc'[q].ppid = proc[q].ppid
            /\ proc[q].st = "zombie" /\ proc[q].ppid = p => proc'[q].st = "gone"
      /\ \A q \in Pids : Plain(q)'
  BY <1>1, Passing DEF AllPlain
<1>3. Steady(p, {})
  BY <1>2 DEF Steady
<1>4. proc'[p].st \notin {"run", "none"}
  BY <1>2
<1> QED
  BY <1>2, <1>3, <1>4 DEF Leaves, AllPlain

LEMMA EndLeaves ==
    ASSUME TInv, AllPlain, NEW p \in Pids, Turn(p), proc[p].todo = <<>>
    PROVE  Leaves(p) /\ UNCHANGED <<program, chan, sem, out>>
<1>1. proc' = Ended(p, <<"exit", "0">>) /\ UNCHANGED <<program, chan, sem, out>>
  BY OnEnd
<1> DEFINE v == <<"exit", "0">>
<1>2. proc' = Ended(p, v)
  BY <1>1
<1> HIDE DEF v
<1> QED
  BY <1>1, <1>2, EndedLeaves

\* A signal ends whoever does not catch it.
LEMMA DeliverLeaves ==
    ASSUME TInv, AllPlain, NEW p \in Pids, Deliver(p)
    PROVE  Leaves(p) /\ proc[p].pending # {} /\ UNCHANGED <<program, chan, sem, out>>
<1>1. DOMAIN proc[p].caught = {}
  BY Singles DEF AllPlain, Plain
<1>2. proc' = Ended(p, <<>>) /\ proc[p].pending # {} /\ UNCHANGED <<program, chan, sem, out>>
  BY <1>1 DEF Deliver, Taken
<1> QED
  BY <1>2, EndedLeaves

\* Whoever gets a signal makes no call any more, and the others count as before.
LEMMA Frozen ==
    ASSUME AllPlain, NEW p \in Pids, Turn(p)
    PROVE  proc[p].pending = {} /\ proc[p].st = "run"
BY Running DEF AllPlain, Plain, Turn

LEMMA SteadyOthers ==
    ASSUME NEW p \in Pids, Steady(p, {})
    PROVE  \A C : Others(p, C)
BY DEF Steady, Others, Doing, Now

LEMMA AdvancesMoves ==
    ASSUME NEW p \in Pids, NEW s, NEW k, NEW c, Reached(p, s, k, c), Advances(p, s, k, {})
    PROVE  \A C : Moves(p, s, k, C)
BY SteadyOthers DEF Advances, Reached, Moves

-----------------------------------------------------------------------------
\* sem_wait_post.c: the calls of a process that has the token, and of one that
\* has it next
Held == {Puts("parent"), Puts("child"), SemOp("a", 1), SemOp("b", 1)}
Taking == {SemOp("a", -1), SemOp("b", -1), Puts("parent"), Puts("child")}
Opening == {SemOpen("a", 1)}
AsideCalls == {SemOpen("a", 1), SemOpen("b", 0), Fork(WaitPostChild), Wait,
               SemUnlink("a"), SemUnlink("b")}
WorkCalls == AsideCalls \cup Taking \cup Held

LEMMA WorkCallsDiffer ==
    /\ AsideCalls \cap Held = {} /\ AsideCalls \cap Taking = {}
    /\ SemOp("a", -1) \notin Held /\ SemOp("b", -1) \notin Held
    /\ SemOp("a", 1) \notin Taking /\ SemOp("b", 1) \notin Taking
    /\ WorkCalls \cap Opening = Opening /\ (Taking \cup Held) \cap Opening = {}
    /\ {SemOpen("b", 0), Fork(WaitPostChild), Wait, SemUnlink("a"), SemUnlink("b")}
           \cap Opening = {}
    /\ \A c \in WorkCalls : c.op = "puts" => c \in Held
    /\ \A c \in WorkCalls : c.op = "semop" /\ c.by = 1 => c \in Held
<1>1. /\ SemOpen("a", 1).op = "semopen" /\ SemOpen("a", 1).s = "a"
      /\ SemOpen("b", 0).op = "semopen" /\ SemOpen("b", 0).s = "b"
      /\ Fork(WaitPostChild).op = "fork" /\ Wait.op = "wait"
      /\ SemUnlink("a").op = "semunlink" /\ SemUnlink("b").op = "semunlink"
      /\ SemOp("a", -1).op = "semop" /\ SemOp("a", -1).by = -1
      /\ SemOp("b", -1).op = "semop" /\ SemOp("b", -1).by = -1
      /\ SemOp("a", 1).op = "semop" /\ SemOp("a", 1).by = 1
      /\ SemOp("b", 1).op = "semop" /\ SemOp("b", 1).by = 1
      /\ Puts("parent").op = "puts" /\ Puts("child").op = "puts"
  BY DEF SemOpen, Fork, Wait, SemUnlink, SemOp, Puts
<1> QED
  BY <1>1 DEF AsideCalls, Held, Taking, Opening, WorkCalls

\* After the first call nobody opens the first semaphore any more.
Late(s) == \A k \in 1..Len(s) : k > 1 => s[k] \notin Opening

LEMMA WorkScripts ==
    /\ \A s \in {WaitPost, WaitPostChild} :
          Consists(s, WorkCalls) /\ Leads(s, Taking, Held) /\ Late(s)
    /\ ~Ahead(WaitPostChild, 1, Opening) /\ WaitPost[1] \in Opening
<1> DEFINE o1 == SemOpen("a", 1)
           o2 == SemOpen("b", 0)
           f == Fork(WaitPostChild)
           x1 == SemOp("a", -1)
           y1 == Puts("parent")
           z1 == SemOp("b", 1)
           x2 == SemOp("b", -1)
           y2 == Puts("child")
           z2 == SemOp("a", 1)
           u1 == SemUnlink("a")
           u2 == SemUnlink("b")
           start == <<o1, o2, f>>
           loop1 == Times(Rounds, <<x1, y1, z1>>)
           loop2 == Times(Rounds, <<x2, y2, z2>>)
           wait == <<Wait>>
<1>1. /\ AsideCalls = {o1, o2, f, Wait, u1, u2} /\ Held = {y1, y2, z1, z2}
      /\ Taking = {x1, x2, y1, y2}
      /\ WaitPost = ((start \o loop1) \o wait) \o Unlinked
      /\ WaitPostChild = loop2 \o Unlinked
      /\ x1 \notin Held /\ x2 \notin Held /\ z1 \notin Taking /\ z2 \notin Taking
  BY WorkCallsDiffer DEF AsideCalls, Held, Taking, WaitPost, WaitPostChild
<1>2. Consists(start, AsideCalls) /\ Consists(wait, AsideCalls) /\ Consists(Unlinked, AsideCalls)
  <2>1. /\ IsSeq(start) /\ Len(start) = 3
        /\ start[1] = o1 /\ start[2] = o2 /\ start[3] = f
    BY Lists
  <2>2. IsSeq(wait) /\ Len(wait) = 1 /\ wait[1] = Wait
    BY Singles
  <2>3. IsSeq(Unlinked) /\ Len(Unlinked) = 2 /\ Unlinked[1] = u1 /\ Unlinked[2] = u2
    BY Lists DEF Unlinked
  <2> HIDE DEF start, wait
  <2> QED
    BY <1>1, <2>1, <2>2, <2>3 DEF Consists
<1> HIDE DEF o1, o2, f, x1, y1, z1, x2, y2, z2, u1, u2
<1>3. /\ Consists(loop1, {x1, y1, z1}) /\ Leads(loop1, Taking, Held)
      /\ Consists(loop2, {x2, y2, z2}) /\ Leads(loop2, Taking, Held)
  <2>1. /\ (x1 \in Taking <=> y1 \in Held) /\ (y1 \in Taking <=> z1 \in Held)
        /\ (x2 \in Taking <=> y2 \in Held) /\ (y2 \in Taking <=> z2 \in Held)
        /\ z1 \notin Taking /\ z2 \notin Taking /\ x1 \notin Held /\ x2 \notin Held
    BY <1>1
  <2> HIDE DEF loop1, loop2
  <2>2. Consists(loop1, {x1, y1, z1}) /\ Leads(loop1, Taking, Held)
    BY <2>1, Cycle3Leads, RoundsNat DEF loop1
  <2>3. Consists(loop2, {x2, y2, z2}) /\ Leads(loop2, Taking, Held)
    BY <2>1, Cycle3Leads, RoundsNat DEF loop2
  <2> QED
    BY <2>2, <2>3
<1> HIDE DEF start, wait, loop1, loop2
<1>4. Leads(start, Taking, Held) /\ Leads(wait, Taking, Held) /\ Leads(Unlinked, Taking, Held)
  BY <1>2, NeutralLeads, WorkCallsDiffer
<1>5. /\ Consists(start, WorkCalls) /\ Consists(wait, WorkCalls) /\ Consists(Unlinked, WorkCalls)
      /\ Consists(loop1, WorkCalls) /\ Consists(loop2, WorkCalls)
  BY <1>1, <1>2, <1>3 DEF Consists, WorkCalls
<1>6. Consists(WaitPost, WorkCalls) /\ Consists(WaitPostChild, WorkCalls)
  BY <1>1, <1>5, JoinConsists
<1>7. Leads(WaitPost, Taking, Held) /\ Leads(WaitPostChild, Taking, Held)
  <2>1. Leads(start \o loop1, Taking, Held)
    BY <1>3, <1>4, JoinLeads
  <2>2. Leads((start \o loop1) \o wait, Taking, Held)
    BY <2>1, <1>4, JoinLeads
  <2> QED
    BY <1>1, <1>3, <1>4, <2>2, JoinLeads
<1>8. Late(WaitPost)
  <2>1. /\ IsSeq(WaitPost) /\ Len(WaitPost) = 3 * Rounds + 6 
        /\ WaitPost[2] = SemOpen("b", 0) /\ WaitPost[3] = Fork(WaitPostChild)
        /\ \A i \in 0..Rounds - 1 : /\ WaitPost[3 * i + 4] = SemOp("a", -1)
                                    /\ WaitPost[3 * i + 5] = Puts("parent")
                                    /\ WaitPost[3 * i + 6] = SemOp("b", 1)
        /\ WaitPost[3 * Rounds + 4] = Wait
        /\ WaitPost[3 * Rounds + 5] = SemUnlink("a")
        /\ WaitPost[3 * Rounds + 6] = SemUnlink("b")
    BY WaitPostIs
  <2>2. ASSUME NEW k \in 1..3 * Rounds + 6, k > 1
        PROVE  \/ k = 2 \/ k = 3 \/ k = 3 * Rounds + 4 \/ k = 3 * Rounds + 5 \/ k = 3 * Rounds + 6
               \/ \E i \in 0..Rounds - 1 : k = 3 * i + 4 \/ k = 3 * i + 5 \/ k = 3 * i + 6
    <3> DEFINE i == (k - 4) \div 3
    <3>1. CASE k > 3 /\ k < 3 * Rounds + 4
      <4>1. i \in 0..Rounds - 1 /\ (k = 3 * i + 4 \/ k = 3 * i + 5 \/ k = 3 * i + 6)
        BY <2>2, <3>1, RoundsNat
      <4> QED
        BY <4>1
    <3> QED
      BY <2>2, <3>1, RoundsNat
  <2>3. {WaitPost[2], WaitPost[3], WaitPost[3 * Rounds + 4], WaitPost[3 * Rounds + 5],
         WaitPost[3 * Rounds + 6]} \cap Opening = {}
    BY <2>1, WorkCallsDiffer
  <2>4. \A i \in 0..Rounds - 1 :
           {WaitPost[3 * i + 4], WaitPost[3 * i + 5], WaitPost[3 * i + 6]} \cap Opening = {}
    BY <2>1, WorkCallsDiffer DEF Taking, Held
  <2>5. ASSUME NEW k \in 1..3 * Rounds + 6, k > 1 PROVE WaitPost[k] \notin Opening
    BY <2>2, <2>3, <2>4, <2>5
  <2> QED
    BY <2>1, <2>5 DEF Late
<1>9. Consists(WaitPostChild, WorkCalls \ Opening)
  <2>1. /\ {x2, y2, z2} \cap Opening = {} /\ {u1, u2} \cap Opening = {}
        /\ {x2, y2, z2} \subseteq WorkCalls /\ {u1, u2} \subseteq WorkCalls
    <3>1. {x2, y2, z2} \subseteq Taking \cup Held /\ {u1, u2} \subseteq AsideCalls
      BY <1>1
    <3>2. {u1, u2} \cap Opening = {}
      BY WorkCallsDiffer DEF u1, u2
    <3> QED
      BY <3>1, <3>2, WorkCallsDiffer DEF WorkCalls
  <2>2. Consists(Unlinked, {u1, u2})
    <3>1. IsSeq(Unlinked) /\ Len(Unlinked) = 2 /\ Unlinked[1] = u1 /\ Unlinked[2] = u2
      BY Lists DEF Unlinked, u1, u2
    <3> QED
      BY <3>1 DEF Consists
  <2>3. Consists(Unlinked, WorkCalls \ Opening) /\ Consists(loop2, WorkCalls \ Opening)
    BY <1>3, <2>1, <2>2 DEF Consists
  <2> QED
    BY <1>1, <2>3, JoinConsists
<1>10. Late(WaitPostChild) /\ ~Ahead(WaitPostChild, 1, Opening)
  BY <1>9 DEF Late, Ahead, Consists
<1>11. WaitPost[1] \in Opening
  BY WaitPostIs DEF Opening
<1> QED
  BY <1>6, <1>7, <1>8, <1>10, <1>11

\* There is one token at most in the semaphores and in the hands of processes,
\* and none in hands when the first semaphore is opened anew.
Tok(x) == IF sem[x] = NoSem THEN 0 ELSE sem[x]
Spent == Tok("a") + Tok("b") + Cardinality(Doing(Held)) <= 1
Fresh == sem["a"] = NoSem => sem["b"] \in {NoSem, 0} /\ Doing(Held) = {}

\* p is one of the two processes of sem_wait_post.c.
Works(p) == \E s \in {WaitPost, WaitPostChild} : \E k \in 1..Len(s) + 1 : proc[p].todo = From(s, k)

LEMMA TokNat == Semaphores => Tok("a") \in Nat /\ Tok("b") \in Nat
BY Named DEF Semaphores, Tok, NoSem

LEMMA DoingNat == \A C : IsFiniteSet(Doing(C)) /\ Cardinality(Doing(C)) \in Nat
<1> SUFFICES ASSUME NEW C PROVE IsFiniteSet(Doing(C)) /\ Cardinality(Doing(C)) \in Nat
  OBVIOUS
<1>1. Doing(C) \subseteq Pids
  BY DEF Doing
<1> QED
  BY <1>1, SystemAssumption, FS_Subset, FS_CardinalityType

\* A process that works is over or makes one of its calls.
LEMMA WorksReached ==
    ASSUME TInv, NEW p \in Pids, Works(p)
    PROVE  \/ proc[p].todo = <<>>
           \/ \E s \in {WaitPost, WaitPostChild} : \E k \in 1..Len(s) : \E c \in WorkCalls :
                  Reached(p, s, k, c) /\ s[k] = c
<1>0. PICK s \in {WaitPost, WaitPostChild} : \E k \in 1..Len(s) + 1 : proc[p].todo = From(s, k)
  BY DEF Works
<1>1. PICK k \in 1..Len(s) + 1 : proc[p].todo = From(s, k)
  BY <1>0
<1>2. Consists(s, WorkCalls)
  BY WorkScripts
<1>3. IsSeq(s) /\ Len(s) \in Nat
  BY <1>2, Joined DEF Consists
<1>4. CASE k = Len(s) + 1
  BY <1>1, <1>3, <1>4, Ends
<1>5. CASE k \in 1..Len(s)
  <2>1. s[k] \in WorkCalls /\ Reached(p, s, k, s[k])
    BY <1>1, <1>2, <1>3, <1>5 DEF Reached, TInv, IInv, Consists
  <2> QED
    BY <1>5, <2>1
<1> QED
  BY <1>3, <1>4, <1>5

LEMMA SpentUnique ==
    ASSUME TInv, Spent,
           \A p \in Pids : Works(p) \/ At(p, "fork") \/ At(p, "either") \/ At(p, "kill")
                           \/ At(p, "wait")
    PROVE  TokenUnique
<1> DEFINE held == {p \in Pids : \/ At(p, "puts")
                                 \/ At(p, "semop") /\ Now(p).by = 1}
<1>1. ASSUME NEW p \in held PROVE p \in Doing(Held)
  <2>1. p \in Pids /\ proc[p].todo # <<>> /\ Now(p).op \in {"puts", "semop"}
        /\ (Now(p).op = "semop" => Now(p).by = 1)
    BY <1>1 DEF At, Now
  <2>2. Works(p)
    <3>1. Now(p).op \notin {"fork", "either", "kill", "wait"}
      BY <2>1
    <3>2. ~(At(p, "fork") \/ At(p, "either") \/ At(p, "kill") \/ At(p, "wait"))
      BY <3>1 DEF At, Now
    <3> QED
      BY <2>1, <3>2
  <2>3. PICK c \in WorkCalls : Now(p) = c
    BY <2>1, <2>2, WorksReached, Given
  <2>4. c \in Held
    BY <2>1, <2>3, WorkCallsDiffer
  <2> QED
    BY <2>1, <2>3, <2>4 DEF Doing
<1>2. Cardinality(held) \in Nat /\ Cardinality(held) <= Cardinality(Doing(Held))
  <2>1. held \subseteq Doing(Held)
    BY <1>1
  <2> HIDE DEF held
  <2> QED
    BY <2>1, DoingNat, FS_Subset, FS_CardinalityType
<1>3. Tok("a") \in Nat /\ Tok("b") \in Nat /\ Cardinality(Doing(Held)) \in Nat
  BY TokNat, DoingNat DEF TInv
<1>4. Tok("a") + Tok("b") + Cardinality(held) <= 1
  <2> HIDE DEF held
  <2> QED
    BY <1>2, <1>3 DEF Spent
<1> QED
  BY <1>4 DEF TokenUnique, Tok

LEMMA InTurnAside ==
    ASSUME TInv, NEW m \in Pids, NEW c \in Pids, NEW i1, NEW j1, NEW i2, NEW j2, NEW t,
           InTurn(m, c, i1, j1, i2, j2, t)
    PROVE  /\ j1 = 0 => m \notin Doing(Held)
           /\ j2 = 0 => c \notin Doing(Held)
           /\ Works(m) /\ Works(c)
<1>1. /\ Places(i1, j1, i2, j2, t) /\ MainAt(m, i1, j1) /\ ChildAt(m, c, i2, j2, t)
  BY DEF InTurn
<1>2. /\ i1 \in 0..Rounds /\ i2 \in 0..Rounds /\ j1 \in 0..2 /\ j2 \in 0..2 /\ t \in 0..2
      /\ (i1 = Rounds => j1 = 0) /\ (i2 = Rounds => j2 = 0) /\ (i2 # Rounds => t = 0)
  BY <1>1 DEF Places
<1>3. /\ IsSeq(WaitPost) /\ Len(WaitPost) = 3 * Rounds + 6
      /\ IsSeq(WaitPostChild) /\ Len(WaitPostChild) = 3 * Rounds + 2
  BY WaitPostIs, WaitPostChildIs
<1>4. proc[m].todo = From(WaitPost, 3 * i1 + j1 + 4) /\ 3 * i1 + j1 + 4 \in 1..Len(WaitPost) + 1
  BY <1>1, <1>2, <1>3, RoundsNat DEF MainAt
<1>5. \/ proc[c].todo = <<>>
      \/ /\ proc[c].todo = From(WaitPostChild, 3 * i2 + j2 + t + 1)
         /\ 3 * i2 + j2 + t + 1 \in 1..Len(WaitPostChild) + 1
  <2>1. CASE proc[c].st = "zombie"
    BY <2>1 DEF TInv, IInv, ProcessTable
  <2>2. CASE proc[c].todo = From(WaitPostChild, 3 * i2 + j2 + t + 1)
    <3>1. 3 * i2 + j2 + t + 1 \in 1..Len(WaitPostChild) + 1
      <4>1. CASE i2 = Rounds
        BY <1>2, <1>3, <4>1, RoundsNat
      <4>2. CASE i2 # Rounds
        BY <1>2, <1>3, <4>2, RoundsNat
      <4> QED
        BY <4>1, <4>2
    <3> QED
      BY <2>2, <3>1
  <2> QED
    BY <1>1, <2>1, <2>2 DEF ChildAt
<1>6. Works(m)
  BY <1>4 DEF Works
<1>7. Works(c)
  <2>1. From(WaitPost, Len(WaitPost) + 1) = <<>> /\ Len(WaitPost) + 1 \in 1..Len(WaitPost) + 1
    BY <1>3, Ends, RoundsNat
  <2> QED
    BY <1>5, <2>1 DEF Works
<1>8. ASSUME j1 = 0 PROVE m \notin Doing(Held)
  <2>1. ~Ahead(WaitPost, 3 * i1 + 4, Held)
    <3>1. CASE i1 = Rounds
      BY <1>2, <3>1, WaitPostIs, WorkCallsDiffer DEF Ahead, AsideCalls
    <3>2. CASE i1 # Rounds
      <4>1. i1 \in 0..Rounds - 1
        BY <1>2, <3>2, RoundsNat
      <4> QED
        BY <4>1, WaitPostIs, WorkCallsDiffer DEF Ahead
    <3> QED
      BY <3>1, <3>2
  <2>2. 3 * i1 + j1 + 4 = 3 * i1 + 4
    BY <1>2, <1>8
  <2>3. ~(proc[m].todo # <<>> /\ Head(proc[m].todo) \in Held)
    BY <1>3, <1>4, <2>1, <2>2, Heads
  <2> QED
    BY <2>3 DEF Doing, Now
<1>9. ASSUME j2 = 0 PROVE c \notin Doing(Held)
  <2>1. CASE proc[c].todo = <<>>
    BY <2>1 DEF Doing
  <2>2. CASE /\ proc[c].todo = From(WaitPostChild, 3 * i2 + j2 + t + 1)
             /\ 3 * i2 + j2 + t + 1 \in 1..Len(WaitPostChild) + 1
    <3>1. 3 * i2 + j2 + t + 1 = 3 * i2 + t + 1
      BY <1>2, <1>9
    <3>2. ~Ahead(WaitPostChild, 3 * i2 + t + 1, Held)
      <4>1. CASE i2 = Rounds
        <5>1. t = 0 \/ t = 1 \/ t = 2
          BY <1>2
        <5>2. /\ t = 0 => 3 * i2 + t + 1 = 3 * Rounds + 1
              /\ t = 1 => 3 * i2 + t + 1 = 3 * Rounds + 2
              /\ t = 2 => 3 * i2 + t + 1 = Len(WaitPostChild) + 1
          BY <1>2, <1>3, <4>1, RoundsNat
        <5>3. {WaitPostChild[3 * Rounds + 1], WaitPostChild[3 * Rounds + 2]} \cap Held = {}
          BY WaitPostChildIs, WorkCallsDiffer DEF AsideCalls
        <5>4. Len(WaitPostChild) + 1 \notin 1..Len(WaitPostChild)
          BY <1>3, RoundsNat
        <5> QED
          BY <5>1, <5>2, <5>3, <5>4 DEF Ahead
      <4>2. CASE i2 # Rounds
        <5>1. i2 \in 0..Rounds - 1 /\ 3 * i2 + t + 1 = 3 * i2 + 1
          BY <1>2, <4>2, RoundsNat
        <5> QED
          BY <5>1, WaitPostChildIs, WorkCallsDiffer DEF Ahead
      <4> QED
        BY <4>1, <4>2
    <3>3. ~(proc[c].todo # <<>> /\ Head(proc[c].todo) \in Held)
      BY <1>3, <2>2, <3>1, <3>2, Heads
    <3> QED
      BY <3>3 DEF Doing, Now
  <2> QED
    BY <1>5, <2>1, <2>2
<1> QED
  BY <1>6, <1>7, <1>8, <1>9

LEMMA WaitPostSpent ==
    ASSUME TInv, NEW m \in Pids, NEW c \in Pids, WaitPostInv(m, c),
           \A q \in Pids \ {m, c} : q \notin Doing(Held)
    PROVE  Spent /\ Fresh /\ Works(m) /\ Works(c)
<1> DEFINE D == Doing(Held)
           a == sem["a"]
           b == sem["b"]
<1>1. /\ D \subseteq {m, c} /\ a \in Int /\ b \in Int
      /\ Cardinality({}) = 0 /\ Cardinality({m}) = 1 /\ Cardinality({c}) = 1
  <2>1. D \subseteq {m, c}
    BY DEF Doing
  <2> HIDE DEF D
  <2> QED
    BY <2>1, Named, FS_EmptySet, FS_Singleton DEF TInv, Semaphores
<1>2. ASSUME D = {}, a \in {NoSem, 0, 1}, b \in {NoSem, 0} PROVE Spent /\ Fresh
  BY <1>1, <1>2 DEF Spent, Fresh, Tok, NoSem
<1>3. /\ From(WaitPost, Len(WaitPost) + 1) = <<>> /\ Len(WaitPost) + 1 \in 1..Len(WaitPost) + 1
      /\ IsSeq(WaitPost) /\ Len(WaitPost) = 3 * Rounds + 6
  BY WaitPostIs, Ends, RoundsNat
<1>4. ASSUME NEW p \in Pids, proc[p].st # "run" PROVE Works(p) /\ p \notin D
  <2>1. proc[p].todo = <<>>
    BY <1>4 DEF TInv, IInv, ProcessTable
  <2> QED
    BY <1>3, <2>1 DEF Works, Doing
<1>5. ASSUME NEW k \in 1..3, Starts(m, c, k) PROVE Spent /\ Fresh /\ Works(m) /\ Works(c)
  <2>1. Works(c) /\ c \notin D
    BY <1>4, <1>5 DEF Starts
  <2>2. k \in 1..Len(WaitPost) + 1 /\ proc[m].todo = From(WaitPost, k)
    BY <1>3, <1>5, RoundsNat DEF Starts
  <2>3. ~Ahead(WaitPost, k, Held)
    <3>1. k = 1 \/ k = 2 \/ k = 3
      OBVIOUS
    <3> QED
      BY <3>1, WaitPostIs, WorkCallsDiffer DEF Ahead, AsideCalls
  <2>4. ~(proc[m].todo # <<>> /\ Head(proc[m].todo) \in Held)
    BY <1>3, <2>2, <2>3, Heads
  <2>5. m \notin D /\ Works(m)
    BY <2>2, <2>4 DEF Doing, Now, Works
  <2>6. D = {}
    BY <1>1, <2>1, <2>5
  <2>7. a \in {NoSem, 0, 1} /\ b \in {NoSem, 0}
    BY <1>5 DEF Starts
  <2> QED
    BY <1>2, <2>1, <2>5, <2>6, <2>7
<1>6. ASSUME NEW i1 \in 0..Rounds, NEW j1 \in 0..2, NEW i2 \in 0..Rounds, NEW j2 \in 0..2,
             NEW t \in 0..2, InTurn(m, c, i1, j1, i2, j2, t)
      PROVE  Spent /\ Fresh /\ Works(m) /\ Works(c)
  <2>1. /\ j1 = 0 => m \notin D
        /\ j2 = 0 => c \notin D
        /\ Works(m) /\ Works(c)
    BY <1>6, InTurnAside
  <2>2. Tokens(i1, j1, i2, j2)
    BY <1>6 DEF InTurn
  <2>3. a >= 0 /\ b >= 0
    BY <2>2 DEF Tokens
  <2>4. /\ (j1 = 0 /\ j2 = 0 => a + b = 1)
        /\ ((j1 = 0 /\ j2 # 0) \/ (j1 # 0 /\ j2 = 0) => a + b = 0)
        /\ (j1 # 0 /\ j2 # 0 => a + b = -1)
    BY <2>2, RoundsNat DEF Tokens
  <2> HIDE DEF D
  <2>5. a + b + Cardinality(D) <= 1
    <3>1. CASE j1 = 0 /\ j2 = 0
      <4>1. D = {}
        BY <1>1, <2>1, <3>1
      <4> QED
        BY <1>1, <2>4, <3>1, <4>1
    <3>2. CASE (j1 = 0 /\ j2 # 0) \/ (j1 # 0 /\ j2 = 0)
      <4>1. D = {} \/ D = {m} \/ D = {c}
        BY <1>1, <2>1, <3>2
      <4>2. Cardinality(D) = 0 \/ Cardinality(D) = 1
        BY <1>1, <4>1
      <4>3. a + b = 0
        BY <2>4, <3>2
      <4> QED
        BY <4>2, <4>3
    <3>3. CASE j1 # 0 /\ j2 # 0
      <4>1. a + b = -1
        BY <2>4, <3>3
      <4>2. a \in Int /\ b \in Int
        BY <1>1
      <4> HIDE DEF a, b
      <4> QED
        BY <2>3, <4>1, <4>2
    <3> QED
      BY <3>1, <3>2, <3>3
  <2>6. Tok("a") = a /\ Tok("b") = b /\ a # NoSem
    BY <1>1, <2>3 DEF Tok, NoSem
  <2>7. Spent
    BY <2>5, <2>6 DEF Spent, D
  <2>8. Fresh
    BY <2>6 DEF Fresh
  <2> QED
    BY <2>1, <2>7, <2>8
<1>7. ASSUME Done(m, c) PROVE Spent /\ Fresh /\ Works(m) /\ Works(c)
  <2>1. Works(c) /\ c \notin D
    BY <1>4, <1>7 DEF Done
  <2>2. Works(m) /\ m \notin D
    <3>1. CASE proc[m].st = "run"
      <4>1. PICK k \in 3 * Rounds + 5..3 * Rounds + 7 : proc[m].todo = From(WaitPost, k)
        BY <1>7, <3>1 DEF Done
      <4>2. k \in 1..Len(WaitPost) + 1
            /\ (k = 3 * Rounds + 5 \/ k = 3 * Rounds + 6 \/ k = Len(WaitPost) + 1)
        BY <1>3, RoundsNat
      <4>3. ~Ahead(WaitPost, k, Held)
        <5>1. {WaitPost[3 * Rounds + 5], WaitPost[3 * Rounds + 6]} \cap Held = {}
          BY WaitPostIs, WorkCallsDiffer DEF AsideCalls
        <5>2. Len(WaitPost) + 1 \notin 1..Len(WaitPost)
          BY <1>3, RoundsNat
        <5> QED
          BY <4>2, <5>1, <5>2 DEF Ahead
      <4>4. ~(proc[m].todo # <<>> /\ Head(proc[m].todo) \in Held)
        BY <1>3, <4>1, <4>2, <4>3, Heads
      <4> QED
        BY <4>1, <4>2, <4>4 DEF Doing, Now, Works
    <3>2. CASE proc[m].st # "run"
      BY <1>4, <3>2
    <3> QED
      BY <3>1, <3>2
  <2>3. D = {}
    BY <1>1, <2>1, <2>2
  <2>4. a \in {NoSem, 0, 1} /\ b \in {NoSem, 0}
    BY <1>7 DEF Done
  <2> QED
    BY <1>2, <2>1, <2>2, <2>3, <2>4
<1> QED
  BY <1>5, <1>6, <1>7 DEF WaitPostInv

\* What a call does to the tokens in the semaphores
Credit == Tok("a") + Tok("b")

Pays(c) ==
    /\ c \in Opening => Credit' <= Credit \/ (sem["a"] = NoSem /\ Credit' = 1 + Tok("b"))
    /\ c \in Taking \ Held => Credit' = Credit - 1
    /\ c \in Held \ Taking => Credit' <= Credit + 1
    /\ c \in WorkCalls \ (Opening \cup Taking \cup Held) => Credit' <= Credit
    /\ c \in Taking \cap Held => Credit' <= Credit

\* p has made call k of s, perhaps with a child that is new.
Worked(p, s, k) ==
    \/ Advances(p, s, k, {})
    \/ \E r \in Pids : Forked(p, r, WaitPostChild) /\ Advances(p, s, k, {r})

LEMMA PaysNothing ==
    ASSUME Semaphores, UNCHANGED sem, NEW c, c \notin (Taking \ Held)
    PROVE  Pays(c)
<1>1. Credit' = Credit /\ Credit \in Nat
  BY TokNat DEF Credit, Tok
<1>2. Credit' <= Credit /\ Credit' <= Credit + 1
  BY <1>1
<1> QED
  BY <1>2 DEF Pays

LEMMA PaysUnlink ==
    ASSUME Semaphores, NEW x \in {"a", "b"}, sem'[x] \in {NoSem, sem[x]}, OnlySem(x)
    PROVE  Pays(SemUnlink(x))
<1>1. SemUnlink(x) \notin Opening /\ SemUnlink(x) \notin Taking /\ SemUnlink(x) \notin Held
  BY WorkCallsDiffer DEF AsideCalls
<1>2. Tok("a") \in Nat /\ Tok("b") \in Nat
  BY TokNat
<1>3. \/ Tok("a")' \in {0, Tok("a")} /\ Tok("b")' = Tok("b")
      \/ Tok("b")' \in {0, Tok("b")} /\ Tok("a")' = Tok("a")
  <2>1. CASE x = "a"
    <3>1. sem'["b"] = sem["b"]
      BY <2>1, Named DEF OnlySem
    <3> QED
      BY <2>1, <3>1 DEF Tok
  <2>2. CASE x = "b"
    <3>1. sem'["a"] = sem["a"]
      BY <2>2, Named DEF OnlySem
    <3> QED
      BY <2>2, <3>1 DEF Tok
  <2> QED
    BY <2>1, <2>2
<1>4. Credit' <= Credit
  BY <1>2, <1>3 DEF Credit
<1> QED
  BY <1>1, <1>4 DEF Pays

LEMMA PaysSemOp ==
    ASSUME Semaphores, Semaphores', NEW x \in {"a", "b"}, NEW d \in {-1, 1},
           sem[x] + d >= 0, sem'[x] = sem[x] + d, OnlySem(x)
    PROVE  Pays(SemOp(x, d))
<1>1. /\ d = -1 => SemOp(x, d) \in Taking \ Held
      /\ d = 1 => SemOp(x, d) \in Held \ Taking
      /\ SemOp(x, d) \notin Opening
  BY WorkCallsDiffer DEF Taking, Held
<1>2. Tok("a") \in Nat /\ Tok("b") \in Nat
  BY TokNat
<1>3. sem[x] \in Int /\ sem[x] >= -1
  BY Named DEF Semaphores, NoSem
<1>4. /\ d = -1 => Tok(x)' = Tok(x) - 1
      /\ d = 1 => Tok(x)' <= Tok(x) + 1
      /\ Tok(x)' \in Nat
  <2>1. CASE d = -1
    <3>1. sem[x] > 0 /\ sem'[x] = sem[x] - 1
      BY <1>3, <2>1
    <3> QED
      BY <1>3, <2>1, <3>1 DEF Tok, NoSem
  <2>2. CASE d = 1
    <3>1. sem'[x] = sem[x] + 1
      BY <2>2
    <3> QED
      BY <1>3, <2>2, <3>1 DEF Tok, NoSem
  <2> QED
    BY <2>1, <2>2
<1>5. x = "a" => Tok("b")' = Tok("b")
  <2>1. x = "a" => sem'["b"] = sem["b"]
    BY Named DEF OnlySem
  <2> QED
    BY <2>1 DEF Tok
<1>6. x = "b" => Tok("a")' = Tok("a")
  <2>1. x = "b" => sem'["a"] = sem["a"]
    BY Named DEF OnlySem
  <2> QED
    BY <2>1 DEF Tok
<1>7. /\ d = -1 => Credit' = Credit - 1
      /\ d = 1 => Credit' <= Credit + 1
  <2>1. CASE x = "a"
    BY <1>2, <1>4, <1>5, <2>1 DEF Credit
  <2>2. CASE x = "b"
    BY <1>2, <1>4, <1>6, <2>2 DEF Credit
  <2> QED
    BY <2>1, <2>2
<1> QED
  BY <1>1, <1>7 DEF Pays

LEMMA PaysOpen ==
    ASSUME Semaphores, NEW c, \/ c = SemOpen("a", 1) /\ Opened("a", 1)
                              \/ c = SemOpen("b", 0) /\ Opened("b", 0)
    PROVE  Pays(c)
<1>1. c \notin Taking /\ c \notin Held
  BY WorkCallsDiffer DEF AsideCalls
<1>2. Tok("a") \in Nat /\ Tok("b") \in Nat
  BY TokNat
<1>3. CASE c = SemOpen("a", 1) /\ Opened("a", 1)
  <2>1. sem'["b"] = sem["b"]
    BY <1>3, Named DEF Opened, OnlySem
  <2>2. Tok("b")' = Tok("b")
    BY <2>1 DEF Tok
  <2>3. sem["a"] = NoSem => Tok("a")' = 1
    BY <1>3 DEF Opened, Tok, NoSem
  <2>4. sem["a"] # NoSem => Tok("a")' = Tok("a")
    BY <1>3 DEF Opened, Tok
  <2>5. Credit' <= Credit \/ (sem["a"] = NoSem /\ Credit' = 1 + Tok("b"))
    BY <1>2, <2>2, <2>3, <2>4 DEF Credit
  <2> QED
    BY <1>1, <1>3, <2>5 DEF Pays, Opening
<1>4. CASE c = SemOpen("b", 0) /\ Opened("b", 0)
  <2>1. sem'["a"] = sem["a"]
    BY <1>4, Named DEF Opened, OnlySem
  <2>2. Tok("a")' = Tok("a")
    BY <2>1 DEF Tok
  <2>3. Tok("b")' = Tok("b")
    BY <1>4 DEF Opened, Tok, NoSem
  <2>4. Credit' <= Credit
    BY <1>2, <2>2, <2>3 DEF Credit
  <2> QED
    BY <1>1, <2>4 DEF Pays
<1> QED
  BY <1>3, <1>4

LEMMA WorkEffect ==
    ASSUME TInv, TInv', AllPlain, NEW p \in Pids, NEW s, NEW k, NEW c \in WorkCalls,
           Reached(p, s, k, c), Turn(p)
    PROVE  Worked(p, s, k) /\ Pays(c)
<1>1. Semaphores /\ Semaphores' /\ proc[p].st = "run"
  <2>1. proc[p].st = "run"
    BY Running
  <2>2. Semaphores /\ Semaphores'
    BY DEF TInv
  <2> QED
    BY <2>1, <2>2
<1>2. Goes(p, s, k + 1) => Worked(p, s, k)
  BY <1>1, GoesAdvances DEF Worked
<1>3. CASE c = SemOpen("a", 1)
  <2>1. Goes(p, s, k + 1) /\ Opened("a", 1)
    BY <1>1, <1>3, OnSemOpen, Named
  <2> QED
    BY <1>1, <1>2, <1>3, <2>1, PaysOpen
<1>4. CASE c = SemOpen("b", 0)
  <2>1. Goes(p, s, k + 1) /\ Opened("b", 0)
    BY <1>1, <1>4, OnSemOpen, Named
  <2> QED
    BY <1>1, <1>2, <1>4, <2>1, PaysOpen
<1>5. CASE c = Fork(WaitPostChild)
  <2>1. Worked(p, s, k) /\ UNCHANGED sem
    <3> DEFINE code == WaitPostChild
    <3>1. Reached(p, s, k, Fork(code))
      BY <1>5
    <3> HIDE DEF code
    <3>2. /\ \/ Advances(p, s, k, {})
             \/ \E r \in Pids : Forked(p, r, code) /\ Advances(p, s, k, {r})
          /\ UNCHANGED sem
      BY <3>1, ForkAdvances
    <3> QED
      BY <3>2 DEF Worked, code
  <2>2. c \notin Taking
    BY <1>5, WorkCallsDiffer DEF AsideCalls
  <2> QED
    BY <1>1, <2>1, <2>2, PaysNothing
<1>6. CASE c = Wait
  <2>1. Advances(p, s, k, {}) /\ UNCHANGED sem
    BY <1>6, WaitAdvances
  <2>2. c \notin Taking
    BY <1>6, WorkCallsDiffer DEF AsideCalls
  <2> QED
    BY <1>1, <2>1, <2>2, PaysNothing DEF Worked
<1>7. ASSUME NEW x \in {"a", "b"}, c = SemUnlink(x) PROVE Worked(p, s, k) /\ Pays(c)
  <2>1. Goes(p, s, k + 1) /\ sem'[x] \in {NoSem, sem[x]} /\ OnlySem(x)
    BY <1>1, <1>7, OnUnlink, Named
  <2> QED
    BY <1>1, <1>2, <1>7, <2>1, PaysUnlink
<1>8. ASSUME NEW x \in {"a", "b"}, NEW d \in {-1, 1}, c = SemOp(x, d)
      PROVE  Worked(p, s, k) /\ Pays(c)
  <2>1. /\ Goes(p, s, k + 1) /\ sem[x] + d >= 0 /\ sem'[x] = sem[x] + d
        /\ \A y \in Objects \ {x} : sem'[y] = sem[y]
    BY <1>1, <1>8, OnSemOp, Named
  <2>2. OnlySem(x)
    BY <2>1 DEF OnlySem
  <2> QED
    BY <1>1, <1>2, <1>8, <2>1, <2>2, PaysSemOp
<1>9. ASSUME NEW v \in {"parent", "child"}, c = Puts(v) PROVE Worked(p, s, k) /\ Pays(c)
  <2>1. Goes(p, s, k + 1) /\ UNCHANGED sem
    BY <1>9, OnPuts
  <2>2. c \in Held
    BY <1>9 DEF Held
  <2> QED
    BY <1>1, <1>2, <2>1, <2>2, PaysNothing
<1> QED
  BY <1>3, <1>4, <1>5, <1>6, <1>7, <1>8, <1>9 DEF WorkCalls, AsideCalls, Taking, Held

\* One turn of a process that works

LEMMA ForkedOthers ==
    ASSUME TInv, NEW p \in Pids, NEW r \in Pids, NEW code, IsSeq(code),
           Forked(p, r, code), Steady(p, {r}), NEW C, ~Ahead(code, 1, C)
    PROVE  Others(p, C) /\ r \notin Doing(C)'
<1>1. /\ r # p /\ proc[r].todo = <<>> /\ proc'[r].todo = code
      /\ \A q \in Pids \ {p, r} : proc'[q].todo = proc[q].todo
  BY DEF Forked, Steady, TInv, IInv, ProcessTable
<1>2. ~(code # <<>> /\ Head(code) \in C)
  <2>1. From(code, 1) = code /\ 1 \in 1..Len(code) + 1
    BY Ends, Joined
  <2> QED
    BY <2>1, Heads
<1>3. r \notin Doing(C) /\ r \notin Doing(C)'
  BY <1>1, <1>2 DEF Doing, Now
<1>4. \A q \in Pids \ {p, r} : q \in Doing(C)' <=> q \in Doing(C)
  BY <1>1 DEF Doing, Now
<1> QED
  BY <1>3, <1>4 DEF Others

LEMMA WorkedMoves ==
    ASSUME TInv, NEW p \in Pids, NEW s, NEW k, NEW c, Reached(p, s, k, c), Worked(p, s, k)
    PROVE  Moves(p, s, k, Held)
<1>1. CASE Advances(p, s, k, {})
  BY <1>1, AdvancesMoves
<1>2. ASSUME NEW r \in Pids, Forked(p, r, WaitPostChild), Advances(p, s, k, {r})
      PROVE  Moves(p, s, k, Held)
  <2>1. IsSeq(WaitPostChild) /\ ~Ahead(WaitPostChild, 1, Held)
    BY WorkScripts DEF Leads
  <2>2. Others(p, Held)
    BY <1>2, <2>1, ForkedOthers DEF Advances
  <2> QED
    BY <1>2, <2>2 DEF Advances, Reached, Moves
<1> QED
  BY <1>1, <1>2 DEF Worked

LEMMA NextTokNat == Semaphores' => Tok("a")' \in Nat /\ Tok("b")' \in Nat
BY Named DEF Semaphores, Tok, NoSem

\* How many have the token or are about to give it back
Hands == Cardinality(Doing(Held))

LEMMA WorkSpends ==
    ASSUME TInv, TInv', Spent, NEW p \in Pids, NEW s \in {WaitPost, WaitPostChild}, NEW k,
           NEW c \in WorkCalls, Reached(p, s, k, c), s[k] = c, Worked(p, s, k), Pays(c),
           c \in Opening => Fresh
    PROVE  Spent'
<1>1. /\ Hands \in Nat /\ Hands' \in Nat
      /\ Hands' = Hands + (IF c \in Taking THEN 1 ELSE 0) - (IF c \in Held THEN 1 ELSE 0)
  <2>1. Moves(p, s, k, Held) /\ Leads(s, Taking, Held)
    BY WorkedMoves, WorkScripts
  <2> QED
    BY <2>1, Moving DEF Hands
<1>2. Credit \in Int /\ Credit' \in Int /\ Tok("b") \in Nat
  <2>1. Tok("a") \in Nat /\ Tok("b") \in Nat
    BY TokNat DEF TInv
  <2>2. Tok("a")' \in Nat /\ Tok("b")' \in Nat
    BY NextTokNat DEF TInv
  <2> QED
    BY <2>1, <2>2 DEF Credit
<1>3. Credit + Hands <= 1 /\ (Credit' + Hands' <= 1 => Spent')
  BY DEF Spent, Credit, Hands
<1>4. \A x \in Int : \A x1 \in Int : \A y \in Nat : \A y1 \in Nat :
         /\ x + y <= 1
         /\ \/ x1 <= x /\ y1 = y
            \/ x1 = x - 1 /\ y1 = y + 1
            \/ x1 <= x + 1 /\ y1 = y - 1
            \/ x1 = 1 /\ y1 = 0
         => x1 + y1 <= 1
  OBVIOUS
<1>5. \/ Credit' <= Credit /\ Hands' = Hands
      \/ Credit' = Credit - 1 /\ Hands' = Hands + 1
      \/ Credit' <= Credit + 1 /\ Hands' = Hands - 1
      \/ Credit' = 1 /\ Hands' = 0
  <2>1. CASE c \in Opening
    <3>1. c \notin Taking /\ c \notin Held
      BY <2>1, WorkCallsDiffer
    <3>2. Hands' = Hands
      BY <1>1, <3>1
    <3>3. sem["a"] = NoSem => Tok("b") = 0 /\ Hands = 0
      BY <2>1, FS_EmptySet DEF Fresh, Tok, Hands
    <3>4. Credit' <= Credit \/ (sem["a"] = NoSem /\ Credit' = 1 + Tok("b"))
      BY <2>1 DEF Pays
    <3> QED
      BY <1>1, <3>2, <3>3, <3>4
  <2>2. CASE c \in Taking \ Held
    <3>1. Credit' = Credit - 1
      BY <2>2 DEF Pays
    <3>2. Hands' = Hands + 1
      BY <1>1, <2>2
    <3> QED
      BY <3>1, <3>2
  <2>3. CASE c \in Held \ Taking
    <3>1. Credit' <= Credit + 1
      BY <2>3 DEF Pays
    <3>2. Hands' = Hands - 1
      BY <1>1, <2>3
    <3> QED
      BY <3>1, <3>2
  <2>4. CASE c \notin Opening /\ (c \in Taking <=> c \in Held)
    <3>1. Credit' <= Credit
      BY <2>4 DEF Pays
    <3>2. Hands' = Hands
      BY <1>1, <2>4
    <3> QED
      BY <3>1, <3>2
  <2> QED
    BY <2>1, <2>2, <2>3, <2>4
<1>6. Credit' + Hands' <= 1
  <2>1. Credit \in Int /\ Credit' \in Int /\ Hands \in Nat /\ Hands' \in Nat
    BY <1>1, <1>2
  <2>2. Credit + Hands <= 1
    BY <1>3
  <2> QED
    BY <2>1, <2>2, <1>4, <1>5
<1> QED
  BY <1>3, <1>6

\* The others go on as before, but for one that p has just forked.
Alongside(p) == \E S \in SUBSET Pids : Steady(p, S) /\ \A r \in S : Forked(p, r, WaitPostChild)

LEMMA WorkTurn ==
    ASSUME TInv, TInv', AllPlain, Spent, NEW p \in Pids, Works(p), Turn(p),
           p \in Doing(Opening) => Fresh
    PROVE  /\ AllPlain' /\ Spent' /\ Works(p)' /\ p \notin Doing(Opening)'
           /\ proc'[p].ppid = proc[p].ppid /\ proc'[p].st # "none" /\ proc'[p].pending = {}
           /\ Alongside(p)
<1>1. proc[p].pending = {}
  BY Frozen
<1>2. CASE proc[p].todo = <<>>
  <2>1. Leaves(p) /\ UNCHANGED sem
    BY <1>2, EndLeaves
  <2>2. \A C : Doing(C)' = Doing(C)
    <3>1. \A q \in Pids : proc'[q].todo = proc[q].todo
      BY <1>2, <2>1 DEF Leaves, Steady
    <3> QED
      BY <3>1 DEF Doing, Now
  <2>3. Spent'
    BY <2>1, <2>2 DEF Spent, Tok
  <2>4. Works(p)' /\ p \notin Doing(Opening)'
    <3>1. From(WaitPost, Len(WaitPost) + 1) = <<>> /\ Len(WaitPost) + 1 \in 1..Len(WaitPost) + 1
      BY WaitPostIs, Ends, RoundsNat
    <3> QED
      BY <2>1, <3>1 DEF Leaves, Works, Doing
  <2>5. Alongside(p)
    BY <2>1 DEF Alongside, Leaves
  <2> QED
    BY <2>1, <2>3, <2>4, <2>5 DEF Leaves
<1>3. ASSUME NEW s \in {WaitPost, WaitPostChild}, NEW k \in 1..Len(s), NEW c \in WorkCalls,
             Reached(p, s, k, c), s[k] = c
      PROVE  /\ AllPlain' /\ Spent' /\ Works(p)' /\ p \notin Doing(Opening)'
             /\ proc'[p].ppid = proc[p].ppid /\ proc'[p].st # "none" /\ proc'[p].pending = {}
             /\ Alongside(p)
  <2>1. Worked(p, s, k) /\ Pays(c)
    BY <1>3, WorkEffect
  <2>2. c \in Opening => Fresh
    BY <1>3, Given DEF Doing
  <2>3. Spent'
    BY <1>3, <2>1, <2>2, WorkSpends
  <2>4. /\ AllPlain' /\ proc'[p].ppid = proc[p].ppid /\ proc'[p].st = "run"
        /\ proc'[p].todo = From(s, k + 1) /\ proc'[p].pending = {}
        /\ Alongside(p)
    <3>1. CASE Advances(p, s, k, {})
      BY <1>1, <3>1 DEF Advances, Alongside
    <3>2. ASSUME NEW r \in Pids, Forked(p, r, WaitPostChild), Advances(p, s, k, {r})
          PROVE  /\ AllPlain' /\ proc'[p].ppid = proc[p].ppid /\ proc'[p].st = "run"
                 /\ proc'[p].todo = From(s, k + 1) /\ proc'[p].pending = {}
                 /\ Alongside(p)
      BY <1>1, <3>2 DEF Advances, Alongside
    <3> QED
      BY <2>1, <3>1, <3>2 DEF Worked
  <2>5. IsSeq(s) /\ Len(s) \in Nat /\ Late(s)
    <3>1. Consists(s, WorkCalls) /\ Late(s)
      BY WorkScripts
    <3> QED
      BY <3>1, Joined DEF Consists
  <2>6. k + 1 \in 1..Len(s) + 1 /\ ~Ahead(s, k + 1, Opening)
    BY <2>5 DEF Late, Ahead
  <2>7. ~(From(s, k + 1) # <<>> /\ Head(From(s, k + 1)) \in Opening)
    BY <2>5, <2>6, Heads
  <2> QED
    BY <2>3, <2>4, <2>6, <2>7 DEF Works, Doing, Now
<1> QED
  BY <1>2, <1>3, WorksReached

-----------------------------------------------------------------------------
\* Two runs of sem_wait_post.c
Interrupt == <<Kill({2, 3}, "INT")>>

LEMMA RunTwiceIs ==
    /\ IsSeq(RunTwice) /\ Len(RunTwice) = 5
    /\ RunTwice[1] = Fork(WaitPost) /\ RunTwice[2] = Either(Interrupt, <<>>)
    /\ RunTwice[3] = Wait /\ RunTwice[4] = Fork(WaitPost) /\ RunTwice[5] = Wait
    /\ From(RunTwice, 6) = <<>>
    /\ \A k \in 1..5 : RunTwice[k] \notin Held /\ RunTwice[k].op \in {"fork", "either", "wait"}
<1> DEFINE f == Fork(WaitPost)
           e == Either(Interrupt, <<>>)
           all == <<f, e, Wait, f, Wait>>
<1>1. RunTwice = all
  BY DEF RunTwice, Interrupt
<1>2. f.op = "fork" /\ e.op = "either" /\ Wait.op = "wait"
  BY DEF Fork, Either, Wait
<1>3. \A c \in Held : c.op \in {"puts", "semop"}
  BY DEF Held, Puts, SemOp
<1> HIDE DEF f, e
<1>4. IsSeq(all) /\ Len(all) = 5
  BY Lists
<1>5. all[1] = f /\ all[2] = e /\ all[3] = Wait /\ all[4] = f /\ all[5] = Wait
  OBVIOUS
<1> HIDE DEF all
<1>6. From(all, 6) = <<>>
  <2>1. From(all, Len(all) + 1) = <<>>
    BY <1>4, Ends
  <2> QED
    BY <1>4, <2>1
<1>7. \A k \in 1..5 : k = 1 \/ k = 2 \/ k = 3 \/ k = 4 \/ k = 5
  OBVIOUS
<1>8. \A k \in 1..5 : all[k] \notin Held /\ all[k].op \in {"fork", "either", "wait"}
  BY <1>2, <1>3, <1>5, <1>7
<1> QED
  BY <1>1, <1>4, <1>5, <1>6, <1>8 DEF f, e

\* Those who can make a call in the second run
Active == {q \in Pids \ {1} : proc[q].st = "run" /\ proc[q].pending = {}}

\* After the end of the first run, whether it was interrupted or not: only who runs
\* alone opens the semaphores.
Again ==
    /\ AllPlain /\ proc[1].pending = {} /\ proc[1].st # "none" /\ Spent
    /\ \A q \in Pids \ {1} : Works(q)
    /\ \/ Active = {} /\ Fresh /\ \E k \in {3, 4} : proc[1].todo = From(RunTwice, k)
       \/ /\ proc[1].todo \in {From(RunTwice, 5), <<>>}
          /\ \A q \in Active : q \in Doing(Opening) => Fresh /\ Active = {q}

LEMMA OneNamed == 1 \in Pids /\ 2 \in Pids /\ 3 \in Pids
BY IpcAssumption

LEMMA SpentFewer ==
    ASSUME Semaphores, Spent, UNCHANGED sem, Doing(Held)' \subseteq Doing(Held)
    PROVE  Spent' /\ (Fresh => Fresh')
<1>1. Hands' <= Hands /\ Hands \in Nat /\ Hands' \in Nat
  <2> DEFINE A == Doing(Held)
             B == Doing(Held)'
  <2>1. IsFiniteSet(A) /\ B \subseteq A
    BY DoingNat
  <2> HIDE DEF A, B
  <2>2. Cardinality(B) <= Cardinality(A) /\ Cardinality(B) \in Nat /\ Cardinality(A) \in Nat
    BY <2>1, FS_Subset, FS_CardinalityType
  <2> QED
    BY <2>2 DEF A, B, Hands
<1>2. Credit' = Credit /\ Credit \in Nat
  BY TokNat DEF Credit, Tok
<1>3. Credit' + Hands' <= 1
  <2>1. Credit + Hands <= 1
    BY DEF Spent, Credit, Hands
  <2>2. \A x \in Nat : \A y \in Nat : \A z \in Nat : x + y <= 1 /\ z <= y => x + z <= 1
    OBVIOUS
  <2>3. Credit + Hands' <= 1
    BY <1>1, <1>2, <2>1, <2>2
  <2> QED
    BY <1>2, <2>3
<1>4. Spent'
  BY <1>3 DEF Spent, Credit, Hands
<1>5. Fresh => Fresh'
  BY DEF Fresh
<1> QED
  BY <1>4, <1>5

\* Whoever leaves with a signal leaves no gap.
LEMMA AgainDeliver ==
    ASSUME TInv, Again, NEW p \in Pids, Deliver(p)
    PROVE  Again'
<1>1. Leaves(p) /\ proc[p].pending # {} /\ UNCHANGED sem
  BY DeliverLeaves DEF Again
<1>2. p # 1 /\ 1 \in Pids
  BY <1>1, OneNamed DEF Again
<1>3. /\ proc'[p].todo = <<>> /\ proc'[p].st # "run" /\ AllPlain'
      /\ \A q \in Pids \ {p} :
            /\ proc'[q].todo = proc[q].todo /\ proc'[q].pending = proc[q].pending
            /\ proc'[q].st = "run" <=> proc[q].st = "run"
            /\ proc'[q].st = "none" <=> proc[q].st = "none"
  BY <1>1 DEF Leaves, Steady
<1>4. \A C : Doing(C)' \subseteq Doing(C)
  BY <1>3 DEF Doing, Now
<1>5. Spent' /\ (Fresh => Fresh')
  BY <1>1, <1>4, SpentFewer DEF Again, TInv
<1>6. Active' = Active
  <2>1. p \notin Active /\ p \notin Active'
    BY <1>1, <1>3 DEF Active
  <2> QED
    BY <1>3, <2>1 DEF Active
<1>7. \A q \in Pids \ {1} : Works(q)'
  <2>1. From(WaitPost, Len(WaitPost) + 1) = <<>> /\ Len(WaitPost) + 1 \in 1..Len(WaitPost) + 1
    BY WaitPostIs, Ends, RoundsNat
  <2>2. Works(p)'
    BY <1>3, <2>1 DEF Works
  <2>3. \A q \in Pids \ {1, p} : Works(q)'
    BY <1>3 DEF Works, Again
  <2> QED
    BY <2>2, <2>3
<1>8. proc'[1].pending = {} /\ proc'[1].st # "none" /\ proc'[1].todo = proc[1].todo
  BY <1>2, <1>3 DEF Again
<1>9. \A q : q \in Doing(Opening)' => q \in Doing(Opening)
  BY <1>4
<1> QED
  BY <1>3, <1>5, <1>6, <1>7, <1>8, <1>9 DEF Again

LEMMA AgainWork ==
    ASSUME TInv, TInv', Again, NEW p \in Pids \ {1}, Turn(p)
    PROVE  Again'
<1>1. p \in Active
  BY Frozen DEF Active, Again
<1>2. /\ AllPlain /\ proc[1].pending = {} /\ proc[1].st # "none" /\ Spent
      /\ \A q \in Pids \ {1} : Works(q)
      /\ proc[1].todo \in {From(RunTwice, 5), <<>>}
      /\ \A q \in Active : q \in Doing(Opening) => Fresh /\ Active = {q}
  BY <1>1 DEF Again
<1>3. /\ AllPlain' /\ Spent' /\ Works(p)' /\ p \notin Doing(Opening)'
      /\ Alongside(p)
  BY <1>1, <1>2, WorkTurn
<1>4. PICK S \in SUBSET Pids : Steady(p, S) /\ \A r \in S : Forked(p, r, WaitPostChild)
  BY <1>3 DEF Alongside
<1>5. 1 \notin S /\ 1 \in Pids \ ({p} \cup S)
  BY <1>2, <1>4, OneNamed DEF Forked
<1>6. ASSUME NEW q \in Pids \ {1} PROVE Works(q)' /\ ~(q \in Active' /\ q \in Doing(Opening)')
  <2>1. CASE q = p
    BY <1>3, <2>1
  <2>2. CASE q \in S
    <3>1. proc'[q].todo = WaitPostChild
      BY <1>4, <2>2 DEF Forked
    <3>2. From(WaitPostChild, 1) = WaitPostChild /\ 1 \in 1..Len(WaitPostChild) + 1
          /\ IsSeq(WaitPostChild)
      BY WaitPostChildIs, Ends, RoundsNat
    <3>3. ~(WaitPostChild # <<>> /\ Head(WaitPostChild) \in Opening)
      BY <3>2, Heads, WorkScripts
    <3> QED
      BY <3>1, <3>2, <3>3 DEF Works, Doing, Now
  <2>3. CASE q \in Pids \ ({p} \cup S)
    <3>1. /\ proc'[q].todo = proc[q].todo /\ proc'[q].pending = proc[q].pending
          /\ proc'[q].st = "run" <=> proc[q].st = "run"
      BY <1>4, <2>3 DEF Steady
    <3>2. q \in Active' => q \in Active
      BY <3>1 DEF Active
    <3>3. q \in Doing(Opening)' => q \in Doing(Opening)
      BY <3>1 DEF Doing, Now
    <3>4. Works(q)'
      BY <1>2, <3>1 DEF Works
    <3>5. ~(q \in Active /\ q \in Doing(Opening))
      BY <1>1, <1>2, <2>3
    <3> QED
      BY <3>2, <3>3, <3>4, <3>5
  <2> QED
    BY <2>1, <2>2, <2>3
<1>7. /\ proc'[1].todo = proc[1].todo /\ proc'[1].pending = proc[1].pending
      /\ proc'[1].st # "none"
  BY <1>2, <1>4, <1>5 DEF Steady
<1>8. \A q \in Active' : q \notin Doing(Opening)'
  BY <1>6 DEF Active
<1>9. \A q \in Pids \ {1} : Works(q)'
  BY <1>6
<1> QED
  BY <1>2, <1>3, <1>7, <1>8, <1>9 DEF Again

\* The others go on as before while process 1 makes a call that is none of theirs.
LEMMA OneSteady ==
    ASSUME TInv, Spent, UNCHANGED sem, Steady(1, {}),
           1 \notin Doing(Held)', \A q \in Pids \ {1} : Works(q)
    PROVE  /\ Spent' /\ (Fresh => Fresh') /\ Active' = Active
           /\ \A q \in Pids \ {1} : Works(q)' /\ (q \in Doing(Opening)' => q \in Doing(Opening))
<1>1. \A q \in Pids \ {1} :
         /\ proc'[q].todo = proc[q].todo /\ proc'[q].pending = proc[q].pending
         /\ proc'[q].st = "run" <=> proc[q].st = "run"
  BY DEF Steady
<1>2. Doing(Held)' \subseteq Doing(Held)
  BY <1>1 DEF Doing, Now
<1>3. Spent' /\ (Fresh => Fresh')
  BY <1>2, SpentFewer DEF TInv
<1>4. Active' = Active
  BY <1>1 DEF Active
<1>5. \A q \in Pids \ {1} : Works(q)' /\ (q \in Doing(Opening)' => q \in Doing(Opening))
  BY <1>1 DEF Works, Doing, Now
<1> QED
  BY <1>3, <1>4, <1>5

LEMMA OneAside ==
    ASSUME NEW k \in 1..6
    PROVE  ~(From(RunTwice, k) # <<>> /\ Head(From(RunTwice, k)) \in Held)
<1>1. ~Ahead(RunTwice, k, Held) /\ k \in 1..Len(RunTwice) + 1 /\ IsSeq(RunTwice)
  <2>1. Len(RunTwice) = 5 /\ IsSeq(RunTwice) /\ \A i \in 1..5 : RunTwice[i] \notin Held
    BY RunTwiceIs
  <2> QED
    BY <2>1 DEF Ahead
<1> QED
  BY <1>1, Heads

LEMMA AgainOne ==
    ASSUME TInv, Again, Turn(1)
    PROVE  Again'
<1>0. /\ AllPlain /\ proc[1].pending = {} /\ proc[1].st # "none" /\ Spent
      /\ \A q \in Pids \ {1} : Works(q)
      /\ Table(proc) /\ IsSeq(RunTwice) /\ Len(RunTwice) = 5 /\ 1 \in Pids
  BY RunTwiceIs, OneNamed DEF Again, TInv, IInv
<1>1. CASE Active = {} /\ Fresh /\ proc[1].todo = From(RunTwice, 3)
  <2>1. Reached(1, RunTwice, 3, Wait)
    BY <1>0, <1>1, RunTwiceIs DEF Reached
  <2>2. Advances(1, RunTwice, 3, {}) /\ UNCHANGED sem
    BY <1>0, <2>1, WaitAdvances
  <2>3. /\ proc'[1].todo = From(RunTwice, 4) /\ proc'[1].pending = {} /\ proc'[1].st # "none"
        /\ Steady(1, {}) /\ AllPlain'
    BY <1>0, <2>2 DEF Advances
  <2>4. 1 \notin Doing(Held)'
    BY <2>3, OneAside DEF Doing, Now
  <2>5. /\ Spent' /\ (Fresh => Fresh') /\ Active' = Active /\ \A q \in Pids \ {1} : Works(q)'
    BY <1>0, <2>2, <2>3, <2>4, OneSteady
  <2> QED
    BY <1>1, <2>3, <2>5 DEF Again
<1>2. CASE Active = {} /\ Fresh /\ proc[1].todo = From(RunTwice, 4)
  <2> DEFINE code == WaitPost
  <2>1. Reached(1, RunTwice, 4, Fork(code))
    BY <1>0, <1>2, RunTwiceIs DEF Reached
  <2>0. IsSeq(code) /\ ~Ahead(code, 1, Held) /\ From(code, 1) = code /\ 1 \in 1..Len(code) + 1
    BY WorkScripts, Ends, Joined DEF Leads
  <2>2. /\ \/ Advances(1, RunTwice, 4, {})
           \/ \E r \in Pids : Forked(1, r, code) /\ Advances(1, RunTwice, 4, {r})
        /\ UNCHANGED sem
    <3> HIDE DEF code
    <3> QED
      BY <1>0, <2>1, ForkAdvances
  <2>3. ASSUME Advances(1, RunTwice, 4, {}) PROVE Again'
    <3>1. /\ proc'[1].todo = From(RunTwice, 5) /\ proc'[1].pending = {} /\ proc'[1].st # "none"
          /\ Steady(1, {}) /\ AllPlain'
      BY <1>0, <2>3 DEF Advances
    <3>2. 1 \notin Doing(Held)'
      BY <3>1, OneAside DEF Doing, Now
    <3>3. /\ Spent' /\ Active' = Active /\ \A q \in Pids \ {1} : Works(q)'
      BY <1>0, <2>2, <3>1, <3>2, OneSteady
    <3> QED
      BY <1>2, <3>1, <3>3 DEF Again
  <2>4. ASSUME NEW r \in Pids, Forked(1, r, code), Advances(1, RunTwice, 4, {r}) PROVE Again'
    <3>1. /\ proc'[1].todo = From(RunTwice, 5) /\ proc'[1].pending = {} /\ proc'[1].st # "none"
          /\ Steady(1, {r}) /\ AllPlain'
      BY <1>0, <2>4 DEF Advances
    <3>2. 1 \notin Doing(Held)'
      BY <3>1, OneAside DEF Doing, Now
    <3>3. Others(1, Held) /\ r \notin Doing(Held)'
      <4> HIDE DEF code
      <4> QED
        BY <1>0, <2>0, <2>4, <3>1, ForkedOthers
    <3>4. Doing(Held)' \subseteq Doing(Held)
      BY <3>2, <3>3 DEF Others, Doing
    <3>5. Spent' /\ (Fresh => Fresh')
      BY <1>0, <2>2, <3>4, SpentFewer DEF TInv
    <3>6. r # 1 /\ proc'[r].st = "run" /\ proc'[r].pending = {} /\ proc'[r].todo = code
      BY <2>4 DEF Forked
    <3>7. \A q \in Pids \ {1, r} :
             /\ proc'[q].todo = proc[q].todo /\ proc'[q].pending = proc[q].pending
             /\ proc'[q].st = "run" <=> proc[q].st = "run"
      BY <3>1 DEF Steady
    <3>8. Active' = {r}
      <4>1. r \in Active'
        BY <3>6 DEF Active
      <4>2. \A q \in Pids \ {1, r} : q \notin Active'
        BY <1>2, <3>7 DEF Active
      <4>3. \A q : q \in Active' => q \in Pids \ {1}
        BY DEF Active
      <4> QED
        BY <4>1, <4>2, <4>3
    <3>9. \A q \in Pids \ {1} : Works(q)'
      <4>1. Works(r)'
        BY <2>0, <3>6 DEF Works
      <4>2. \A q \in Pids \ {1, r} : Works(q)'
        BY <1>0, <3>7 DEF Works
      <4> QED
        BY <4>1, <4>2
    <3> QED
      BY <1>2, <3>1, <3>5, <3>8, <3>9 DEF Again
  <2> QED
    BY <2>2, <2>3, <2>4
<1>3. CASE /\ proc[1].todo = From(RunTwice, 5)
           /\ \A q \in Active : q \in Doing(Opening) => Fresh /\ Active = {q}
  <2>1. Reached(1, RunTwice, 5, Wait)
    BY <1>0, <1>3, RunTwiceIs DEF Reached
  <2>2. Advances(1, RunTwice, 5, {}) /\ UNCHANGED sem
    BY <1>0, <2>1, WaitAdvances
  <2>3. /\ proc'[1].todo = From(RunTwice, 6) /\ proc'[1].pending = {} /\ proc'[1].st # "none"
        /\ Steady(1, {}) /\ AllPlain'
    BY <1>0, <2>2 DEF Advances
  <2>4. 1 \notin Doing(Held)'
    BY <2>3, OneAside DEF Doing, Now
  <2>5. /\ Spent' /\ (Fresh => Fresh') /\ Active' = Active
        /\ \A q \in Pids \ {1} : Works(q)' /\ (q \in Doing(Opening)' => q \in Doing(Opening))
    BY <1>0, <2>2, <2>3, <2>4, OneSteady
  <2>6. \A q \in Active' : q \in Doing(Opening)' => Fresh' /\ Active' = {q}
    BY <1>3, <2>5 DEF Active
  <2>7. proc'[1].todo = <<>>
    BY <2>3, RunTwiceIs
  <2> QED
    BY <2>3, <2>5, <2>6, <2>7 DEF Again
<1>4. CASE /\ proc[1].todo = <<>>
           /\ \A q \in Active : q \in Doing(Opening) => Fresh /\ Active = {q}
  <2>2. Leaves(1) /\ UNCHANGED sem
    BY <1>0, <1>4, EndLeaves
  <2>3. /\ proc'[1].todo = <<>> /\ proc'[1].pending = {} /\ proc'[1].st # "none"
        /\ Steady(1, {}) /\ AllPlain'
    BY <2>2 DEF Leaves
  <2>4. 1 \notin Doing(Held)'
    BY <2>3 DEF Doing
  <2>5. /\ Spent' /\ (Fresh => Fresh') /\ Active' = Active
        /\ \A q \in Pids \ {1} : Works(q)' /\ (q \in Doing(Opening)' => q \in Doing(Opening))
    BY <1>0, <2>2, <2>3, <2>4, OneSteady
  <2>6. \A q \in Active' : q \in Doing(Opening)' => Fresh' /\ Active' = {q}
    BY <1>4, <2>5 DEF Active
  <2> QED
    BY <2>3, <2>5, <2>6 DEF Again
<1> QED
  BY <1>1, <1>2, <1>3, <1>4 DEF Again

LEMMA AgainTurn ==
    ASSUME TInv, TInv', Again, Next
    PROVE  Again'
<1>1. PICK p \in Pids : Turn(p) \/ Deliver(p) \/ Ring(p)
  BY DEF Next
<1>2. ~Ring(p)
  BY Zenon DEF Ring, Again, AllPlain, Plain
<1>3. CASE Deliver(p)
  BY <1>3, AgainDeliver
<1>4. CASE Turn(p)
  <2>1. CASE p = 1
    BY <1>4, <2>1, AgainOne
  <2>2. CASE p # 1
    <3>1. p \in Pids \ {1}
      BY <2>2
    <3> QED
      BY <1>4, <3>1, AgainWork
  <2> QED
    BY <2>1, <2>2
<1> QED
  BY <1>1, <1>2, <1>3, <1>4

-----------------------------------------------------------------------------
\* The first run

BeforeFirst ==
    /\ Quiet /\ proc[1].todo = From(RunTwice, 1) /\ proc[1].ppid = 0
    /\ \A q \in Pids \ {1} : proc[q].st = "none"
    /\ sem["a"] = NoSem /\ sem["b"] = NoSem /\ Len(out[2]) = 0 /\ Len(out[3]) = 0

FirstRun ==
    /\ WaitPostInv(2, 3) /\ proc[2].ppid = 1 /\ proc[2].st # "none"
    /\ proc[1].todo \in {From(RunTwice, 2), Interrupt \o From(RunTwice, 3), From(RunTwice, 3)}

TwiceInv == BeforeFirst \/ FirstRun \/ Again

LEMMA WaitPostSame ==
    ASSUME NEW m \in Pids, NEW c \in Pids, WaitPostInv(m, c),
           proc'[m] = proc[m], proc'[c] = proc[c], UNCHANGED <<sem, out>>, Quiet', Pair(m, c)'
    PROVE  WaitPostInv(m, c)'
<1>1. \A k : Starts(m, c, k) => Starts(m, c, k)'
  BY DEF Starts
<1>2. ASSUME NEW i1 \in 0..Rounds, NEW j1 \in 0..2, NEW i2 \in 0..Rounds, NEW j2 \in 0..2,
             NEW t \in 0..2, InTurn(m, c, i1, j1, i2, j2, t)
      PROVE  InTurn(m, c, i1, j1, i2, j2, t)'
  <2>1. Places(i1, j1, i2, j2, t)'
    BY <1>2 DEF InTurn, Places
  <2>2. MainAt(m, i1, j1)' /\ ChildAt(m, c, i2, j2, t)'
    BY <1>2 DEF InTurn, MainAt, ChildAt
  <2>3. Tokens(i1, j1, i2, j2)' /\ Words(m, c, i1, j1, i2, j2)'
    BY <1>2 DEF InTurn, Tokens, Words
  <2> QED
    BY <2>1, <2>2, <2>3 DEF InTurn
<1>3. Done(m, c) => Done(m, c)'
  BY DEF Done
<1>4. CASE \E k \in 1..3 : Starts(m, c, k)
  BY <1>1, <1>4 DEF WaitPostInv
<1>5. CASE \E i1 \in 0..Rounds, j1 \in 0..2, i2 \in 0..Rounds, j2 \in 0..2, t \in 0..2 :
              InTurn(m, c, i1, j1, i2, j2, t)
  BY <1>2, <1>5 DEF WaitPostInv
<1>6. CASE Done(m, c)
  BY <1>3, <1>6 DEF WaitPostInv
<1> QED
  BY <1>4, <1>5, <1>6 DEF WaitPostInv

LEMMA PairOthers ==
    ASSUME Pair(2, 3), NEW q \in Pids \ {1, 2, 3}
    PROVE  proc[q].st = "none"
<1>1. q \in Nat /\ q # 0 /\ q # 1 /\ q # 2 /\ q # 3
  BY PidsPositive
<1> QED
  BY <1>1 DEF Pair

LEMMA InterruptIs ==
    LET s == Interrupt \o From(RunTwice, 3) IN
    /\ IsSeq(s) /\ 1 \in 1..Len(s) /\ s[1] = Kill({2, 3}, "INT")
    /\ From(s, 1) = s /\ From(s, 2) = From(RunTwice, 3) /\ s # <<>> /\ Head(s) = s[1]
    /\ Kill({2, 3}, "INT") \notin Held /\ Kill({2, 3}, "INT").op = "kill"
<1> DEFINE t == From(RunTwice, 3)
           c == Kill({2, 3}, "INT")
           s == Interrupt \o t
<1>0. Interrupt = <<c>> /\ c.op = "kill" /\ c \notin Held
  <2>1. \A h \in Held : h.op \in {"puts", "semop"}
    BY DEF Held, Puts, SemOp
  <2>2. c.op = "kill"
    BY DEF Kill
  <2> QED
    BY <2>1, <2>2 DEF Interrupt
<1> HIDE DEF c
<1>1. IsSeq(Interrupt) /\ Len(Interrupt) = 1 /\ Interrupt[1] = c
  BY <1>0, Singles
<1>2. IsSeq(t) /\ t # <<>>
  <2>1. IsSeq(RunTwice) /\ Len(RunTwice) = 5
    BY RunTwiceIs
  <2>2. 2 \in 0..Len(RunTwice) /\ 3 \in 1..Len(RunTwice) /\ 2 + 1 = 3
    BY <2>1
  <2> QED
    BY <2>1, <2>2, Halves, Onward DEF From
<1> HIDE DEF t
<1>3. /\ IsSeq(s) /\ Len(s) = 1 + Len(t) /\ Len(t) \in Nat
      /\ s[1] = Interrupt[1]
  <2>1. /\ IsSeq(s) /\ Len(s) = Len(Interrupt) + Len(t) /\ Len(t) \in Nat
        /\ \A i \in 1..Len(Interrupt) : s[i] = Interrupt[i]
    BY <1>1, <1>2, Joined
  <2> QED
    BY <1>1, <2>1
<1>4. From(s, 2) = t
  <2>1. From(s, Len(Interrupt) + 1) = t
    BY <1>1, <1>2, After
  <2>2. Len(Interrupt) + 1 = 2
    BY <1>1
  <2> QED
    BY <2>1, <2>2
<1> HIDE DEF s
<1>5. From(s, 1) = s
  BY <1>3, Ends
<1>6. 1 \in 1..Len(s)
  BY <1>3
<1>7. s # <<>> /\ Head(s) = s[1]
  BY <1>3, <1>5, <1>6, Onward
<1> QED
  BY <1>0, <1>1, <1>3, <1>4, <1>5, <1>6, <1>7 DEF s, t, c

\* What process 1 is about to do is no call of the two it runs.
LEMMA FirstAside ==
    ASSUME TInv, FirstRun
    PROVE  /\ 1 \notin Doing(Held) /\ proc[1].st = "run"
           /\ At(1, "either") \/ At(1, "kill") \/ At(1, "wait")
           /\ \A q \in Pids \ {2, 3} : q \notin Doing(Held)
           /\ \A q \in Pids \ {1, 2, 3} : proc[q].todo = <<>>
<1>1. proc[1].todo # <<>> /\ Now(1) \notin Held /\ Now(1).op \in {"either", "kill", "wait"}
  <2>1. ASSUME NEW k \in {2, 3}, proc[1].todo = From(RunTwice, k)
        PROVE  proc[1].todo # <<>> /\ Now(1) \notin Held /\ Now(1).op \in {"either", "kill", "wait"}
    <3>1. IsSeq(RunTwice) /\ k \in 1..Len(RunTwice)
      BY RunTwiceIs
    <3>2. From(RunTwice, k) # <<>> /\ Head(From(RunTwice, k)) = RunTwice[k]
      BY <3>1, Onward
    <3>3. RunTwice[k] \notin Held /\ RunTwice[k].op \in {"either", "wait"}
      <4>1. RunTwice[2].op = "either" /\ RunTwice[3].op = "wait"
        BY RunTwiceIs DEF Either, Wait
      <4> QED
        BY <4>1, RunTwiceIs
    <3> QED
      BY <2>1, <3>2, <3>3 DEF Now
  <2>2. CASE proc[1].todo = Interrupt \o From(RunTwice, 3)
    BY <2>2, InterruptIs DEF Now
  <2> QED
    BY <2>1, <2>2 DEF FirstRun
<1>2. proc[1].st = "run" /\ 1 \in Pids
  BY <1>1, OneNamed DEF TInv, IInv, ProcessTable
<1>3. \A q \in Pids \ {1, 2, 3} : proc[q].todo = <<>>
  <2>1. \A q \in Pids \ {1, 2, 3} : proc[q].st = "none"
    BY PairOthers DEF FirstRun, WaitPostInv
  <2> QED
    BY <2>1 DEF TInv, IInv, ProcessTable
<1> QED
  BY <1>1, <1>2, <1>3 DEF Doing, At, Now

LEMMA BeforeFirstTurn ==
    ASSUME TInv, BeforeFirst, Next
    PROVE  FirstRun'
<1>0. Table(proc) /\ IsSeq(RunTwice) /\ Len(RunTwice) = 5 /\ 1 \in Pids /\ 2 \in Pids /\ 3 \in Pids
  BY RunTwiceIs, OneNamed DEF TInv, IInv
<1>1. PICK p \in Pids : Turn(p) /\ proc[p].st = "run"
  BY OnlyTurns DEF BeforeFirst
<1>2. p = 1
  BY <1>1 DEF BeforeFirst
<1> DEFINE code == WaitPost
<1>3. Reached(1, RunTwice, 1, Fork(code))
  BY <1>0, RunTwiceIs DEF Reached, BeforeFirst
<1>4. proc[2].st = "none" /\ \A q \in Pids : proc[q].st = "none" => 2 <= q
  <2>1. proc[2].st = "none" /\ proc[1].st = "run"
    BY <1>0, <1>1, <1>2 DEF BeforeFirst
  <2>2. ASSUME NEW q \in Pids, proc[q].st = "none" PROVE 2 <= q
    <3>1. q # 1 /\ q \in Nat /\ q # 0
      BY <2>1, <2>2, PidsPositive
    <3> QED
      BY <3>1
  <2> QED
    BY <2>1, <2>2
<1> HIDE DEF code
<1>5. /\ proc'[1].st = "run" /\ proc'[1].todo = From(RunTwice, 1 + 1) /\ proc'[1].ppid = proc[1].ppid
      /\ proc'[2].st = "run" /\ proc'[2].todo = code /\ proc'[2].ppid = 1 /\ Only({1, 2})
      /\ Quiet' /\ UNCHANGED <<sem, out>>
  <2>1. Turn(1) /\ Quiet
    BY <1>1, <1>2 DEF BeforeFirst
  <2> QED
    BY <1>0, <1>3, <1>4, <2>1, OnFork
<1>6. Starts(2, 3, 1)'
  <2>1. From(WaitPost, 1) = WaitPost
    BY WaitPostIs, Ends
  <2>2. proc'[3].st = "none"
    BY <1>0, <1>5 DEF Only, BeforeFirst
  <2> QED
    BY <1>5, <2>1, <2>2 DEF Starts, BeforeFirst, code
<1>7. Pair(2, 3)'
  <2>1. ASSUME NEW q \in Pids \ {2, 3}
        PROVE  (3 < q /\ proc'[q].st = "none") \/ (q < 2 /\ proc'[q].st # "none" /\ proc'[q].ppid = 0)
    <3>1. CASE q = 1
      BY <1>5, <3>1 DEF BeforeFirst
    <3>2. CASE q # 1
      <4>1. q \in Nat /\ q # 0 /\ q # 1 /\ q # 2 /\ q # 3
        BY <3>2, PidsPositive
      <4>2. proc'[q].st = "none"
        BY <1>5, <3>2 DEF Only, BeforeFirst
      <4> QED
        BY <4>1, <4>2
    <3> QED
      BY <3>1, <3>2
  <2> QED
    BY <2>1 DEF Pair
<1>8. WaitPostInv(2, 3)'
  BY <1>5, <1>6, <1>7 DEF WaitPostInv
<1> QED
  BY <1>5, <1>8 DEF FirstRun

LEMMA NoneBefore ==
    ASSUME NEW s, IsSeq(s), s # <<>>
    PROVE  <<>> \o s = s
<1>1. From(<<>> \o s, 0 + 1) = s
  <2>1. From(<<>> \o s, Len(<<>>) + 1) = s
    BY Singles, After
  <2> QED
    BY <2>1, Singles
<1>2. From(<<>> \o s, 1) = <<>> \o s
  BY Singles, Joined, Ends
<1> QED
  BY <1>1, <1>2

LEMMA WorksOver ==
    ASSUME NEW p \in Pids
    PROVE  /\ proc[p].todo = <<>> => Works(p)
           /\ proc'[p].todo = <<>> => Works(p)'
<1>1. From(WaitPost, Len(WaitPost) + 1) = <<>> /\ Len(WaitPost) + 1 \in 1..Len(WaitPost) + 1
  BY WaitPostIs, Ends, RoundsNat
<1> QED
  BY <1>1 DEF Works

LEMMA FirstSpent ==
    ASSUME TInv, FirstRun
    PROVE  /\ Spent /\ Fresh /\ AllPlain /\ Quiet
           /\ \A q \in Pids \ {1} : Works(q)
<1>1. WaitPostInv(2, 3) /\ Quiet
  BY DEF FirstRun, WaitPostInv
<1>2. Spent /\ Fresh /\ Works(2) /\ Works(3)
  BY <1>1, FirstAside, WaitPostSpent, OneNamed
<1>3. \A q \in Pids \ {1, 2, 3} : Works(q)
  BY FirstAside, WorksOver
<1> QED
  BY <1>1, <1>2, <1>3 DEF Quiet, AllPlain

LEMMA FirstEither ==
    ASSUME TInv, FirstRun, Turn(1), proc[1].todo = From(RunTwice, 2)
    PROVE  FirstRun'
<1>0. Table(proc) /\ IsSeq(RunTwice) /\ Len(RunTwice) = 5 /\ 1 \in Pids /\ 2 \in Pids /\ 3 \in Pids
  BY RunTwiceIs, OneNamed DEF TInv, IInv
<1> DEFINE x == Interrupt
           y == <<>>
           t == From(RunTwice, 3)
<1>1. Reached(1, RunTwice, 2, Either(x, y))
  BY <1>0, RunTwiceIs DEF Reached
<1>2. <<>> \o t = t
  <2>1. IsSeq(RunTwice) /\ 2 \in 0..Len(RunTwice)
    BY <1>0
  <2>2. IsSeq(SubSeq(RunTwice, 2 + 1, Len(RunTwice)))
    BY <2>1, Halves
  <2>3. t # <<>>
    <3>1. 3 \in 1..Len(RunTwice)
      BY <1>0
    <3> QED
      BY <1>0, <3>1, Onward
  <2>4. IsSeq(t)
    BY <2>2 DEF From
  <2> HIDE DEF t
  <2> QED
    BY <2>3, <2>4, NoneBefore
<1> HIDE DEF x, y, t
<1>3. /\ proc'[1].st = "run" /\ proc'[1].ppid = proc[1].ppid /\ Alike(1) /\ Only({1})
      /\ proc'[1].todo \in {x \o From(RunTwice, 2 + 1), y \o From(RunTwice, 2 + 1)}
      /\ UNCHANGED <<program, chan, sem, out>>
  BY <1>0, <1>1, OnEither
<1>4. proc'[1].todo \in {x \o t, y \o t}
  <2>1. From(RunTwice, 2 + 1) = t
    BY DEF t
  <2> QED
    BY <1>3, <2>1
<1>5. proc'[1].todo \in {From(RunTwice, 2), Interrupt \o From(RunTwice, 3), From(RunTwice, 3)}
  BY <1>2, <1>4 DEF x, y, t
<1>6. proc'[2] = proc[2] /\ proc'[3] = proc[3]
  BY <1>0, <1>3 DEF Only
<1>7. Quiet'
  <2>1. AllAlike
    BY <1>3 DEF AllAlike, Alike, Only
  <2> QED
    BY <2>1, AlikeQuiet, FirstSpent
<1>8. Pair(2, 3)'
  <2>1. Pair(2, 3)
    BY DEF FirstRun, WaitPostInv
  <2>2. \A q \in Pids \ {2, 3} : proc'[q].ppid = proc[q].ppid
                                 /\ (proc'[q].st = "none" <=> proc[q].st = "none")
    <3>1. proc[1].st = "run"
      BY FirstAside
    <3> QED
      BY <1>3, <3>1 DEF Only
  <2> QED
    BY <2>1, <2>2 DEF Pair
<1>9. WaitPostInv(2, 3)'
  <2>1. WaitPostInv(2, 3) /\ UNCHANGED <<sem, out>>
    BY <1>3 DEF FirstRun
  <2> QED
    BY <1>0, <1>6, <1>7, <1>8, <2>1, WaitPostSame
<1>10. proc'[2].ppid = 1 /\ proc'[2].st # "none"
  BY <1>6 DEF FirstRun
<1> QED
  BY <1>5, <1>9, <1>10 DEF FirstRun

\* The shell interrupts both processes, which take no turn any more.
LEMMA FirstKill ==
    ASSUME TInv, FirstRun, Turn(1), proc[1].todo = Interrupt \o From(RunTwice, 3)
    PROVE  Again'
<1>0. Table(proc) /\ 1 \in Pids /\ 2 \in Pids /\ 3 \in Pids
  BY OneNamed DEF TInv, IInv
<1>1. /\ Spent /\ Fresh /\ AllPlain /\ Quiet
      /\ \A q \in Pids \ {1} : Works(q)
  BY FirstSpent
<1> DEFINE s == Interrupt \o From(RunTwice, 3)
<1>2. IsSeq(s) /\ 1 \in 1..Len(s) /\ s[1] = Kill({2, 3}, "INT") /\ From(s, 1) = s
      /\ From(s, 2) = From(RunTwice, 3)
  BY InterruptIs
<1>3. proc[1].todo = s
  OBVIOUS
<1> HIDE DEF s
<1>4. Reached(1, s, 1, Kill({2, 3}, "INT"))
  BY <1>0, <1>2, <1>3 DEF Reached
<1>5. /\ proc'[1].st = "run" /\ proc'[1].todo = From(s, 1 + 1)
      /\ proc'[1].ppid = proc[1].ppid /\ proc'[1].pending = proc[1].pending
      /\ Signalled(1, {2, 3}) /\ ((\A q \in Pids : Plain(q)) => \A q \in Pids : Plain(q)')
      /\ UNCHANGED <<program, chan, sem, out>>
  <2>1. 1 \notin {2, 3}
    OBVIOUS
  <2> QED
    BY <1>0, <1>4, <2>1, OnKill
<1>6. proc'[1].todo = From(RunTwice, 3) /\ proc'[1].pending = {} /\ AllPlain'
  BY <1>0, <1>1, <1>2, <1>5 DEF Quiet, AllPlain
<1>7. Doing(Held)' \subseteq Doing(Held)
  <2>1. 1 \notin Doing(Held)'
    BY <1>6, OneAside DEF Doing, Now
  <2>2. \A q \in Pids \ {1} : q \in Doing(Held)' => q \in Doing(Held)
    BY <1>5 DEF Signalled, Doing, Now
  <2> QED
    BY <2>1, <2>2 DEF Doing
<1>8. Spent' /\ Fresh'
  BY <1>1, <1>5, <1>7, SpentFewer DEF TInv
<1>9. \A q \in Pids \ {1} : Works(q)'
  BY <1>1, <1>5 DEF Signalled, Works
<1>10. Active' = {}
  <2>1. ASSUME NEW q \in Pids \ {1}, proc'[q].st = "run" PROVE proc'[q].pending # {}
    <3>1. proc[q].st = "run"
      BY <1>5, <2>1 DEF Signalled
    <3>2. q \in {2, 3}
      BY <3>1, PairOthers DEF FirstRun, WaitPostInv
    <3> QED
      BY <1>5, <3>1, <3>2 DEF Signalled
  <2> QED
    BY <2>1 DEF Active
<1> QED
  BY <1>5, <1>6, <1>8, <1>9, <1>10 DEF Again

\* The shell has waited for the first run.
LEMMA FirstWait ==
    ASSUME TInv, FirstRun, Turn(1), proc[1].todo = From(RunTwice, 3)
    PROVE  Again'
<1>0. Table(proc) /\ IsSeq(RunTwice) /\ Len(RunTwice) = 5 /\ 1 \in Pids /\ 2 \in Pids /\ 3 \in Pids
  BY RunTwiceIs, OneNamed DEF TInv, IInv
<1>1. /\ Spent /\ Fresh /\ AllPlain /\ Quiet
      /\ \A q \in Pids \ {1} : Works(q)
  BY FirstSpent
<1>2. Reached(1, RunTwice, 3, Wait)
  BY <1>0, RunTwiceIs DEF Reached
<1>3. /\ Advances(1, RunTwice, 3, {}) /\ UNCHANGED sem
      /\ \/ Children(1) = {} /\ Only({1})
         \/ \E q \in Children(1) : Reaps(1, q)
  BY <1>0, <1>1, <1>2, WaitAdvances
<1>4. WaitPostInv(2, 3) /\ proc[2].ppid = 1 /\ proc[2].st # "none"
  BY DEF FirstRun
<1>5. proc[2].st # "run"
  <2>1. CASE Children(1) = {}
    BY <1>0, <1>4, <2>1 DEF Children
  <2>2. ASSUME NEW q \in Children(1), Reaps(1, q) PROVE proc[2].st # "run"
    <3>1. q \in Pids /\ q # 1 /\ proc[q].st = "zombie" /\ proc[q].ppid = 1
      BY <2>2 DEF Children, Reaps
    <3>2. q \in {2, 3}
      BY <1>4, <3>1, PairOthers DEF WaitPostInv
    <3>3. q # 3
      <4>1. proc[3].st = "zombie" => proc[3].ppid = 2
        BY <1>4 DEF WaitPostInv, Starts, InTurn, ChildAt, Done
      <4> QED
        BY <3>1, <4>1
    <3> QED
      BY <3>1, <3>2, <3>3
  <2> QED
    BY <1>3, <2>1, <2>2
<1>6. Active = {}
  <2>1. Done(2, 3)
    BY <1>4, <1>5 DEF WaitPostInv, Starts, InTurn, MainAt
  <2>2. proc[3].st # "run"
    BY <2>1 DEF Done
  <2>3. \A q \in Pids \ {1, 2, 3} : proc[q].st # "run"
    BY <1>4, PairOthers DEF WaitPostInv
  <2> QED
    BY <1>5, <2>2, <2>3 DEF Active
<1>7. /\ proc'[1].todo = From(RunTwice, 4) /\ proc'[1].pending = {} /\ proc'[1].st # "none"
      /\ Steady(1, {}) /\ AllPlain'
  BY <1>0, <1>1, <1>3 DEF Advances, Quiet
<1>8. 1 \notin Doing(Held)'
  BY <1>7, OneAside DEF Doing, Now
<1>9. /\ Spent' /\ (Fresh => Fresh') /\ Active' = Active /\ \A q \in Pids \ {1} : Works(q)'
  BY <1>1, <1>3, <1>7, <1>8, OneSteady
<1> QED
  BY <1>1, <1>6, <1>7, <1>9 DEF Again

LEMMA FirstWork ==
    ASSUME TInv, TInv', FirstRun, NEW p \in {2, 3}, Turn(p)
    PROVE  FirstRun'
<1>1. /\ Spent /\ Fresh /\ AllPlain /\ Works(p)
      /\ 1 \in Pids /\ 2 \in Pids /\ 3 \in Pids /\ p \in Pids /\ proc[1].st = "run"
  BY FirstSpent, OneNamed, FirstAside
<1>2. WaitPostInv(2, 3) /\ proc[2].ppid = 1 /\ proc[2].st # "none"
  BY DEF FirstRun
<1>3. WaitPostInv(2, 3)'
  BY <1>1, <1>2, WaitPostTurn
<1>4. proc'[p].ppid = proc[p].ppid /\ proc'[p].st # "none" /\ Alongside(p)
  BY <1>1, WorkTurn
<1>5. PICK S \in SUBSET Pids : Steady(p, S) /\ \A r \in S : Forked(p, r, WaitPostChild)
  BY <1>4 DEF Alongside
<1>6. 1 \notin S /\ 2 \notin S
  BY <1>1, <1>2, <1>5 DEF Forked
<1>7. proc'[1].todo = proc[1].todo
  BY <1>1, <1>5, <1>6 DEF Steady
<1>8. proc'[2].ppid = 1 /\ proc'[2].st # "none"
  <2>1. CASE p = 2
    BY <1>2, <1>4, <2>1
  <2>2. CASE p = 3
    <3>1. 2 \in Pids \ ({p} \cup S)
      BY <1>1, <1>6, <2>2
    <3> QED
      BY <1>2, <1>5, <2>2, <3>1 DEF Steady
  <2> QED
    BY <2>1, <2>2
<1> QED
  BY <1>3, <1>7, <1>8 DEF FirstRun

LEMMA FirstRunTurn ==
    ASSUME TInv, TInv', FirstRun, Next
    PROVE  FirstRun' \/ Again'
<1>1. Quiet /\ Pair(2, 3)
  BY DEF FirstRun, WaitPostInv
<1>2. PICK p \in Pids : Turn(p) /\ proc[p].st = "run"
  BY <1>1, OnlyTurns
<1>3. p = 1 \/ p \in {2, 3}
  <2>1. p \notin Pids \ {1, 2, 3}
    BY <1>1, <1>2, PairOthers
  <2> QED
    BY <2>1
<1>4. CASE p = 1
  <2>1. Turn(1)
    BY <1>2, <1>4
  <2> QED
    BY <2>1, FirstEither, FirstKill, FirstWait DEF FirstRun
<1>5. CASE p \in {2, 3}
  BY <1>2, <1>5, FirstWork
<1> QED
  BY <1>3, <1>4, <1>5

LEMMA TwiceTurn ==
    ASSUME TInv, TInv', TwiceInv, Next
    PROVE  TwiceInv'
BY BeforeFirstTurn, FirstRunTurn, AgainTurn DEF TwiceInv

-----------------------------------------------------------------------------
\* What follows for the tokens

LEMMA WaitPostCounts ==
    ASSUME TInv, WaitPostInv(1, 2)
    PROVE  TokenUnique
<1>1. \A q \in Pids \ {1, 2} : proc[q].todo = <<>>
  <2>1. ASSUME NEW q \in Pids \ {1, 2} PROVE proc[q].st = "none"
    <3>1. q \in Nat /\ q # 0
      BY PidsPositive
    <3> QED
      BY <3>1 DEF WaitPostInv, Pair
  <2> QED
    BY <2>1 DEF TInv, IInv, ProcessTable
<1>2. \A q \in Pids \ {1, 2} : q \notin Doing(Held) /\ Works(q)
  BY <1>1, WorksOver DEF Doing
<1>3. Spent /\ Works(1) /\ Works(2)
  BY <1>2, WaitPostSpent, OneNamed
<1>4. \A q \in Pids : Works(q)
  BY <1>2, <1>3
<1> QED
  BY <1>3, <1>4, SpentUnique

LEMMA TwiceCounts ==
    ASSUME TInv, TwiceInv
    PROVE  TokenUnique
<1>1. ASSUME NEW k \in 1..5, proc[1].todo = From(RunTwice, k)
      PROVE  (At(1, "fork") \/ At(1, "either") \/ At(1, "wait")) /\ Now(1) \notin Held
  <2>1. IsSeq(RunTwice) /\ k \in 1..Len(RunTwice)
        /\ RunTwice[k].op \in {"fork", "either", "wait"} /\ RunTwice[k] \notin Held
    BY RunTwiceIs
  <2>2. proc[1].todo # <<>> /\ Now(1) = RunTwice[k]
    BY <1>1, <2>1, Onward DEF Now
  <2>3. proc[1].st = "run"
    BY <2>2, OneNamed DEF TInv, IInv, ProcessTable
  <2> QED
    BY <2>1, <2>2, <2>3 DEF At, Now
<1>2. CASE BeforeFirst
  <2>1. \A q \in Pids \ {1} : proc[q].todo = <<>>
    BY <1>2 DEF BeforeFirst, TInv, IInv, ProcessTable
  <2>2. At(1, "fork") \/ At(1, "either") \/ At(1, "wait")
    BY <1>1, <1>2 DEF BeforeFirst
  <2>3. Doing(Held) = {}
    <3>1. Now(1) \notin Held
      BY <1>1, <1>2 DEF BeforeFirst
    <3> QED
      BY <2>1, <3>1 DEF Doing
  <2>4. Spent
    <3>1. Tok("a") = 0 /\ Tok("b") = 0
      BY <1>2 DEF BeforeFirst, Tok
    <3> QED
      BY <2>3, <3>1, FS_EmptySet DEF Spent
  <2>5. \A q \in Pids : Works(q) \/ At(q, "fork") \/ At(q, "either") \/ At(q, "kill")
                        \/ At(q, "wait")
    BY <2>1, <2>2, WorksOver
  <2> QED
    BY <2>4, <2>5, SpentUnique
<1>3. CASE FirstRun
  <2>1. Spent /\ \A q \in Pids \ {1} : Works(q)
    BY <1>3, FirstSpent
  <2>2. At(1, "either") \/ At(1, "kill") \/ At(1, "wait")
    BY <1>3, FirstAside
  <2>5. \A q \in Pids : Works(q) \/ At(q, "fork") \/ At(q, "either") \/ At(q, "kill")
                        \/ At(q, "wait")
    BY <2>1, <2>2
  <2> QED
    BY <2>1, <2>5, SpentUnique
<1>4. CASE Again
  <2>1. Spent /\ \A q \in Pids \ {1} : Works(q)
    BY <1>4 DEF Again
  <2>2. \/ proc[1].todo = <<>>
        \/ \E k \in 1..5 : proc[1].todo = From(RunTwice, k)
    BY <1>4 DEF Again
  <2>3. Works(1) \/ At(1, "fork") \/ At(1, "either") \/ At(1, "wait")
    BY <1>1, <2>2, WorksOver, OneNamed
  <2>5. \A q \in Pids : Works(q) \/ At(q, "fork") \/ At(q, "either") \/ At(q, "kill")
                        \/ At(q, "wait")
    BY <2>1, <2>3
  <2> QED
    BY <2>1, <2>5, SpentUnique
<1> QED
  BY <1>2, <1>3, <1>4 DEF TwiceInv

-----------------------------------------------------------------------------
\* All programs with semaphores

LEMMA Launched ==
    ASSUME Init, NEW prog \in DOMAIN IpcScripts, program = prog
    PROVE  /\ Quiet /\ \A s \in Objects : sem[s] = NoSem
           /\ \A q \in Pids : proc[q].ppid = 0 /\ Len(out[q]) = 0 /\ DOMAIN out[q] = {}
           /\ \A q \in Pids : IF q \in DOMAIN IpcScripts[prog]
                              THEN proc[q].todo = IpcScripts[prog][q]
                              ELSE proc[q].todo = <<>> /\ proc[q].st = "none"
<1>1. Scripts[program] = IpcScripts[prog]
  BY IpcAssumption DEF Init
<1> DEFINE all == Scripts[program]
<1>2. \A q \in Pids : proc[q] = IF q \in DOMAIN all
                                THEN [NoProc EXCEPT !.st = "run", !.todo = all[q]]
                                ELSE NoProc
  BY DEF Init
<1> HIDE DEF all
<1>3. /\ NoProc.st = "none" /\ NoProc.todo = <<>> /\ NoProc.ppid = 0
      /\ NoProc.caught = <<>> /\ NoProc.mask = {} /\ NoProc.pending = {} /\ NoProc.timer = FALSE
      /\ DOMAIN NoProc = Fields
  BY DEF NoProc, Fields
<1>4. ASSUME NEW q \in Pids, q \in DOMAIN all
      PROVE  /\ proc[q].ppid = 0 /\ proc[q].todo = all[q]
             /\ proc[q].caught = <<>> /\ proc[q].mask = {} /\ proc[q].pending = {}
             /\ proc[q].timer = FALSE
  <2> DEFINE code == all[q]
  <2>1. proc[q] = [NoProc EXCEPT !.st = "run", !.todo = code]
    BY <1>2, <1>4
  <2> HIDE DEF code
  <2>2. /\ proc[q].todo = code /\ proc[q].ppid = NoProc.ppid
        /\ proc[q].caught = NoProc.caught /\ proc[q].mask = NoProc.mask
        /\ proc[q].pending = NoProc.pending
    BY <1>3, <2>1 DEF Fields
  <2>3. proc[q].timer = NoProc.timer
    BY <1>3, <2>1 DEF Fields
  <2> QED
    BY <1>3, <2>2, <2>3 DEF code
<1>5. ASSUME NEW q \in Pids, q \notin DOMAIN all
      PROVE  proc[q] = NoProc
  BY <1>2, <1>5
<1>6. ASSUME NEW q \in Pids PROVE Plain(q) /\ proc[q].pending = {} /\ proc[q].ppid = 0
  <2>1. CASE q \in DOMAIN all
    BY <1>4, <2>1, Zenon DEF Plain
  <2>2. CASE q \notin DOMAIN all
    BY <1>3, <1>5, <2>2, Zenon DEF Plain
  <2> QED
    BY <2>1, <2>2
<1>7. Quiet
  BY <1>6 DEF Quiet
<1>8. /\ \A s \in Objects : sem[s] = NoSem
      /\ \A q \in Pids : Len(out[q]) = 0 /\ DOMAIN out[q] = {}
  BY Singles DEF Init
<1>9. \A q \in Pids : IF q \in DOMAIN all THEN proc[q].todo = all[q]
                      ELSE proc[q].todo = <<>> /\ proc[q].st = "none"
  BY <1>3, <1>4, <1>5
<1> QED
  BY <1>1, <1>6, <1>7, <1>8, <1>9 DEF all

\* Nobody is about to make a call in C when no script begins with one.
LEMMA Fallow ==
    ASSUME NEW SS, SS # {}, \A s \in SS : IsSeq(s),
           \A q \in Pids : proc[q].todo \in SS \cup {<<>>}
    PROVE  /\ Runs(SS)
           /\ \A C : (\A s \in SS : ~Ahead(s, 1, C)) => Doing(C) = {} /\ Cardinality(Doing(C)) = 0
<1>1. \A s \in SS : /\ From(s, 1) = s /\ From(s, Len(s) + 1) = <<>>
                    /\ 1 \in 1..Len(s) + 1 /\ Len(s) + 1 \in 1..Len(s) + 1
  BY Ends, Joined
<1>2. Runs(SS)
  BY <1>1 DEF Runs
<1>3. ASSUME NEW C, \A s \in SS : ~Ahead(s, 1, C) PROVE Doing(C) = {}
  <2>1. \A s \in SS : ~(s # <<>> /\ Head(s) \in C)
    BY <1>1, <1>3, Heads
  <2> QED
    BY <2>1 DEF Doing, Now
<1> QED
  BY <1>2, <1>3, FS_EmptySet

LEMMA Unsaid ==
    ASSUME \A q \in Pids : DOMAIN out[q] = {}
    PROVE  \A v : Said(v) = {} /\ Cardinality(Said(v)) = 0
<1>1. \A v : Said(v) = {}
  BY SaidIs
<1> QED
  BY <1>1, FS_EmptySet

SemInv ==
    /\ TInv
    /\ program = "shelf" => ShelfInv
    /\ program = "semop" => SemopInv
    /\ program = "sections" => SectionsInv
    /\ program = "waitpost" => WaitPostInv(1, 2)
    /\ program = "runtwice" => TwiceInv

LEMMA InitSemInv == Init => SemInv
<1> SUFFICES ASSUME Init PROVE SemInv
  OBVIOUS
<1>1. CASE program = "shelf"
  <2>1. /\ "shelf" \in DOMAIN IpcScripts /\ IpcScripts["shelf"] = <<Producer, Consumer, Producer>>
    BY DEF IpcScripts
  <2> DEFINE three == <<Producer, Consumer, Producer>>
             SS == {Producer, Consumer}
  <2>2. \A q \in DOMAIN three : three[q] \in SS
    OBVIOUS
  <2>3. \A q \in Pids : proc[q].todo \in SS \cup {<<>>}
    <3> HIDE DEF three, SS
    <3> QED
      BY <1>1, <2>1, <2>2, Launched DEF three
  <2>4. \A s \in SS : IsSeq(s) /\ ~Ahead(s, 1, {Puts("added")}) /\ ~Ahead(s, 1, {Puts("got")})
    BY ShelfScripts DEF Leads
  <2>5. Runs(SS) /\ Cardinality(Doing({Puts("added")})) = 0 /\ Cardinality(Doing({Puts("got")})) = 0
    <3>1. SS # {}
      OBVIOUS
    <3> HIDE DEF SS
    <3> QED
      BY <2>3, <2>4, <3>1, Fallow
  <2>6. Quiet /\ sem["a"] = NoSem /\ \A v : Cardinality(Said(v)) = 0
    BY <1>1, <2>1, Launched, Named, Unsaid
  <2>7. ShelfInv
    BY <2>5, <2>6 DEF ShelfInv, Count
  <2> QED
    BY <1>1, <2>7, InitTInv DEF SemInv
<1>2. CASE program = "semop"
  <2>1. /\ "semop" \in DOMAIN IpcScripts /\ IpcScripts["semop"] = <<SemopPC, SemopPC>>
    BY DEF IpcScripts
  <2> DEFINE two == <<SemopPC, SemopPC>>
             SS == {SemopPC, SemopChild}
  <2>2. \A q \in DOMAIN two : two[q] \in SS
    OBVIOUS
  <2>3. \A q \in Pids : proc[q].todo \in SS \cup {<<>>}
    <3> HIDE DEF two, SS
    <3> QED
      BY <1>2, <2>1, <2>2, Launched DEF two
  <2>4. \A s \in SS : /\ IsSeq(s) /\ ~Ahead(s, 1, {Puts("acquired")})
                      /\ ~Ahead(s, 1, {SemOp("a", 1)})
    BY SemopScripts DEF Leads
  <2>5. /\ Runs(SS) /\ Cardinality(Doing({Puts("acquired")})) = 0
        /\ Cardinality(Doing({SemOp("a", 1)})) = 0
    <3>1. SS # {}
      OBVIOUS
    <3> HIDE DEF SS
    <3> QED
      BY <2>3, <2>4, <3>1, Fallow
  <2>6. Quiet /\ sem["a"] = NoSem /\ \A v : Cardinality(Said(v)) = 0
    BY <1>2, <2>1, Launched, Named, Unsaid
  <2>7. SemopInv
    BY <2>5, <2>6 DEF SemopInv, Count
  <2> QED
    BY <1>2, <2>7, InitTInv DEF SemInv
<1>3. CASE program = "sections"
  <2>1. /\ "sections" \in DOMAIN IpcScripts /\ IpcScripts["sections"] = <<Sections>>
    BY DEF IpcScripts
  <2>2. DOMAIN <<Sections>> = {1} /\ <<Sections>>[1] = Sections
    OBVIOUS
  <2>3. /\ Quiet /\ proc[1].todo = Sections /\ \A q \in Pids \ {1} : proc[q].todo = <<>>
    BY <1>3, <2>1, <2>2, Launched, OneNamed
  <2>4. From(Sections, 1) = Sections
    BY SectionScripts, Ends
  <2>5. SettingUp
    BY <2>3, <2>4 DEF SettingUp
  <2> QED
    BY <1>3, <2>3, <2>5, InitTInv DEF SemInv, SectionsInv
<1>4. CASE program = "waitpost"
  BY <1>4, WaitPostInit, InitTInv DEF SemInv
<1>5. CASE program = "runtwice"
  <2>1. /\ "runtwice" \in DOMAIN IpcScripts /\ IpcScripts["runtwice"] = <<RunTwice>>
    BY DEF IpcScripts
  <2>2. DOMAIN <<RunTwice>> = {1} /\ <<RunTwice>>[1] = RunTwice
    OBVIOUS
  <2>3. /\ Quiet /\ proc[1].todo = RunTwice /\ proc[1].ppid = 0
        /\ \A q \in Pids \ {1} : proc[q].st = "none"
        /\ sem["a"] = NoSem /\ sem["b"] = NoSem /\ Len(out[2]) = 0 /\ Len(out[3]) = 0
    BY <1>5, <2>1, <2>2, Launched, OneNamed, Named
  <2>4. From(RunTwice, 1) = RunTwice
    BY RunTwiceIs, Ends
  <2>5. TwiceInv
    BY <2>3, <2>4 DEF TwiceInv, BeforeFirst
  <2> QED
    BY <1>5, <2>5, InitTInv DEF SemInv
<1>6. CASE program \notin {"shelf", "semop", "sections", "waitpost", "runtwice"}
  BY <1>6, InitTInv DEF SemInv
<1> QED
  BY <1>1, <1>2, <1>3, <1>4, <1>5, <1>6

LEMMA SameSemInv == SemInv /\ UNCHANGED vars => SemInv'
<1> SUFFICES ASSUME SemInv, UNCHANGED vars PROVE SemInv'
  OBVIOUS
<1>0. /\ UNCHANGED <<program, proc, sem, out>>
      /\ TInv'
  <2>1. TInv'
    BY StepTInv DEF SemInv
  <2> QED
    BY <2>1 DEF vars
<1>1. /\ Quiet => Quiet'
      /\ \A SS : Runs(SS) => Runs(SS)'
      /\ \A C : Doing(C)' = Doing(C)
      /\ \A v : Said(v)' = Said(v)
  BY <1>0 DEF Quiet, Plain, Runs, Doing, Now, Said
<1>2. ShelfInv => ShelfInv'
  BY <1>0, <1>1 DEF ShelfInv, Count
<1>3. SemopInv => SemopInv'
  BY <1>0, <1>1 DEF SemopInv, Count
<1>4. SectionsInv => SectionsInv'
  BY <1>0, <1>1 DEF SectionsInv, SettingUp, Guarding
<1>5. \A m \in Pids, c \in Pids : WaitPostInv(m, c) => WaitPostInv(m, c)'
  <2>1. ASSUME NEW m \in Pids, NEW c \in Pids, WaitPostInv(m, c) PROVE WaitPostInv(m, c)'
    <3>1. Quiet' /\ Pair(m, c)'
      BY <1>0, <1>1, <2>1 DEF WaitPostInv, Pair
    <3> QED
      BY <1>0, <2>1, <3>1, WaitPostSame
  <2> QED
    BY <2>1
<1>6. TwiceInv => TwiceInv'
  <2>1. BeforeFirst => BeforeFirst'
    BY <1>0, <1>1 DEF BeforeFirst
  <2>2. FirstRun => FirstRun'
    BY <1>0, <1>5, OneNamed DEF FirstRun
  <2>3. Again => Again'
    <3>1. (Spent => Spent') /\ (Fresh => Fresh') /\ Active' = Active /\ (AllPlain => AllPlain')
      BY <1>0, <1>1 DEF Spent, Fresh, Active, AllPlain, Plain, Tok
    <3>2. \A q \in Pids : Works(q) => Works(q)'
      BY <1>0 DEF Works
    <3> QED
      BY <1>0, <1>1, <3>1, <3>2 DEF Again
  <2> QED
    BY <2>1, <2>2, <2>3 DEF TwiceInv
<1> QED
  BY <1>0, <1>2, <1>3, <1>4, <1>5, <1>6, Named DEF SemInv

LEMMA StepSemInv == SemInv /\ [Next]_vars => SemInv'
<1> SUFFICES ASSUME SemInv, Next PROVE SemInv'
  BY SameSemInv
<1>1. TInv /\ TInv' /\ program' = program
  <2>1. TInv'
    BY StepTInv DEF SemInv
  <2>2. program' = program
    BY DEF Next, Turn, Deliver, Ring, vars
  <2> QED
    BY <2>1, <2>2 DEF SemInv
<1>2. program = "shelf" => ShelfInv'
  BY <1>1, ShelfTurn DEF SemInv
<1>3. program = "semop" => SemopInv'
  BY <1>1, SemopTurn DEF SemInv
<1>4. program = "sections" => SectionsInv'
  BY <1>1, SectionsTurn DEF SemInv
<1>5. ASSUME program = "waitpost" PROVE WaitPostInv(1, 2)'
  <2>1. WaitPostInv(1, 2) /\ Quiet /\ Pair(1, 2)
    BY <1>5 DEF SemInv, WaitPostInv
  <2>2. PICK p \in Pids : Turn(p) /\ proc[p].st = "run"
    BY <2>1, OnlyTurns
  <2>3. p \in {1, 2}
    BY <2>1, <2>2, PidsPositive DEF Pair
  <2> QED
    BY <1>1, <2>1, <2>2, <2>3, WaitPostTurn, Named
<1>6. program = "runtwice" => TwiceInv'
  BY <1>1, TwiceTurn DEF SemInv
<1> QED
  BY <1>1, <1>2, <1>3, <1>4, <1>5, <1>6 DEF SemInv

LEMMA SemInvCounts == SemInv => SemaphoresCount
<1> SUFFICES ASSUME SemInv PROVE ObjectsAccounted /\ Alone /\ TokenUnique
  BY DEF SemaphoresCount
<1>1. ObjectsAccounted
  <2>1. CASE program = "shelf"
    BY <2>1, ShelfCounts DEF SemInv
  <2>2. CASE program = "semop"
    BY <2>2, SemopCounts DEF SemInv
  <2>3. CASE program \notin {"shelf", "semop"}
    BY <2>3 DEF ObjectsAccounted
  <2> QED
    BY <2>1, <2>2, <2>3
<1>2. Alone
  <2>1. CASE program = "sections"
    BY <2>1, SectionsCount DEF SemInv
  <2>2. CASE program # "sections"
    BY <2>2 DEF Alone
  <2> QED
    BY <2>1, <2>2
<1>3. TokenUnique
  <2>1. CASE program = "waitpost"
    BY <2>1, WaitPostCounts DEF SemInv
  <2>2. CASE program = "runtwice"
    BY <2>2, TwiceCounts DEF SemInv
  <2>3. CASE program \notin {"waitpost", "runtwice"}
    BY <2>3 DEF TokenUnique
  <2> QED
    BY <2>1, <2>2, <2>3
<1> QED
  BY <1>1, <1>2, <1>3

\* Each semaphore counts what it stands for, however many rounds and processes
\* there are: producer.c never piles up objects, nobody gets one that was not
\* added, at most one process is in the section of binarySemaphores.c, and
\* sem_wait_post.c keeps a single token, also when a first run of it is interrupted
\* anywhere and a second one finds what is left (producer.c:34-57,
\* consumer.c:37-44, semopPC.c:31-106, binarySemaphores.c:25-46,
\* sem_wait_post.c:24-55).
THEOREM SemaphoresRight == Spec => []SemaphoresCount
BY InitSemInv, StepSemInv, SemInvCounts, PTL DEF Spec

=============================================================================

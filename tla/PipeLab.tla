------------------------------- MODULE PipeLab ------------------------------
(***************************************************************************)
(* The pipe and FIFO programs of Lab3_pipe_msgq_fifo.  What goes through a *)
(* pipe is a line at a time, or in fifo.c a block of bytes: its messages   *)
(* of 16 and of 9 bytes are two blocks and one.                            *)
(***************************************************************************)
EXTENDS UnixCalls

\* Copies what comes through one pipe to another, until the end of file.
CopyLines(from, to, f) ==
    <<Loop(<<Read(from, 1), If(<<>>, <<Break>>, <<Reply(to, f)>>)>>)>>

\* pipe.c: one pipe for each direction
PipeChild ==
    <<Close("a", "w"), Close("b", "r")>>
    \o Times(Rounds, <<Sleep, Read("a", 1), Tell, Write("b", <<"fine">>)>>)
\* A mutant: the parent writes once more before it first reads.
PipeMain_WritesAhead ==
    <<Pipe("a"), Pipe("b"), Fork(PipeChild), Close("a", "r"), Close("b", "w"),
      Write("a", <<"how">>)>>
    \o Times(Rounds, <<Write("a", <<"how">>), Sleep, Read("b", 1), Tell>>)
PipeMain ==
    <<Pipe("a"), Pipe("b"), Fork(PipeChild), Close("a", "r"), Close("b", "w")>>
    \o Times(Rounds, <<Write("a", <<"how">>), Sleep, Read("b", 1), Tell>>)

\* fifo.c: both processes hold both ends of one FIFO; the read end does not block.
FifoChild == <<Pipe("c")>> \o Times(Rounds, <<Sleep, TryRead("c", 2), Tell, Write("c", <<"fine">>)>>)
FifoMain ==
    <<Fork(FifoChild), Pipe("c")>>
    \o Times(Rounds, <<Write("c", <<"how", "you">>), Sleep, TryRead("c", 2), Tell>>)

\* fiforead.c, and somebody who writes to its FIFO
FifoRead == <<Open({<<"a", "r">>}), Loop(<<Read("a", 2), If(<<>>, <<Break>>, <<Tell>>)>>)>>
FifoWriter == <<Open({<<"a", "w">>}), Write("a", <<"how">>), Write("a", <<"you">>)>>

-----------------------------------------------------------------------------
(* Coprocesses.  The lines of emails.txt are a good address, one without a *)
(* dot and one without an at sign.                                         *)

Emails == <<"good", "dotless", "atless">>

\* validateEmailCoprocess.c: the tests and their answers
Verdict == (<<"good">> :> <<"1">>) @@ (<<"dotless">> :> <<"-2">>) @@ (<<"atless">> :> <<"-3">>)
ValidateEmail == <<Sleep>> \o CopyLines("a", "b", Verdict)

\* validateEmailCoprocess_withstandardio.c: the answers stay in the buffer of
\* stdout until the end of the input.
ValidateBuffered ==
    <<Loop(<<Read("a", 1), If(<<>>, <<Break>>, <<>>)>>), Write("b", <<"1", "-2", "-3">>)>>

\* A mutant: the loop ends one line early.
CoprocessParent_OneLess(validator) ==
    LET ask(i) == <<Write("a", <<Emails[i]>>), Read("b", 1), Tell>>
    IN  <<Pipe("a"), Pipe("b"),
          Fork(<<Close("a", "w"), Close("b", "r"), Exec(validator)>>),
          Close("a", "r"), Close("b", "w")>> \o ask(1) \o ask(2)
\* coprocess_parent.c with one or the other as validateEmail
CoprocessParent(validator) ==
    LET ask(i) == <<Write("a", <<Emails[i]>>), Read("b", 1), Tell>>
    IN  <<Pipe("a"), Pipe("b"),
          Fork(<<Close("a", "w"), Close("b", "r"), Exec(validator)>>),
          Close("a", "r"), Close("b", "w")>> \o ask(1) \o ask(2) \o ask(3)

\* filter.c: what islower and toupper make of the lines that are typed
Upper == (<<"abc">> :> <<"ABC">>) @@ (<<"DEF">> :> <<"DEF">>)
Filter == CopyLines("b", "a", Upper)
Typed == <<Open({<<"b", "w">>}), Write("b", <<"abc">>), Write("b", <<"DEF">>)>>

\* parent.c: popen, the loop, and pclose, which waits for the filter
FilterParent ==
    <<Open({<<"b", "r">>}), Pipe("a"), Fork(<<Close("a", "r")>> \o Filter), Close("a", "w"),
      Close("b", "r"), Loop(<<Read("a", 1), If(<<>>, <<Break>>, <<Tell>>)>>),
      Close("a", "r"), Wait, Puts(<<>>)>>

\* A mutant: main keeps its write end of the first pipe.
Pipeline_KeepsEnd(n) ==
    LET ls   == Times(n, <<Write("a", <<"d">>)>>)
        grep == CopyLines("a", "b", <<"d">> :> <<"d">>)
        wc   == <<Loop(<<Read("b", 1), If(<<>>, <<Break>>, <<Tell>>)>>)>>
    IN  <<Pipe("a"), Fork(<<Close("a", "r"), Exec(ls)>>),
          Pipe("b"), Fork(<<Close("a", "w"), Close("b", "r"), Wait, Exec(grep)>>),
          Close("a", "r"), Close("b", "w"), Wait, Exec(wc)>>
\* pipeline.c: ls of n directories, grep and wc.  main waits for one of the
\* others before it becomes wc and reads.
Pipeline(n) ==
    LET ls   == Times(n, <<Write("a", <<"d">>)>>)
        grep == CopyLines("a", "b", <<"d">> :> <<"d">>)
        wc   == <<Loop(<<Read("b", 1), If(<<>>, <<Break>>, <<Tell>>)>>)>>
    IN  <<Pipe("a"), Fork(<<Close("a", "r"), Exec(ls)>>),
          Pipe("b"), Fork(<<Close("a", "w"), Close("b", "r"), Wait, Exec(grep)>>),
          Close("a", "r"), Close("a", "w"), Close("b", "w"), Wait, Exec(wc)>>

-----------------------------------------------------------------------------
\* What the pipes and grep hold while wc has not started yet
PipelineRoom == Capacity["a"] + 1 + Capacity["b"]

PipeScripts ==
    [pipe      |-> <<PipeMain>>,
     fifo      |-> <<FifoMain>>,
     fiforead  |-> <<FifoRead, FifoWriter>>,
     coprocess |-> <<CoprocessParent(ValidateEmail)>>,
     buffered  |-> <<CoprocessParent(ValidateBuffered)>>,
     filter    |-> <<FilterParent, Typed>>,
     pipeline  |-> <<Pipeline(PipelineRoom)>>,
     longlist  |-> <<Pipeline(PipelineRoom + 1)>>]

\* The scripts of these programs, wherever they are among those that run, and
\* what they need
ASSUME PipeAssumption ==
    /\ \A prog \in DOMAIN PipeScripts \cap DOMAIN Scripts : Scripts[prog] = PipeScripts[prog]
    /\ {"a", "b", "c"} \subseteq Objects
    /\ 1..3 \subseteq Pids

\* What comes out at the end of these programs is what went in, as far as it
\* has come: the verdict behind every address is its own, the filter loses no
\* line, wc counts what ls has listed, and nothing is missing once the reader
\* ends by itself (coprocess_parent.c:50-54, parent.c:20-29, pipeline.c:16-60).
AnswersMatch ==
    LET due == CASE program = "coprocess" -> [i \in DOMAIN Emails |-> Verdict[<<Emails[i]>>]]
                 [] program = "filter"    -> <<<<"ABC">>, <<"DEF">>, <<>>>>
                 [] program = "pipeline"  -> Times(PipelineRoom, <<<<"d">>>>)
                 [] OTHER -> out[1]
    IN  /\ out[1] = SubSeq(due, 1, Len(out[1]))
        /\ proc[1].st \in {"zombie", "gone"} => out[1] = due

\* The programs that stop for good: a coprocess that buffers its answers and
\* its parent wait for each other, and so do the three of a pipeline when the
\* list is longer than what fits between ls and wc.
StuckPipe ==
    \/ program = "buffered" /\ At(1, "read") /\ At(2, "read") /\ out[1] = <<>>
    \/ program = "longlist" /\ At(1, "wait") /\ At(2, "write") /\ At(3, "reply")

=============================================================================

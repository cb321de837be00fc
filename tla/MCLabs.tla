------------------------------- MODULE MCLabs -------------------------------
(***************************************************************************)
(* All programs, with up to five processes.  The queues and pipes hold two *)
(* messages or bytes, as few as make a writer wait; the FIFO of fifo.c has *)
(* room for all that is ever written to it.                                *)
(***************************************************************************)
EXTENDS Labs

MCPids == 1..5
MCObjects == {"a", "b", "c", "d", "m"}
MCCapacity == [c \in MCObjects |-> IF c = "c" THEN 6 ELSE 2]

\* Names to ask for: ab.c, one that ends in a dot, one with an empty label
MCHosts == [dns    |-> <<97, 98, 46, 99>>,
            dnsdot |-> <<97, 46>>,
            dnsgap |-> <<97, 46, 46, 98>>]

\* Replies: an address; an alias, with the name server and its addresses; a
\* referral after a record that the client does not know
Same(labels) == [labels |-> labels, on |-> TRUE]
Whole(labels) == [labels |-> labels, on |-> FALSE]
Record(owner, type, data) == [owner |-> owner, type |-> type, data |-> data]
Address(n) == <<10, 0, 0, n>>
www == <<119, 119, 119>>
ns == <<110, 115>>
MCReplies ==
    {[an |-> <<Record(Same(<<>>), 1, Address(1))>>, au |-> <<>>, ad |-> <<>>],
     [an |-> <<Record(Same(<<>>), 5, Same(<<www>>)), Record(Same(<<www>>), 1, Address(2))>>,
      au |-> <<Record(Same(<<>>), 2, Same(<<ns>>))>>,
      ad |-> <<Record(Same(<<ns>>), 1, Address(3)), Record(Same(<<ns>>), 28, <<1, 2>>),
               Record(Whole(<<ns>>), 1, Address(4))>>],
     [an |-> <<>>,
      au |-> <<Record(Whole(<<www>>), 6, <<1, 2, 3>>),
               Record(Whole(<<www>>), 2, Whole(<<ns, www>>))>>,
      ad |-> <<Record(Same(<<>>), 2, Same(<<ns>>))>>]}

MCScripts == AllScripts

\* All calls of a script, also those inside other calls
RECURSIVE CallsOf(_)
CallsOf(code) ==
    UNION {{c} \cup CASE c.op \in {"fork", "exec", "signal", "loop"} -> CallsOf(c.code)
                      [] c.op = "if"     -> CallsOf(c.yes) \cup CallsOf(c.no)
                      [] c.op = "either" -> CallsOf(c.one) \cup CallsOf(c.other)
                      [] OTHER -> {}
           : c \in {code[i] : i \in DOMAIN code}}

MCCalls ==
    [prog \in DOMAIN AllScripts |->
        UNION {CallsOf(AllScripts[prog][p]) : p \in DOMAIN AllScripts[prog]}]

=============================================================================

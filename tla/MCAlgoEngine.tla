---------------------------- MODULE MCAlgoEngine ----------------------------
(***************************************************************************)
(* Algorithms for AlgoEngine, written as trees of statements, and what     *)
(* executing such a tree means.  The interpreter sees only the bytes it is *)
(* assembled to.                                                           *)
(***************************************************************************)
EXTENDS AlgoEngine, SequencesExt

S(op) == [op |-> op]
Block(op, n, body) == [op |-> op, n |-> n, body |-> body]

Data == 85
Expected == 77

RECURSIVE Assemble(_)
Bytecode(s) ==
    CASE s.op = "comment" -> <<HCOMMENT, Data, HENDCOMMENT>>
      [] s.op = "start" -> <<STARTTRAN>>
      [] s.op = "end" -> <<ENDTRAN>>
      [] s.op = "clk" -> <<RUNCLOCK, 3>>
      [] s.op = "wait" -> <<WAIT, 131, 1>>                  \* two bytes: 131
      [] s.op = "trst" -> <<TRSTTOGGLE, 0>>
      [] s.op = "reset" -> <<RESETDATA>>
      [] s.op = "out" -> <<TRANSOUT, 12, ALGODATA, Data, Data>>
      [] s.op = "again" -> <<ALGODATA>>
      [] s.op = "outdata" -> <<TRANSOUT, 8, PROGDATAEH>>
      [] s.op = "moredata" -> <<PROGDATA>>
      [] s.op = "in" -> <<TRANSIN, 8, ALGODATA, Expected>>
      [] s.op = "inmask" -> <<TRANSIN, 8, MASK, 15, ALGODATA, Expected>>
      [] s.op = "indata" -> <<TRANSIN, 8, PROGDATAEH>>
      [] s.op = "inprog" -> <<TRANSIN, 8, PROGDATA>>
      [] s.op = "loop" -> <<LOOP, s.n>> \o Assemble(s.body) \o <<ENDLOOP>>
      [] s.op = "repeat" -> <<REPEAT, s.n>> \o Assemble(s.body) \o <<ENDREPEAT>>
Assemble(stmts) ==
    IF stmts = <<>> THEN <<>> ELSE Bytecode(stmts[1]) \o Assemble(Tail(stmts))

Program(stmts) == Assemble(stmts) \o <<ENDOFALGO>>

-----------------------------------------------------------------------------
(* The meaning of a tree, given what each hardware call came to.  A state is  *)
(* the calls made, whether a transmission is open (a read or write has begun), *)
(* whether it has seen a mismatch, and the code the run has failed with.       *)

Fresh == [ops |-> <<>>, open |-> FALSE, mis |-> FALSE, code |-> PROC_COMPLETE]

Kind(s) == CASE s.op \in {"out", "again", "outdata", "moredata"} -> "tx"
             [] s.op \in {"in", "inmask", "indata", "inprog"} -> "rx"
             [] OTHER -> s.op

\* What the next call came to, according to the script.
Outcome(r, script) ==
    IF Len(r.ops) < Len(script) THEN script[Len(r.ops) + 1][2] ELSE "ok"

Failure(s) == CASE s.op \in {"start", "end"} -> ERROR_PROC_HARDWARE
                [] s.op \in {"outdata", "moredata", "indata", "inprog"} -> ERROR_INIT_DATA
                [] s.op = "reset" -> ERROR_PROC_DATA
                [] s.op = "trst" -> PROC_FAIL

RECURSIVE Exec(_, _, _)
RECURSIVE Times(_, _, _, _)

\* A body is executed up to n times: a loop until it succeeds, a repeat until
\* it fails.
Times(s, n, r, script) ==
    LET e == Exec(s.body, [r EXCEPT !.open = FALSE, !.mis = FALSE], script)
        code == IF e.mis /\ e.code = PROC_COMPLETE THEN ERROR_VERIFICATION ELSE e.code
        done == [r EXCEPT !.ops = e.ops, !.code = code]
    IN IF n > 1 /\ (code = PROC_COMPLETE) = (s.op = "repeat")
       THEN Times(s, n - 1, [r EXCEPT !.ops = e.ops], script)
       ELSE done

\* One statement.
Do(s, r, script) ==
    LET how == Outcome(r, script)
        made == [r EXCEPT !.ops = Append(@, Kind(s)), !.open = r.open \/ Kind(s) \in {"tx", "rx"}]
    IN CASE s.op = "comment" -> r
         [] s.op = "loop" ->
              LET e == Times(s, s.n, r, script)
              IN IF e.code = PROC_COMPLETE THEN e ELSE [e EXCEPT !.code = ERROR_LOOP_COND]
         [] s.op = "repeat" ->
              LET e == Times(s, s.n, r, script)
              IN IF e.code # PROC_COMPLETE /\ r.open
                 THEN [e EXCEPT !.code = ERROR_PROC_ALGO] ELSE e
         \* within a transmission nobody looks whether the data were reset
         [] s.op = "reset" /\ r.open -> made
         [] OTHER ->
              IF how = "failed" THEN [made EXCEPT !.code = Failure(s)]
              ELSE IF how \in {"mismatch", "stale"} THEN [made EXCEPT !.mis = TRUE]
              ELSE IF s.op = "end"
              THEN [made EXCEPT !.open = FALSE, !.mis = FALSE,
                                !.code = IF r.mis THEN ERROR_VERIFICATION ELSE PROC_COMPLETE]
              ELSE made

Exec(stmts, r, script) ==
    IF stmts = <<>> \/ r.code # PROC_COMPLETE THEN r
    ELSE Exec(Tail(stmts), Do(stmts[1], r, script), script)

-----------------------------------------------------------------------------
Trees == {
    \* every statement once
    <<S("comment"), S("wait"), S("start"), S("out"), S("comment"), S("wait"), S("clk"),
      S("again"), S("moredata"), S("reset"), S("inmask"), S("end"), S("clk"), S("trst"),
      S("reset")>>,
    \* verify with retries, then a second transmission
    <<Block("loop", 2, <<S("start"), S("out"), S("in"), S("end"), S("comment"), S("clk")>>),
      S("start"), S("outdata"), S("indata"), S("end")>>,
    \* loops in loops, first and last in their bodies
    <<Block("loop", 2, <<Block("repeat", 2, <<S("start"), S("out"), S("inmask"), S("end")>>),
                         Block("loop", 2, <<S("start"), S("out"), S("in"), S("end")>>)>>),
      S("trst")>>,
    \* a repeat within a transmission, in the file and in a buffer
    <<S("start"), S("out"), Block("repeat", 2, <<S("outdata"), S("wait")>>), S("end"),
      Block("loop", 2, <<S("wait"), S("start"), S("out"), Block("repeat", 2, <<S("in"), S("clk")>>),
                         S("out"), S("end"), S("reset")>>)>>,
    \* three deep
    <<Block("repeat", 2, <<S("clk"), Block("loop", 2, <<S("start"), S("out"),
          Block("repeat", 2, <<S("in")>>), S("end")>>), S("wait")>>), S("start"), S("end")>>
    }

TreeOf(a) == CHOOSE t \in Trees : Program(t) = a

MCAlgorithms == {Program(t) : t \in Trees}

\* Algorithms with an error, of which none may pass.
Erroneous == {
    \* no such opcode: outside and within a transmission, and in a loop's body
    <<0>>, <<ENDLOOP>>, <<RUNCLOCK, 0>>,
    <<STARTTRAN, TRANSIN, 8, 200, ENDTRAN, ENDOFALGO>>,
    <<LOOP, 2, RUNCLOCK, 3, 0, ENDLOOP, ENDOFALGO>>,
    \* loops that do not nest
    <<LOOP, 2, RUNCLOCK, 3, ENDREPEAT, ENDOFALGO>>,
    <<REPEAT, 2, LOOP, 2, RUNCLOCK, 3, ENDREPEAT, ENDLOOP, ENDOFALGO>>,
    \* the count of the inner loop passes for its end
    <<LOOP, 2, REPEAT, ENDREPEAT, RUNCLOCK, 3, ENDLOOP, ENDOFALGO>>,
    \* the end of the body cuts off a number, and data
    <<LOOP, 2, RUNCLOCK, 200, ENDLOOP, ENDOFALGO>>,
    <<LOOP, 2, STARTTRAN, TRANSOUT, 120, ALGODATA, Data, ENDLOOP, ENDOFALGO>>,
    <<LOOP, 2, STARTTRAN, TRANSIN, 120, ALGODATA, Expected, ENDLOOP, ENDOFALGO>>,
    \* no data where there must be
    <<STARTTRAN, TRANSOUT, 8, ENDTRAN, ENDOFALGO>>,
    <<STARTTRAN, TRANSOUT, 0, ENDTRAN, ENDOFALGO>>,
    \* a body larger than algoBuffer
    <<LOOP, 2>> \o [i \in 1..(2 * MAXBUF + 4) |-> IF i % 2 = 1 THEN RUNCLOCK ELSE 3]
                \o <<ENDLOOP, ENDOFALGO>>
    }

\* No error to the interpreter: the level of a TRSTTOGGLE is cut off by the end of
\* its loop's body, and then is 0.
Lenient == {<<LOOP, 2, RUNCLOCK, 3, TRSTTOGGLE, 200, 200, ENDLOOP, ENDOFALGO>>}

EngineAlgorithms == MCAlgorithms \cup Erroneous \cup Lenient

\* None of them passes (core.c:399 "0 - Process fail").
ErroneousRejected == mode = "done" /\ algo \in Erroneous => ret # PROC_OVER

\* When it is done, the interpreter has made the calls the tree asks for, in
\* that order, and returns the code the tree ends with (core.c:403-1283: which
\* byte is an opcode, what a loop's body is, when it is executed again).
MatchesTree ==
    mode = "done" /\ algo \in MCAlgorithms =>
        LET e == Exec(TreeOf(algo), Fresh, log)
        IN /\ e.ops = [i \in 1..Len(log) |-> log[i][1]]
           /\ ret = IF e.code = PROC_COMPLETE THEN PROC_OVER ELSE e.code

\* Verify against the data file.
ProgAlgorithms == {Program(<<S("start"), S("out"), S("inprog"), S("end")>>)}

\* The first algorithm and a loop, broken off after any byte.
Whole == Program(<<S("comment"), S("start"), S("out"), S("in"), S("end"), S("wait"),
                   Block("loop", 2, <<S("clk")>>)>>)

TruncatedAlgorithms == Prefixes(Whole) \ {Whole}
=============================================================================

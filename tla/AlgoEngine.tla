----------------------------- MODULE AlgoEngine -----------------------------
(***************************************************************************)
(* The algorithm interpreter of core.c: SSPIEm_process(), proc_TRANS(),    *)
(* proc_LOOP() and proc_REPEAT(), from the end of the header on.           *)
(*                                                                         *)
(* The calls these functions make of one another are the frames of stack   *)
(* (the innermost first); a step is one opcode of a frame, or one byte of  *)
(* the scan that buffers a loop's body.  The algorithm is kept as its      *)
(* bytes, for which byte is taken for an opcode is what matters here.      *)
(* TRANS_*(), dataReset() and wait() are known by their outcome; log is    *)
(* the sequence of those that were called, each with its outcome.          *)
(***************************************************************************)
EXTENDS Integers, Sequences

CONSTANTS
    Algorithms,         \* algorithm files: sequences of bytes after STARTOFALGO
    MAXBUF,             \* the size of algoBuffer
    MAX_MASKSIZE,       \* the largest mask, in bits
    MaxFaults,          \* bound: failures and mismatches in one behaviour
    LinkFaults          \* can a transfer to or from the FPGA get lost?

ASSUME BoundsAssumption ==
    MAXBUF \in Nat \ {0} /\ MAX_MASKSIZE \in Nat /\ MaxFaults \in Nat
ASSUME LinkFaultsAssumption == LinkFaults \in BOOLEAN
ASSUME AlgorithmsAssumption == Algorithms \subseteq Seq(0..255)

\* opcode.h
STARTTRAN == 16
TRANSOUT == 18
TRANSIN == 19
RUNCLOCK == 20
TRSTTOGGLE == 21
ENDTRAN == 31
MASK == 33
ALGODATA == 34
PROGDATA == 37
RESETDATA == 38
PROGDATAEH == 39
WAIT == 64
REPEAT == 65
ENDREPEAT == 66
LOOP == 67
ENDLOOP == 68
ENDOFALGO == 97
HCOMMENT == 160
HENDCOMMENT == 161

PROC_FAIL == 0
PROC_COMPLETE == 1
PROC_OVER == 2

\* debug.h
ERROR_INIT_DATA == -2
ERROR_PROC_ALGO == -11
ERROR_PROC_DATA == -12
ERROR_PROC_HARDWARE == -13
ERROR_LOOP_COND == -14
ERROR_VERIFICATION == -20

ReturnCodes == {PROC_FAIL, PROC_COMPLETE, PROC_OVER, ERROR_INIT_DATA, ERROR_PROC_ALGO,
                ERROR_PROC_DATA, ERROR_PROC_HARDWARE, ERROR_LOOP_COND,
                ERROR_VERIFICATION}

VARIABLES
    algo,               \* the algorithm file
    stack,              \* the calls in progress, innermost first
    ret,                \* what the last call returned
    mode,               \* "step", "return", "hung" or "done"; "idle" before that
    algoBuffer,         \* the body of the loop being executed; cell MAXBUF is the
                        \* byte behind the array
    cs,                 \* chip select, as last commanded
    port,               \* the FPGA's port: "on", "off", or "stuck": still on behind
                        \* SPI_final(), whose command came to nothing
    files,              \* "open" until algoFinal() and dataFinal()
    log,                \* history: the hardware and data calls
    faults              \* history: how many of them went wrong

hwVars == <<cs, port, files, log, faults>>
vars == <<algo, stack, ret, mode, algoBuffer, hwVars>>

-----------------------------------------------------------------------------
(* Reading the algorithm. *)

\* Where a frame reads: the file, or size bytes of algoBuffer, from base on.
Source == [file : BOOLEAN, base : Nat, size : Nat]

\* Past a body in algoBuffer there is its closing opcode, or a zero.
Mem(a) == IF a \in DOMAIN algoBuffer THEN algoBuffer[a] ELSE 0

\* fgetc() at the end of the file is 0xFF, and then algoGetByte() leaves its
\* output alone; VME_getByte() reports success all the same.
FileByte(a, old) == IF a < Len(algo) THEN algo[a + 1]
                    ELSE IF a = Len(algo) THEN 255 ELSE old

\* VME_getByte() of byte i of a source: does it succeed, and with what.
Avail(src, i) == src.file \/ i < src.size

ByteAt(src, i, old) == IF src.file THEN FileByte(src.base + i, old)
                       ELSE Mem(src.base + i)

\* What n calls of VME_getByte() from byte i on leave in their output.
LastByte(src, i, n, old) ==
    IF n = 0 THEN old
    ELSE IF src.file /\ src.base + i <= Len(algo) /\ src.base + i + n > Len(algo)
    THEN 255
    ELSE ByteAt(src, i + n - 1, old)

\* The bytes of a source that exist, for the reads that search for one.
Existing(src) == IF src.file THEN 0..(Len(algo) - src.base - 1) ELSE 0..(src.size - 1)

FirstFrom(src, i, Test(_)) ==
    {j \in Existing(src) : /\ j >= i
                           /\ Test(ByteAt(src, j, 0))
                           /\ \A k \in i..(j - 1) : ~Test(ByteAt(src, k, 0))}

\* A read that finds no end fails in a buffer and never ends in a file, where
\* VME_getByte() does not fail.
Endless == -1

\* A number ends with the first byte below 128.
NumberEnds(src, i) == LET Last(b) == b < 128 IN FirstFrom(src, i, Last)

\* Seven bits a byte, the lowest first, from byte i to byte j.
NumberValue(src, i, j) ==
    LET v[k \in i..j] == IF k = j THEN ByteAt(src, k, 0)
                         ELSE ByteAt(src, k, 0) - 128 + 128 * v[k + 1]
    IN v[i]

\* No number: a buffer has been read to its end.
NoNumber(src, i) ==
    IF src.file THEN [val |-> Endless, next |-> i]
    ELSE [val |-> PROC_FAIL, next |-> IF i < src.size THEN src.size ELSE i]

\* Mutants of Number: the flag is taken off the last byte as well; and a number
\* that a buffer cuts off is read on for.
NumberFlagged(src, i) ==
    LET end == CHOOSE e \in NumberEnds(src, i) : TRUE
    IN IF NumberEnds(src, i) = {} THEN NoNumber(src, i)
       ELSE [val |-> ByteAt(src, end, 0) - 128, next |-> end + 1]

NumberUnchecked(src, i) ==
    LET end == CHOOSE e \in NumberEnds(src, i) : TRUE
    IN IF NumberEnds(src, i) = {} THEN [val |-> Endless, next |-> i]
       ELSE [val |-> ByteAt(src, end, 0), next |-> end + 1]

\* VME_getNumber(): its value, of which 0 is PROC_FAIL, and the byte after it.
Number(src, i) ==
    LET end == CHOOSE e \in NumberEnds(src, i) : TRUE
    IN IF NumberEnds(src, i) = {} THEN NoNumber(src, i)
       ELSE [val |-> NumberValue(src, i, end), next |-> end + 1]

\* proc_HCOMMENT(): the byte after the end of the comment.
CommentEnd(src, i) ==
    LET Last(b) == b = HENDCOMMENT
        ends == FirstFrom(src, i, Last)
    IN IF ends # {} THEN (CHOOSE e \in ends : TRUE) + 1
       ELSE IF src.file THEN Endless ELSE PROC_FAIL

-----------------------------------------------------------------------------
(* Calls and returns. *)

Kinds == {"process", "trans", "LOOP", "REPEAT"}

Frame == [kind : Kinds,
          src : Source,
          idx : Nat,                \* bytes of src consumed
          op : 0..255,              \* currentByte
          \* proc_TRANS()
          trCount : Nat,
          transin : BOOLEAN,
          mismatch : BOOLEAN,
          \* proc_LOOP() and proc_REPEAT()
          scanning : BOOLEAN,
          nest : Seq({LOOP, REPEAT}),
          size : Nat,               \* bufferSize
          count : Nat,
          max : Nat]

\* Mutant of NewFrame: proc_TRANS() does not reset its mismatch.
NewFrameMismatched(kind, src, op, max) ==
    [kind |-> kind, src |-> src, idx |-> 0, op |-> op, trCount |-> 0,
     transin |-> FALSE, mismatch |-> TRUE, scanning |-> kind \in {"LOOP", "REPEAT"},
     nest |-> <<>>, size |-> 0, count |-> 0, max |-> max]

NewFrame(kind, src, op, max) ==
    [kind |-> kind, src |-> src, idx |-> 0, op |-> op, trCount |-> 0,
     transin |-> FALSE, mismatch |-> FALSE, scanning |-> kind \in {"LOOP", "REPEAT"},
     nest |-> <<>>, size |-> 0, count |-> 0, max |-> max]

Top == stack[1]

\* &bufAlgo[i], or the file from here; the size is handed on as it is.
From(src, i) == [src EXCEPT !.base = @ + i]

Call(frame, caller) ==
    /\ stack' = <<frame, caller>> \o Tail(stack)
    /\ mode' = "step"
    /\ UNCHANGED ret

\* Mutant of Return: what a call consumed is counted by it and by its caller.
ReturnTwice(code, used) ==
    /\ ret' = code
    /\ IF Len(stack) = 1
       THEN stack' = <<>> /\ mode' = "done"
       ELSE /\ stack' = [Tail(stack) EXCEPT ![1].idx = @ + 2 * used]
            /\ mode' = "return"

\* The call on top returns.  What it consumed its caller has consumed, through
\* the FILE's position or through absBufAlgoIndex; SSPIEm_process() on the body
\* of a loop consumes nothing of the loop's caller.
Return(code, used) ==
    /\ ret' = code
    /\ IF Len(stack) = 1
       THEN stack' = <<>> /\ mode' = "done"
       ELSE /\ stack' = [Tail(stack) EXCEPT ![1].idx = @ + used]
            /\ mode' = "return"

Hang == mode' = "hung" /\ UNCHANGED <<stack, ret>>

\* The frame on top goes on as f.
Goto(f) == /\ stack' = [stack EXCEPT ![1] = f]
           /\ mode' = "step"
           /\ UNCHANGED ret

Stepping(kind) == mode = "step" /\ Top.kind = kind

-----------------------------------------------------------------------------
(* The calls of the layers below. *)

Done(what) == /\ log' = Append(log, <<what, "ok">>)
              /\ UNCHANGED faults

Fault(what, how) == /\ faults < MaxFaults
                    /\ faults' = faults + 1
                    /\ log' = Append(log, <<what, how>>)

UnchangedHw == UNCHANGED hwVars
UnchangedPins == UNCHANGED <<cs, port, files>>

\* TRANS_transmitBytes() reports a lost transfer as -1, which its callers take
\* for success.
Sent(what) == Done(what) \/ (LinkFaults /\ Fault(what, "lost"))

-----------------------------------------------------------------------------
(* SSPIEm_process(). *)

\* The command to turn the port off is carried out or not: SPI_final() returns 1
\* all the same, so that nobody is told.
SPI_final == port' \in {"off", "stuck"}

\* Mutant of Leave: the files are closed and the port is left on.
LeavePortOn(code) ==
    /\ Return(code, 0)
    /\ IF Top.src.file THEN files' = "closed" ELSE UNCHANGED files
    /\ UNCHANGED port

\* Mutant of Leave: only a run that passes calls SPI_final().
LeaveIfPassed(code) ==
    /\ Return(code, 0)
    /\ IF Top.src.file THEN files' = "closed" ELSE UNCHANGED files
    /\ IF Top.src.file /\ code = PROC_OVER THEN SPI_final ELSE UNCHANGED port

\* Its loop is left: in a buffer it returns; in the file it first closes both
\* files and calls SPI_final().
Leave(code) ==
    /\ Return(code, 0)
    /\ IF Top.src.file THEN SPI_final /\ files' = "closed"
       ELSE UNCHANGED <<port, files>>

\* Only in a buffer can the bytes end.
ProcEnd ==
    /\ Stepping("process")
    /\ ~Avail(Top.src, Top.idx)
    /\ Return(PROC_OVER, 0)
    /\ UNCHANGED <<algo, algoBuffer>>
    /\ UnchangedHw

Opcode == ByteAt(Top.src, Top.idx, Top.op)
After == Top.idx + 1

\* The opcode fetched is op.
Fetched(op) ==
    /\ Stepping("process")
    /\ Avail(Top.src, Top.idx)
    /\ Opcode = op
    /\ UNCHANGED algo

\* The opcode is done: the next one is at i.
GoOn(i) == Goto([Top EXCEPT !.idx = i, !.op = Opcode])

ProcComment ==
    /\ Fetched(HCOMMENT)
    /\ LET end == CommentEnd(Top.src, After)
       IN CASE end = Endless -> Hang
            [] end = PROC_FAIL -> Return(ERROR_PROC_ALGO, 0)
            [] OTHER -> GoOn(end)
    /\ UNCHANGED algoBuffer
    /\ UnchangedHw

\* cs_state is set before the command is known to have succeeded.
ProcStartTran ==
    /\ Fetched(STARTTRAN)
    /\ \/ Done("start") /\ GoOn(After)
       \/ Fault("start", "failed") /\ Return(ERROR_PROC_HARDWARE, 0)
    /\ cs' = "low"
    /\ UNCHANGED <<algoBuffer, port, files>>

ProcTrans ==
    /\ \E op \in {TRANSIN, TRANSOUT} :
          /\ Fetched(op)
          /\ Call(NewFrame("trans", From(Top.src, After), op, 0),
                  [Top EXCEPT !.idx = After, !.op = op])
    /\ UNCHANGED algoBuffer
    /\ UnchangedHw

\* An opcode followed by a number: no number, or 0, ends the processing.
WithNumber(op, Act(_, _)) ==
    /\ Fetched(op)
    /\ LET n == Number(Top.src, After)
       IN CASE n.val = Endless -> Hang /\ UNCHANGED algoBuffer /\ UnchangedHw
            [] n.val = PROC_FAIL -> /\ Leave(ERROR_PROC_ALGO)
                                    /\ UNCHANGED <<algoBuffer, cs, log, faults>>
            [] OTHER -> Act(n.val, n.next)

\* The result of TRANS_runClk() is not looked at.
ProcRunClock ==
    LET Act(n, i) == /\ Sent("clk")
                     /\ GoOn(i)
                     /\ UNCHANGED algoBuffer
                     /\ UnchangedPins
    IN WithNumber(RUNCLOCK, Act)

\* wait() always succeeds.
ProcWait ==
    LET Act(n, i) == /\ Done("wait")
                     /\ GoOn(i)
                     /\ UNCHANGED algoBuffer
                     /\ UnchangedPins
    IN WithNumber(WAIT, Act)

\* op calls its function, which reads from i on.
LoopFrame(op, n, i) ==
    NewFrame(IF op = LOOP THEN "LOOP" ELSE "REPEAT", From(Top.src, i), 0, n)

\* Mutant of CallLoop: algoBuffer is zeroed for every loop.
CallLoopZeroed(op, n, i) ==
    /\ Call(LoopFrame(op, n, i), [Top EXCEPT !.idx = i, !.op = op])
    /\ algoBuffer' = [a \in 0..MAXBUF |-> 0]
    /\ UnchangedHw

\* A file's loop body is buffered afresh: algoBuffer is zeroed first, but for
\* the byte behind it that a body may take as well.
CallLoop(op, n, i) ==
    /\ Call(LoopFrame(op, n, i), [Top EXCEPT !.idx = i, !.op = op])
    /\ IF Top.src.file
       THEN algoBuffer' = [a \in 0..MAXBUF |-> IF a < MAXBUF THEN 0 ELSE algoBuffer[a]]
       ELSE UNCHANGED algoBuffer
    /\ UnchangedHw

ProcRepeat == LET Act(n, i) == CallLoop(REPEAT, n, i)
              IN WithNumber(REPEAT, Act)

ProcLoop == LET Act(n, i) == CallLoop(LOOP, n, i)
            IN WithNumber(LOOP, Act)

\* VME_getNumber() of TRSTTOGGLE may be 0: it is the level.
ProcTrstToggle ==
    /\ Fetched(TRSTTOGGLE)
    /\ LET n == Number(Top.src, After)
       IN IF n.val = Endless THEN Hang /\ UnchangedHw
          ELSE \/ Done("trst") /\ GoOn(n.next) /\ UnchangedPins
               \/ Fault("trst", "failed") /\ Leave(PROC_FAIL) /\ UNCHANGED cs
    /\ UNCHANGED algoBuffer

ProcResetData ==
    /\ Fetched(RESETDATA)
    /\ \/ Done("reset") /\ GoOn(After) /\ UnchangedPins
       \/ /\ Fault("reset", "failed")
          /\ Leave(ERROR_PROC_DATA)
          /\ UNCHANGED cs
    /\ UNCHANGED algoBuffer

ProcEndTran ==
    /\ Fetched(ENDTRAN)
    /\ cs' = "high"
    /\ \/ Done("end") /\ GoOn(After) /\ UNCHANGED <<port, files>>
       \/ Fault("end", "failed") /\ Leave(ERROR_PROC_HARDWARE)
    /\ UNCHANGED algoBuffer

ProcEndOfAlgo ==
    /\ Fetched(ENDOFALGO)
    /\ Leave(PROC_OVER)
    /\ UNCHANGED <<algoBuffer, cs, log, faults>>

ProcOpcodes == {HCOMMENT, STARTTRAN, TRANSIN, TRANSOUT, RUNCLOCK, REPEAT, LOOP,
                WAIT, RESETDATA, ENDTRAN, ENDOFALGO, TRSTTOGGLE}

\* Any other byte, ENDLOOP and ENDREPEAT among them: returned from on the spot.
ProcUnrecognized ==
    /\ Fetched(Opcode)
    /\ Opcode \notin ProcOpcodes
    /\ Return(ERROR_PROC_ALGO, 0)
    /\ UNCHANGED algoBuffer
    /\ UnchangedHw

\* A call it made returns: only PROC_COMPLETE keeps its loop going.
ProcResume ==
    /\ mode = "return"
    /\ Top.kind = "process"
    /\ LET code == IF Top.op = LOOP /\ ret <= 0 THEN ERROR_LOOP_COND ELSE ret
       IN IF code = PROC_COMPLETE THEN Goto(Top) /\ UnchangedHw
          ELSE Leave(code) /\ UNCHANGED <<cs, log, faults>>
    /\ UNCHANGED <<algo, algoBuffer>>

Process == \/ ProcEnd \/ ProcComment \/ ProcStartTran \/ ProcTrans \/ ProcRunClock
           \/ ProcWait \/ ProcRepeat \/ ProcLoop \/ ProcTrstToggle \/ ProcResetData
           \/ ProcEndTran \/ ProcEndOfAlgo \/ ProcUnrecognized \/ ProcResume

-----------------------------------------------------------------------------
(* proc_TRANS(): currentByte, the opcode to execute, is already in op. *)

At(op) == Stepping("trans") /\ Top.op = op /\ UNCHANGED algo

\* The bottom of its loop: f has consumed i bytes, c is in currentByte, and the
\* next opcode is fetched over it.
Fetch(f, i, c) ==
    IF Avail(f.src, i)
    THEN Goto([f EXCEPT !.idx = i + 1, !.op = ByteAt(f.src, i, c)])
    ELSE Return(ERROR_PROC_ALGO, i)

FetchNext == Fetch(Top, Top.idx, Top.op)

GiveUp(code) == Return(code, Top.idx)

TransComment ==
    /\ At(HCOMMENT)
    /\ LET end == CommentEnd(Top.src, Top.idx)
       IN CASE end = Endless -> Hang
            [] end = PROC_FAIL -> GiveUp(ERROR_PROC_ALGO)
            [] OTHER -> Fetch(Top, end, HCOMMENT)
    /\ UNCHANGED algoBuffer
    /\ UnchangedHw

TransNumber(op, Act(_, _)) ==
    /\ At(op)
    /\ LET n == Number(Top.src, Top.idx)
       IN CASE n.val = Endless -> Hang /\ UNCHANGED algoBuffer /\ UnchangedHw
            [] n.val = PROC_FAIL -> /\ GiveUp(ERROR_PROC_ALGO)
                                    /\ UNCHANGED algoBuffer
                                    /\ UnchangedHw
            [] OTHER -> Act(n.val, n.next)

TransWait ==
    LET Act(n, i) == /\ Done("wait")
                     /\ Fetch(Top, i, WAIT)
                     /\ UNCHANGED algoBuffer
                     /\ UnchangedPins
    IN TransNumber(WAIT, Act)

TransRunClock ==
    LET Act(n, i) == /\ Sent("clk")
                     /\ Fetch(Top, i, RUNCLOCK)
                     /\ UNCHANGED algoBuffer
                     /\ UnchangedPins
    IN TransNumber(RUNCLOCK, Act)

Bytes(bits) == (bits + 7) \div 8

\* n more bytes of the algorithm, or the buffer has ended.
HasBytes(src, i, n) == src.file \/ i + n <= src.size

\* HLDataGetByte() of the data to send fails, or the data is sent.
SendData(then) ==
    \/ Sent("tx") /\ then
    \/ Fault("tx", "failed") /\ GiveUp(ERROR_INIT_DATA)

\* TRANSOUT: a size, the kind of data, and for ALGODATA the data.
TransOut ==
    LET Act(n, i) ==
            LET f == [Top EXCEPT !.trCount = n, !.transin = FALSE]
                kind == ByteAt(Top.src, i, TRANSOUT)
            IN \/ /\ Avail(Top.src, i)
                  /\ kind = ALGODATA
                  /\ HasBytes(Top.src, i + 1, Bytes(n))
                  /\ Sent("tx")
                  /\ Fetch(f, i + 1 + Bytes(n), kind)
                  /\ UnchangedPins
               \/ /\ Avail(Top.src, i)
                  /\ kind = PROGDATAEH
                  /\ SendData(Fetch(f, i + 1, kind))
                  /\ UnchangedPins
               \/ /\ \/ ~Avail(Top.src, i)
                     \/ kind \notin {ALGODATA, PROGDATAEH}
                     \/ kind = ALGODATA /\ ~HasBytes(Top.src, i + 1, Bytes(n))
                  /\ GiveUp(ERROR_PROC_ALGO)
                  /\ UnchangedHw
    IN TransNumber(TRANSOUT, Act) /\ UNCHANGED algoBuffer

TransIn ==
    LET Act(n, i) == /\ Fetch([Top EXCEPT !.trCount = n, !.transin = TRUE], i, TRANSIN)
                     /\ UNCHANGED algoBuffer
                     /\ UnchangedHw
    IN TransNumber(TRANSIN, Act)

\* A mask longer than the buffer is not skipped.
TransMask ==
    /\ At(MASK)
    /\ LET n == IF Top.trCount <= MAX_MASKSIZE THEN Bytes(Top.trCount) ELSE 0
       IN IF HasBytes(Top.src, Top.idx, n) THEN Fetch(Top, Top.idx + n, MASK)
          ELSE GiveUp(ERROR_PROC_ALGO)
    /\ UNCHANGED algoBuffer
    /\ UnchangedHw

\* What the FPGA sends is as expected, or it is not.  A read that fails is reported
\* as -1, which its callers take for success: what is left in the buffer is
\* compared, and agrees ("lost") or does not ("stale").
Received(Match, Mismatch) ==
    \/ Done("rx") /\ Match
    \/ Fault("rx", "mismatch") /\ Mismatch
    \/ LinkFaults /\ Fault("rx", "lost") /\ Match
    \/ LinkFaults /\ Fault("rx", "stale") /\ Mismatch

\* Data of the algorithm: sent again, or received and compared with it.
TransAlgoData ==
    /\ At(ALGODATA)
    /\ IF ~Top.transin THEN Sent("tx") /\ FetchNext
       ELSE LET n == Bytes(Top.trCount)
                c == LastByte(Top.src, Top.idx, n, ALGODATA)
            IN IF HasBytes(Top.src, Top.idx, n)
               THEN Received(Fetch(Top, Top.idx + n, c),
                             Fetch([Top EXCEPT !.mismatch = TRUE], Top.idx + n, c))
               ELSE Received(GiveUp(ERROR_PROC_ALGO), GiveUp(ERROR_PROC_ALGO))
    /\ UNCHANGED algoBuffer
    /\ UnchangedPins

\* Data of the data file.  That it runs out is an error; a mismatch of what is
\* received is recorded for PROGDATAEH and forgotten for PROGDATA.
TransProgData ==
    /\ \E op \in {PROGDATA, PROGDATAEH} :
          /\ At(op)
          /\ IF ~Top.transin THEN SendData(FetchNext)
             ELSE \/ Received(FetchNext,
                              IF op = PROGDATA THEN FetchNext
                              ELSE Fetch([Top EXCEPT !.mismatch = TRUE], Top.idx, op))
                  \/ Fault("rx", "failed") /\ GiveUp(ERROR_INIT_DATA)
    /\ UNCHANGED algoBuffer
    /\ UnchangedPins

Verdict(f) == IF f.mismatch THEN ERROR_VERIFICATION ELSE PROC_COMPLETE

\* Mutant of TransEndTran: the FPGA stays selected.
TransEndTranSelected ==
    /\ At(ENDTRAN)
    /\ \/ Done("end") /\ Return(Verdict(Top), Top.idx)
       \/ Fault("end", "failed") /\ GiveUp(ERROR_PROC_HARDWARE)
    /\ UNCHANGED <<algoBuffer, cs, port, files>>

TransEndTran ==
    /\ At(ENDTRAN)
    /\ cs' = "high"
    /\ \/ Done("end") /\ Return(Verdict(Top), Top.idx)
       \/ Fault("end", "failed") /\ GiveUp(ERROR_PROC_HARDWARE)
    /\ UNCHANGED <<algoBuffer, port, files>>

\* A REPEAT within a transmission.
TransRepeat ==
    LET Act(n, i) == CallLoop(REPEAT, n, i)
    IN TransNumber(REPEAT, Act)

TransResume ==
    /\ mode = "return"
    /\ Top.kind = "trans"
    /\ IF ret <= 0 THEN GiveUp(ERROR_PROC_ALGO) ELSE FetchNext
    /\ UNCHANGED <<algo, algoBuffer>>
    /\ UnchangedHw

\* dataReset() failing is not an error here.
TransResetData ==
    /\ At(RESETDATA)
    /\ Done("reset") \/ Fault("reset", "failed")
    /\ FetchNext
    /\ UNCHANGED algoBuffer
    /\ UnchangedPins

TransOpcodes == {HCOMMENT, WAIT, RUNCLOCK, TRANSOUT, ALGODATA, PROGDATA, PROGDATAEH,
                 TRANSIN, MASK, ENDTRAN, REPEAT, RESETDATA}

\* Mutant of TransUnrecognized: in the file too.
TransUnrecognizedEnds ==
    /\ At(Top.op)
    /\ Top.op \notin TransOpcodes
    /\ Return(Verdict(Top), Top.idx)
    /\ UNCHANGED algoBuffer
    /\ UnchangedHw

\* Any other byte ends a transmission in a buffer, and is consumed.
TransUnrecognized ==
    /\ At(Top.op)
    /\ Top.op \notin TransOpcodes
    /\ IF Top.src.file THEN GiveUp(ERROR_PROC_ALGO) ELSE Return(Verdict(Top), Top.idx)
    /\ UNCHANGED algoBuffer
    /\ UnchangedHw

Trans == \/ TransComment \/ TransWait \/ TransRunClock \/ TransOut \/ TransIn
         \/ TransMask \/ TransAlgoData \/ TransProgData \/ TransEndTran
         \/ TransRepeat \/ TransResume \/ TransResetData \/ TransUnrecognized

-----------------------------------------------------------------------------
(* proc_LOOP() and proc_REPEAT(): first the body is measured, and buffered if  *)
(* it comes from the file; every byte counts as an opcode.                     *)

Scanning == /\ mode = "step"
            /\ Top.kind \in {"LOOP", "REPEAT"}
            /\ Top.scanning
            /\ UNCHANGED algo
            /\ UnchangedHw

Opener(byte) == IF byte = ENDLOOP THEN LOOP ELSE REPEAT

\* The byte is part of the body.  The test lets one byte more through than the
\* array has.
Keep(nest) ==
    IF Top.size > MAXBUF
    THEN Return(ERROR_PROC_ALGO, After) /\ UNCHANGED algoBuffer
    ELSE /\ Goto([Top EXCEPT !.idx = After, !.op = Opcode, !.nest = nest, !.size = @ + 1])
         /\ IF Top.src.file THEN algoBuffer' = [algoBuffer EXCEPT ![Top.size] = Opcode]
            ELSE UNCHANGED algoBuffer

ScanEnd ==
    /\ Scanning
    /\ ~Avail(Top.src, Top.idx)
    /\ Return(ERROR_PROC_ALGO, Top.idx)
    /\ UNCHANGED algoBuffer

\* Comments are not kept.
ScanComment ==
    /\ Scanning
    /\ Avail(Top.src, Top.idx)
    /\ Opcode = HCOMMENT
    /\ LET end == CommentEnd(Top.src, After)
       IN CASE end = Endless -> Hang
            [] end = PROC_FAIL -> Return(ERROR_PROC_ALGO, After)
            [] OTHER -> Goto([Top EXCEPT !.idx = end, !.op = HCOMMENT])
    /\ UNCHANGED algoBuffer

ScanByte ==
    /\ Scanning
    /\ Avail(Top.src, Top.idx)
    /\ Opcode \notin {HCOMMENT, ENDLOOP, ENDREPEAT}
    /\ Keep(IF Opcode \in {LOOP, REPEAT} THEN <<Opcode>> \o Top.nest ELSE Top.nest)

\* The end of a nested loop, which must be of its kind.
ScanNestedEnd ==
    /\ Scanning
    /\ Avail(Top.src, Top.idx)
    /\ Opcode \in {ENDLOOP, ENDREPEAT}
    /\ Top.nest # <<>>
    /\ IF Top.nest[1] = Opener(Opcode) THEN Keep(Tail(Top.nest))
       ELSE Return(ERROR_PROC_ALGO, After) /\ UNCHANGED algoBuffer

\* The end of the body: SSPIEm_process() is called on it for the first time.
\* From now on idx is what the caller will be told was consumed.
Body(f) == [file |-> FALSE, base |-> IF f.src.file THEN 0 ELSE f.src.base,
            size |-> f.size]

Iterate(f) == Call(NewFrame("process", Body(f), 0, 0), f)

ScanBodyEnd ==
    /\ Scanning
    /\ Avail(Top.src, Top.idx)
    /\ Opcode \in {ENDLOOP, ENDREPEAT}
    /\ Top.nest = <<>>
    /\ IF Opcode = (IF Top.kind = "LOOP" THEN ENDLOOP ELSE ENDREPEAT)
       THEN Iterate([Top EXCEPT !.scanning = FALSE,
                                !.idx = IF Top.src.file THEN After ELSE Top.size + 1])
       ELSE Return(ERROR_PROC_ALGO, After)
    /\ UNCHANGED algoBuffer

\* Mutant of Again: once too often.
AgainOnceMore(f) == /\ IF f.kind = "LOOP" THEN ret <= 0 ELSE ret = PROC_OVER
                    /\ f.count <= f.max

\* A LOOP is done when its body succeeds, a REPEAT when it fails.
Again(f) == /\ IF f.kind = "LOOP" THEN ret <= 0 ELSE ret = PROC_OVER
            /\ f.count < f.max

\* Mutant of LoopResume: the code of the last iteration is the loop's.
LoopResumeAsIs ==
    /\ mode = "return"
    /\ Top.kind \in {"LOOP", "REPEAT"}
    /\ LET f == [Top EXCEPT !.count = @ + 1]
       IN IF Again(f) THEN Iterate(f) ELSE Return(ret, f.idx)
    /\ UNCHANGED <<algo, algoBuffer>>
    /\ UnchangedHw

LoopResume ==
    /\ mode = "return"
    /\ Top.kind \in {"LOOP", "REPEAT"}
    /\ LET f == [Top EXCEPT !.count = @ + 1]
       IN IF Again(f) THEN Iterate(f)
          ELSE Return(IF ret <= 0 THEN ret ELSE PROC_COMPLETE, f.idx)
    /\ UNCHANGED <<algo, algoBuffer>>
    /\ UnchangedHw

LoopRepeat == \/ ScanEnd \/ ScanComment \/ ScanByte \/ ScanNestedEnd \/ ScanBodyEnd
              \/ LoopResume

-----------------------------------------------------------------------------
Init ==
    /\ algo \in Algorithms
    /\ stack = <<NewFrame("process", [file |-> TRUE, base |-> 0, size |-> 0], 0, 0)>>
    /\ ret = PROC_COMPLETE
    /\ mode = "step"
    /\ algoBuffer = [a \in 0..MAXBUF |-> 0]
    /\ cs = "high"
    /\ port = "on"
    /\ files = "open"
    /\ log = <<>>
    /\ faults = 0

Next == Process \/ Trans \/ LoopRepeat

Spec == Init /\ [][Next]_vars

\* A sequential program: it runs on as long as it can.
FairSpec == Spec /\ WF_vars(Next)

-----------------------------------------------------------------------------
(* Properties. *)

TypeOK ==
    /\ algo \in Algorithms
    /\ stack \in Seq(Frame)
    /\ ret \in ReturnCodes
    /\ mode \in {"idle", "step", "return", "hung", "done"}
    /\ algoBuffer \in [0..MAXBUF -> 0..255]
    /\ cs \in {"high", "low"}
    /\ port \in {"on", "off", "stuck"}
    /\ files \in {"open", "closed"}
    /\ faults \in 0..MaxFaults

\* While a loop is executed out of algoBuffer nobody writes to it: the loops
\* nested in it are executed in place.
Executing == \E i \in 1..Len(stack) :
                 /\ stack[i].kind \in {"LOOP", "REPEAT"}
                 /\ stack[i].src.file
                 /\ ~stack[i].scanning

BodyIntact == [][Executing => UNCHANGED algoBuffer]_vars

\* What is executed out of algoBuffer lies within the body of the outermost
\* loop, though the sizes handed to nested calls are too large (core.c:469, 514,
\* 546, 930): a transmission that a body leaves open reads the one byte behind
\* it and ends there.
Outermost == CHOOSE i \in 1..Len(stack) : stack[i].src.file /\ ~stack[i].scanning
                                          /\ stack[i].kind \in {"LOOP", "REPEAT"}

ReadsInBody ==
    mode = "step" /\ Executing =>
        \A i \in 1..(Outermost - 1) :
            stack[i].kind \in {"process", "trans"}
                => stack[i].src.base + stack[i].idx <= stack[Outermost].size + 1

\* A run that passes has closed its files and called SPI_final(): the port is off,
\* unless the command to turn it off came to nothing (core.c:614-620).
PassIsClean ==
    mode = "done" /\ ret = PROC_OVER => port \in {"off", "stuck"} /\ files = "closed"

\* It has left the FPGA deselected, if the algorithm ends what it starts.
PassDeselects == mode = "done" /\ ret = PROC_OVER => cs = "high"

\* A run passes only where the file has its ENDOFALGO: neither the end of a
\* buffered body nor an ENDOFALGO in one, which SSPIEm_process() reports by the
\* same code, ends it (core.c:601, 1276).
PassOnlyAtEnd ==
    [][mode # "done" /\ mode' = "done" /\ ret' = PROC_OVER
          => Top.src.file /\ ByteAt(Top.src, Top.idx, 0) = ENDOFALGO]_vars

\* The calls whose failure each of these codes reports.
Reports == [c \in {PROC_FAIL, ERROR_PROC_DATA, ERROR_PROC_HARDWARE, ERROR_INIT_DATA} |->
              CASE c = PROC_FAIL -> {"trst"}
                [] c = ERROR_PROC_DATA -> {"reset"}
                [] c = ERROR_PROC_HARDWARE -> {"start", "end"}
                [] c = ERROR_INIT_DATA -> {"tx", "rx"}]

\* The FPGA has sent something else than was expected, or a read failed and what
\* the buffer still held was something else.
Differed == \E i \in 1..Len(log) : log[i] \in {<<"rx", "mismatch">>, <<"rx", "stale">>}

\* The log tells why there should be the code c.
Told(c) ==
    /\ c \in DOMAIN Reports
         => log # <<>> /\ \E what \in Reports[c] : log[Len(log)] = <<what, "failed">>
    /\ c = ERROR_VERIFICATION => Differed

\* What a run ends with is what went wrong in it.  A code handed up through
\* transmissions, bodies, loops and repeats, with what an iteration before came to
\* still in ret, is that of the last call made, which failed; and a verification
\* fails only if the FPGA has sent something else than was expected, or has not been
\* heard at all (core.c:428-597, 898-912, 1123, 1274; hardware.c:340-343).
CodeTold == mode = "done" => Told(ret)

\* The interpreter comes to an end (core.c returns ERROR_PROC_ALGO where the
\* algorithm breaks off: 433, 714, 724, 735, 968).
Terminates == <>(mode = "done")

\* A run that passes has lost no transfer: TRANS_transmitBytes() "returns 1 if
\* success, or 0 if fail" (hardware.c:283), and 0 ends the run.
PassDelivered == mode = "done" /\ ret = PROC_OVER
                     => \A i \in 1..Len(log) : log[i] # <<"tx", "lost">>

\* A run of an algorithm without loops that passes has seen no mismatch:
\* proc_TRANS() returns "PROC_FAIL - Transmission fail or mismatch appears"
\* (core.c:638).
PassMatched == mode = "done" /\ ret = PROC_OVER
                   => \A i \in 1..Len(log) : log[i] # <<"rx", "mismatch">>

=============================================================================

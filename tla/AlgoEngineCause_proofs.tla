----------------------- MODULE AlgoEngineCause_proofs -----------------------
(***************************************************************************)
(* What the code of a run tells of the calls that were made in it, for     *)
(* every algorithm file, well formed or not.                               *)
(***************************************************************************)
EXTENDS AlgoEngine_proofs

\* A transmission that is going on has seen a mismatch.
Flagged == \E i \in 1..Len(stack) : stack[i].mismatch

\* What is being returned, or has been, has its cause in the log, and so has every
\* mismatch that proc_TRANS() still has to return.
CauseInv ==
    /\ mode \in {"return", "done"} => Told(ret)
    /\ Flagged => Differed

\* The log after the step tells why there should be the code c.
TellsOf(c) ==
    /\ c \in DOMAIN Reports
         => log' # <<>> /\ \E what \in Reports[c] : log'[Len(log')] = <<what, "failed">>
    /\ c = ERROR_VERIFICATION => Differed'

\* A step makes one call of the layers below, or none.
Grown == log' = log \/ \E e \in Entry : log' = Append(log, e)

\* A frame takes its mismatch from the frame on top, or from what is in the log.
Marks(f) == f.mismatch => Top.mismatch \/ Differed'

-----------------------------------------------------------------------------
(* The codes and the log. *)

\* Some codes need no cause in the log.
LEMMA PlainCodes ==
    ASSUME NEW c \in {PROC_COMPLETE, PROC_OVER, ERROR_PROC_ALGO, ERROR_LOOP_COND}
    PROVE  TellsOf(c)
BY DEF TellsOf, Reports, PROC_COMPLETE, PROC_OVER, ERROR_PROC_ALGO, ERROR_LOOP_COND, PROC_FAIL,
       ERROR_PROC_DATA, ERROR_PROC_HARDWARE, ERROR_INIT_DATA, ERROR_VERIFICATION

\* A call that fails is the cause of its code.
LEMMA FailedCodes ==
    ASSUME log' # <<>>
    PROVE  /\ log'[Len(log')] = <<"trst", "failed">> => TellsOf(PROC_FAIL)
           /\ log'[Len(log')] = <<"reset", "failed">> => TellsOf(ERROR_PROC_DATA)
           /\ log'[Len(log')] \in {<<"start", "failed">>, <<"end", "failed">>}
                => TellsOf(ERROR_PROC_HARDWARE)
           /\ log'[Len(log')] \in {<<"tx", "failed">>, <<"rx", "failed">>}
                => TellsOf(ERROR_INIT_DATA)
<1>1. /\ PROC_FAIL # ERROR_PROC_DATA /\ PROC_FAIL # ERROR_PROC_HARDWARE
      /\ PROC_FAIL # ERROR_INIT_DATA /\ PROC_FAIL # ERROR_VERIFICATION
      /\ ERROR_PROC_DATA # ERROR_PROC_HARDWARE /\ ERROR_PROC_DATA # ERROR_INIT_DATA
      /\ ERROR_PROC_DATA # ERROR_VERIFICATION /\ ERROR_PROC_HARDWARE # ERROR_INIT_DATA
      /\ ERROR_PROC_HARDWARE # ERROR_VERIFICATION /\ ERROR_INIT_DATA # ERROR_VERIFICATION
  BY DEF PROC_FAIL, ERROR_PROC_DATA, ERROR_PROC_HARDWARE, ERROR_INIT_DATA, ERROR_VERIFICATION
<1>2. /\ Reports[PROC_FAIL] = {"trst"} /\ Reports[ERROR_PROC_DATA] = {"reset"}
      /\ Reports[ERROR_PROC_HARDWARE] = {"start", "end"}
      /\ Reports[ERROR_INIT_DATA] = {"tx", "rx"}
  BY <1>1 DEF Reports
<1> QED
  BY <1>1, <1>2 DEF TellsOf

\* A call that succeeds is one call.
LEMMA DoneGrows == ASSUME NEW what \in Words, Done(what) PROVE Grown
<1>1. <<what, "ok">> \in Entry
  BY DEF Entry, Words
<1> QED
  BY <1>1 DEF Done, Grown

\* So is one that goes wrong.
LEMMA FaultGrows == ASSUME NEW what \in Words, NEW how \in Words, Fault(what, how) PROVE Grown
<1>1. <<what, how>> \in Entry
  BY DEF Entry
<1> QED
  BY <1>1 DEF Fault, Grown

\* And a transfer whose loss nobody sees.
LEMMA SentGrows == ASSUME NEW what \in Words, Sent(what) PROVE Grown
BY DoneGrows, FaultGrows DEF Sent, Words

\* Without a call the log is as it was.
LEMMA NothingGrows == UnchangedHw => Grown
BY DEF UnchangedHw, hwVars, Grown

\* What has been received stays in the log.
LEMMA DifferedStays == ASSUME Types, Grown, Differed PROVE Differed'
<1>1. PICK i \in 1..Len(log) : log[i] \in {<<"rx", "mismatch">>, <<"rx", "stale">>}
  BY DEF Differed
<1>2. log \in Seq(Entry)
  BY DEF Types
<1>3. CASE log' = log
  BY <1>1, <1>3 DEF Differed
<1>4. ASSUME NEW e \in Entry, log' = Append(log, e) PROVE Differed'
  <2>1. i \in 1..Len(log') /\ log'[i] = log[i]
    BY <1>2, <1>4
  <2> QED
    BY <1>1, <2>1 DEF Differed
<1> QED
  BY <1>3, <1>4 DEF Grown

\* A mismatch is put in the log.
LEMMA MismatchDiffers ==
    ASSUME Types, NEW how \in {"mismatch", "stale"}, Fault("rx", how) PROVE Differed'
<1>1. log' # <<>> /\ log'[Len(log')] = <<"rx", how>> /\ log' \in Seq(Entry)
  BY FaultKeeps DEF Words, LogKept
<1>2. Len(log') \in 1..Len(log')
  BY <1>1
<1> QED
  BY <1>1, <1>2 DEF Differed

-----------------------------------------------------------------------------
(* What the calls and returns do to the causes. *)

\* The mismatches after a step are those before it, or are in the log.
LEMMA CauseKept ==
    ASSUME Types, CauseInv, Grown, Flagged' => Flagged \/ Differed',
           mode' \in {"return", "done"} => TellsOf(ret')
    PROVE  CauseInv'
<1>1. Flagged' => Differed'
  BY DifferedStays DEF CauseInv
<1>2. mode' \in {"return", "done"} => Told(ret)'
  BY DEF TellsOf, Told
<1> QED
  BY <1>1, <1>2 DEF CauseInv

\* The frame on top is one of the frames.
LEMMA TopFlag == ASSUME Types, stack # <<>>, Top.mismatch PROVE Flagged
<1>1. 1 \in 1..Len(stack)
  BY DEF Types
<1> QED
  BY <1>1 DEF Flagged, Top

\* The frame on top goes on.
LEMMA GotoCause ==
    ASSUME Types, CauseInv, stack # <<>>, Grown, NEW f, Goto(f), Marks(f)
    PROVE  CauseInv'
<1>1. stack \in Seq(Frame) /\ Len(stack) \in Nat \ {0}
  BY DEF Types
<1>2. Len(stack') = Len(stack) /\ stack'[1] = f /\ \A i \in 2..Len(stack) : stack'[i] = stack[i]
  <2>1. stack' = [stack EXCEPT ![1] = f]
    BY DEF Goto
  <2> QED
    BY <1>1, <2>1
<1>3. ASSUME NEW i \in 1..Len(stack'), stack'[i].mismatch PROVE Flagged \/ Differed'
  <2>1. CASE i = 1
    BY <1>2, <1>3, <2>1, TopFlag DEF Marks
  <2>2. CASE i # 1
    <3>1. i \in 2..Len(stack) /\ i \in 1..Len(stack)
      BY <1>1, <1>2, <2>2
    <3> QED
      BY <1>2, <1>3, <3>1 DEF Flagged
  <2> QED
    BY <2>1, <2>2
<1>4. Flagged' => Flagged \/ Differed'
  BY <1>3 DEF Flagged
<1>5. mode' = "step"
  BY DEF Goto
<1> QED
  BY <1>4, <1>5, CauseKept

\* A call is made, of a function that has seen no mismatch.
LEMMA CallCause ==
    ASSUME Types, CauseInv, stack # <<>>, Grown, NEW frame, NEW f, Call(frame, f),
           ~frame.mismatch, Marks(f)
    PROVE  CauseInv'
<1>1. stack \in Seq(Frame) /\ Len(stack) \in Nat \ {0}
  BY DEF Types
<1>2. /\ Len(stack') = Len(stack) + 1 /\ stack'[1] = frame /\ stack'[2] = f
      /\ \A i \in 3..(Len(stack) + 1) : stack'[i] = stack[i - 1]
  <2>1. stack' = <<frame, f>> \o Tail(stack)
    BY DEF Call
  <2> QED
    BY <1>1, <2>1
<1>3. ASSUME NEW i \in 1..Len(stack'), stack'[i].mismatch PROVE Flagged \/ Differed'
  <2>1. CASE i = 1
    BY <1>2, <1>3, <2>1
  <2>2. CASE i = 2
    BY <1>2, <1>3, <2>2, TopFlag DEF Marks
  <2>3. CASE i # 1 /\ i # 2
    <3>1. i \in 3..(Len(stack) + 1) /\ i - 1 \in 1..Len(stack)
      BY <1>1, <1>2, <2>3
    <3> QED
      BY <1>2, <1>3, <3>1 DEF Flagged
  <2> QED
    BY <2>1, <2>2, <2>3
<1>4. Flagged' => Flagged \/ Differed'
  BY <1>3 DEF Flagged
<1>5. mode' = "step"
  BY DEF Call
<1> QED
  BY <1>4, <1>5, CauseKept

\* The call on top returns a code that has its cause.
LEMMA ReturnCause ==
    ASSUME Types, CauseInv, stack # <<>>, Grown, NEW code, NEW used, Return(code, used),
           TellsOf(code)
    PROVE  CauseInv'
<1>1. stack \in Seq(Frame) /\ Len(stack) \in Nat \ {0}
  BY DEF Types
<1>2. TellsOf(ret')
  BY DEF Return
<1>3. CASE Len(stack) = 1
  <2>1. stack' = <<>>
    BY <1>3 DEF Return
  <2>2. ~Flagged'
    BY <2>1 DEF Flagged
  <2> QED
    BY <1>2, <2>2, CauseKept
<1>4. CASE Len(stack) # 1
  <2> DEFINE rest == Tail(stack)
  <2>1. rest \in Seq(Frame) /\ Len(rest) = Len(stack) - 1 /\ Len(rest) \in Nat \ {0}
        /\ \A i \in 1..Len(rest) : rest[i] = stack[i + 1]
    BY <1>1, <1>4
  <2>2. stack' = [rest EXCEPT ![1].idx = @ + used]
    BY <1>4 DEF Return
  <2>3. Len(stack') = Len(rest) /\ \A i \in 2..Len(rest) : stack'[i] = rest[i]
    <3> HIDE DEF rest
    <3> QED
      BY <2>1, <2>2
  <2>4. stack'[1] = [rest[1] EXCEPT !.idx = @ + used] /\ rest[1] \in Frame
    <3> HIDE DEF rest
    <3> QED
      BY <2>1, <2>2
  <2>5. stack'[1].mismatch = rest[1].mismatch
    <3> HIDE DEF rest
    <3> QED
      BY <2>4 DEF Frame
  <2> HIDE DEF rest
  <2>6. ASSUME NEW i \in 1..Len(stack'), stack'[i].mismatch PROVE Flagged
    <3>1. i \in 1..Len(rest) /\ i + 1 \in 1..Len(stack)
      BY <1>1, <2>1, <2>3
    <3>2. stack'[i].mismatch = rest[i].mismatch
      <4>1. CASE i = 1
        BY <2>5, <4>1
      <4>2. CASE i # 1
        BY <2>1, <2>3, <3>1, <4>2
      <4> QED
        BY <4>1, <4>2
    <3>3. stack[i + 1].mismatch
      BY <2>1, <2>6, <3>1, <3>2
    <3> QED
      BY <3>1, <3>3 DEF Flagged
  <2>7. Flagged' => Flagged
    BY <2>6 DEF Flagged
  <2> QED
    BY <1>2, <2>7, CauseKept
<1> QED
  BY <1>3, <1>4

\* A read that does not end.
LEMMA HangCause == ASSUME Types, CauseInv, Grown, Hang PROVE CauseInv'
<1>1. Flagged' => Flagged
  BY DEF Hang, Flagged
<1>2. mode' = "hung"
  BY DEF Hang
<1> QED
  BY <1>1, <1>2, CauseKept

\* The frame on top takes over its own mismatch, wherever it goes on.
LEMMA TopMarks ==
    ASSUME Types, stack # <<>>
    PROVE  /\ Marks(Top)
           /\ \A i, op : Marks([Top EXCEPT !.idx = i, !.op = op])
           /\ \A n, in : Marks([Top EXCEPT !.trCount = n, !.transin = in])
           /\ \A i : Marks([Top EXCEPT !.scanning = FALSE, !.idx = i])
           /\ \A i, op, nest, n :
                 Marks([Top EXCEPT !.idx = i, !.op = op, !.nest = nest, !.size = n])
           /\ \A n : Marks([Top EXCEPT !.count = n])
<1>1. Top \in Frame
  BY TopRead
<1> QED
  BY <1>1 DEF Marks, Frame

\* A function that is called has seen no mismatch.
LEMMA NewUnmarked ==
    ASSUME NEW kind, NEW src, NEW op, NEW max
    PROVE  ~NewFrame(kind, src, op, max).mismatch
BY DEF NewFrame

\* The next opcode of a transmission, or the end of its buffer.
LEMMA FetchCause ==
    ASSUME Types, CauseInv, stack # <<>>, Grown, NEW f \in Frame, NEW i, NEW c,
           Fetch(f, i, c), Marks(f)
    PROVE  CauseInv'
<1> DEFINE g == [f EXCEPT !.idx = i + 1, !.op = ByteAt(f.src, i, c)]
<1>1. CASE Avail(f.src, i)
  <2>1. Goto(g)
    BY <1>1 DEF Fetch
  <2>2. Marks(g)
    BY DEF Marks, Frame
  <2> HIDE DEF g
  <2> QED
    BY <2>1, <2>2, GotoCause
<1>2. CASE ~Avail(f.src, i)
  <2>1. Return(ERROR_PROC_ALGO, i)
    BY <1>2 DEF Fetch
  <2> QED
    BY <2>1, PlainCodes, ReturnCause
<1> QED
  BY <1>1, <1>2

-----------------------------------------------------------------------------
(* SSPIEm_process(). *)

\* The next opcode.
LEMMA GoOnCause ==
    ASSUME Types, CauseInv, stack # <<>>, Grown, NEW i, GoOn(i)
    PROVE  CauseInv'
<1> DEFINE f == [Top EXCEPT !.idx = i, !.op = Opcode]
<1>1. Goto(f) /\ Marks(f)
  BY TopMarks DEF GoOn
<1> HIDE DEF f
<1> QED
  BY <1>1, GotoCause

\* Its loop is left with a code that has its cause.
LEMMA LeaveCause ==
    ASSUME Types, CauseInv, stack # <<>>, Grown, NEW code, Leave(code), TellsOf(code)
    PROVE  CauseInv'
BY ReturnCause DEF Leave

\* A step that calls nobody below and hangs, goes on or gives the algorithm up.
LEMMA QuietCause ==
    ASSUME Types, CauseInv, stack # <<>>, log' = log,
           NEW code \in {PROC_COMPLETE, PROC_OVER, ERROR_PROC_ALGO, ERROR_LOOP_COND}, NEW used,
           Hang \/ Return(code, used) \/ Leave(code)
    PROVE  CauseInv'
<1>1. Grown /\ TellsOf(code)
  BY PlainCodes DEF Grown
<1> QED
  BY <1>1, HangCause, ReturnCause, LeaveCause

\* A loop is called.
LEMMA CallLoopCause ==
    ASSUME Types, CauseInv, stack # <<>>, NEW op, NEW n, NEW i, CallLoop(op, n, i)
    PROVE  CauseInv'
<1> DEFINE frame == LoopFrame(op, n, i)
           f == [Top EXCEPT !.idx = i, !.op = op]
<1>1. Call(frame, f) /\ Grown
  BY NothingGrows DEF CallLoop
<1>2. Marks(f) /\ ~frame.mismatch
  BY TopMarks, NewUnmarked DEF LoopFrame
<1> HIDE DEF frame, f
<1> QED
  BY <1>1, <1>2, CallCause

\* What is assumed of a step: it begins in a state of the invariants.
Before == EngineInv /\ CauseInv

\* There is a frame on top as long as the interpreter runs.
LEMMA BeforeRead ==
    ASSUME Before, mode \in {"step", "return"}
    PROVE  Types /\ CauseInv /\ stack # <<>> /\ Top \in Frame
<1>1. Types /\ CauseInv /\ stack # <<>>
  BY DEF Before, EngineInv, Running
<1> QED
  BY <1>1, TopRead

\* The end of a body, of the algorithm, and an opcode that is none.
LEMMA ProcEndsCause ==
    ASSUME Before, ProcEnd \/ ProcEndOfAlgo \/ ProcUnrecognized PROVE CauseInv'
<1>1. mode = "step" /\ log' = log
  BY DEF ProcEnd, ProcEndOfAlgo, ProcUnrecognized, Fetched, Stepping, UnchangedHw, hwVars
<1>2. Return(PROC_OVER, 0) \/ Leave(PROC_OVER) \/ Return(ERROR_PROC_ALGO, 0)
  BY DEF ProcEnd, ProcEndOfAlgo, ProcUnrecognized
<1> QED
  BY <1>1, <1>2, BeforeRead, QuietCause

\* HCOMMENT
LEMMA ProcCommentCause == ASSUME Before, ProcComment PROVE CauseInv'
<1>1. mode = "step" /\ log' = log /\ Grown
  BY NothingGrows DEF ProcComment, Fetched, Stepping, UnchangedHw, hwVars
<1>2. Hang \/ Return(ERROR_PROC_ALGO, 0) \/ \E i : GoOn(i)
  BY DEF ProcComment
<1> QED
  BY <1>1, <1>2, BeforeRead, QuietCause, GoOnCause

\* STARTTRAN
LEMMA ProcStartTranCause == ASSUME Before, ProcStartTran PROVE CauseInv'
<1>1. Types /\ CauseInv /\ stack # <<>>
  BY BeforeRead DEF ProcStartTran, Fetched, Stepping
<1>2. CASE Done("start") /\ GoOn(After)
  BY <1>1, <1>2, DoneGrows, GoOnCause DEF Words
<1>3. CASE Fault("start", "failed") /\ Return(ERROR_PROC_HARDWARE, 0)
  <2>1. Grown /\ TellsOf(ERROR_PROC_HARDWARE)
    BY <1>1, <1>3, FaultGrows, FaultKeeps, FailedCodes DEF Words
  <2> QED
    BY <1>1, <1>3, <2>1, ReturnCause
<1> QED
  BY <1>2, <1>3 DEF ProcStartTran

\* proc_TRANS() is called.
LEMMA ProcTransCause == ASSUME Before, ProcTrans PROVE CauseInv'
<1>1. PICK op \in {TRANSIN, TRANSOUT} :
        /\ Fetched(op)
        /\ Call(NewFrame("trans", From(Top.src, After), op, 0), [Top EXCEPT !.idx = After, !.op = op])
  BY DEF ProcTrans
<1>2. Types /\ CauseInv /\ stack # <<>> /\ Grown
  BY <1>1, BeforeRead, NothingGrows DEF ProcTrans, Fetched, Stepping
<1> DEFINE frame == NewFrame("trans", From(Top.src, After), op, 0)
           f == [Top EXCEPT !.idx = After, !.op = op]
<1>3. Call(frame, f) /\ Marks(f) /\ ~frame.mismatch
  BY <1>1, <1>2, TopMarks, NewUnmarked
<1> HIDE DEF frame, f
<1> QED
  BY <1>2, <1>3, CallCause

\* RUNCLOCK and WAIT
LEMMA ProcWaitsCause == ASSUME Before, ProcRunClock \/ ProcWait PROVE CauseInv'
<1>1. Types /\ CauseInv /\ stack # <<>>
  BY BeforeRead DEF ProcRunClock, ProcWait, WithNumber, Fetched, Stepping
<1>2. \/ Hang /\ UnchangedHw
      \/ Leave(ERROR_PROC_ALGO) /\ log' = log
      \/ Sent("clk") /\ \E i : GoOn(i)
      \/ Done("wait") /\ \E i : GoOn(i)
  BY DEF ProcRunClock, ProcWait, WithNumber
<1>3. CASE Hang /\ UnchangedHw
  BY <1>1, <1>3, NothingGrows, HangCause
<1>4. CASE Leave(ERROR_PROC_ALGO) /\ log' = log
  BY <1>1, <1>4, QuietCause
<1>5. CASE (Sent("clk") \/ Done("wait")) /\ \E i : GoOn(i)
  BY <1>1, <1>5, SentGrows, DoneGrows, GoOnCause DEF Words
<1> QED
  BY <1>2, <1>3, <1>4, <1>5

\* REPEAT and LOOP
LEMMA ProcLoopsCause == ASSUME Before, ProcRepeat \/ ProcLoop PROVE CauseInv'
<1>1. Types /\ CauseInv /\ stack # <<>>
  BY BeforeRead DEF ProcRepeat, ProcLoop, WithNumber, Fetched, Stepping
<1>2. \/ Hang /\ UnchangedHw
      \/ Leave(ERROR_PROC_ALGO) /\ log' = log
      \/ \E op, n, i : CallLoop(op, n, i)
  BY DEF ProcRepeat, ProcLoop, WithNumber
<1>3. CASE Hang /\ UnchangedHw
  BY <1>1, <1>3, NothingGrows, HangCause
<1>4. CASE Leave(ERROR_PROC_ALGO) /\ log' = log
  BY <1>1, <1>4, QuietCause
<1>5. CASE \E op, n, i : CallLoop(op, n, i)
  BY <1>1, <1>5, CallLoopCause
<1> QED
  BY <1>2, <1>3, <1>4, <1>5

\* TRSTTOGGLE
LEMMA ProcTrstToggleCause == ASSUME Before, ProcTrstToggle PROVE CauseInv'
<1>1. Types /\ CauseInv /\ stack # <<>>
  BY BeforeRead DEF ProcTrstToggle, Fetched, Stepping
<1>2. \/ Hang /\ UnchangedHw
      \/ Done("trst") /\ \E i : GoOn(i)
      \/ Fault("trst", "failed") /\ Leave(PROC_FAIL)
  BY DEF ProcTrstToggle
<1>3. CASE Hang /\ UnchangedHw
  BY <1>1, <1>3, NothingGrows, HangCause
<1>4. CASE Done("trst") /\ \E i : GoOn(i)
  BY <1>1, <1>4, DoneGrows, GoOnCause DEF Words
<1>5. CASE Fault("trst", "failed") /\ Leave(PROC_FAIL)
  <2>1. Grown /\ TellsOf(PROC_FAIL)
    BY <1>1, <1>5, FaultGrows, FaultKeeps, FailedCodes DEF Words
  <2> QED
    BY <1>1, <1>5, <2>1, LeaveCause
<1> QED
  BY <1>2, <1>3, <1>4, <1>5

\* RESETDATA
LEMMA ProcResetDataCause == ASSUME Before, ProcResetData PROVE CauseInv'
<1>1. Types /\ CauseInv /\ stack # <<>>
  BY BeforeRead DEF ProcResetData, Fetched, Stepping
<1>2. CASE Done("reset") /\ GoOn(After)
  BY <1>1, <1>2, DoneGrows, GoOnCause DEF Words
<1>3. CASE Fault("reset", "failed") /\ Leave(ERROR_PROC_DATA)
  <2>1. Grown /\ TellsOf(ERROR_PROC_DATA)
    BY <1>1, <1>3, FaultGrows, FaultKeeps, FailedCodes DEF Words
  <2> QED
    BY <1>1, <1>3, <2>1, LeaveCause
<1> QED
  BY <1>2, <1>3 DEF ProcResetData

\* ENDTRAN
LEMMA ProcEndTranCause == ASSUME Before, ProcEndTran PROVE CauseInv'
<1>1. Types /\ CauseInv /\ stack # <<>>
  BY BeforeRead DEF ProcEndTran, Fetched, Stepping
<1>2. CASE Done("end") /\ GoOn(After)
  BY <1>1, <1>2, DoneGrows, GoOnCause DEF Words
<1>3. CASE Fault("end", "failed") /\ Leave(ERROR_PROC_HARDWARE)
  <2>1. Grown /\ TellsOf(ERROR_PROC_HARDWARE)
    BY <1>1, <1>3, FaultGrows, FaultKeeps, FailedCodes DEF Words
  <2> QED
    BY <1>1, <1>3, <2>1, LeaveCause
<1> QED
  BY <1>2, <1>3 DEF ProcEndTran

\* While no call is made, what has been returned keeps its cause.
LEMMA ReturnedTold == ASSUME CauseInv, mode = "return", log' = log PROVE TellsOf(ret)
BY DEF CauseInv, Told, TellsOf, Differed

\* A call it made has returned: its code is handed on, or that of the loop.
LEMMA ProcResumeCause == ASSUME Before, ProcResume PROVE CauseInv'
<1>1. /\ Types /\ CauseInv /\ stack # <<>> /\ mode = "return"
  BY BeforeRead DEF ProcResume
<1>2. \/ Goto(Top) /\ UnchangedHw
      \/ Leave(ERROR_LOOP_COND) /\ log' = log
      \/ Leave(ret) /\ log' = log
  BY DEF ProcResume
<1>3. CASE Goto(Top) /\ UnchangedHw
  BY <1>1, <1>3, NothingGrows, TopMarks, GotoCause
<1>4. CASE Leave(ERROR_LOOP_COND) /\ log' = log
  BY <1>1, <1>4, QuietCause
<1>5. CASE Leave(ret) /\ log' = log
  <2>1. TellsOf(ret) /\ Grown
    BY <1>1, <1>5, ReturnedTold DEF Grown
  <2> QED
    BY <1>1, <1>5, <2>1, LeaveCause
<1> QED
  BY <1>2, <1>3, <1>4, <1>5

\* Every step of SSPIEm_process() keeps the causes.
LEMMA ProcessCause == ASSUME Before, Process PROVE CauseInv'
BY ProcEndsCause, ProcCommentCause, ProcStartTranCause, ProcTransCause, ProcWaitsCause,
   ProcLoopsCause, ProcTrstToggleCause, ProcResetDataCause, ProcEndTranCause, ProcResumeCause
   DEF Process

-----------------------------------------------------------------------------
(* proc_TRANS(). *)

\* What holds when proc_TRANS() looks at an opcode.
LEMMA TransRead ==
    ASSUME Before, NEW op, At(op)
    PROVE  Types /\ CauseInv /\ stack # <<>> /\ Top \in Frame
BY BeforeRead DEF At, Stepping

\* A transmission that calls nobody below and hangs or is given up.
LEMMA GiveUpCause ==
    ASSUME Types, CauseInv, stack # <<>>, UnchangedHw, Hang \/ GiveUp(ERROR_PROC_ALGO)
    PROVE  CauseInv'
BY QuietCause DEF GiveUp, UnchangedHw, hwVars

\* The transmission goes on on the frame as it is.
LEMMA FetchTopCause ==
    ASSUME Types, CauseInv, stack # <<>>, Grown, NEW i, NEW c, Fetch(Top, i, c)
    PROVE  CauseInv'
BY TopRead, TopMarks, FetchCause

\* A call below that failed ends the transmission.
LEMMA FailedDataCause ==
    ASSUME Types, CauseInv, stack # <<>>, NEW what \in {"tx", "rx"}, Fault(what, "failed"),
           GiveUp(ERROR_INIT_DATA)
    PROVE  CauseInv'
<1>1. Grown /\ TellsOf(ERROR_INIT_DATA)
  BY FaultGrows, FaultKeeps, FailedCodes DEF Words
<1> QED
  BY <1>1, ReturnCause DEF GiveUp

\* HCOMMENT, MASK, RESETDATA, WAIT and RUNCLOCK within a transmission.
LEMMA TransPlainCause ==
    ASSUME Before,
           TransComment \/ TransMask \/ TransResetData \/ TransWait \/ TransRunClock
    PROVE  CauseInv'
<1>1. Types /\ CauseInv /\ stack # <<>>
  BY TransRead DEF TransComment, TransMask, TransResetData, TransWait, TransRunClock, TransNumber
<1>2. \/ (Hang \/ GiveUp(ERROR_PROC_ALGO)) /\ UnchangedHw
      \/ Grown /\ \E i, c : Fetch(Top, i, c)
  <2>1. CASE TransComment
    BY <2>1, NothingGrows DEF TransComment
  <2>2. CASE TransMask
    BY <2>2, NothingGrows DEF TransMask
  <2>3. CASE TransResetData
    BY <2>3, DoneGrows, FaultGrows DEF TransResetData, Words, FetchNext
  <2>4. CASE TransWait
    <3>1. \/ (Hang \/ GiveUp(ERROR_PROC_ALGO)) /\ UnchangedHw
          \/ Done("wait") /\ \E i, c : Fetch(Top, i, c)
      BY <2>4 DEF TransWait, TransNumber
    <3> QED
      BY <3>1, DoneGrows DEF Words
  <2>5. CASE TransRunClock
    <3>1. \/ (Hang \/ GiveUp(ERROR_PROC_ALGO)) /\ UnchangedHw
          \/ Sent("clk") /\ \E i, c : Fetch(Top, i, c)
      BY <2>5 DEF TransRunClock, TransNumber
    <3> QED
      BY <3>1, SentGrows DEF Words
  <2> QED
    BY <2>1, <2>2, <2>3, <2>4, <2>5
<1> QED
  BY <1>1, <1>2, GiveUpCause, FetchTopCause

\* TRANSOUT and TRANSIN set the size and the direction.
LEMMA TransDirectedCause == ASSUME Before, TransOut \/ TransIn PROVE CauseInv'
<1>1. Types /\ CauseInv /\ stack # <<>> /\ Top \in Frame
  BY TransRead DEF TransOut, TransIn, TransNumber
<1> DEFINE n == Number(Top.src, Top.idx)
           f(in) == [Top EXCEPT !.trCount = n.val, !.transin = in]
<1>2. \/ (Hang \/ GiveUp(ERROR_PROC_ALGO)) /\ UnchangedHw
      \/ Grown /\ \E in \in BOOLEAN : \E i, c : Fetch(f(in), i, c) /\ n.val \in Nat
      \/ Fault("tx", "failed") /\ GiveUp(ERROR_INIT_DATA)
  <2>1. CASE n.val \in {Endless, PROC_FAIL}
    BY <2>1, Zenon DEF TransOut, TransIn, TransNumber
  <2>2. CASE n.val \notin {Endless, PROC_FAIL}
    <3>1. n.val \in Nat
      <4>1. Top.idx \in Nat
        BY <1>1, TopRead
      <4> QED
        BY <1>1, <2>2, <4>1, NumberCases
    <3>2. CASE TransOut
      <4>1. \/ GiveUp(ERROR_PROC_ALGO) /\ UnchangedHw
            \/ Sent("tx") /\ \E i, c : Fetch(f(FALSE), i, c)
            \/ Fault("tx", "failed") /\ GiveUp(ERROR_INIT_DATA)
        BY <2>2, <3>2, Zenon DEF TransOut, TransNumber, SendData
      <4>2. "tx" \in Words
        BY DEF Words
      <4> HIDE DEF n, f
      <4> QED
        BY <3>1, <4>1, <4>2, SentGrows
    <3>3. CASE TransIn
      <4>1. UnchangedHw /\ \E i, c : Fetch(f(TRUE), i, c)
        BY <2>2, <3>3, Zenon DEF TransIn, TransNumber
      <4> HIDE DEF n, f
      <4> QED
        BY <3>1, <4>1, NothingGrows
    <3>4. TransOut \/ TransIn
      OBVIOUS
    <3> HIDE DEF n, f
    <3> QED
      BY <3>2, <3>3, <3>4
  <2> HIDE DEF n, f
  <2> QED
    BY <2>1, <2>2
<1>3. ASSUME NEW in \in BOOLEAN, n.val \in Nat PROVE f(in) \in Frame /\ Marks(f(in))
  BY <1>1, <1>3, TopMarks DEF Frame
<1> HIDE DEF n, f
<1>4. CASE (Hang \/ GiveUp(ERROR_PROC_ALGO)) /\ UnchangedHw
  BY <1>1, <1>4, GiveUpCause
<1>5. CASE Grown /\ \E in \in BOOLEAN : \E i, c : Fetch(f(in), i, c) /\ n.val \in Nat
  BY <1>1, <1>3, <1>5, FetchCause
<1>6. CASE Fault("tx", "failed") /\ GiveUp(ERROR_INIT_DATA)
  BY <1>1, <1>6, FailedDataCause
<1> QED
  BY <1>2, <1>4, <1>5, <1>6

\* A comparison that finds a difference.
Unlike == \E how \in {"mismatch", "stale"} : Fault("rx", how)

\* ALGODATA, PROGDATA and PROGDATAEH: what is received is compared.
LEMMA TransDataCause == ASSUME Before, TransAlgoData \/ TransProgData PROVE CauseInv'
<1>1. Types /\ CauseInv /\ stack # <<>> /\ Top \in Frame
  BY TransRead DEF TransAlgoData, TransProgData
<1> DEFINE f == Mismatched(Top)
<1>2. \/ Sent("tx") /\ \E i, c : Fetch(Top, i, c)
      \/ Compared /\ (GiveUp(ERROR_PROC_ALGO) \/ \E i, c : Fetch(Top, i, c))
      \/ Unlike /\ \E i, c : Fetch(f, i, c)
      \/ (Fault("tx", "failed") \/ Fault("rx", "failed")) /\ GiveUp(ERROR_INIT_DATA)
  <2>1. CASE TransAlgoData
    BY <2>1, Zenon DEF TransAlgoData, Received, Compared, Unlike, FetchNext, Mismatched
  <2>2. CASE TransProgData
    BY <2>2, Zenon DEF TransProgData, SendData, Received, Compared, Unlike, FetchNext, Mismatched
  <2> QED
    BY <2>1, <2>2
<1>3. f \in Frame
  BY <1>1, MismatchedFrame
<1> HIDE DEF f
<1>4. Unlike => Marks(f)
  BY <1>1, MismatchDiffers DEF Marks, Unlike
<1>5. CASE Sent("tx") /\ \E i, c : Fetch(Top, i, c)
  BY <1>1, <1>5, SentGrows, FetchTopCause DEF Words
<1>6. CASE Compared /\ (GiveUp(ERROR_PROC_ALGO) \/ \E i, c : Fetch(Top, i, c))
  <2>1. Grown
    BY <1>6, DoneGrows, FaultGrows DEF Compared, Words
  <2>2. CASE GiveUp(ERROR_PROC_ALGO)
    BY <1>1, <2>1, <2>2, PlainCodes, ReturnCause DEF GiveUp
  <2> QED
    BY <1>1, <1>6, <2>1, <2>2, FetchTopCause
<1>7. CASE Unlike /\ \E i, c : Fetch(f, i, c)
  <2>1. Grown
    BY <1>7, FaultGrows DEF Unlike, Words
  <2> QED
    BY <1>1, <1>3, <1>4, <1>7, <2>1, FetchCause
<1>8. CASE (Fault("tx", "failed") \/ Fault("rx", "failed")) /\ GiveUp(ERROR_INIT_DATA)
  BY <1>1, <1>8, FailedDataCause
<1> QED
  BY <1>2, <1>5, <1>6, <1>7, <1>8

\* A transmission says that it has seen a mismatch only if there was one.
LEMMA VerdictTells == ASSUME Types, CauseInv, stack # <<>>, Grown PROVE TellsOf(Verdict(Top))
<1>1. CASE Top.mismatch
  <2>1. Differed'
    BY <1>1, TopFlag, DifferedStays DEF CauseInv
  <2>2. ERROR_VERIFICATION \notin DOMAIN Reports
    BY DEF Reports, ERROR_VERIFICATION, PROC_FAIL, ERROR_PROC_DATA, ERROR_PROC_HARDWARE,
       ERROR_INIT_DATA
  <2> QED
    BY <1>1, <2>1, <2>2 DEF Verdict, TellsOf
<1>2. CASE ~Top.mismatch
  BY <1>2, PlainCodes DEF Verdict
<1> QED
  BY <1>1, <1>2

\* ENDTRAN, and any other byte, end the transmission.
LEMMA TransEndsCause == ASSUME Before, TransEndTran \/ TransUnrecognized PROVE CauseInv'
<1>1. Types /\ CauseInv /\ stack # <<>>
  BY TransRead DEF TransEndTran, TransUnrecognized
<1>2. \/ Grown /\ Return(Verdict(Top), Top.idx)
      \/ Fault("end", "failed") /\ Return(ERROR_PROC_HARDWARE, Top.idx)
      \/ GiveUp(ERROR_PROC_ALGO) /\ UnchangedHw
  BY DoneGrows, NothingGrows DEF TransEndTran, TransUnrecognized, GiveUp, Words
<1>3. CASE Grown /\ Return(Verdict(Top), Top.idx)
  BY <1>1, <1>3, VerdictTells, ReturnCause
<1>4. CASE Fault("end", "failed") /\ Return(ERROR_PROC_HARDWARE, Top.idx)
  <2>1. Grown /\ TellsOf(ERROR_PROC_HARDWARE)
    BY <1>1, <1>4, FaultGrows, FaultKeeps, FailedCodes DEF Words
  <2> QED
    BY <1>1, <1>4, <2>1, ReturnCause
<1>5. CASE GiveUp(ERROR_PROC_ALGO) /\ UnchangedHw
  BY <1>1, <1>5, GiveUpCause
<1> QED
  BY <1>2, <1>3, <1>4, <1>5

\* A REPEAT within a transmission, and its return.
LEMMA TransRepeatsCause == ASSUME Before, TransRepeat \/ TransResume PROVE CauseInv'
<1>1. CASE TransRepeat
  <2>1. Types /\ CauseInv /\ stack # <<>>
    BY <1>1, TransRead DEF TransRepeat, TransNumber
  <2>2. \/ (Hang \/ GiveUp(ERROR_PROC_ALGO)) /\ UnchangedHw
        \/ \E n, i : CallLoop(REPEAT, n, i)
    BY <1>1 DEF TransRepeat, TransNumber
  <2> QED
    BY <2>1, <2>2, GiveUpCause, CallLoopCause
<1>2. CASE TransResume
  <2>1. Types /\ CauseInv /\ stack # <<>> /\ UnchangedHw
    BY <1>2, BeforeRead DEF TransResume
  <2>2. GiveUp(ERROR_PROC_ALGO) \/ Fetch(Top, Top.idx, Top.op)
    BY <1>2 DEF TransResume, FetchNext
  <2> QED
    BY <2>1, <2>2, NothingGrows, GiveUpCause, FetchTopCause
<1> QED
  BY <1>1, <1>2

\* Every step of proc_TRANS() keeps the causes.
LEMMA TransCause == ASSUME Before, Trans PROVE CauseInv'
BY TransPlainCause, TransDirectedCause, TransDataCause, TransEndsCause, TransRepeatsCause
   DEF Trans

-----------------------------------------------------------------------------
(* proc_LOOP() and proc_REPEAT(). *)

\* The body is executed once more.
LEMMA IterateCause ==
    ASSUME Types, CauseInv, stack # <<>>, Grown, NEW f, Iterate(f), Marks(f)
    PROVE  CauseInv'
<1> DEFINE frame == NewFrame("process", Body(f), 0, 0)
<1>1. Call(frame, f) /\ ~frame.mismatch
  BY NewUnmarked DEF Iterate
<1> HIDE DEF frame
<1> QED
  BY <1>1, CallCause

\* A byte of the body is counted.
LEMMA KeepCause ==
    ASSUME Types, CauseInv, stack # <<>>, log' = log, NEW nest, Keep(nest)
    PROVE  CauseInv'
<1> DEFINE f == [Top EXCEPT !.idx = After, !.op = Opcode, !.nest = nest, !.size = @ + 1]
<1>1. Return(ERROR_PROC_ALGO, After) \/ Goto(f)
  BY DEF Keep
<1>2. Marks(f) /\ Grown
  BY TopMarks DEF Grown
<1> HIDE DEF f
<1> QED
  BY <1>1, <1>2, QuietCause, GotoCause

\* Measuring the body calls nobody.
LEMMA ScanCause ==
    ASSUME Before, ScanEnd \/ ScanComment \/ ScanByte \/ ScanNestedEnd \/ ScanBodyEnd
    PROVE  CauseInv'
<1>1. mode = "step" /\ log' = log
  BY DEF ScanEnd, ScanComment, ScanByte, ScanNestedEnd, ScanBodyEnd, Scanning, UnchangedHw, hwVars
<1>2. Types /\ CauseInv /\ stack # <<>> /\ Grown
  BY <1>1, BeforeRead DEF Grown
<1>3. CASE ScanEnd \/ ScanByte \/ ScanNestedEnd
  <2>1. (\E used : Return(ERROR_PROC_ALGO, used)) \/ \E nest : Keep(nest)
    BY <1>3 DEF ScanEnd, ScanByte, ScanNestedEnd
  <2> QED
    BY <1>1, <1>2, <2>1, QuietCause, KeepCause
<1>4. CASE ScanComment
  <2>1. \/ Hang \/ Return(ERROR_PROC_ALGO, After)
        \/ \E i : Goto([Top EXCEPT !.idx = i, !.op = HCOMMENT])
    BY <1>4 DEF ScanComment
  <2>2. CASE Hang \/ Return(ERROR_PROC_ALGO, After)
    BY <1>1, <1>2, <2>2, QuietCause
  <2>3. CASE \E i : Goto([Top EXCEPT !.idx = i, !.op = HCOMMENT])
    BY <1>2, <2>3, TopMarks, GotoCause
  <2> QED
    BY <2>1, <2>2, <2>3
<1>5. CASE ScanBodyEnd
  <2> DEFINE f == [Top EXCEPT !.scanning = FALSE,
                              !.idx = IF Top.src.file THEN After ELSE Top.size + 1]
  <2>1. Return(ERROR_PROC_ALGO, After) \/ Iterate(f)
    BY <1>5 DEF ScanBodyEnd
  <2>2. Marks(f)
    BY <1>2, TopMarks
  <2> HIDE DEF f
  <2> QED
    BY <1>1, <1>2, <2>1, <2>2, QuietCause, IterateCause
<1> QED
  BY <1>3, <1>4, <1>5

\* An iteration has returned: the loop's code is that of the last.
LEMMA LoopResumeCause == ASSUME Before, LoopResume PROVE CauseInv'
<1>1. Types /\ CauseInv /\ stack # <<>> /\ mode = "return" /\ log' = log /\ Grown
  BY BeforeRead, NothingGrows DEF LoopResume, UnchangedHw, hwVars
<1> DEFINE f == [Top EXCEPT !.count = @ + 1]
<1>2. Iterate(f) \/ Return(PROC_COMPLETE, f.idx) \/ Return(ret, f.idx)
  BY DEF LoopResume
<1>3. Marks(f)
  BY <1>1, TopMarks
<1> HIDE DEF f
<1>4. CASE Iterate(f)
  BY <1>1, <1>3, <1>4, IterateCause
<1>5. CASE Return(PROC_COMPLETE, f.idx)
  BY <1>1, <1>5, QuietCause
<1>6. CASE Return(ret, f.idx)
  BY <1>1, <1>6, ReturnedTold, ReturnCause
<1> QED
  BY <1>2, <1>4, <1>5, <1>6

-----------------------------------------------------------------------------
(* The theorem. *)

\* The interpreter begins with no call made and none to return.
LEMMA InitCause == Init => CauseInv
<1> SUFFICES ASSUME Init PROVE CauseInv
  OBVIOUS
<1> DEFINE frame == NewFrame("process", [file |-> TRUE, base |-> 0, size |-> 0], 0, 0)
<1>1. stack = <<frame>> /\ mode = "step" /\ ~frame.mismatch
  BY NewUnmarked DEF Init
<1> HIDE DEF frame
<1> QED
  BY <1>1 DEF CauseInv, Flagged

\* The invariant is about nothing but the variables.
LEMMA StutterCause == ASSUME CauseInv, UNCHANGED vars PROVE CauseInv'
BY DEF CauseInv, Flagged, Told, Differed, vars, hwVars

\* Every step of the interpreter keeps the causes.
LEMMA NextCause == EngineInv /\ CauseInv /\ [Next]_vars => CauseInv'
BY ProcessCause, TransCause, ScanCause, LoopResumeCause, StutterCause
   DEF Before, Next, LoopRepeat

\* Whatever the algorithm, what a run ends with is what went wrong in it: where it
\* says which call failed, that call was the last and failed, and where it says
\* that the verification did, the FPGA has sent something else than was expected
\* (core.c:428-597, 898-912, 1123, 1274).
THEOREM CodesAreTold == Spec => []CodeTold
<1>1. CauseInv => CodeTold
  BY DEF CauseInv, CodeTold
<1> QED
  BY <1>1, InitCause, NextCause, EngineInvariant, PTL DEF Spec
=============================================================================

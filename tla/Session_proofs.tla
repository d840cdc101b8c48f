--------------------------- MODULE Session_proofs ---------------------------
(***************************************************************************)
(* What the exit status of the program tells, and what a run leaves on,    *)
(* for every algorithm file.                                               *)
(***************************************************************************)
EXTENDS Session, AlgoEngineCause_proofs, SequenceTheorems

\* The types of main()'s part of the state.
MainTypes ==
    /\ phase \in Phases
    /\ argc \in 1..3
    /\ image \in Seq(Byte)
    /\ field \in 1..(Len(Header) + 1)
    /\ pos \in Nat
    /\ signatures \in Seq({"ok", "failed"})

\* Both signatures have been answered.
Signatures == signatures = <<"ok", "ok">>

\* main() has come this far only with an algorithm on the command line, with both
\* signatures, and then with the data too.
Admitted ==
    /\ phase \notin {"main", "exit"} => argc > 1
    /\ phase \in {"preset", "spi", "files", "header", "data", "process"} => Signatures
    /\ phase \in {"spi", "files", "header", "data", "process"} => argc > 2

\* The interpreter runs when main() has called it, and what has been opened is.
Phased ==
    /\ mode = "idle" <=> phase \notin {"process"} /\ ~(phase = "exit" /\ mode = "done")
    /\ phase \in {"main", "open", "sign", "preset", "spi"} => port = "off" /\ files = "closed"
    /\ phase = "files" => port = "on" /\ files = "closed"
    /\ phase \in {"header", "data"} => port = "on" /\ files = "open"

\* The codes of SSPIEm_init() that leave the port on.
InitCodes == {ERROR_INIT_ALGO, ERROR_INIT, ERROR_INIT_VERSION, ERROR_INIT_CHECKSUM,
              ERROR_INIT_DATA}

\* The code with which main() returned is what it was given.
Exited ==
    phase = "exit" =>
        \/ mode = "idle" /\ code \in {1, ERROR_INIT} /\ port = "off"
        \/ mode = "idle" /\ code \in InitCodes \cup {ERROR_INIT_SPI} /\ port # "stuck"
        \/ mode = "done" /\ code = ret /\ argc > 2 /\ Signatures

\* The inductive invariant of a whole run.
SessionInv == EngineInv /\ MainTypes /\ Admitted /\ Phased /\ Exited

-----------------------------------------------------------------------------
(* Before the interpreter begins. *)

\* What main() and SSPIEm_init() do before that keeps the interpreter's invariant.
LEMMA IdleKeeps ==
    ASSUME SessionInv, mode = "idle", Idle, LogKept,
           cs' \in {"high", "low"}, port' \in {"on", "off"}, files' \in {"open", "closed"}
    PROVE  EngineInv'
<1>1. Types'
  BY DEF SessionInv, EngineInv, Types, BytesOK, Idle, LogKept
<1>2. Frames'
  BY DEF SessionInv, EngineInv, Frames, CallChain, FileBelow, Idle
<1>3. mode' = "idle"
  BY DEF Idle
<1>4. Running' /\ Holding' /\ FailTold'
  BY <1>3 DEF Running, Holding, FailTold
<1> QED
  BY <1>1, <1>2, <1>4 DEF EngineInv

\* The interpreter has not begun before main() calls it.
LEMMA StillIdle ==
    ASSUME SessionInv, phase \notin {"process", "exit"}
    PROVE  mode = "idle"
BY DEF SessionInv, Phased

\* A step that leaves all to main().
LEMMA OnlyMain ==
    ASSUME SessionInv, UNCHANGED vars
    PROVE  EngineInv' /\ UNCHANGED <<mode, port, files, ret>>
BY StutterEngine DEF SessionInv, vars, hwVars

\* What UNCHANGED hwVars keeps.
LEMMA HwKept ==
    ASSUME SessionInv, UNCHANGED hwVars
    PROVE  LogKept /\ UNCHANGED <<cs, port, files>>
BY DEF SessionInv, EngineInv, Types, LogKept, hwVars

\* A call of main() or SSPIEm_init() that fails is told in the log.
LEMMA FailedKeeps ==
    ASSUME SessionInv, NEW what \in Words, Failed(what)
    PROVE  LogKept
<1>1. "failed" \in Words /\ Types
  BY DEF Words, SessionInv, EngineInv
<1> QED
  BY <1>1, FaultKeeps DEF Failed

\* The pins have their types.
LEMMA PinTypes ==
    ASSUME SessionInv
    PROVE  cs \in {"high", "low"} /\ port \in {"on", "off", "stuck"} /\ files \in {"open", "closed"}
BY DEF SessionInv, EngineInv, Types

\* main() goes on: its part of the invariant.
LEMMA GoToKeeps ==
    ASSUME SessionInv, NEW p \in Phases, GoTo(p), UNCHANGED signatures
    PROVE  MainTypes'
BY DEF SessionInv, MainTypes, GoTo

\* main() returns: its part of the invariant.
LEMMA ExitKeeps ==
    ASSUME SessionInv, NEW c, Exit(c), UNCHANGED signatures
    PROVE  MainTypes' /\ Admitted'
BY DEF SessionInv, MainTypes, Exit, Admitted, Phases

\* Without arguments main() returns at once.
LEMMA StartKeeps == ASSUME SessionInv, Start PROVE SessionInv'
<1>1. phase = "main" /\ EngineInv' /\ UNCHANGED <<mode, port, files, ret, signatures>>
  BY OnlyMain DEF Start
<1>2. mode = "idle" /\ port = "off" /\ files = "closed"
  BY <1>1, StillIdle DEF SessionInv, Phased
<1>3. CASE Exit(1)
  <2>1. MainTypes' /\ Admitted'
    BY <1>1, <1>3, ExitKeeps
  <2> QED
    BY <1>1, <1>2, <1>3, <2>1 DEF SessionInv, Phased, Exited, Exit
<1>4. CASE ~(argc < 2) /\ GoTo("open")
  <2>1. "open" \in Phases
    BY DEF Phases
  <2>2. MainTypes'
    BY <1>1, <1>4, <2>1, GoToKeeps
  <2>3. argc' > 1
    BY <1>4 DEF SessionInv, MainTypes, GoTo
  <2> QED
    BY <1>1, <1>2, <1>4, <2>2, <2>3 DEF SessionInv, Admitted, Phased, Exited, GoTo
<1> QED
  BY <1>3, <1>4 DEF Start

\* The serial port may not open.
LEMMA OpenSerialKeeps == ASSUME SessionInv, OpenSerial PROVE SessionInv'
<1>1. phase = "open" /\ UNCHANGED <<mode, signatures>> /\ Idle
  BY DEF OpenSerial, Idle
<1>2. mode = "idle" /\ port = "off" /\ files = "closed"
  BY <1>1, StillIdle DEF SessionInv, Phased
<1>3. CASE GoTo("sign") /\ UNCHANGED hwVars
  <2>1. "sign" \in Phases
    BY DEF Phases
  <2>2. MainTypes'
    BY <1>1, <1>3, <2>1, GoToKeeps
  <2>3. EngineInv' /\ UNCHANGED <<port, files>>
    BY <1>1, <1>2, <1>3, HwKept, PinTypes, IdleKeeps
  <2> QED
    BY <1>1, <1>2, <1>3, <2>2, <2>3 DEF SessionInv, Admitted, Phased, Exited, GoTo
<1>4. CASE Failed("serial") /\ Exit(ERROR_INIT) /\ UnchangedPins
  <2>1. "serial" \in Words
    BY DEF Words
  <2>2. MainTypes' /\ Admitted'
    BY <1>1, <1>4, ExitKeeps
  <2>3. EngineInv' /\ UNCHANGED <<port, files>>
    BY <1>1, <1>2, <1>4, <2>1, FailedKeeps, PinTypes, IdleKeeps DEF UnchangedPins
  <2> QED
    BY <1>1, <1>2, <1>4, <2>2, <2>3 DEF SessionInv, Phased, Exited, Exit
<1> QED
  BY <1>3, <1>4 DEF OpenSerial

\* A signature is answered or not.
LEMMA SignKeeps == ASSUME SessionInv, Sign PROVE SessionInv'
<1>1. phase = "sign" /\ GoTo("sign") /\ Idle /\ UNCHANGED mode
  BY DEF Sign, Idle
<1>2. mode = "idle" /\ port = "off" /\ files = "closed"
  BY <1>1, StillIdle DEF SessionInv, Phased
<1>3. signatures' \in Seq({"ok", "failed"})
  BY DEF Sign, SessionInv, MainTypes
<1>4. LogKept /\ UNCHANGED <<cs, port, files>>
  <2>1. "sign" \in Words
    BY DEF Words
  <2> QED
    BY <2>1, HwKept, FailedKeeps DEF Sign, UnchangedPins
<1>5. EngineInv'
  BY <1>1, <1>2, <1>4, PinTypes, IdleKeeps
<1>6. MainTypes'
  BY <1>1, <1>3 DEF SessionInv, MainTypes, GoTo
<1> QED
  BY <1>1, <1>2, <1>4, <1>5, <1>6 DEF SessionInv, Admitted, Phased, Exited, GoTo

\* Only with both of them main() goes on.
LEMMA SignedKeeps == ASSUME SessionInv, Signed PROVE SessionInv'
<1>1. phase = "sign" /\ EngineInv' /\ UNCHANGED <<mode, port, files, ret, signatures>>
  BY OnlyMain DEF Signed
<1>2. mode = "idle" /\ port = "off" /\ files = "closed"
  BY <1>1, StillIdle DEF SessionInv, Phased
<1>3. CASE Signatures /\ GoTo("preset")
  <2>1. "preset" \in Phases
    BY DEF Phases
  <2>2. MainTypes'
    BY <1>1, <1>3, <2>1, GoToKeeps
  <2> QED
    BY <1>1, <1>2, <1>3, <2>2 DEF SessionInv, Admitted, Signatures, Phased, Exited, GoTo
<1>4. CASE Exit(ERROR_INIT)
  <2>1. MainTypes' /\ Admitted'
    BY <1>1, <1>4, ExitKeeps
  <2> QED
    BY <1>1, <1>2, <1>4, <2>1 DEF SessionInv, Phased, Exited, Exit
<1> QED
  BY <1>3, <1>4 DEF Signed, Signatures

\* Without a data file it goes no further.
LEMMA PresetKeeps == ASSUME SessionInv, Preset PROVE SessionInv'
<1> DEFINE p == IF argc = 2 THEN "crashed" ELSE "spi"
<1>1. phase = "preset" /\ GoTo(p) /\ EngineInv' /\ UNCHANGED <<mode, port, files, ret, signatures>>
  BY OnlyMain DEF Preset
<1>2. mode = "idle" /\ port = "off" /\ files = "closed" /\ Signatures
  BY <1>1, StillIdle DEF SessionInv, Phased, Admitted
<1>3. MainTypes'
  <2>1. p \in Phases
    BY DEF Phases
  <2> HIDE DEF p
  <2> QED
    BY <1>1, <2>1, GoToKeeps
<1>4. Admitted'
  <2>1. argc > 1 /\ (p = "spi" => argc > 2)
    BY <1>1 DEF SessionInv, MainTypes, Admitted
  <2> QED
    BY <1>1, <1>2, <2>1 DEF Admitted, Signatures, GoTo
<1> QED
  BY <1>1, <1>2, <1>3, <1>4 DEF SessionInv, Phased, Exited, GoTo

-----------------------------------------------------------------------------
(* SSPIEm_init(). *)

\* SPI_init() turns the port on, or main() returns, not knowing whether it did.
LEMMA InitSPIKeeps == ASSUME SessionInv, InitSPI PROVE SessionInv'
<1>1. phase = "spi" /\ Idle /\ UNCHANGED <<mode, files, signatures>> /\ cs' = "high"
  BY DEF InitSPI, Idle
<1>2. mode = "idle" /\ port = "off" /\ files = "closed" /\ Signatures /\ argc > 2
  BY <1>1, StillIdle DEF SessionInv, Phased, Admitted
<1>3. CASE port' = "on" /\ GoTo("files") /\ UNCHANGED <<log, faults>>
  <2>1. "files" \in Phases
    BY DEF Phases
  <2>2. MainTypes'
    BY <1>1, <1>3, <2>1, GoToKeeps
  <2>3. LogKept
    BY <1>3 DEF SessionInv, EngineInv, Types, LogKept
  <2>4. EngineInv'
    BY <1>1, <1>2, <1>3, <2>3, PinTypes, IdleKeeps
  <2> QED
    BY <1>1, <1>2, <1>3, <2>2, <2>4 DEF SessionInv, Admitted, Signatures, Phased, Exited, GoTo
<1>4. CASE Failed("spi") /\ Exit(ERROR_INIT_SPI) /\ port' \in {"off", "on"}
  <2>1. "spi" \in Words
    BY DEF Words
  <2>2. MainTypes' /\ Admitted'
    BY <1>1, <1>4, ExitKeeps
  <2>3. EngineInv'
    BY <1>1, <1>2, <1>4, <2>1, FailedKeeps, PinTypes, IdleKeeps
  <2> QED
    BY <1>1, <1>2, <1>4, <2>2, <2>3 DEF SessionInv, Phased, Exited, Exit
<1> QED
  BY <1>3, <1>4 DEF InitSPI

\* From here on the port stays on when SSPIEm_init() fails.
LEMMA InitAlgoKeeps == ASSUME SessionInv, InitAlgo PROVE SessionInv'
<1>1. phase = "files" /\ Idle /\ UNCHANGED <<mode, cs, port, signatures>>
  BY DEF InitAlgo, Idle
<1>2. mode = "idle" /\ port = "on" /\ files = "closed" /\ Signatures /\ argc > 2
  BY <1>1, StillIdle DEF SessionInv, Phased, Admitted
<1>3. CASE files' = "open" /\ GoTo("header") /\ UNCHANGED <<log, faults>>
  <2>1. "header" \in Phases
    BY DEF Phases
  <2>2. MainTypes'
    BY <1>1, <1>3, <2>1, GoToKeeps
  <2>3. LogKept
    BY <1>3 DEF SessionInv, EngineInv, Types, LogKept
  <2>4. EngineInv'
    BY <1>1, <1>2, <1>3, <2>3, PinTypes, IdleKeeps
  <2> QED
    BY <1>1, <1>2, <1>3, <2>2, <2>4 DEF SessionInv, Admitted, Signatures, Phased, Exited, GoTo
<1>4. CASE Failed("fopen") /\ Exit(ERROR_INIT_ALGO) /\ UNCHANGED files
  <2>1. "fopen" \in Words
    BY DEF Words
  <2>2. MainTypes' /\ Admitted'
    BY <1>1, <1>4, ExitKeeps
  <2>3. EngineInv'
    BY <1>1, <1>2, <1>4, <2>1, FailedKeeps, PinTypes, IdleKeeps
  <2> QED
    BY <1>1, <1>2, <1>4, <2>2, <2>3 DEF SessionInv, Phased, Exited, InitCodes, Exit
<1> QED
  BY <1>3, <1>4 DEF InitAlgo

\* A step of the header that stays in phase "header".
LEMMA HeaderStays ==
    ASSUME SessionInv, phase = "header", phase' = "header", MainTypes', UNCHANGED vars,
           UNCHANGED <<argc, signatures>>
    PROVE  SessionInv'
<1>1. EngineInv' /\ UNCHANGED <<mode, port, files, ret>>
  BY OnlyMain
<1> QED
  BY <1>1 DEF SessionInv, Admitted, Signatures, Phased, Exited

\* The first closing byte of a comment exists, if any does.
LEMMA FirstEnd ==
    ASSUME NEW S \in SUBSET Nat, S # {}
    PROVE  (CHOOSE p \in S : \A q \in S : p <= q) \in S
BY LeastElement

\* A comment is read to its end, or for ever.
LEMMA HeaderCommentKeeps == ASSUME SessionInv, HeaderComment PROVE SessionInv'
<1> DEFINE ends == {p \in pos..(Len(image) - 1) : image[p + 1] = HENDCOMMENT}
           end == CHOOSE p \in ends : \A q \in ends : p <= q
<1>1. /\ phase = "header" /\ UNCHANGED vars /\ UNCHANGED <<argc, image, field, signatures, code>>
      /\ IF ends = {} THEN phase' = "hung" /\ UNCHANGED <<pos, csValue>>
         ELSE pos' = end + 1 /\ UNCHANGED phase
  BY DEF HeaderComment
<1>2. MainTypes
  BY DEF SessionInv
<1>3. CASE ends = {}
  <2>1. MainTypes'
    BY <1>1, <1>2, <1>3 DEF MainTypes, Phases
  <2>2. EngineInv' /\ UNCHANGED <<mode, port, files, ret>>
    BY <1>1, OnlyMain
  <2> QED
    BY <1>1, <1>3, <2>1, <2>2 DEF SessionInv, Admitted, Signatures, Phased, Exited
<1>4. CASE ends # {}
  <2>1. ends \in SUBSET Nat
    BY <1>2 DEF MainTypes
  <2>2. end \in Nat
    <3> HIDE DEF ends
    <3> QED
      BY <1>4, <2>1, FirstEnd
  <2>3. pos' \in Nat /\ phase' = phase
    <3> HIDE DEF ends, end
    <3> QED
      BY <1>1, <1>4, <2>2
  <2>4. MainTypes'
    BY <1>1, <1>2, <2>3 DEF MainTypes
  <2> QED
    BY <1>1, <2>3, <2>4, HeaderStays
<1> QED
  BY <1>3, <1>4

\* What a field of the header may come to.
LEMMA FieldCodes ==
    ASSUME NEW f, NEW p, NEW sum
    PROVE  FieldCode(f, p, sum) \in {PROC_COMPLETE, ERROR_INIT, ERROR_INIT_VERSION,
                                    ERROR_INIT_CHECKSUM}
<1> DEFINE A == HeaderByte(p) # f.tag /\ ~(f.tag = COMPRESSION /\ HeaderByte(p) = HCOMMENT)
           B == f.tag = VERSION /\ ~VersionFits(p)
           C == f.tag = STACKREQ /\ HeaderByte(p + 1) > MAXSTACK
           D == f.tag = HEADERCRC
                  /\ ~(/\ SumByteMatches(HeaderByte(p + 1), (sum \div 256) % 256)
                       /\ SumByteMatches(HeaderByte(p + 2), sum % 256))
<1>1. FieldCode(f, p, sum) = IF A THEN ERROR_INIT
                             ELSE CASE B -> ERROR_INIT_VERSION [] C -> ERROR_INIT
                                    [] D -> ERROR_INIT_CHECKSUM [] OTHER -> PROC_COMPLETE
  BY Zenon DEF FieldCode
<1> HIDE DEF A, B, C, D
<1> QED
  BY <1>1

\* A field is read and the next one begins behind it, or main() returns.
LEMMA HeaderFieldKeeps == ASSUME SessionInv, HeaderField PROVE SessionInv'
<1> DEFINE f == Header[field]
           c == FieldCode(f, pos, csValue)
<1>1. /\ phase = "header" /\ field <= Len(Header) /\ UNCHANGED vars
      /\ UNCHANGED <<argc, image, signatures>>
      /\ IF c # PROC_COMPLETE
         THEN phase' = "exit" /\ code' = c /\ UNCHANGED <<field, pos, csValue>>
         ELSE /\ phase' = IF f.tag = HCHANNEL THEN "data" ELSE "header"
              /\ field' = field + 1
              /\ pos' = pos + 1 + f.n
  BY DEF HeaderField
<1>2. MainTypes
  BY DEF SessionInv
<1>3. EngineInv' /\ UNCHANGED <<mode, port, files, ret>>
  BY <1>1, OnlyMain
<1>4. mode = "idle" /\ port = "on" /\ files = "open" /\ Signatures /\ argc > 2
  BY <1>1, StillIdle DEF SessionInv, Phased, Admitted
<1>5. CASE c # PROC_COMPLETE
  <2>1. MainTypes'
    BY <1>1, <1>2, <1>5 DEF MainTypes, Phases
  <2>2. c \in InitCodes
    <3> HIDE DEF f
    <3> QED
      BY <1>5, FieldCodes DEF InitCodes
  <2>3. phase' = "exit" /\ code' \in InitCodes
    <3> HIDE DEF c
    <3> QED
      BY <1>1, <1>5, <2>2
  <2> QED
    BY <1>3, <1>4, <2>1, <2>3 DEF SessionInv, Admitted, Phased, Exited
<1>6. CASE c = PROC_COMPLETE
  <2>1. f.n \in Nat
    <3>1. \A k \in 1..9 : Header[k].n \in Nat
      BY DEF Header, Field
    <3>2. field \in 1..9
      BY <1>1, <1>2 DEF MainTypes, Header
    <3> QED
      BY <3>1, <3>2
  <2>2. field' \in 1..(Len(Header) + 1) /\ pos' \in Nat /\ phase' \in {"data", "header"}
    <3>1. Len(Header) = 9
      BY DEF Header
    <3>2. field \in 1..9 /\ pos \in Nat
      BY <1>1, <1>2, <3>1 DEF MainTypes
    <3> HIDE DEF f, c
    <3> QED
      BY <1>1, <1>6, <2>1, <3>1, <3>2
  <2>3. MainTypes'
    <3> HIDE DEF f, c
    <3> QED
      BY <1>1, <1>2, <2>2 DEF MainTypes, Phases
  <2> QED
    BY <1>1, <1>3, <1>4, <2>2, <2>3 DEF SessionInv, Admitted, Signatures, Phased, Exited
<1> QED
  BY <1>5, <1>6

\* The data file may be refused.
LEMMA InitDataKeeps == ASSUME SessionInv, InitData PROVE SessionInv'
<1>1. phase = "data" /\ Idle /\ UNCHANGED <<mode, cs, port, files, signatures>>
  BY DEF InitData, Idle
<1>2. mode = "idle" /\ port = "on" /\ files = "open" /\ Signatures /\ argc > 2
  BY <1>1, StillIdle DEF SessionInv, Phased, Admitted
<1>3. CASE GoTo("header") /\ UNCHANGED <<log, faults>>
  <2>1. "header" \in Phases
    BY DEF Phases
  <2>2. MainTypes'
    BY <1>1, <1>3, <2>1, GoToKeeps
  <2>3. LogKept
    BY <1>3 DEF SessionInv, EngineInv, Types, LogKept
  <2>4. EngineInv'
    BY <1>1, <1>2, <1>3, <2>3, PinTypes, IdleKeeps
  <2> QED
    BY <1>1, <1>2, <1>3, <2>2, <2>4 DEF SessionInv, Admitted, Signatures, Phased, Exited, GoTo
<1>4. CASE Failed("data") /\ Exit(ERROR_INIT_DATA)
  <2>1. "data" \in Words
    BY DEF Words
  <2>2. MainTypes' /\ Admitted'
    BY <1>1, <1>4, ExitKeeps
  <2>3. EngineInv'
    BY <1>1, <1>2, <1>4, <2>1, FailedKeeps, PinTypes, IdleKeeps
  <2> QED
    BY <1>1, <1>2, <1>4, <2>2, <2>3 DEF SessionInv, Phased, Exited, InitCodes, Exit
<1> QED
  BY <1>3, <1>4 DEF InitData

-----------------------------------------------------------------------------
(* SSPIEm_process(). *)

\* The interpreter is given what follows the header.
LEMMA BeginProcessKeeps == ASSUME SessionInv, BeginProcess PROVE SessionInv'
<1> DEFINE src == [file |-> TRUE, base |-> 0, size |-> 0]
           frame == NewFrame("process", src, 0, 0)
<1>1. src \in Source /\ src.file /\ 0 \in Byte /\ 0 # ENDOFALGO /\ "process" \in Kinds
  BY DEF Source, Byte, ENDOFALGO, Kinds
<1>2. frame \in Frame /\ frame.kind = "process" /\ frame.src.file /\ frame.op = 0
  <2> HIDE DEF src
  <2> QED
    BY <1>1, CalledFrame
<1>3. /\ phase = "header" /\ stack' = <<frame>> /\ mode' = "step" /\ GoTo("process")
      /\ algo' = SubSeq(image, pos + 1, Len(image))
      /\ UNCHANGED <<ret, algoBuffer, cs, port, files, log, faults, signatures>>
  BY DEF BeginProcess, hwVars
<1> HIDE DEF frame
<1>4. port = "on" /\ files = "open" /\ Signatures /\ argc > 2 /\ MainTypes
  BY <1>3 DEF SessionInv, Phased, Admitted
<1>5. /\ stack' \in Seq(Frame) /\ Len(stack') = 1 /\ stack'[1] = frame /\ stack' # <<>>
  BY <1>2, <1>3
<1>6. algo' \in Seq(Byte)
  <2>1. image \in Seq(Byte) /\ pos \in Nat /\ Len(image) \in Nat
    BY <1>4 DEF MainTypes
  <2>2. pos + 1 \in Int /\ Len(image) \in Int
    BY <2>1
  <2>3. \A i \in (pos + 1)..Len(image) : image[i] \in Byte
    BY <2>1
  <2>4. SubSeq(image, pos + 1, Len(image)) \in Seq(Byte)
    BY <2>2, <2>3, SubSeqProperties
  <2> QED
    BY <1>3, <2>4
<1>7. Types'
  BY <1>3, <1>5, <1>6 DEF SessionInv, EngineInv, Types, BytesOK
<1>8. Frames'
  BY <1>1, <1>2, <1>5 DEF Frames, CallChain, FileBelow, Outer, NotEnded
<1>9. Running' /\ Holding' /\ FailTold'
  BY <1>3, <1>4, <1>5 DEF Running, Holding, FailTold
<1>10. MainTypes'
  <2>1. "process" \in Phases
    BY DEF Phases
  <2> QED
    BY <1>3, <2>1, GoToKeeps
<1> QED
  BY <1>3, <1>4, <1>7, <1>8, <1>9, <1>10
  DEF SessionInv, EngineInv, Admitted, Signatures, Phased, Exited, GoTo

\* Once it has begun it is not idle again.
LEMMA NotIdleAgain == Next => mode' # "idle"
<1>1. \A f, g, rc, used : (Goto(f) \/ Call(f, g) \/ Return(rc, used) \/ Hang) => mode' # "idle"
  BY DEF Goto, Call, Return, Hang
<1>2. \A rc : (Leave(rc) => mode' # "idle")
  BY <1>1 DEF Leave
<1>3. \A op, n, i : (CallLoop(op, n, i) => mode' # "idle")
  BY <1>1 DEF CallLoop
<1>4. \A f, i, c : (Fetch(f, i, c) => mode' # "idle")
  BY <1>1 DEF Fetch
<1>5. Process => mode' # "idle"
  BY <1>1, <1>2, <1>3 DEF Process, ProcEnd, ProcComment, ProcStartTran, ProcTrans, ProcRunClock,
     ProcWait, ProcRepeat, ProcLoop, ProcTrstToggle, ProcResetData, ProcEndTran, ProcEndOfAlgo,
     ProcUnrecognized, ProcResume, WithNumber, GoOn
<1>6. Trans => mode' # "idle"
  BY <1>1, <1>3, <1>4 DEF Trans, TransComment, TransWait, TransRunClock, TransOut, TransIn,
     TransMask, TransAlgoData, TransProgData, TransEndTran, TransRepeat, TransResume,
     TransResetData, TransUnrecognized, TransNumber, SendData, Received, FetchNext, GiveUp
<1>7. LoopRepeat => mode' # "idle"
  BY <1>1 DEF LoopRepeat, ScanEnd, ScanComment, ScanByte, ScanNestedEnd, ScanBodyEnd, LoopResume,
     Keep, Iterate
<1> QED
  BY <1>5, <1>6, <1>7 DEF Next

\* A step of the interpreter changes nothing of main()'s.
LEMMA ProcessingKeeps == ASSUME SessionInv, Processing PROVE SessionInv'
<1>1. phase = "process" /\ UNCHANGED mainVars /\ EngineInv' /\ mode' # "idle"
  BY NextEngine, NotIdleAgain DEF Processing, SessionInv
<1>2. MainTypes' /\ Admitted'
  BY <1>1 DEF SessionInv, MainTypes, Admitted, Signatures, mainVars
<1> QED
  BY <1>1, <1>2 DEF SessionInv, Phased, Exited, mainVars

\* main() returns what SSPIEm_process() did.
LEMMA EndProcessKeeps == ASSUME SessionInv, EndProcess PROVE SessionInv'
<1>1. /\ phase = "process" /\ mode = "done" /\ Exit(ret) /\ EngineInv'
      /\ UNCHANGED <<mode, port, files, ret, signatures>>
  BY OnlyMain DEF EndProcess
<1>2. MainTypes' /\ Admitted' /\ argc > 2 /\ Signatures
  BY <1>1, ExitKeeps DEF SessionInv, Admitted
<1> QED
  BY <1>1, <1>2 DEF SessionInv, Signatures, Phased, Exited, Exit

-----------------------------------------------------------------------------
(* The theorems. *)

\* main() begins with nothing opened.
LEMMA InitSession == SessionInit => SessionInv
<1> SUFFICES ASSUME SessionInit PROVE SessionInv
  OBVIOUS
<1>1. Types
  <2>1. <<>> \in Seq(Byte) /\ <<>> \in Seq(Frame) /\ <<>> \in Seq(Entry) /\ 0 \in Byte
    BY DEF Byte
  <2> QED
    BY <2>1, BoundsAssumption DEF SessionInit, Types, BytesOK, ReturnCodes
<1>2. Frames
  BY DEF SessionInit, Frames, CallChain, FileBelow
<1>3. Running /\ Holding /\ FailTold
  BY DEF SessionInit, Running, Holding, FailTold
<1>4. MainTypes
  BY SessionAssumption DEF SessionInit, MainTypes, Phases, Header, Byte
<1> QED
  BY <1>1, <1>2, <1>3, <1>4 DEF SessionInit, SessionInv, EngineInv, Admitted, Phased, Exited

\* Every step of the program keeps the invariant.
LEMMA NextSession == SessionInv /\ [SessionNext]_runVars => SessionInv'
<1>1. ASSUME SessionInv, UNCHANGED runVars PROVE SessionInv'
  BY <1>1, StutterEngine
  DEF SessionInv, MainTypes, Admitted, Signatures, Phased, Exited, runVars, mainVars, vars, hwVars
<1> QED
  BY <1>1, StartKeeps, OpenSerialKeeps, SignKeeps, SignedKeeps, PresetKeeps, InitSPIKeeps,
     InitAlgoKeeps, HeaderCommentKeeps, HeaderFieldKeeps, InitDataKeeps, BeginProcessKeeps,
     ProcessingKeeps, EndProcessKeeps
  DEF SessionNext

\* The invariant of a whole run, whatever the file: what has been opened and
\* answered where main() is, and what the code it returns with stands for.
THEOREM SessionInvariant == SessionSpec => []SessionInv
BY InitSession, NextSession, PTL DEF SessionSpec

\* The status of a code.
LEMMA StatusOf ==
    ASSUME NEW c \in ReturnCodes \cup InitCodes \cup {1, ERROR_INIT_SPI}
    PROVE  /\ c % 256 = 2 => c = PROC_OVER
           /\ c % 256 = 0 => c = PROC_FAIL
BY DEF ReturnCodes, InitCodes, PROC_FAIL, PROC_COMPLETE, PROC_OVER, ERROR_INIT_DATA,
   ERROR_PROC_ALGO, ERROR_PROC_DATA, ERROR_PROC_HARDWARE, ERROR_LOOP_COND, ERROR_VERIFICATION,
   ERROR_INIT_ALGO, ERROR_INIT, ERROR_INIT_VERSION, ERROR_INIT_CHECKSUM, ERROR_INIT_SPI

\* What the invariant says of the status.
LEMMA InvStatus == SessionInv => StatusTells
<1> SUFFICES ASSUME SessionInv, phase = "exit"
             PROVE  /\ Status = 2 => /\ argc > 2 /\ signatures = <<"ok", "ok">>
                                     /\ mode = "done" /\ ret = PROC_OVER
                                     /\ port \in {"off", "stuck"} /\ files = "closed"
                    /\ Status = 0 => log[Len(log)] = <<"trst", "failed">>
  BY DEF StatusTells
<1>1. code \in ReturnCodes \cup InitCodes \cup {1, ERROR_INIT_SPI}
  BY DEF SessionInv, Exited, EngineInv, Types, InitCodes
<1>2. (Status = 2 => code = PROC_OVER) /\ (Status = 0 => code = PROC_FAIL)
  BY <1>1, StatusOf DEF Status
<1>3. code \in {PROC_OVER, PROC_FAIL} => mode = "done" /\ code = ret /\ argc > 2 /\ Signatures
  BY DEF SessionInv, Exited, InitCodes, PROC_OVER, PROC_FAIL, ERROR_INIT_ALGO, ERROR_INIT,
     ERROR_INIT_VERSION, ERROR_INIT_CHECKSUM, ERROR_INIT_SPI, ERROR_INIT_DATA
<1>4. PassIsClean /\ FailTold
  BY PassClean DEF SessionInv, EngineInv
<1> QED
  BY <1>2, <1>3, <1>4 DEF Signatures, PassIsClean, FailTold

\* The exit status 2 is that of a complete run that closed the files and called
\* SPI_final(), and 0 that of a TRSTTOGGLE that failed, for every algorithm file
\* (main.c:214-236, core.c:565-574).
THEOREM StatusIsTold == SessionSpec => []StatusTells
BY SessionInvariant, InvStatus, PTL

\* What the invariant says of the port.
LEMMA InvLeftOn == SessionInv => LeftOn
<1> SUFFICES ASSUME SessionInv, phase = "exit"
             PROVE  /\ port = "on" => code \in InitCodes \cup {ERROR_INIT_SPI,
                                            ERROR_PROC_ALGO, ERROR_PROC_HARDWARE}
                    /\ port = "stuck" => mode = "done" /\ files = "closed"
  BY DEF LeftOn, InitCodes
<1> QED
  BY DEF SessionInv, EngineInv, Types, Holding, Exited

\* The port is left on without a call of SPI_final() by the errors that return at
\* once, and behind a call of SPI_final() only at the end of an algorithm
\* (core.c:115-362, 428-456, 610, hardware.c:187-194).
THEOREM PortLeftOn == SessionSpec => []LeftOn
BY SessionInvariant, InvLeftOn, PTL

\* In a whole run, too, a run that passes has closed the files and called
\* SPI_final().
THEOREM RunReleases == SessionSpec => []PassIsClean
<1>1. SessionInv => PassIsClean
  BY PassClean DEF SessionInv
<1> QED
  BY <1>1, SessionInvariant, PTL

-----------------------------------------------------------------------------
(* The sum of the header. *)

\* The equation of SumOf's recursion.
SumEq(p, n, s) == s = [k \in 0..n |-> IF k = 0 THEN 0 ELSE s[k - 1] + HeaderByte(p + k - 1)]

\* The header is bytes, behind the end of the file too.
LEMMA HeaderByteRead ==
    ASSUME image \in Seq(Byte), NEW p \in Nat
    PROVE  HeaderByte(p) \in Nat
<1>1. CASE p < Len(image)
  <2>1. p + 1 \in 1..Len(image)
    <3>1. Len(image) \in Nat
      OBVIOUS
    <3> QED
      BY <1>1, <3>1
  <2>2. image[p + 1] \in Byte
    <3>1. \A i \in 1..Len(image) : image[i] \in Byte
      OBVIOUS
    <3> QED
      BY <2>1, <3>1
  <2>3. image[p + 1] \in Nat
    <3>1. \A b \in Byte : b \in Nat
      BY DEF Byte
    <3> QED
      BY <2>2, <3>1
  <2>4. HeaderByte(p) = image[p + 1]
    BY <1>1 DEF HeaderByte
  <2> QED
    BY <2>3, <2>4
<1>2. CASE ~(p < Len(image))
  BY <1>2 DEF HeaderByte
<1> QED
  BY <1>1, <1>2

\* The recursion has a solution.
LEMMA SumExists ==
    ASSUME image \in Seq(Byte), NEW p \in Nat, NEW n \in Nat
    PROVE  \E s : SumEq(p, n, s)
<1> DEFINE F == [m \in 0..n |-> [x \in Nat |-> IF m = 0 THEN 0 ELSE x + HeaderByte(p + m - 1)]]
<1>1. ASSUME NEW m \in 0..n, m # 0 PROVE HeaderByte(p + m - 1) \in Nat
  <2>1. p + m - 1 \in Nat
    BY <1>1
  <2> QED
    BY <2>1, HeaderByteRead
<1>2. F \in [0..n -> [Nat -> Nat]]
  <2>1. ASSUME NEW m \in 0..n, NEW x \in Nat
        PROVE  (IF m = 0 THEN 0 ELSE x + HeaderByte(p + m - 1)) \in Nat
    <3>1. CASE m # 0
      <4>1. HeaderByte(p + m - 1) \in Nat
        BY <1>1, <3>1
      <4> QED
        BY <3>1, <4>1
    <3> QED
      BY <3>1
  <2> QED
    BY <2>1
<1>3. PICK g \in [0..n -> Nat] : \A k \in 0..n : g[k] = Step(F, 0, k, g)
  <2>1. 0 \in Nat
    OBVIOUS
  <2> HIDE DEF F
  <2> QED
    BY <1>2, <2>1, NatRecursion
<1>4. ASSUME NEW k \in 0..n
      PROVE  g[k] = IF k = 0 THEN 0 ELSE g[k - 1] + HeaderByte(p + k - 1)
  <2>1. g[k] = Step(F, 0, k, g)
    <3> HIDE DEF F
    <3> QED
      BY <1>3
  <2>2. CASE k = 0
    BY <2>1, <2>2 DEF Step
  <2>3. CASE k # 0
    <3>1. k - 1 \in 0..n
      BY <2>3
    <3>2. g[k - 1] \in Nat
      <4> HIDE DEF F
      <4> QED
        BY <1>3, <3>1
    <3>3. g[k] = F[k][g[k - 1]]
      <4> HIDE DEF F
      <4> QED
        BY <2>1, <2>3 DEF Step
    <3> QED
      BY <2>3, <3>2, <3>3
  <2> QED
    BY <2>2, <2>3
<1>5. g = [k \in 0..n |-> IF k = 0 THEN 0 ELSE g[k - 1] + HeaderByte(p + k - 1)]
  <2>1. g = [k \in 0..n |-> g[k]]
    <3> HIDE DEF F
    <3> QED
      BY <1>3
  <2> HIDE DEF F
  <2> QED
    BY <1>4, <2>1
<1> QED
  BY <1>5 DEF SumEq

\* The sums of the first k of n bytes.
Sums(p, n, s) ==
    /\ s \in [0..n -> Nat]
    /\ s[0] = 0
    /\ \A k \in 1..n : s[k] = s[k - 1] + HeaderByte(p + k - 1)

\* putChunk() adds up byte by byte.
LEMMA SumRead ==
    ASSUME image \in Seq(Byte), NEW p \in Nat, NEW n \in Nat
    PROVE  \E s : Sums(p, n, s) /\ SumOf(p, n) = s[n]
<1> DEFINE s[k \in 0..n] == IF k = 0 THEN 0 ELSE s[k - 1] + HeaderByte(p + k - 1)
           Bad == {m \in Nat : m \in 0..n /\ s[m] \notin Nat}
<1>1. SumEq(p, n, s)
  <2> DEFINE P(x) == SumEq(p, n, x)
  <2>1. P(CHOOSE x : P(x))
    <3>1. \E x : P(x)
      BY SumExists
    <3> HIDE DEF P
    <3> QED
      BY <3>1, Zenon
  <2>2. s = CHOOSE x : P(x)
    BY Zenon DEF SumEq
  <2> HIDE DEF s, P
  <2>3. P(s)
    BY <2>1, <2>2
  <2> QED
    BY <2>3 DEF P
<1>2. SumOf(p, n) = s[n]
  BY DEF SumOf
<1> HIDE DEF s
<1>3. /\ s[0] = 0
      /\ \A k \in 1..n : s[k] = s[k - 1] + HeaderByte(p + k - 1)
      /\ s = [k \in 0..n |-> s[k]]
  BY <1>1 DEF SumEq
<1>4. Bad = {}
  <2> SUFFICES ASSUME Bad # {} PROVE FALSE
    OBVIOUS
  <2>1. PICK m \in Bad : \A k \in Bad : m <= k
    <3>1. Bad \in SUBSET Nat
      OBVIOUS
    <3> HIDE DEF Bad
    <3> QED
      BY <3>1, LeastElement
  <2>2. m # 0
    BY <1>3, <2>1
  <2>3. m - 1 \in 0..n /\ m \in 1..n /\ ~(m <= m - 1) /\ m - 1 \in Nat /\ p + m - 1 \in Nat
    BY <2>1, <2>2
  <2>4. s[m - 1] \in Nat
    <3>1. m - 1 \notin Bad
      BY <2>1, <2>3
    <3> QED
      BY <2>3, <3>1
  <2>5. s[m] \in Nat
    <3>1. HeaderByte(p + m - 1) \in Nat
      BY <2>3, HeaderByteRead
    <3>2. s[m] = s[m - 1] + HeaderByte(p + m - 1)
      BY <1>3, <2>3
    <3> QED
      BY <2>4, <3>1, <3>2
  <2> QED
    BY <2>1, <2>5
<1>5. s \in [0..n -> Nat]
  <2>1. \A k \in 0..n : s[k] \in Nat
    BY <1>4
  <2> HIDE DEF Bad
  <2> QED
    BY <1>3, <2>1
<1> QED
  BY <1>2, <1>3, <1>5 DEF Sums

\* The sum of the first byte and the following is that of all of them.
LEMMA SumAdds ==
    ASSUME image \in Seq(Byte), NEW p \in Nat, NEW n \in Nat
    PROVE  SumOf(0, p + n) = SumOf(0, p) + SumOf(p, n)
<1>1. p + n \in Nat /\ 0 \in Nat
  OBVIOUS
<1>2. PICK a : Sums(0, p + n, a) /\ SumOf(0, p + n) = a[p + n]
  BY <1>1, SumRead
<1>3. PICK b : Sums(0, p, b) /\ SumOf(0, p) = b[p]
  BY <1>1, SumRead
<1>4. PICK c : Sums(p, n, c) /\ SumOf(p, n) = c[n]
  BY <1>1, SumRead
<1>5. a[p] = b[p]
  <2> DEFINE Bad == {m \in Nat : m \in 0..p /\ a[m] # b[m]}
  <2> SUFFICES ASSUME Bad # {} PROVE FALSE
    OBVIOUS
  <2>1. PICK m \in Bad : \A k \in Bad : m <= k
    <3>1. Bad \in SUBSET Nat
      OBVIOUS
    <3> HIDE DEF Bad
    <3> QED
      BY <3>1, LeastElement
  <2>2. m # 0
    BY <1>2, <1>3, <2>1 DEF Sums
  <2>3. m - 1 \in 0..p /\ m \in 1..p /\ m \in 1..(p + n) /\ ~(m <= m - 1) /\ m - 1 \in Nat
    BY <2>1, <2>2
  <2>4. a[m - 1] = b[m - 1]
    BY <2>1, <2>3
  <2>5. a[m] = b[m]
    BY <1>2, <1>3, <2>3, <2>4 DEF Sums
  <2> QED
    BY <2>1, <2>5
<1>6. a[p + n] = a[p] + c[n]
  <2> DEFINE Bad == {m \in Nat : m \in 0..n /\ a[p + m] # a[p] + c[m]}
  <2> SUFFICES ASSUME Bad # {} PROVE FALSE
    OBVIOUS
  <2>1. PICK m \in Bad : \A k \in Bad : m <= k
    <3>1. Bad \in SUBSET Nat
      OBVIOUS
    <3> HIDE DEF Bad
    <3> QED
      BY <3>1, LeastElement
  <2>2. m # 0
    <3>1. p + 0 = p /\ p \in 0..(p + n)
      OBVIOUS
    <3>2. a[p] \in Nat
      BY <1>2, <3>1 DEF Sums
    <3>3. a[p + 0] = a[p] + c[0]
      BY <1>4, <3>1, <3>2 DEF Sums
    <3> QED
      BY <2>1, <3>3
  <2>3. /\ m - 1 \in 0..n /\ m \in 1..n /\ ~(m <= m - 1) /\ m - 1 \in Nat
        /\ p + m \in 1..(p + n) /\ p \in 0..(p + n) /\ p + m - 1 \in Nat
        /\ (p + m) - 1 = p + (m - 1) /\ 0 + (p + m) - 1 = p + m - 1
    BY <2>1, <2>2
  <2>4. a[p + (m - 1)] = a[p] + c[m - 1]
    BY <2>1, <2>3
  <2>5. a[p + m] = a[p + (m - 1)] + HeaderByte(p + m - 1)
    BY <1>2, <2>3 DEF Sums
  <2>6. c[m] = c[m - 1] + HeaderByte(p + m - 1)
    BY <1>4, <2>3 DEF Sums
  <2>7. a[p] \in Nat /\ c[m - 1] \in Nat /\ HeaderByte(p + m - 1) \in Nat
    BY <1>2, <1>4, <2>3, HeaderByteRead DEF Sums
  <2>8. a[p + m] = a[p] + c[m]
    BY <2>4, <2>5, <2>6, <2>7
  <2> QED
    BY <2>1, <2>8
<1> QED
  BY <1>2, <1>3, <1>4, <1>5, <1>6

-----------------------------------------------------------------------------
(* The header in front of the algorithm. *)

\* The field at q has been read and is as it should be.
Passed(i, q) == \A s : s = SumOf(0, q) => FieldCode(Header[i], q, s) = PROC_COMPLETE

\* The sum is that of all that has been read.
Summed == \A p \in Nat : p = pos => csValue = SumOf(0, p)

\* The fields before this one have been read where they are.
FieldsRead ==
    \A first \in Int : first = pos - Offset[field] =>
        /\ first \in Nat
        /\ \A i \in 1..(field - 1) : Passed(i, first + Offset[i])

\* What runs is what follows the header.
Begun ==
    mode # "idle" => field = Len(Header) + 1 /\ algo = SubSeq(image, pos + 1, Len(image))

\* What has been read of the header, always.
HeaderInv == Summed /\ FieldsRead /\ Begun

\* A sum of the file stays what it is.
LEMMA SumStays ==
    ASSUME UNCHANGED image, NEW p, NEW n
    PROVE  SumOf(p, n)' = SumOf(p, n)
BY DEF SumOf, HeaderByte

\* What a field comes to stays what it is.
LEMMA CodeStays ==
    ASSUME UNCHANGED image, NEW f, NEW p, NEW n
    PROVE  FieldCode(f, p, n)' = FieldCode(f, p, n)
BY DEF FieldCode, HeaderByte, VersionFits, SumByteMatches

\* A field that has passed stays so.
LEMMA PassedStays ==
    ASSUME UNCHANGED image, NEW i, NEW q
    PROVE  Passed(i, q)' = Passed(i, q)
<1>1. \A s : FieldCode(Header[i], q, s)' = FieldCode(Header[i], q, s)
  BY CodeStays
<1>2. SumOf(0, q)' = SumOf(0, q)
  BY SumStays
<1> QED
  BY <1>1, <1>2 DEF Passed

\* A field begins behind the one before it.
LEMMA OffsetRead ==
    /\ Len(Header) = 9
    /\ Offset[1] = 0
    /\ \A i \in 1..9 : /\ Offset[i] \in Nat
                       /\ Header[i].n \in Nat
                       /\ Offset[i + 1] = Offset[i] + 1 + Header[i].n
BY DEF Header, Offset, Field

\* The steps that read nothing of the header.
LEMMA HeaderKept ==
    ASSUME HeaderInv, UNCHANGED <<image, field, pos, csValue, algo>>,
           mode' # "idle" => mode # "idle"
    PROVE  HeaderInv'
<1>1. Summed'
  BY SumStays DEF HeaderInv, Summed
<1>2. FieldsRead'
  BY PassedStays DEF HeaderInv, FieldsRead
<1>3. Begun'
  BY DEF HeaderInv, Begun
<1> QED
  BY <1>1, <1>2, <1>3 DEF HeaderInv

\* A comment before the first field counts for the sum.
LEMMA HeaderCommentSums == ASSUME SessionInv, HeaderInv, HeaderComment PROVE HeaderInv'
<1> DEFINE ends == {p \in pos..(Len(image) - 1) : image[p + 1] = HENDCOMMENT}
           end == CHOOSE p \in ends : \A q \in ends : p <= q
<1>1. /\ UNCHANGED vars /\ UNCHANGED <<image, field>> /\ field = 1
      /\ IF ends = {} THEN UNCHANGED <<pos, csValue>>
         ELSE pos' = end + 1 /\ csValue' = csValue + SumOf(pos, end + 1 - pos)
  BY DEF HeaderComment
<1>2. UNCHANGED <<algo, mode>>
  BY <1>1 DEF vars
<1>3. image \in Seq(Byte) /\ pos \in Nat
  BY DEF SessionInv, MainTypes
<1>4. CASE ends = {}
  BY <1>1, <1>2, <1>4, HeaderKept
<1>5. CASE ends # {}
  <2>1. end \in Nat /\ pos <= end
    <3>1. ends \in SUBSET Nat
      BY <1>3
    <3>2. end \in ends
      <4> HIDE DEF ends
      <4> QED
        BY <1>5, <3>1, FirstEnd
    <3> HIDE DEF end
    <3> QED
      BY <1>3, <3>2
  <2>2. /\ pos' = end + 1 /\ csValue' = csValue + SumOf(pos, end + 1 - pos)
    <3> HIDE DEF ends, end
    <3> QED
      BY <1>1, <1>5
  <2> HIDE DEF ends, end
  <2>3. Summed'
    <3> SUFFICES ASSUME NEW p \in Nat, p = pos' PROVE csValue' = SumOf(0, p)'
      BY DEF Summed
    <3>1. end + 1 - pos \in Nat /\ pos + (end + 1 - pos) = p
      BY <1>3, <2>1, <2>2
    <3>2. SumOf(0, p) = SumOf(0, pos) + SumOf(pos, end + 1 - pos)
      BY <1>3, <3>1, SumAdds
    <3>3. csValue = SumOf(0, pos)
      BY <1>3 DEF HeaderInv, Summed
    <3>4. SumOf(0, p)' = SumOf(0, p)
      BY <1>1, SumStays
    <3> QED
      BY <2>2, <3>2, <3>3, <3>4
  <2>4. FieldsRead'
    <3> SUFFICES ASSUME NEW first \in Int, first = pos' - Offset[field']
                 PROVE  /\ first \in Nat
                        /\ \A i \in 1..(field' - 1) : Passed(i, first + Offset[i])'
      BY DEF FieldsRead
    <3>1. PICK b \in Nat : b = pos'
      BY <2>1, <2>2
    <3>2. field' = 1 /\ Offset[field'] = 0
      BY <1>1, OffsetRead
    <3>3. first \in Nat
      <4>1. PICK a \in Nat : a = Offset[field'] /\ a = 0
        BY <3>2
      <4>2. first = b - a
        BY <3>1, <4>1
      <4> QED
        BY <4>1, <4>2
    <3>4. 1..(field' - 1) = {}
      BY <3>2
    <3> QED
      BY <3>3, <3>4
  <2>5. Begun'
    <3>1. mode = "idle"
      BY StillIdle DEF HeaderComment
    <3> QED
      BY <1>2, <3>1 DEF Begun
  <2> QED
    BY <2>3, <2>4, <2>5 DEF HeaderInv
<1> QED
  BY <1>4, <1>5

\* A field that passes is one more.
LEMMA HeaderFieldReads == ASSUME SessionInv, HeaderInv, HeaderField PROVE HeaderInv'
<1> DEFINE f == Header[field]
           c == FieldCode(f, pos, csValue)
<1>1. /\ phase = "header" /\ field <= Len(Header) /\ UNCHANGED vars /\ UNCHANGED image
      /\ IF c # PROC_COMPLETE THEN UNCHANGED <<field, pos, csValue>>
         ELSE /\ field' = field + 1
              /\ pos' = pos + 1 + f.n
              /\ csValue' = csValue + SumOf(pos, 1 + f.n)
  BY DEF HeaderField
<1>2. UNCHANGED <<algo, mode>>
  BY <1>1 DEF vars
<1>3. image \in Seq(Byte) /\ pos \in Nat /\ field \in 1..9
  BY <1>1, OffsetRead DEF SessionInv, MainTypes
<1>4. CASE c # PROC_COMPLETE
  BY <1>1, <1>2, <1>4, HeaderKept
<1>5. CASE c = PROC_COMPLETE
  <2>1. f.n \in Nat /\ Offset[field] \in Nat /\ Offset[field + 1] = Offset[field] + 1 + f.n
    BY <1>3, OffsetRead
  <2>2. /\ field' = field + 1 /\ pos' = pos + 1 + f.n
        /\ csValue' = csValue + SumOf(pos, 1 + f.n)
    <3> HIDE DEF f, c
    <3> QED
      BY <1>1, <1>5
  <2>3. csValue = SumOf(0, pos)
    BY <1>3 DEF HeaderInv, Summed
  <2>4. Passed(field, pos)
    BY <1>5, <2>3 DEF Passed
  <2> HIDE DEF f, c
  <2>8. PICK n \in Nat, a \in Nat :
            /\ n = f.n /\ a = Offset[field] /\ Offset[field'] = a + 1 + n
            /\ pos' = pos + 1 + n
    BY <2>1, <2>2
  <2>5. Summed'
    <3> SUFFICES ASSUME NEW p \in Nat, p = pos' PROVE csValue' = SumOf(0, p)'
      BY DEF Summed
    <3>1. 1 + f.n \in Nat /\ pos + (1 + f.n) = p
      <4>1. p = pos + 1 + n
        BY <2>8
      <4>2. 1 + n \in Nat /\ pos + (1 + n) = p
        BY <1>3, <4>1
      <4> QED
        BY <2>8, <4>2
    <3>2. SumOf(0, p) = SumOf(0, pos) + SumOf(pos, 1 + f.n)
      BY <1>3, <3>1, SumAdds
    <3>3. SumOf(0, p)' = SumOf(0, p)
      BY <1>1, SumStays
    <3> QED
      BY <2>2, <2>3, <3>2, <3>3
  <2>6. FieldsRead'
    <3> SUFFICES ASSUME NEW first \in Int, first = pos' - Offset[field']
                 PROVE  /\ first \in Nat
                        /\ \A i \in 1..(field' - 1) : Passed(i, first + Offset[i])'
      BY DEF FieldsRead
    <3>1. first = pos - Offset[field]
      <4>1. first = (pos + 1 + n) - (a + 1 + n)
        BY <2>8
      <4>2. first = pos - a
        BY <1>3, <4>1
      <4> QED
        BY <2>8, <4>2
    <3>2. first \in Nat /\ \A i \in 1..(field - 1) : Passed(i, first + Offset[i])
      BY <3>1 DEF HeaderInv, FieldsRead
    <3>3. ASSUME NEW i \in 1..(field' - 1) PROVE Passed(i, first + Offset[i])'
      <4>1. Passed(i, first + Offset[i])
        <5>1. CASE i = field
          <6>1. first + Offset[i] = pos
            BY <1>3, <2>1, <3>1, <5>1
          <6> QED
            BY <2>4, <5>1, <6>1
        <5>2. CASE i # field
          <6>1. i \in 1..(field - 1)
            BY <1>3, <2>2, <5>2
          <6> QED
            BY <3>2, <6>1
        <5> QED
          BY <5>1, <5>2
      <4> DEFINE q == first + Offset[i]
      <4>2. Passed(i, q)' = Passed(i, q)
        <5> HIDE DEF q
        <5> QED
          BY <1>1, PassedStays
      <4> QED
        BY <4>1, <4>2
    <3> QED
      BY <3>2, <3>3
  <2>7. Begun'
    <3>1. mode = "idle"
      BY <1>1, StillIdle
    <3> QED
      BY <1>2, <3>1 DEF Begun
  <2> QED
    BY <2>5, <2>6, <2>7 DEF HeaderInv
<1> QED
  BY <1>4, <1>5

\* The interpreter begins behind the last field.
LEMMA BeginProcessBehind == ASSUME SessionInv, HeaderInv, BeginProcess PROVE HeaderInv'
<1>1. /\ field > Len(Header) /\ algo' = SubSeq(image, pos + 1, Len(image))
      /\ UNCHANGED <<image, field, pos, csValue>>
  BY DEF BeginProcess, GoTo
<1>2. field = Len(Header) + 1
  <2>1. field \in 1..(Len(Header) + 1)
    BY DEF SessionInv, MainTypes
  <2>2. Len(Header) = 9
    BY OffsetRead
  <2> QED
    BY <1>1, <2>1, <2>2
<1>3. Summed'
  BY <1>1, SumStays DEF HeaderInv, Summed
<1>4. FieldsRead'
  BY <1>1, PassedStays DEF HeaderInv, FieldsRead
<1>5. Begun'
  BY <1>1, <1>2 DEF Begun
<1> QED
  BY <1>3, <1>4, <1>5 DEF HeaderInv

\* The program begins with nothing read.
LEMMA InitHeader == SessionInit => HeaderInv
<1> SUFFICES ASSUME SessionInit PROVE HeaderInv
  OBVIOUS
<1>1. image \in Seq(Byte) /\ pos = 0 /\ csValue = 0 /\ field = 1 /\ mode = "idle"
  BY SessionAssumption DEF SessionInit, Byte
<1>2. SumOf(0, 0) = 0
  <2>1. 0 \in Nat
    OBVIOUS
  <2>2. PICK s : Sums(0, 0, s) /\ SumOf(0, 0) = s[0]
    BY <1>1, <2>1, SumRead
  <2> QED
    BY <2>2 DEF Sums
<1>3. Summed
  BY <1>1, <1>2 DEF Summed
<1>4. FieldsRead
  BY <1>1, OffsetRead DEF FieldsRead
<1> QED
  BY <1>1, <1>3, <1>4 DEF HeaderInv, Begun

\* Every step keeps what has been read of the header.
LEMMA NextHeader == SessionInv /\ HeaderInv /\ [SessionNext]_runVars => HeaderInv'
<1> SUFFICES ASSUME SessionInv, HeaderInv, [SessionNext]_runVars PROVE HeaderInv'
  OBVIOUS
<1>1. CASE UNCHANGED runVars
  BY <1>1, HeaderKept DEF runVars, vars, mainVars
<1>2. CASE Start \/ OpenSerial \/ Sign \/ Signed \/ Preset \/ InitSPI \/ InitAlgo \/ InitData
  <2>1. UNCHANGED <<image, field, pos, csValue, algo, mode>>
    BY <1>2 DEF Start, OpenSerial, Sign, Signed, Preset, InitSPI, InitAlgo, InitData, GoTo, Exit,
       Idle, vars
  <2> QED
    BY <2>1, HeaderKept
<1>3. CASE Processing
  <2>1. UNCHANGED <<image, field, pos, csValue, algo>> /\ mode # "idle"
    BY <1>3, AlgoStays DEF Processing, mainVars, SessionInv, Phased
  <2> QED
    BY <2>1, HeaderKept
<1>4. CASE EndProcess
  BY <1>4, HeaderKept DEF EndProcess, Exit, vars
<1> QED
  BY <1>1, <1>2, <1>3, <1>4, HeaderCommentSums, HeaderFieldReads, BeginProcessBehind
  DEF SessionNext

\* What it means for a field to have passed.
LEMMA PassedMeans ==
    ASSUME NEW i \in 1..9, NEW q, Passed(i, q)
    PROVE  /\ \/ HeaderByte(q) = Header[i].tag
              \/ Header[i].tag = COMPRESSION /\ HeaderByte(q) = HCOMMENT
           /\ i = 2 => VersionFits(q)
           /\ i = 4 => ~(HeaderByte(q + 1) > MAXSTACK)
           /\ i = 8 => /\ SumByteMatches(HeaderByte(q + 1), (SumOf(0, q) \div 256) % 256)
                       /\ SumByteMatches(HeaderByte(q + 2), SumOf(0, q) % 256)
<1>1. FieldCode(Header[i], q, SumOf(0, q)) = PROC_COMPLETE
  BY DEF Passed
<1>2. /\ Header[2].tag = VERSION /\ Header[4].tag = STACKREQ /\ Header[8].tag = HEADERCRC
      /\ VERSION # STACKREQ /\ VERSION # HEADERCRC /\ STACKREQ # HEADERCRC
      /\ PROC_COMPLETE \notin {ERROR_INIT, ERROR_INIT_VERSION, ERROR_INIT_CHECKSUM}
  BY DEF Header, Field, VERSION, STACKREQ, HEADERCRC, PROC_COMPLETE, ERROR_INIT,
     ERROR_INIT_VERSION, ERROR_INIT_CHECKSUM
<1> QED
  BY <1>1, <1>2 DEF FieldCode

\* The header that has been read is sound.
LEMMA InvHeader == SessionInv /\ HeaderInv => HeaderSound
<1> SUFFICES ASSUME SessionInv, HeaderInv, mode # "idle"
             PROVE  LET first == pos - Offset[10]
                        sum == SumOf(0, first + Offset[8])
                    IN /\ first >= 0
                       /\ algo = SubSeq(image, pos + 1, Len(image))
                       /\ \A i \in 1..9 :
                             \/ HeaderByte(first + Offset[i]) = Header[i].tag
                             \/ /\ Header[i].tag = COMPRESSION
                                /\ HeaderByte(first + Offset[i]) = HCOMMENT
                       /\ VersionFits(first + Offset[2])
                       /\ HeaderByte(first + Offset[4] + 1) <= MAXSTACK
                       /\ SumByteMatches(HeaderByte(first + Offset[8] + 1), (sum \div 256) % 256)
                       /\ SumByteMatches(HeaderByte(first + Offset[8] + 2), sum % 256)
  BY DEF HeaderSound
<1> DEFINE first == pos - Offset[10]
<1>1. field = 10 /\ algo = SubSeq(image, pos + 1, Len(image))
  BY OffsetRead DEF HeaderInv, Begun
<1>2. first \in Int
  BY OffsetRead DEF SessionInv, MainTypes, Offset
<1>3. first \in Nat /\ \A i \in 1..9 : Passed(i, first + Offset[i])
  <2> HIDE DEF first
  <2>1. first = pos - Offset[10]
    BY DEF first
  <2>2. field - 1 = 9
    BY <1>1
  <2> QED
    BY <1>1, <1>2, <2>1, <2>2 DEF HeaderInv, FieldsRead
<1> HIDE DEF first
<1>4. \A i \in 1..9 :
         \/ HeaderByte(first + Offset[i]) = Header[i].tag
         \/ Header[i].tag = COMPRESSION /\ HeaderByte(first + Offset[i]) = HCOMMENT
  BY <1>3, PassedMeans
<1>5. VersionFits(first + Offset[2])
  <2>1. Passed(2, first + Offset[2])
    BY <1>3
  <2> QED
    BY <2>1, PassedMeans
<1>6. HeaderByte(first + Offset[4] + 1) <= MAXSTACK
  <2>1. Passed(4, first + Offset[4])
    BY <1>3
  <2>2. ~(HeaderByte(first + Offset[4] + 1) > MAXSTACK)
    BY <2>1, PassedMeans
  <2>3. first + Offset[4] + 1 \in Nat
    BY <1>3, OffsetRead
  <2>4. HeaderByte(first + Offset[4] + 1) \in Nat /\ MAXSTACK \in Nat
    BY <2>3, HeaderByteRead, SessionAssumption DEF SessionInv, MainTypes
  <2> QED
    BY <2>2, <2>4
<1>7. LET sum == SumOf(0, first + Offset[8])
      IN /\ SumByteMatches(HeaderByte(first + Offset[8] + 1), (sum \div 256) % 256)
         /\ SumByteMatches(HeaderByte(first + Offset[8] + 2), sum % 256)
  <2>1. Passed(8, first + Offset[8])
    BY <1>3
  <2> QED
    BY <2>1, PassedMeans
<1>8. first >= 0
  BY <1>3
<1> QED
  BY <1>1, <1>4, <1>5, <1>6, <1>7, <1>8 DEF first

\* Whatever the file, what is run follows a header whose fields are in their
\* order, of a known version and a nesting there is room for, and whose checksum
\* is that of all the bytes before it (core.c:115-368).
THEOREM HeaderIsSound == SessionSpec => []HeaderSound
<1>1. SessionInit => SessionInv /\ HeaderInv
  BY InitSession, InitHeader
<1>2. SessionInv /\ HeaderInv /\ [SessionNext]_runVars => (SessionInv /\ HeaderInv)'
  BY NextSession, NextHeader
<1>3. SessionInv /\ HeaderInv => HeaderSound
  BY InvHeader
<1> QED
  BY <1>1, <1>2, <1>3, PTL DEF SessionSpec

-----------------------------------------------------------------------------
(* What holds of the interpreter holds of it in a whole run. *)

\* What is not a step of the interpreter writes nothing to algoBuffer and is not the
\* end of its run.
LEMMA OthersLeave ==
    ASSUME SessionInv, [SessionNext]_runVars, ~Processing
    PROVE  UNCHANGED algoBuffer /\ (mode' = "done" => mode = "done")
<1>1. CASE UNCHANGED runVars
  BY <1>1 DEF runVars, vars
<1>2. CASE Start \/ Signed \/ Preset \/ HeaderComment \/ HeaderField \/ EndProcess
  BY <1>2 DEF Start, Signed, Preset, HeaderComment, HeaderField, EndProcess, vars
<1>3. CASE OpenSerial \/ Sign \/ InitSPI \/ InitAlgo \/ InitData
  BY <1>3 DEF OpenSerial, Sign, InitSPI, InitAlgo, InitData, Idle
<1>4. CASE BeginProcess
  BY <1>4 DEF BeginProcess
<1> QED
  BY <1>1, <1>2, <1>3, <1>4 DEF SessionNext

\* In a whole run, too, a body that is executed out of algoBuffer is not written to
\* (core.c:1037-1283).
THEOREM RunBodiesIntact == SessionSpec => BodyIntact
<1>1. SessionInv /\ [SessionNext]_runVars => [Executing => UNCHANGED algoBuffer]_vars
  <2>1. SessionInv /\ Processing => (Executing => UNCHANGED algoBuffer)
    BY BodyKept DEF SessionInv, Processing
  <2> QED
    BY <2>1, OthersLeave
<1> QED
  BY <1>1, SessionInvariant, PTL DEF SessionSpec, BodyIntact

\* In a whole run, too, only an ENDOFALGO of the file passes (core.c:601, 1276).
THEOREM RunPassesAtEnd == SessionSpec => PassOnlyAtEnd
<1>1. SessionInv /\ [SessionNext]_runVars
        => [mode # "done" /\ mode' = "done" /\ ret' = PROC_OVER
              => Top.src.file /\ ByteAt(Top.src, Top.idx, 0) = ENDOFALGO]_vars
  <2>1. SessionInv /\ Processing
          => (mode # "done" /\ mode' = "done" /\ ret' = PROC_OVER
                => Top.src.file /\ ByteAt(Top.src, Top.idx, 0) = ENDOFALGO)
    BY PassReadsEnd DEF SessionInv, Processing
  <2> QED
    BY <2>1, OthersLeave
<1> QED
  BY <1>1, SessionInvariant, PTL DEF SessionSpec, PassOnlyAtEnd

\* Before the interpreter begins nothing has been called that could have a cause.
RunCauses == CauseInv /\ (mode = "idle" => stack = <<>>)

\* Without a call in progress nothing is to be returned.
LEMMA NoneCaused == ASSUME stack = <<>>, mode \notin {"return", "done"} PROVE CauseInv
BY DEF CauseInv, Flagged

\* A step keeps the causes, be it the interpreter's or not.
LEMMA NextRunCauses ==
    ASSUME SessionInv, RunCauses, [SessionNext]_runVars
    PROVE  RunCauses'
<1>1. CASE UNCHANGED vars
  BY <1>1, StutterCause DEF RunCauses, vars
<1>2. CASE OpenSerial \/ Sign \/ InitSPI \/ InitAlgo \/ InitData
  <2>1. Idle /\ mode = "idle"
    BY <1>2, StillIdle DEF OpenSerial, Sign, InitSPI, InitAlgo, InitData
  <2>2. stack' = <<>> /\ mode' = "idle"
    BY <2>1 DEF RunCauses, Idle
  <2>3. CauseInv'
    BY <2>2 DEF CauseInv, Flagged
  <2> QED
    BY <2>2, <2>3 DEF RunCauses
<1>3. CASE BeginProcess
  <2> DEFINE frame == NewFrame("process", [file |-> TRUE, base |-> 0, size |-> 0], 0, 0)
  <2>1. stack' = <<frame>> /\ mode' = "step" /\ ~frame.mismatch
    BY <1>3, NewUnmarked DEF BeginProcess
  <2> HIDE DEF frame
  <2>2. CauseInv'
    BY <2>1 DEF CauseInv, Flagged
  <2> QED
    BY <2>1, <2>2 DEF RunCauses
<1>4. CASE Processing
  <2>1. CauseInv'
    BY <1>4, NextCause DEF SessionInv, RunCauses, Processing
  <2>2. mode' # "idle"
    <3>1. SessionInv' /\ phase' = "process"
      BY <1>4, NextSession DEF Processing, mainVars
    <3> QED
      BY <3>1 DEF SessionInv, Phased
  <2> QED
    BY <2>1, <2>2 DEF RunCauses
<1>5. CASE Start \/ Signed \/ Preset \/ HeaderComment \/ HeaderField \/ EndProcess
  BY <1>1, <1>5 DEF Start, Signed, Preset, HeaderComment, HeaderField, EndProcess
<1>6. CASE UNCHANGED runVars
  BY <1>1, <1>6 DEF runVars
<1> QED
  BY <1>2, <1>3, <1>4, <1>5, <1>6 DEF SessionNext

\* In a whole run, too, the code the interpreter ends with is that of what went wrong
\* (core.c:428-597, 898-912, 1123, 1274).
THEOREM RunCodesAreTold == SessionSpec => []CodeTold
<1>1. SessionInit => RunCauses
  BY NoneCaused DEF SessionInit, RunCauses
<1>2. SessionInv /\ RunCauses /\ [SessionNext]_runVars => RunCauses'
  BY NextRunCauses
<1>3. RunCauses => CodeTold
  BY DEF RunCauses, CauseInv, CodeTold
<1> QED
  BY <1>1, <1>2, <1>3, SessionInvariant, PTL DEF SessionSpec
=============================================================================

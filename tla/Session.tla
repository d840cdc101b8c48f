------------------------------- MODULE Session -------------------------------
(***************************************************************************)
(* A whole run of the program: main() of main.c, reedl_ictrl_init(),       *)
(* SSPIEm(), the header that SSPIEm_init() reads, and then the interpreter *)
(* of AlgoEngine on what follows it.                                       *)
(***************************************************************************)
EXTENDS AlgoEngine

CONSTANTS
    Images,             \* algorithm files with their headers
    MAXSTACK            \* the deepest nesting a file may ask for

ASSUME SessionAssumption == Images \subseteq Seq(0..255) /\ MAXSTACK \in Nat

\* opcode.h
STARTOFALGO == 96
ALGOID == 162
VERSION == 163
BUFFERREQ == 164
STACKREQ == 165
MASKBUFREQ == 166
HCHANNEL == 167
HEADERCRC == 168
COMPRESSION == 169

\* debug.h
ERROR_INIT_ALGO == -1
ERROR_INIT_VERSION == -3
ERROR_INIT_CHECKSUM == -4
ERROR_INIT_SPI == -5
ERROR_INIT == -6

VARIABLES
    phase,              \* where main() is
    argc,               \* how many words the command line has: the program, the
                        \* algorithm, the data (a fourth names the serial port)
    image,              \* the algorithm file
    field,              \* the field of the header that is read
    pos,                \* where it begins
    csValue,            \* the sum of the header's bytes
    signatures,         \* what reedl_ictrl_init() has got: "ok" or "failed" each
    code                \* what main() returns

mainVars == <<phase, argc, image, field, pos, csValue, signatures, code>>
runVars == <<vars, mainVars>>

Phases == {"main", "open", "sign", "preset", "spi", "files", "header", "data", "process",
           "exit", "crashed", "hung"}

\* main() goes on at p.
GoTo(p) == phase' = p /\ UNCHANGED <<argc, image, field, pos, csValue, code>>

Exit(c) == /\ phase' = "exit"
           /\ code' = c
           /\ UNCHANGED <<argc, image, field, pos, csValue>>

\* The interpreter has not begun.
Idle == UNCHANGED <<algo, stack, ret, mode, algoBuffer>>

Failed(what) == Fault(what, "failed")

-----------------------------------------------------------------------------
(* main() and reedl_ictrl_init(). *)

\* Without arguments there is nothing to do.
Start ==
    /\ phase = "main"
    /\ IF argc < 2 THEN Exit(1) ELSE GoTo("open")
    /\ UNCHANGED <<vars, signatures>>

\* reedl_ictrl_serial_open()
OpenSerial ==
    /\ phase = "open"
    /\ \/ GoTo("sign") /\ UNCHANGED hwVars
       \/ Failed("serial") /\ Exit(ERROR_INIT) /\ UnchangedPins
    /\ Idle
    /\ UNCHANGED signatures

\* reedl_ictrl_init_sign_fpga() and ..._fw(): the second is asked for whatever
\* became of the first.
Sign ==
    /\ phase = "sign"
    /\ Len(signatures) < 2
    /\ \/ signatures' = Append(signatures, "ok") /\ UNCHANGED hwVars
       \/ signatures' = Append(signatures, "failed") /\ Failed("sign") /\ UnchangedPins
    /\ GoTo("sign")
    /\ Idle

\* Mutant of Signed: the second result is taken for both.
SignedLast ==
    /\ phase = "sign"
    /\ Len(signatures) = 2
    /\ IF signatures[2] = "ok" THEN GoTo("preset") ELSE Exit(ERROR_INIT)
    /\ UNCHANGED <<vars, signatures>>

Signed ==
    /\ phase = "sign"
    /\ Len(signatures) = 2
    /\ IF signatures = <<"ok", "ok">> THEN GoTo("preset") ELSE Exit(ERROR_INIT)
    /\ UNCHANGED <<vars, signatures>>

\* SSPIEm_preset() copies argv[1] and argv[2]; without a data file the latter is
\* a null pointer.
Preset ==
    /\ phase = "preset"
    /\ GoTo(IF argc = 2 THEN "crashed" ELSE "spi")
    /\ UNCHANGED <<vars, signatures>>

-----------------------------------------------------------------------------
(* SSPIEm_init(). *)

\* SPI_init(): cs_state is set, the command is sent.  One that has no answer may
\* have been carried out all the same.
InitSPI ==
    /\ phase = "spi"
    /\ \/ port' = "on" /\ GoTo("files") /\ UNCHANGED <<log, faults>>
       \/ Failed("spi") /\ Exit(ERROR_INIT_SPI) /\ port' \in {"off", "on"}
    /\ cs' = "high"
    /\ Idle
    /\ UNCHANGED <<files, signatures>>

\* algoInit(): fopen()
InitAlgo ==
    /\ phase = "files"
    /\ \/ files' = "open" /\ GoTo("header") /\ UNCHANGED <<log, faults>>
       \/ Failed("fopen") /\ Exit(ERROR_INIT_ALGO) /\ UNCHANGED files
    /\ Idle
    /\ UNCHANGED <<cs, port, signatures>>

\* At and behind the end of the file the header reads 0xFF.
HeaderByte(p) == IF p < Len(image) THEN image[p + 1] ELSE 255

\* The sum of n bytes from p: putChunk().
SumOf(p, n) ==
    LET s[k \in 0..n] == IF k = 0 THEN 0 ELSE s[k - 1] + HeaderByte(p + k - 1)
    IN s[n]

\* The fields in their order, each a tag and its values.
Field(tag, n) == [tag |-> tag, n |-> n]
Header == << Field(ALGOID, 4), Field(VERSION, 3), Field(BUFFERREQ, 1), Field(STACKREQ, 1),
             Field(MASKBUFREQ, 1), Field(HCHANNEL, 1), Field(COMPRESSION, 1),
             Field(HEADERCRC, 2), Field(STARTOFALGO, 0) >>

\* Comments come first and count for the sum.
HeaderComment ==
    LET ends == {p \in pos..(Len(image) - 1) : image[p + 1] = HENDCOMMENT}
        end == CHOOSE p \in ends : \A q \in ends : p <= q
    IN /\ phase = "header"
       /\ field = 1
       /\ HeaderByte(pos) = HCOMMENT
       /\ IF ends = {}
          THEN phase' = "hung" /\ UNCHANGED <<pos, csValue>>
          ELSE /\ pos' = end + 1
               /\ csValue' = csValue + SumOf(pos, end + 1 - pos)
               /\ UNCHANGED phase
       /\ UNCHANGED <<vars, argc, image, field, signatures, code>>

\* The version read is not newer than this program's, compared byte by byte.
version == <<4, 0, 0>>
VersionFits(p) == \A i \in 1..3 : HeaderByte(p + i) <= version[i]

\* A byte of the checksum matches, or is 0xFF.
SumByteMatches(byte, expected) == byte \in {expected, 255}

\* Mutants of FieldCode: the sum is not compared; the stack is not looked at.
FieldCodeUnsummed(f, p, sum) ==
    IF HeaderByte(p) # f.tag /\ ~(f.tag = COMPRESSION /\ HeaderByte(p) = HCOMMENT)
    THEN ERROR_INIT
    ELSE CASE f.tag = VERSION /\ ~VersionFits(p) -> ERROR_INIT_VERSION
           [] f.tag = STACKREQ /\ HeaderByte(p + 1) > MAXSTACK -> ERROR_INIT
           [] OTHER -> PROC_COMPLETE

FieldCodeUnstacked(f, p, sum) ==
    IF HeaderByte(p) # f.tag /\ ~(f.tag = COMPRESSION /\ HeaderByte(p) = HCOMMENT)
    THEN ERROR_INIT
    ELSE CASE f.tag = VERSION /\ ~VersionFits(p) -> ERROR_INIT_VERSION
           [] f.tag = HEADERCRC
                /\ ~(/\ SumByteMatches(HeaderByte(p + 1), (sum \div 256) % 256)
                     /\ SumByteMatches(HeaderByte(p + 2), sum % 256)) -> ERROR_INIT_CHECKSUM
           [] OTHER -> PROC_COMPLETE

\* What reading the field at p comes to; sum is that of the bytes before it.
\* main() passes an ID that matches any, and a byte never asks for more buffer or
\* mask than there is.
FieldCode(f, p, sum) ==
    IF HeaderByte(p) # f.tag /\ ~(f.tag = COMPRESSION /\ HeaderByte(p) = HCOMMENT)
    THEN ERROR_INIT
    ELSE CASE f.tag = VERSION /\ ~VersionFits(p) -> ERROR_INIT_VERSION
           [] f.tag = STACKREQ /\ HeaderByte(p + 1) > MAXSTACK -> ERROR_INIT
           [] f.tag = HEADERCRC
                /\ ~(/\ SumByteMatches(HeaderByte(p + 1), (sum \div 256) % 256)
                     /\ SumByteMatches(HeaderByte(p + 2), sum % 256)) -> ERROR_INIT_CHECKSUM
           [] OTHER -> PROC_COMPLETE

\* The fields up to HCHANNEL, then dataInit(), then the rest.
HeaderField ==
    LET f == Header[field]
        c == FieldCode(f, pos, csValue)
    IN /\ phase = "header"
       /\ field <= Len(Header)
       /\ ~(field = 1 /\ HeaderByte(pos) = HCOMMENT)
       /\ IF c # PROC_COMPLETE
          THEN phase' = "exit" /\ code' = c /\ UNCHANGED <<field, pos, csValue>>
          ELSE /\ phase' = IF f.tag = HCHANNEL THEN "data" ELSE "header"
               /\ field' = field + 1
               /\ pos' = pos + 1 + f.n
               /\ csValue' = csValue + SumOf(pos, 1 + f.n)
               /\ UNCHANGED code
       /\ UNCHANGED <<vars, argc, image, signatures>>

\* dataInit(), of which DataTransfer tells more.
InitData ==
    /\ phase = "data"
    /\ \/ GoTo("header") /\ UNCHANGED <<log, faults>>
       \/ Failed("data") /\ Exit(ERROR_INIT_DATA)
    /\ Idle
    /\ UNCHANGED <<cs, port, files, signatures>>

-----------------------------------------------------------------------------
(* SSPIEm_process() begins behind the header, and main() returns its code. *)

BeginProcess ==
    /\ phase = "header"
    /\ field > Len(Header)
    /\ algo' = SubSeq(image, pos + 1, Len(image))
    /\ stack' = <<NewFrame("process", [file |-> TRUE, base |-> 0, size |-> 0], 0, 0)>>
    /\ mode' = "step"
    /\ GoTo("process")
    /\ UNCHANGED <<ret, algoBuffer, hwVars, signatures>>

Processing ==
    /\ phase = "process"
    /\ Next
    /\ UNCHANGED mainVars

EndProcess ==
    /\ phase = "process"
    /\ mode = "done"
    /\ Exit(ret)
    /\ UNCHANGED <<vars, signatures>>

SessionInit ==
    /\ algo = <<>>
    /\ stack = <<>>
    /\ ret = PROC_COMPLETE
    /\ mode = "idle"
    /\ algoBuffer = [a \in 0..MAXBUF |-> 0]
    /\ cs = "high"
    /\ port = "off"
    /\ files = "closed"
    /\ log = <<>>
    /\ faults = 0
    /\ phase = "main"
    /\ argc \in 1..3
    /\ image \in Images
    /\ field = 1
    /\ pos = 0
    /\ csValue = 0
    /\ signatures = <<>>
    /\ code = 0

SessionNext ==
    \/ Start \/ OpenSerial \/ Sign \/ Signed \/ Preset
    \/ InitSPI \/ InitAlgo \/ HeaderComment \/ HeaderField \/ InitData
    \/ BeginProcess \/ Processing \/ EndProcess

SessionSpec == SessionInit /\ [][SessionNext]_runVars /\ WF_runVars(SessionNext)

-----------------------------------------------------------------------------
(* Properties. *)

\* The status the shell sees.
Status == code % 256

\* The status 2, by which main() tells PASS, means that the command line was
\* complete, both signatures were answered, ENDOFALGO was met, the files were closed
\* and SPI_final() was called, whatever its command came to; and the status 0 means
\* a failure too, of TRSTTOGGLE (main.c:214-236, core.c:565-574).
StatusTells ==
    phase = "exit" =>
        /\ Status = 2 => /\ argc > 2 /\ signatures = <<"ok", "ok">>
                         /\ mode = "done" /\ ret = PROC_OVER
                         /\ port \in {"off", "stuck"} /\ files = "closed"
        /\ Status = 0 => log[Len(log)] = <<"trst", "failed">>

\* The port that was turned on is left so, and SPI_final() not called, only by the
\* errors that return at once: that of SPI_init() itself, whose command was carried
\* out without an answer, those of SSPIEm_init() behind it, and ERROR_PROC_ALGO and
\* ERROR_PROC_HARDWARE of SSPIEm_process() (core.c:115-362, 428-456, 610).  That a
\* call of SPI_final() left it on happens at the end of an algorithm only.
LeftOn ==
    phase = "exit" =>
        /\ port = "on" =>
              code \in {ERROR_INIT_SPI, ERROR_INIT_ALGO, ERROR_INIT, ERROR_INIT_VERSION,
                        ERROR_INIT_CHECKSUM, ERROR_INIT_DATA, ERROR_PROC_ALGO,
                        ERROR_PROC_HARDWARE}
        /\ port = "stuck" => mode = "done" /\ files = "closed"

\* Where the fields begin from the first one on, and where the algorithm does.
Offset == <<0, 5, 9, 11, 13, 15, 17, 19, 22, 23>>

\* The program runs what follows a header whose fields stand in their order, of a
\* version it knows, with a nesting it has room for, and with a checksum that is
\* that of all the bytes before it, comments included (core.c:115-368).
HeaderSound ==
    mode # "idle" =>
        LET first == pos - Offset[10]
            sum == SumOf(0, first + Offset[8])
        IN /\ first >= 0
           /\ algo = SubSeq(image, pos + 1, Len(image))
           /\ \A i \in 1..9 :
                 \/ HeaderByte(first + Offset[i]) = Header[i].tag
                 \/ Header[i].tag = COMPRESSION /\ HeaderByte(first + Offset[i]) = HCOMMENT
           /\ VersionFits(first + Offset[2])
           /\ HeaderByte(first + Offset[4] + 1) <= MAXSTACK
           /\ SumByteMatches(HeaderByte(first + Offset[8] + 1), (sum \div 256) % 256)
           /\ SumByteMatches(HeaderByte(first + Offset[8] + 2), sum % 256)

\* stack, of MAXSTACK entries, is enough for the loops within a loop (core.c:1062,
\* 1213), for SSPIEm_init() refuses a file that asks for more.
NestFits == \A i \in 1..Len(stack) : Len(stack[i].nest) <= MAXSTACK

\* A comment at the start of the file that never ends.
Unterminated ==
    \E p \in DOMAIN image :
        /\ image[p] = HCOMMENT
        /\ p = 1 \/ image[p - 1] = HENDCOMMENT
        /\ \A q \in (p + 1)..Len(image) : image[q] # HENDCOMMENT

\* Every run ends, but for that comment, which is read for ever (core.c:1293-1300).
Ends == Unterminated \/ <>(phase \in {"exit", "crashed"})
=============================================================================

---------------------------- MODULE DataTransfer ----------------------------
(***************************************************************************)
(* TRANS_transceive_stream() of hardware.c over the data file: rows of the *)
(* data sets are read, sent and compared as Transceive says.               *)
(* The interpreter of core.c, its caller, may ask for any transfer at any  *)
(* time; AlgoEngine says when it does.                                     *)
(***************************************************************************)
EXTENDS DataSets, Transceive, Bitwise, SequencesExt

CONSTANTS
    Sizes,              \* trCount: how long transfers are, in bits
    FrameBytes,         \* how many bytes a row has that is stored compressed
    AlgoRows,           \* data found in the algorithm, as sequences of bytes
    Masks,              \* masks found in the algorithm, likewise
    Flips,              \* bound: which bits of a byte may be received wrong
    MidReset            \* may RESETDATA come while a data set is partly read?

ASSUME TransferAssumption ==
    /\ Sizes \subseteq Nat \ {0}
    /\ MidReset \in BOOLEAN
    /\ Flips \subseteq 0..7
    /\ AlgoRows \cup Masks \subseteq Seq(0..255)

VARIABLES
    d_isDataInput,      \* was a data file named?
    mode,               \* "closed", "open", "failed" or "done"
    taken               \* history: how far each data set is read

vars == <<file, d, d_isDataInput, mode, last, taken>>

PROGDATA == 4           \* the data set asked for unless another is named
PROGDATAEH == 39
DataIDs == {PROGDATA, PROGDATAEH}

-----------------------------------------------------------------------------
(* What is read and what is received. *)

\* What the FPGA may send where row is expected: that, or one bit of it flipped.
Readings(row) ==
    {row} \cup {[row EXCEPT ![i] = @ ^^ (2 ^ b)] : i \in DOMAIN row, b \in Flips}

\* The calls of HLDataGetByte() for a number of bytes of a row of n bits: up to
\* the first to fail.  Only the first is given the size.
ReadBytes(s, id, n, count) ==
    LET Extend(row, got) ==
            [s |-> got.s, ok |-> got.ok, row |-> IF got.ok THEN Append(row, got.byte) ELSE row]
        Read(r, i) ==
            IF r.ok THEN Extend(r.row, HLDataGetByte(r.s, id, IF i = 1 THEN n ELSE 0)) ELSE r
    IN FoldLeft(Read, [s |-> s, ok |-> TRUE, row |-> <<>>], [i \in 1..count |-> i])

\* Mutant of ReadRow: bits that do not fill a byte are not read.
ReadRowDown(s, id, n) == ReadBytes(s, id, n, n \div 8)

ReadRow(s, id, n) == ReadBytes(s, id, n, BytesOf(n))

\* A row is compressed by itself, so that it must be read in one transfer.
Compressed == IF d.version = 1 THEN d.compression # 0
              ELSE \E i \in DOMAIN d.toc : d.toc[i].compression # 0
WholeRow(n) == Compressed => BytesOf(n) = FrameBytes

\* A file of version 1 is one stream whatever is asked for.
StreamOf(id) == IF d.version = 1 THEN PROGDATA ELSE id

SizeOf(id) == d.toc[FirstIn(Indices(d, id))].size

Took(id, r) ==
    taken' = IF ~r.ok THEN taken
             ELSE [taken EXCEPT ![StreamOf(id)] =
                      IF d.version = 1 THEN @ + Len(r.row)
                      ELSE (@ + Len(r.row)) % SizeOf(id)]

-----------------------------------------------------------------------------
(* TRANS_transceive_stream(). *)

\* DATA_TX
SendData(id, n) ==
    \E r \in {ReadRow(d, id, n)} :
       /\ mode = "open" /\ WholeRow(n)
       /\ d' = r.s
       /\ Took(id, r)
       /\ \/ r.ok /\ SendRow(r.row, n)
          \/ ~r.ok /\ SendNothing(r.row, n)
       /\ UNCHANGED <<file, d_isDataInput, mode>>

\* DATA_RX
VerifyData(id, n, mask) ==
    \E r \in {ReadRow(d, id, n)} :
       /\ mode = "open" /\ WholeRow(n)
       /\ d' = r.s
       /\ Took(id, r)
       /\ \E got \in Readings(r.row) : VerifyRow(r.row, r.ok, n, mask, got)
       /\ UNCHANGED <<file, d_isDataInput, mode>>

\* BUFFER_TX
SendAlgo(row, n) ==
    /\ mode = "open"
    /\ SendBuffer(row, n)
    /\ UNCHANGED <<file, d, d_isDataInput, mode, taken>>

\* BUFFER_RX
CheckAlgo(row, n, mask) ==
    /\ mode = "open"
    /\ \E got \in Readings(row) : CheckBuffer(row, n, mask, got)
    /\ UNCHANGED <<file, d, d_isDataInput, mode, taken>>

-----------------------------------------------------------------------------
(* The data file. *)

\* dataInit(): without a file there is nothing to do; a file that is named may
\* not be there.
Open ==
    /\ mode = "closed"
    /\ \E r \in {DataInit} :
          \/ ~d_isDataInput /\ mode' = "open" /\ UNCHANGED d
          \/ d_isDataInput /\ mode' = "failed" /\ UNCHANGED d
          \/ d_isDataInput /\ mode' = (IF r.ok THEN "open" ELSE "failed") /\ d' = r.s
    /\ UNCHANGED <<file, d_isDataInput, last, taken>>

\* RESETDATA: dataReset(1), whose failure is the caller's to see.
ResetData ==
    \E r \in {DataReset(d, TRUE)} :
       /\ mode = "open"
       /\ MidReset \/ d.version # 3 \/ d.requestNewData
       /\ d' = r.s
       /\ taken' = IF r.ok THEN [id \in DataIDs |-> 0] ELSE taken
       /\ Reset(r.ok)
       /\ UNCHANGED <<file, d_isDataInput, mode>>

\* dataFinal()
Close ==
    /\ mode = "open"
    /\ mode' = "done"
    /\ d' = DataFinal(d)
    /\ UNCHANGED <<file, d_isDataInput, last, taken>>

-----------------------------------------------------------------------------
Init ==
    /\ file \in DataFiles
    /\ d = Zeroed
    /\ d_isDataInput \in BOOLEAN
    /\ mode = "closed"
    /\ last = NoTransfer
    /\ taken = [id \in DataIDs |-> 0]

Next ==
    \/ Open \/ ResetData \/ Close
    \/ \E n \in Sizes :
          \/ \E id \in DataIDs : SendData(id, n)
          \/ \E id \in DataIDs, mask \in {<<>>} \cup SizedFor(n, Masks) :
                VerifyData(id, n, mask)
          \/ \E bytes \in SizedFor(n, AlgoRows) :
                \/ SendAlgo(bytes, n)
                \/ \E mask \in {<<>>} \cup SizedFor(n, Masks) : CheckAlgo(bytes, n, mask)

Spec == Init /\ [][Next]_vars

-----------------------------------------------------------------------------
(* Properties. *)

TypeOK ==
    /\ file \in DataFiles
    /\ mode \in {"closed", "open", "failed", "done"}
    /\ d.open => mode \in {"open", "failed"}
    /\ d.pos \in 0..(Len(file) + 1)
    /\ d.version \in {0, 1, 3}
    /\ d.index \in 1..D_TOC_NUMBER
    /\ Len(d.toc) <= D_TOC_NUMBER
    /\ d.buffer \in [1..DATA_BUFFER_SIZE -> [ID : Byte, address : Nat]]
    /\ d.counter \in -1..255
    /\ taken \in [DataIDs -> Nat]

\* What the program knows of where each data set was left is where it was left:
\* for the current one currentSize, for the others their entries in the table of
\* positions (intrface.c:441-517).  A set of one byte may leave an entry though
\* it is complete.
PositionsKnown ==
    mode = "open" /\ d.version = 3 =>
        \A id \in DataIDs :
            LET current == ~d.requestNewData /\ Entry(d).ID = id
            IN Indices(d, id) # {} /\ SizeOf(id) > 1 =>
                  taken[id] = IF current THEN d.currentSize % SizeOf(id) ELSE Left(d, id)
=============================================================================

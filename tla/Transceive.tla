----------------------------- MODULE Transceive -----------------------------
(***************************************************************************)
(* TRANS_transceive_stream() of hardware.c for one row, wherever the row   *)
(* comes from: how data that do not fill their bytes are laid out on the   *)
(* wire, and how what the FPGA sends is compared, there and in core.c.     *)
(***************************************************************************)
EXTENDS Integers, Sequences

CONSTANTS
    MaxTransfer,        \* the most bytes one command carries (16)
    LinkFaults          \* can a command to the FPGA fail?

ASSUME LinkAssumption == MaxTransfer \in Nat /\ LinkFaults \in BOOLEAN

VARIABLE last           \* history: the last transfer

ERROR_INIT_DATA == -2
ERROR_VERIFICATION == -20

Byte == 0..255

\* The bytes that n bits take.
BytesOf(n) == (n + 7) \div 8

\* What one of the upper n % 8 bits of a byte is worth at least.
Unit(n) == 2 ^ (8 - (n % 8))

\* A transfer: its size, the row of the data or of the algorithm, what went over
\* the wire (nothing when the command failed), and what was returned.
Transfer(op, n, row, wire, mask, code) ==
    [op |-> op, n |-> n, row |-> row, wire |-> wire, mask |-> mask, code |-> code]

NoTransfer == Transfer("none", 0, <<>>, <<>>, <<>>, 1)

\* reedl_ictrl_sspiem_write() and ..._read(): does the command get through?
\* Longer transfers are refused and not sent.  TRANS_transmitBytes() and
\* TRANS_receiveBytes() report neither as a failure.
Carried(n) == BytesOf(n) <= MaxTransfer
NotCarried(n) == LinkFaults \/ BytesOf(n) > MaxTransfer

-----------------------------------------------------------------------------
(* Bits. *)

\* Bit j of a byte; bit 0 is the uppermost.
BitAt(byte, j) == (byte \div 2 ^ (7 - j)) % 2

\* The byte with the bits x.
Made(x) == 128 * x[0] + 64 * x[1] + 32 * x[2] + 16 * x[3]
               + 8 * x[4] + 4 * x[5] + 2 * x[6] + x[7]

\* a & b
BitAnd(a, b) == Made([j \in 0..7 |-> BitAt(a, j) * BitAt(b, j)])

\* Bit k of a row; bit 0 is the uppermost of the first byte.
Bit(bytes, k) == BitAt(bytes[1 + k \div 8], k % 8)

-----------------------------------------------------------------------------
(* Data that are sent. *)

\* Mutant of Padded: the padding is zeros.
PaddedZeros(row, n) ==
    [i \in DOMAIN row |->
        IF n % 8 = 0 THEN row[i]
        ELSE (IF i = 1 THEN 0 ELSE (row[i - 1] * 2 ^ (n % 8)) % 256)
                + row[i] \div Unit(n)]

\* A row that does not fill its bytes is sent behind a padding of ones: each
\* byte takes its upper bits from the data byte before.
Padded(row, n) ==
    [i \in DOMAIN row |->
        IF n % 8 = 0 THEN row[i]
        ELSE (((IF i = 1 THEN 255 ELSE row[i - 1]) * 2 ^ (n % 8)) % 256)
                + row[i] \div Unit(n)]

\* DATA_TX
SendRow(row, n) ==
    \/ Carried(n) /\ last' = Transfer("DATA_TX", n, row, Padded(row, n), <<>>, 1)
    \/ NotCarried(n) /\ last' = Transfer("DATA_TX", n, row, <<>>, <<>>, 1)

\* The row could be read in part only.
SendNothing(part, n) ==
    last' = Transfer("DATA_TX", n, part, <<>>, <<>>, ERROR_INIT_DATA)

\* BUFFER_TX: data of the algorithm, TRANSOUT with NO_DATA or ALGODATA.
SendBuffer(row, n) ==
    \/ Carried(n) /\ last' = Transfer("BUFFER_TX", n, row, row, <<>>, 1)
    \/ NotCarried(n) /\ last' = Transfer("BUFFER_TX", n, row, <<>>, <<>>, 1)

-----------------------------------------------------------------------------
(* Data that are compared. *)

\* The bits of a byte that count under a mask.
Masked(byte, mask, i) == IF i \in DOMAIN mask THEN BitAnd(byte, mask[i]) ELSE byte

\* Mutants of Differs: the padding is compared, and the mask does not reach the
\* last byte.
DiffersPadding(got, row, n, mask) ==
    \E i \in DOMAIN row : Masked(got[i], mask, i) # Masked(row[i], mask, i)

DiffersInside(got, row, n, mask) ==
    \E i \in DOMAIN row : i < Len(row) /\ Masked(got[i], mask, i) # Masked(row[i], mask, i)

\* Is there a byte that does not match?  Of the last one the upper n % 8 bits
\* are looked at: none when the row fills its bytes.
Differs(got, row, n, mask) ==
    \E i \in DOMAIN row :
        LET a == Masked(got[i], mask, i)
            b == Masked(row[i], mask, i)
        IN IF i = Len(row) THEN a \div Unit(n) # b \div Unit(n) ELSE a # b

Verdict(good) == IF good THEN 1 ELSE ERROR_VERIFICATION

\* DATA_RX.  When the command fails, what an earlier transfer left in dataBuffer
\* is compared: the verdict may be either.  When the row could not be read, that
\* is what is returned.
VerifyRow(row, read, n, mask, got) ==
    LET Record(wire, good) ==
            last' = Transfer("DATA_RX", n, row, wire, mask,
                             IF read THEN Verdict(good) ELSE ERROR_INIT_DATA)
    IN \/ Carried(n) /\ Record(got, ~Differs(got, row, n, mask))
       \/ NotCarried(n) /\ \E good \in BOOLEAN : Record(<<>>, good)

\* Mutant of Trimmed: without a mask the byte is taken as it is.
TrimmedNot(byte, n, mask, i) == Masked(byte, mask, i)

\* What core.c compares of byte i that it received: what the mask leaves, or,
\* without one, of the last byte the upper n % 8 bits.
Trimmed(byte, n, mask, i) ==
    IF mask # <<>> THEN Masked(byte, mask, i)
    ELSE IF i = BytesOf(n) /\ n % 8 # 0
    THEN byte - (byte % Unit(n)) ELSE byte

Matches(got, row, n, mask) ==
    \A i \in DOMAIN row : Trimmed(got[i], n, mask, i) = Masked(row[i], mask, i)

\* BUFFER_RX and the comparison with the data of the algorithm.  When the
\* command fails, what was in trBuffer before is compared.
CheckBuffer(row, n, mask, got) ==
    LET Record(wire, good) ==
            last' = Transfer("BUFFER_RX", n, row, wire, mask, Verdict(good))
    IN \/ Carried(n) /\ Record(got, Matches(got, row, n, mask))
       \/ NotCarried(n) /\ \E good \in BOOLEAN : Record(<<>>, good)

-----------------------------------------------------------------------------
(* Any transfers one after the other, and RESETDATA in between.  Rows and masks *)
(* come in the size of the transfer, and the FPGA may send anything.           *)

\* RESETDATA leaves no transfer to speak of.
Reset(ok) == last' = Transfer("reset", 0, <<>>, <<>>, <<>>, IF ok THEN 1 ELSE 0)

\* Those of rows that have the size of the transfer.
SizedFor(n, rows) == {r \in rows : Len(r) = BytesOf(n)}

\* A transfer of n bits of a row, or of the part of it that could be read.
TransferOf(n, row, got, mask) ==
    /\ n \in Nat \ {0} /\ {row, got} \subseteq Seq(Byte)
    /\ mask \in {<<>>} \cup SizedFor(n, Seq(Byte))
    /\ \/ SendNothing(row, n) \/ VerifyRow(row, FALSE, n, mask, got)
       \/ /\ Len(row) = BytesOf(n) /\ Len(got) = BytesOf(n)
          /\ \/ SendRow(row, n) \/ VerifyRow(row, TRUE, n, mask, got)
             \/ SendBuffer(row, n) \/ CheckBuffer(row, n, mask, got)

NextTransfer ==
    \/ \E ok \in BOOLEAN : Reset(ok)
    \/ \E n \in Nat : \E row, got, mask \in Seq(Byte) : TransferOf(n, row, got, mask)

\* Nothing but transfers.
TransferSpec == last = NoTransfer /\ [][NextTransfer]_last

-----------------------------------------------------------------------------
(* Properties. *)

\* The step that led to last, from what it says of itself.
Witnessed ==
    \/ \E ok \in BOOLEAN : Reset(ok)
    \/ LET t == last'
       IN TransferOf(t.n, t.row, IF t.wire = <<>> THEN t.row ELSE t.wire, t.mask)

\* Every step that moves data is one of the transfers above: rows are read whole
\* or refused, and come with masks of their size (TRANS_transceive_stream()).
StepsAreTransfers == [][Witnessed]_last

\* A row of data that is sent is, to the last bit, the n bits of the data behind
\* as many ones as its bytes have to spare (hardware.c:511-514, 574-614).
SentPadded ==
    last.op = "DATA_TX" /\ last.wire # <<>> =>
        LET pad == 8 * Len(last.wire) - last.n
        IN /\ Len(last.wire) = BytesOf(last.n)
           /\ \A k \in 0..(8 * Len(last.wire) - 1) :
                 Bit(last.wire, k) = IF k < pad THEN 1 ELSE Bit(last.row, k - pad)

\* Was something received and compared with a row that could be read?
Received(t) ==
    t.op \in {"DATA_RX", "BUFFER_RX"} /\ t.wire # <<>> /\ t.code # ERROR_INIT_DATA

\* Does bit k count?
Counts(mask, k) == mask = <<>> \/ Bit(mask, k) = 1

\* Are the first n bits those expected, as far as they count?
SameBits(t, n) ==
    \A k \in 0..(n - 1) : Counts(t.mask, k) => Bit(t.wire, k) = Bit(t.row, k)

\* For algorithm bytes core.c takes a padding of zeros, in the mask if there is
\* one: it trims what it received only without a mask.
ZeroPadded(t) ==
    LET padded == IF t.mask = <<>> THEN t.row ELSE t.mask
    IN t.op = "BUFFER_RX" => \A k \in t.n..(8 * Len(padded) - 1) : Bit(padded, k) = 0

\* Both comparisons, of data and of algorithm bytes: what the FPGA sent is taken
\* for right when, under the mask, its n bits are (hardware.c:615-653,
\* core.c:787-804)...
NoFalseAlarm ==
    Received(last) /\ ZeroPadded(last) /\ SameBits(last, last.n) => last.code = 1

\* Of data that fill their bytes the last byte is not looked at
\* (hardware.c:642-648).
Looked(t) == IF t.op = "DATA_RX" /\ t.n % 8 = 0 THEN t.n - 8 ELSE t.n

\* ... and for wrong when one of them, under the mask, is not; the last byte of
\* data that fill their bytes is the exception (hardware.c:642-648).
MismatchFound ==
    Received(last) /\ ~SameBits(last, Looked(last)) => last.code = ERROR_VERIFICATION

\* A comparison that comes out well means that the FPGA sent the data: "DATA_RX:
\* receive data and compare it with data from external source" (hardware.c:509).
Verified ==
    last.op = "DATA_RX" /\ last.wire # <<>> /\ last.code = 1 => SameBits(last, last.n)
=============================================================================

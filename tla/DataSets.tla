------------------------------ MODULE DataSets ------------------------------
(***************************************************************************)
(* The data file of intrface.c: table of contents, data sets, the place    *)
(* where each was left, and the decompressor.                              *)
(*                                                                         *)
(* d is the module's static data.  A function of the C code is an operator *)
(* on such a record; it returns the record it leaves, whether it succeeded *)
(* and the byte it read.  HLDataGetByte() calls itself, and so does its    *)
(* operator.                                                               *)
(***************************************************************************)
EXTENDS Integers, Sequences, FiniteSets

CONSTANTS
    DataFiles,          \* data files, as sequences of bytes
    DATA_BUFFER_SIZE,   \* how many positions are remembered
    D_TOC_NUMBER        \* how many entries the table of contents can have

ASSUME SizesAssumption ==
    DATA_BUFFER_SIZE \in Nat \ {0} /\ D_TOC_NUMBER \in Nat \ {0}
ASSUME DataFilesAssumption == DataFiles \subseteq Seq(0..255)

\* opcode.h
HCOMMENT == 160
HENDCOMMENT == 161
HDATASET_NUM == 170
HTOC == 171

VARIABLES
    file,       \* the bytes of the data file
    d           \* the static data of intrface.c

-----------------------------------------------------------------------------
NoEntry == [ID |-> 0, size |-> 0, compression |-> 0, address |-> 0]
NoPosition == [ID |-> 0, address |-> 0]

\* Before dataInit(): C's zeros.  pos is the FILE's position: behind the end
\* when feof() is set.  The index is counted from 1 here.
Zeroed == [open |-> FALSE, pos |-> 0, version |-> 0,
           toc |-> <<>>, index |-> 1,
           currentAddress |-> 0, requestNewData |-> FALSE, currentSize |-> 0,
           buffer |-> [i \in 1..DATA_BUFFER_SIZE |-> NoPosition],
           compression |-> 0, compByte |-> 0, counter |-> 0,
           frameSize |-> 0, frameCounter |-> 0]

ByteOf(p) == IF p < Len(file) THEN file[p + 1] ELSE 255

Result(s, ok, byte) == [s |-> s, ok |-> ok, byte |-> byte]

\* The next call is made if the one before succeeded.
Then(r, Call(_)) == IF r.ok THEN Call(r) ELSE r

\* d_currentAddress, which only version 3 looks at.
Advance(s, n) == IF s.version = 1 THEN s ELSE [s EXCEPT !.currentAddress = @ + n]

\* Mutant of GetByte: the end of the file is not looked for.
GetByteOn(s, inc) ==
    IF ~s.open THEN Result(s, FALSE, 255)
    ELSE Result([Advance(s, inc) EXCEPT !.pos = @ + 1], TRUE, ByteOf(s.pos))

\* dataGetByte(): the read that meets the end of the file succeeds with 0xFF,
\* the next one fails.
GetByte(s, inc) ==
    IF ~s.open \/ s.pos > Len(file) THEN Result(s, FALSE, 255)
    ELSE Result([Advance(s, inc) EXCEPT !.pos = @ + 1], TRUE, ByteOf(s.pos))

\* n calls of dataGetByte() that end with the first to fail.
Skip(s, n, inc) ==
    LET left == IF s.open THEN Len(file) + 1 - s.pos ELSE 0
        m == IF n <= left THEN n ELSE left
    IN Result([Advance(s, inc * m) EXCEPT !.pos = @ + m], m = n, 255)

\* dataReadthroughComment()
ReadthroughComment(s) ==
    LET ends == {p \in s.pos..(Len(file) - 1) : file[p + 1] = HENDCOMMENT}
        end == CHOOSE p \in ends : \A q \in ends : p <= q
    IN IF ends = {} THEN Result([s EXCEPT !.pos = Len(file) + 1], FALSE, 255)
       ELSE Result([s EXCEPT !.pos = end + 1], TRUE, HENDCOMMENT)

\* The first byte of the data that is not part of a comment.
FirstByte(s) ==
    LET Next(r) == GetByte(r.s, 0)
        Uncommented(r) == IF r.byte = HCOMMENT THEN Then(ReadthroughComment(r.s), Next) ELSE r
    IN Then(GetByte(s, 0), Uncommented)

-----------------------------------------------------------------------------
(* dataLoadTOC(). *)

\* The size in the entry at p: seven bits a byte, the lowest first.
SizeBytes(p) ==
    LET last == {q \in p..Len(file) : ByteOf(q) < 128}
    IN IF last = {} THEN 0 ELSE 1 + (CHOOSE q \in last : \A r \in last : q <= r) - p

SizeAt(p) ==
    LET v[k \in 0..SizeBytes(p)] ==
            IF k = 0 THEN 0
            ELSE v[k - 1] + (ByteOf(p + k - 1) % 128) * 128 ^ (k - 1)
    IN v[SizeBytes(p)]

\* Tag, ID, status, size, compression and four bytes of address.
EntryEnd(p) == p + 3 + SizeBytes(p + 3) + 5

\* Mutant of EntryIsGood: the tag is not looked at.
EntryIsGoodUntagged(p) ==
    /\ SizeBytes(p + 3) > 0
    /\ EntryEnd(p) <= Len(file) + 1

EntryIsGood(p) ==
    /\ ByteOf(p) = HTOC
    /\ SizeBytes(p + 3) > 0
    /\ EntryEnd(p) <= Len(file) + 1

EntryAt(p) ==
    LET c == p + 3 + SizeBytes(p + 3)
    IN [ID |-> ByteOf(p + 1), size |-> SizeAt(p + 3), compression |-> ByteOf(c),
        address |-> ((ByteOf(c + 1) * 256 + ByteOf(c + 2)) * 256 + ByteOf(c + 3)) * 256
                        + ByteOf(c + 4)]

\* The table behind HDATASET_NUM: a count and its entries.
LoadTOC(s) ==
    LET n == ByteOf(s.pos)
        at[i \in 1..(n + 1)] == IF i = 1 THEN s.pos + 1 ELSE EntryEnd(at[i - 1])
        good == s.pos <= Len(file) /\ \A i \in 1..n : EntryIsGood(at[i])
    IN IF good THEN [ok |-> TRUE, s |-> [s EXCEPT !.pos = at[n + 1]],
                     toc |-> [i \in 1..n |-> EntryAt(at[i])]]
       ELSE [ok |-> FALSE, s |-> s, toc |-> <<>>]

-----------------------------------------------------------------------------
(* Decompression. *)

\* decomp_initFrame(): a frame starts with its method.
InitFrame(s, bits) ==
    LET Start(r) ==
            LET f == [r.s EXCEPT !.frameSize = (bits + 7) \div 8, !.frameCounter = 0]
            IN CASE r.byte = 0 -> Result([f EXCEPT !.counter = -1], TRUE, 0)
                 [] r.byte = 1 -> Result([f EXCEPT !.counter = 0, !.compByte = 255], TRUE, 1)
                 [] r.byte = 2 -> Result([f EXCEPT !.counter = 0, !.compByte = 0], TRUE, 2)
                 [] OTHER -> Result(f, FALSE, 0)
    IN Then(GetByte(s, 1), Start)

\* decomp_getByte() and decomp_getNum().  counter is what is left of a run; -1
\* stands for a frame that is not compressed, and a run of length 0 ends up
\* there too.
DecompGetByte(s) ==
    LET Count(t) == [t EXCEPT !.frameCounter = @ + 1]
        Run(r) == Result(Count([r.s EXCEPT !.counter = r.byte - 1]), TRUE, s.compByte)
        Read(r) == IF s.counter = 0 /\ r.byte = s.compByte THEN Then(GetByte(r.s, 1), Run)
                   ELSE Result(Count(r.s), TRUE, r.byte)
    IN IF s.frameCounter >= s.frameSize THEN Result(s, FALSE, 0)
       ELSE IF s.counter \in {-1, 0} THEN Then(GetByte(s, 1), Read)
       ELSE Result(Count([s EXCEPT !.counter = @ - 1]), TRUE, s.compByte)

\* A byte of the stream, compressed or not; bits is not 0 at the start of a row.
StreamByte(s, bits) ==
    LET Decomp(r) == DecompGetByte(r.s)
    IN IF s.compression = 0 THEN GetByte(s, 1)
       ELSE IF bits = 0 THEN DecompGetByte(s)
       ELSE Then(InitFrame(s, bits), Decomp)

-----------------------------------------------------------------------------
(* dataInit() and dataReset(). *)

\* The file is there.
DataInit ==
    LET Loaded(load) == Result([load.s EXCEPT !.version = 3, !.toc = load.toc,
                                              !.requestNewData = load.ok], load.ok, 0)
        Version(r) ==
            IF r.byte = HDATASET_NUM THEN Loaded(LoadTOC(r.s))
            ELSE IF r.byte \in {0, 1}
            THEN Result([r.s EXCEPT !.version = 1, !.compression = r.byte], TRUE, 0)
            ELSE Result(r.s, FALSE, 0)
    IN Then(FirstByte([Zeroed EXCEPT !.open = TRUE]), Version)

\* dataReset(): requestNewData and currentSize stay as they are.
DataReset(s, isResetBuffer) ==
    LET rewound == [s EXCEPT !.pos = 0,
                             !.buffer = IF isResetBuffer THEN Zeroed.buffer ELSE @]
        Start(r) == Result(IF s.version # 3 THEN r.s
                           ELSE [LoadTOC(r.s).s EXCEPT !.currentAddress = 0, !.index = 1],
                           TRUE, 0)
    IN IF s.open THEN Then(FirstByte(rewound), Start) ELSE Result(s, FALSE, 0)

\* dataFinal()
DataFinal(s) == [s EXCEPT !.open = FALSE]

-----------------------------------------------------------------------------
(* Data sets. *)

Indices(s, id) == {i \in DOMAIN s.toc : s.toc[i].ID = id}
FirstIn(S) == CHOOSE i \in S : \A j \in S : i <= j

Entry(s) == IF s.index \in DOMAIN s.toc THEN s.toc[s.index] ELSE NoEntry

\* Mutant of RequestSet: it never goes back in the file.
RequestSetForward(s, id) ==
    LET i == FirstIn(Indices(s, id))
        Forward(t) == Skip(t, IF t.currentAddress < s.toc[i].address
                              THEN s.toc[i].address - t.currentAddress ELSE 0, 1)
        Begin(r) == Skip(r.s, 2, 1)
        Ready(r) == Result([r.s EXCEPT !.requestNewData = FALSE], TRUE, 0)
    IN IF Indices(s, id) = {} THEN Result(s, FALSE, 0)
       ELSE Then(Then(Forward([s EXCEPT !.index = i, !.compression = s.toc[i].compression]),
                      Begin), Ready)

\* dataRequestSet(): go to the start of a set, back to the start of the data
\* first when it is behind, and over the two bytes of BEGIN_OF_DATA.
RequestSet(s, id) ==
    LET i == FirstIn(Indices(s, id))
        address == s.toc[i].address
        back == IF s.currentAddress > address THEN DataReset(s, FALSE).s ELSE s
        Forward(t) == Skip(t, IF t.currentAddress < address
                              THEN address - t.currentAddress ELSE 0, 1)
        Begin(r) == Skip(r.s, 2, 1)
        Ready(r) == Result([r.s EXCEPT !.requestNewData = FALSE], TRUE, 0)
    IN IF Indices(s, id) = {} THEN Result(s, FALSE, 0)
       ELSE Then(Then(Forward([back EXCEPT !.index = i, !.compression = s.toc[i].compression]),
                      Begin), Ready)

Entries(s, id) == {i \in DOMAIN s.buffer : s.buffer[i].ID = id}

\* Where the set was left.
Left(s, id) == IF Entries(s, id) = {} THEN 0
               ELSE s.buffer[FirstIn(Entries(s, id))].address

\* Mutant of Remember: the entry of a set that is complete stays.
RememberAlways(s, id) ==
    LET own == Entries(s, id)
        free == Entries(s, 0)
    IN IF own # {} THEN [s EXCEPT !.buffer[FirstIn(own)].address = s.currentSize]
       ELSE IF free # {}
       THEN [s EXCEPT !.buffer[FirstIn(free)] = [ID |-> id, address |-> s.currentSize]]
       ELSE s

\* The position is remembered, in a free entry if the set has none, unless the
\* set is complete, for which an entry is freed but a new one is taken.
Remember(s, id) ==
    LET own == Entries(s, id)
        free == Entries(s, 0)
        here == [ID |-> id, address |-> s.currentSize]
    IN IF own # {}
       THEN [s EXCEPT !.buffer[FirstIn(own)] =
                IF s.currentSize = Entry(s).size THEN NoPosition
                ELSE [@ EXCEPT !.address = s.currentSize]]
       ELSE IF free # {} THEN [s EXCEPT !.buffer[FirstIn(free)] = here]
       ELSE s

\* The next byte of the current set, and behind its last one the checksum and
\* two more bytes.  That a byte could not be read does not keep it from counting;
\* that a frame could not be started does.
NextByte(s, id, bits) ==
    LET Both(r, t) == Result(t.s, r.ok /\ t.ok, r.byte)
        Complete(r) ==
            IF r.s.currentSize # Entry(r.s).size THEN r
            ELSE Both(r, Skip([r.s EXCEPT !.index = 1, !.requestNewData = TRUE], 4, 1))
        Counted(r) ==
            Complete(Result(Remember([r.s EXCEPT !.currentSize = @ + 1], id), r.ok, r.byte))
        InFrame(r) == Counted(DecompGetByte(r.s))
    IN IF s.compression # 0 /\ bits # 0 THEN Then(InitFrame(s, bits), InFrame)
       ELSE Counted(StreamByte(s, bits))

RECURSIVE HLDataGetByte(_, _, _)
RECURSIVE Replay(_, _, _, _)

\* The set is read again up to where it was left; what these calls return is
\* not looked at.
Replay(s, id, bits, n) ==
    IF n = 0 THEN s ELSE Replay(HLDataGetByte(s, id, bits).s, id, bits, n - 1)

\* HLDataGetByte()
HLDataGetByte(s, id, bits) ==
    LET Read(t) ==
            IF Entry(t).size = 0 THEN Result(t, FALSE, 255)
            ELSE IF t.currentSize < Entry(t).size THEN NextByte(t, id, bits)
            ELSE HLDataGetByte([t EXCEPT !.requestNewData = TRUE], id, bits)
        Requested(r) ==
            Read(Replay([r.s EXCEPT !.currentSize = 0], id, bits, Left(r.s, id)))
    IN IF s.version = 1 THEN StreamByte(s, bits)
       ELSE IF s.requestNewData \/ id # Entry(s).ID THEN Then(RequestSet(s, id), Requested)
       ELSE Read(s)
=============================================================================

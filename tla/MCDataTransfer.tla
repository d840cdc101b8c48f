--------------------------- MODULE MCDataTransfer ---------------------------
(***************************************************************************)
(* Data files for DataTransfer, described by what they hold and then       *)
(* written in the format of version 1 or 3.                                *)
(***************************************************************************)
EXTENDS DataTransfer

\* A data set: its rows one after the other, each compressed by itself if
\* method is not 0 (then runs of run are).
Raw(id, data) == [ID |-> id, rows |-> <<data>>, method |-> 0, run |-> 0]
Rows(id, rows, method, run) == [ID |-> id, rows |-> rows, method |-> method, run |-> run]

Data(set) == FlattenSeq(set.rows)

RunAt(row, i, b) == LET k == {j \in i..Len(row) : row[j] # b}
                    IN IF k = {} THEN Len(row) - i + 1
                       ELSE (CHOOSE j \in k : \A l \in k : j <= l) - i

RECURSIVE Pack(_, _, _)
Pack(row, i, b) ==
    IF i > Len(row) THEN <<>>
    ELSE IF row[i] = b THEN <<b, RunAt(row, i, b)>> \o Pack(row, i + RunAt(row, i, b), b)
    ELSE <<row[i]>> \o Pack(row, i + 1, b)

\* Method 255 stands for a frame that is not packed although the set is.
Stored(set) ==
    IF set.method = 0 THEN Data(set)
    ELSE FlattenSeq([i \in 1..Len(set.rows) |->
            IF set.method = 255 THEN <<0>> \o set.rows[i]
            ELSE <<set.method>> \o Pack(set.rows[i], 1, set.run)])

Flag(set) == IF set.method = 0 THEN 0 ELSE 1

Version1(set) == <<Flag(set)>> \o Stored(set)

\* BEGIN_OF_DATA, the data, their checksum and the end marks.
Segment(set) == <<176, 177>> \o Stored(set) \o <<0, 0, 185, 178>>

\* The table lists the sets; order is how they lie in the file.
Version3(sets, order) ==
    LET Address(id) == LET before == SelectInSeq(order, LAMBDA s : s.ID = id) - 1
                       IN Len(FlattenSeq([i \in 1..before |-> Segment(order[i])]))
        Line(set) == <<HTOC, set.ID, 0, Len(Data(set)), Flag(set), 0, 0, 0, Address(set.ID)>>
    IN <<HDATASET_NUM, Len(sets)>>
         \o FlattenSeq([i \in 1..Len(sets) |-> Line(sets[i])])
         \o FlattenSeq([i \in 1..Len(order) |-> Segment(order[i])])

Comment == <<HCOMMENT, 7, HENDCOMMENT>>

Prog == Raw(PROGDATA, <<165, 60, 15>>)
ProgEH == Raw(PROGDATAEH, <<90, 255>>)
OneByte == Raw(PROGDATA, <<129>>)
Packed == Rows(PROGDATA, <<<<255, 255>>, <<18, 255>>>>, 1, 255)
PackedZeros == Rows(PROGDATAEH, <<<<0, 0>>, <<0, 52>>>>, 2, 0)
Unpacked == Rows(PROGDATA, <<<<170, 85>>>>, 255, 0)

\* endless: version 3, where a set starts again behind its end.
File(bytes, sets, endless) == [bytes |-> bytes, sets |-> sets, endless |-> endless]

Catalogue == {
    File(Comment \o Version1(Prog), {Prog}, FALSE),
    File(Version1(Packed), {Packed}, FALSE),
    File(Version3(<<Prog, ProgEH>>, <<ProgEH, Prog>>), {Prog, ProgEH}, TRUE),
    File(Version3(<<OneByte, ProgEH>>, <<OneByte, ProgEH>>), {OneByte, ProgEH}, TRUE),
    File(Comment \o Version3(<<PackedZeros>>, <<PackedZeros>>), {PackedZeros}, TRUE),
    File(Version3(<<Unpacked>>, <<Unpacked>>), {Unpacked}, TRUE),
    File(Version3(<<Raw(PROGDATA, <<>>), ProgEH>>, <<Raw(PROGDATA, <<>>), ProgEH>>),
         {ProgEH}, TRUE)}

\* Files that cannot be opened: nothing in them, a comment without an end, no
\* such version, a table of contents that breaks off or has a wrong tag.
Malformed == {<<>>, <<HCOMMENT, 7>>, Comment, <<9, 1>>,
              <<HDATASET_NUM, 1, HTOC, PROGDATA, 0>>, <<HDATASET_NUM, 1, HTOC + 1, PROGDATA, 0, 1, 0, 0, 0, 0, 0>>,
              <<HDATASET_NUM, 1, HTOC, PROGDATA, 0, 129>>}

MCDataFiles == {f.bytes : f \in Catalogue} \cup Malformed

Described == CHOOSE f \in Catalogue : f.bytes = file

-----------------------------------------------------------------------------
(* The streams a file offers.  In version 1 there is one, and behind the last *)
(* byte of data that are not compressed the end of the file reads as 0xFF.    *)

MCContents(id) ==
    IF ~d_isDataInput \/ file \in Malformed THEN <<>>
    ELSE IF Described.endless
    THEN IF \E s \in Described.sets : s.ID = id
         THEN Data(CHOOSE s \in Described.sets : s.ID = id) ELSE <<>>
    ELSE IF id # PROGDATA THEN <<>>
    ELSE LET set == CHOOSE s \in Described.sets : TRUE
         IN IF set.method = 0 THEN Append(Data(set), 255) ELSE Data(set)

Stream == INSTANCE DataStream WITH
    Lengths <- {BytesOf(n) : n \in Sizes},
    contents <- [id \in DataIDs |-> MCContents(id)],
    endless <- d_isDataInput /\ file \notin Malformed /\ Described.endless,
    cursor <- [id \in DataIDs |->
        IF d.version = 1 /\ d.pos > Len(file) /\ id = PROGDATA THEN Len(MCContents(id))
        ELSE taken[id]],
    row <- IF last.op \in {"DATA_TX", "DATA_RX"} /\ last.code # ERROR_INIT_DATA
           THEN last.row ELSE <<>>

\* Reading rows of any size in any order of the data sets, back and forth in the
\* file and through the decompressor, gives the bytes of each set one after the
\* other (intrface.c:264-641, 680-760).
ImplementsStream == Stream!Spec

\* Of the files that are there, the malformed ones and no others fail to open
\* (intrface.c:264-323, 533-602).
OpensExactly ==
    [][mode = "closed" /\ d'.open => (mode' = "open" <=> file \notin Malformed)]_vars

MCAlgoRows == {<<165>>, <<90, 240>>}
MCMasks == {<<15>>, <<255, 112>>, <<255, 127>>}
=============================================================================

----------------------- MODULE SerialRxChannel_proofs -----------------------
(***************************************************************************)
(* As long as the line neither loses nor damages a byte, the receiver is   *)
(* the channel of FrameChannel: every message reaches its handler whole,   *)
(* in order and once, whatever it contains and however the tty cuts the    *)
(* stream into reads.                                                      *)
(***************************************************************************)
EXTENDS SerialRx_proofs

\* A message as the microcontroller sends them: its mark is that of its stream,
\* its size is that of its payload, and there is a payload.
Proper(m) ==
    /\ Len(m.bytes) = GetLen(m.stream, m.bytes)
    /\ HdrSize(m.stream) < Len(m.bytes)
    /\ ~Hangs(m.stream, m.bytes)

\* The bytes are those of the messages, one after the other; left[i] is what is
\* left of them where message i begins.
Laid(bytes, msgs) ==
    \E left \in [1..(Len(msgs) + 1) -> Seq(Byte)] :
        /\ left[1] = bytes /\ left[Len(msgs) + 1] = <<>>
        /\ \A i \in 1..Len(msgs) : left[i] = OnLine(msgs[i]) \o left[i + 1]

\* What the receiver has taken of the message it is receiving.
Taken == IF curr_stream = NULL THEN <<>> ELSE <<curr_stream>> \o rx_buff

\* Of that message, the header is not complete or the payload is not.
Incomplete(s, buff, len) == Len(buff) < (IF len = 0 THEN HdrSize(s) ELSE len)

\* What has been taken, what was read and what is on the line are the messages
\* that have not been delivered.
ChannelInv ==
    /\ Len(handled) <= Len(sent)
    /\ rx_pc # "hung"
    /\ rx_pc = "select" => tty_rx_buf = <<>>
    /\ Laid(Taken \o (tty_rx_buf \o line), Undelivered)
    /\ curr_stream # NULL => Incomplete(curr_stream, rx_buff, stream_len)

-----------------------------------------------------------------------------
(* Messages laid one after the other. *)

\* Sequences joined in either order.
LEMMA Associative == \A a, b, c \in Seq(Byte) : (a \o b) \o c = a \o (b \o c)
BY ConcatAssociative

\* Two pairs joined are the middle ones joined first.
Regroups(a, b, c, d) == (a \o b) \o (c \o d) = a \o ((b \o c) \o d)

\* Four sequences, the middle ones first.
LEMMA Regrouped == \A a, b, c, d \in Seq(Byte) : Regroups(a, b, c, d)
<1> SUFFICES ASSUME NEW a \in Seq(Byte), NEW b \in Seq(Byte),
                    NEW c \in Seq(Byte), NEW d \in Seq(Byte)
             PROVE  (a \o b) \o (c \o d) = a \o ((b \o c) \o d)
  BY DEF Regroups
<1>1. c \o d \in Seq(Byte)
  BY ConcatProperties
<1>2. (b \o c) \o d = b \o (c \o d)
  BY Associative, Zenon
<1>3. \A e \in Seq(Byte) : (a \o b) \o e = a \o (b \o e)
  BY Associative, Zenon
<1>4. (a \o b) \o (c \o d) = a \o (b \o (c \o d))
  BY <1>1, <1>3, Zenon
<1> QED
  BY <1>2, <1>4, Zenon

\* What is joined behind two others may be joined to the end of them all.
Extended(a, b, c, d) == a \o (b \o (c \o d)) = (a \o (b \o c)) \o d

\* Four sequences, the last one last.
LEMMA ExtendedBehind == \A a, b, c, d \in Seq(Byte) : Extended(a, b, c, d)
<1> SUFFICES ASSUME NEW a \in Seq(Byte), NEW b \in Seq(Byte),
                    NEW c \in Seq(Byte), NEW d \in Seq(Byte)
             PROVE  a \o (b \o (c \o d)) = (a \o (b \o c)) \o d
  BY DEF Extended
<1>1. b \o c \in Seq(Byte)
  BY ConcatProperties
<1>2. b \o (c \o d) = (b \o c) \o d
  BY Associative, Zenon
<1>3. \A e \in Seq(Byte) : (a \o e) \o d = a \o (e \o d)
  BY Associative, Zenon
<1>4. (a \o (b \o c)) \o d = a \o ((b \o c) \o d)
  BY <1>1, <1>3, Zenon
<1> QED
  BY <1>2, <1>4, Zenon

\* One byte.
LEMMA Single ==
    ASSUME NEW x \in Byte
    PROVE  <<x>> \in Seq(Byte) /\ Len(<<x>>) = 1 /\ <<x>>[1] = x
OBVIOUS

\* What the line carries of a message.
LEMMA Carried ==
    ASSUME NEW m \in Message
    PROVE  /\ OnLine(m) \in Seq(Byte)
           /\ m.stream \in Streams /\ m.bytes \in Seq(Byte)
<1>1. m.stream \in Streams /\ m.bytes \in Seq(Byte) /\ m.stream \in Byte
  BY MessageAssumption, ByteAssumption
<1> QED
  BY <1>1, ConcatProperties DEF OnLine

\* No messages, no bytes.
LEMMA LaidNone ==
    ASSUME NEW bytes
    PROVE  Laid(bytes, <<>>) <=> bytes = <<>>
<1>1. ASSUME Laid(bytes, <<>>) PROVE bytes = <<>>
  BY <1>1 DEF Laid
<1>2. Laid(<<>>, <<>>)
  <2> DEFINE left == [i \in 1..1 |-> <<>>]
  <2>1. left \in [1..1 -> Seq(Byte)] /\ left[1] = <<>>
    BY EmptySeq
  <2>2. Len(<<>>) + 1 = 1 /\ \A i \in 1..Len(<<>>) : FALSE
    OBVIOUS
  <2> HIDE DEF left
  <2> QED
    BY <2>1, <2>2 DEF Laid
<1> QED
  BY <1>1, <1>2

\* One more message is laid behind the others.
LEMMA LaidMore ==
    ASSUME NEW bytes \in Seq(Byte), NEW msgs \in Seq(Message), NEW m \in Message,
           Laid(bytes, msgs)
    PROVE  Laid(bytes \o OnLine(m), Append(msgs, m))
<1> DEFINE n == Len(msgs)
           more == Append(msgs, m)
<1>1. PICK left \in [1..(n + 1) -> Seq(Byte)] :
        /\ left[1] = bytes /\ left[n + 1] = <<>>
        /\ \A i \in 1..n : left[i] = OnLine(msgs[i]) \o left[i + 1]
  BY DEF Laid
<1>2. /\ n \in Nat
      /\ \A i \in 1..n : msgs[i] \in Message
      /\ Len(more) = n + 1 /\ more[n + 1] = m
      /\ \A i \in 1..n : more[i] = msgs[i]
  BY AppendProperties
<1> HIDE DEF n, more
<1> DEFINE left2 == [i \in 1..(n + 2) |-> IF i = n + 2 THEN <<>> ELSE left[i] \o OnLine(m)]
<1>3. \A i \in 1..(n + 1) : left[i] \in Seq(Byte)
  BY <1>1
<1>4. left2 \in [1..(n + 2) -> Seq(Byte)]
  <2> SUFFICES ASSUME NEW i \in 1..(n + 2)
               PROVE  (IF i = n + 2 THEN <<>> ELSE left[i] \o OnLine(m)) \in Seq(Byte)
    OBVIOUS
  <2>1. CASE i = n + 2
    BY <2>1, EmptySeq
  <2>2. CASE i # n + 2
    <3>1. i \in 1..(n + 1)
      BY <1>2, <2>2
    <3> QED
      BY <1>3, <2>2, <3>1, Carried, ConcatProperties
  <2> QED
    BY <2>1, <2>2
<1>5. /\ left2[1] = bytes \o OnLine(m)
      /\ left2[n + 2] = <<>>
      /\ \A i \in 1..(n + 1) : left2[i] = left[i] \o OnLine(m)
  <2>1. n + 2 \in 1..(n + 2) /\ 1 \in 1..(n + 1)
    BY <1>2
  <2>2. \A i \in 1..(n + 1) : i \in 1..(n + 2) /\ i # n + 2
    BY <1>2
  <2>3. \A i \in 1..(n + 1) : left2[i] = left[i] \o OnLine(m)
    BY <2>2
  <2> QED
    BY <1>1, <2>1, <2>3
<1> HIDE DEF left2
<1>6. ASSUME NEW i \in 1..(n + 1)
      PROVE  left2[i] = OnLine(more[i]) \o left2[i + 1]
  <2>1. CASE i = n + 1
    <3>1. left2[i] = <<>> \o OnLine(m)
      BY <1>1, <1>5, <2>1
    <3>2. i + 1 = n + 2
      BY <1>2, <2>1
    <3>3. OnLine(more[i]) \o left2[i + 1] = OnLine(m) \o <<>>
      BY <1>2, <1>5, <2>1, <3>2
    <3>4. <<>> \o OnLine(m) = OnLine(m) /\ OnLine(m) \o <<>> = OnLine(m)
      BY Carried, ConcatEmptySeq
    <3> QED
      BY <3>1, <3>3, <3>4
  <2>2. CASE i # n + 1
    <3>1. i \in 1..n /\ i + 1 \in 1..(n + 1)
      BY <1>2, <2>2
    <3>2. /\ left2[i] = (OnLine(msgs[i]) \o left[i + 1]) \o OnLine(m)
          /\ OnLine(more[i]) \o left2[i + 1] = OnLine(msgs[i]) \o (left[i + 1] \o OnLine(m))
      BY <1>1, <1>2, <1>5, <3>1
    <3>3. /\ OnLine(msgs[i]) \in Seq(Byte) /\ left[i + 1] \in Seq(Byte)
          /\ OnLine(m) \in Seq(Byte)
      BY <1>2, <1>3, <3>1, Carried
    <3>4. (OnLine(msgs[i]) \o left[i + 1]) \o OnLine(m)
             = OnLine(msgs[i]) \o (left[i + 1] \o OnLine(m))
      BY <3>3, Associative, Zenon
    <3> QED
      BY <3>2, <3>4
  <2> QED
    BY <2>1, <2>2
<1>7. Len(more) + 1 = n + 2
  BY <1>2
<1> QED
  BY <1>2, <1>4, <1>5, <1>6, <1>7 DEF Laid, more

\* The first bytes are those of the first message, and what is left are those
\* of the others.
LEMMA LaidFirst ==
    ASSUME NEW bytes \in Seq(Byte), NEW msgs \in Seq(Message), msgs # <<>>,
           Laid(bytes, msgs)
    PROVE  \E rest \in Seq(Byte) :
              bytes = OnLine(msgs[1]) \o rest /\ Laid(rest, Tail(msgs))
<1> DEFINE n == Len(msgs)
           others == Tail(msgs)
<1>1. PICK left \in [1..(n + 1) -> Seq(Byte)] :
        /\ left[1] = bytes /\ left[n + 1] = <<>>
        /\ \A i \in 1..n : left[i] = OnLine(msgs[i]) \o left[i + 1]
  BY DEF Laid
<1>2. n \in Nat /\ n >= 1
  BY EmptySeq
<1>3. /\ Len(others) = n - 1
      /\ \A i \in 1..(n - 1) : others[i] = msgs[i + 1]
  BY HeadTailProperties
<1> HIDE DEF n, others
<1> DEFINE left2 == [i \in 1..n |-> left[i + 1]]
<1>4. \A i \in 1..n : i + 1 \in 1..(n + 1) /\ left[i + 1] \in Seq(Byte)
  BY <1>1, <1>2
<1>5. left2 \in [1..n -> Seq(Byte)] /\ \A i \in 1..n : left2[i] = left[i + 1]
  BY <1>4
<1> HIDE DEF left2
<1>6. ASSUME NEW i \in 1..(n - 1)
      PROVE  left2[i] = OnLine(others[i]) \o left2[i + 1]
  <2>1. i + 1 \in 1..n /\ i \in 1..n
    BY <1>2
  <2> QED
    BY <1>1, <1>3, <1>5, <2>1
<1>7. Len(others) + 1 = n /\ 1 \in 1..n /\ n \in 1..n
  BY <1>2, <1>3
<1>8. left2[1] = left[2] /\ left2[n] = <<>>
  BY <1>1, <1>5, <1>7
<1>9. Laid(left[2], others)
  <2>1. left2 \in [1..(Len(others) + 1) -> Seq(Byte)] /\ left2[Len(others) + 1] = <<>>
    BY <1>5, <1>7, <1>8
  <2>2. \A i \in 1..Len(others) : left2[i] = OnLine(others[i]) \o left2[i + 1]
    BY <1>3, <1>6
  <2> QED
    BY <1>8, <2>1, <2>2 DEF Laid
<1>10. bytes = OnLine(msgs[1]) \o left[2] /\ left[2] \in Seq(Byte)
  <2>1. left[1] = OnLine(msgs[1]) \o left[1 + 1] /\ left[1 + 1] \in Seq(Byte)
    BY <1>1, <1>4, <1>7
  <2>2. 1 + 1 = 2
    OBVIOUS
  <2> QED
    BY <1>1, <2>1, <2>2
<1> QED
  BY <1>9, <1>10 DEF others

\* Two ways to cut the same bytes agree as far as both first parts go.
LEMMA Overlap ==
    ASSUME NEW a \in Seq(Byte), NEW b \in Seq(Byte), NEW c \in Seq(Byte), NEW d \in Seq(Byte),
           a \o b = c \o d
    PROVE  /\ \A i \in 1..Len(a) : i <= Len(c) => a[i] = c[i]
           /\ Len(a) = Len(c) => a = c /\ b = d
<1>1. Len(a) \in Nat /\ Len(b) \in Nat /\ Len(c) \in Nat /\ Len(d) \in Nat
  OBVIOUS
<1>2. Len(a) + Len(b) = Len(c) + Len(d)
  BY ConcatProperties
<1>3. ASSUME NEW i \in 1..Len(a), i <= Len(c) PROVE a[i] = c[i]
  <2>1. (a \o b)[i] = a[i]
    BY <1>1, ConcatProperties
  <2>2. (c \o d)[i] = c[i]
    BY <1>1, <1>3, ConcatProperties
  <2> QED
    BY <2>1, <2>2
<1>4. ASSUME Len(a) = Len(c) PROVE a = c
  BY <1>3, <1>4, SeqEqual
<1>5. ASSUME Len(a) = Len(c) PROVE b = d
  <2>1. ASSUME NEW i \in 1..Len(b) PROVE b[i] = d[i]
    <3>1. /\ Len(a) + i \in 1..(Len(a) + Len(b)) /\ ~(Len(a) + i <= Len(a))
          /\ (Len(a) + i) - Len(a) = i
      BY <1>1
    <3>2. (a \o b)[Len(a) + i] = b[i]
      BY <3>1, ConcatProperties
    <3>3. (c \o d)[Len(a) + i] = d[i]
      BY <1>2, <1>5, <3>1, ConcatProperties
    <3> QED
      BY <3>2, <3>3
  <2>2. Len(b) = Len(d)
    BY <1>1, <1>2, <1>5
  <2> QED
    BY <2>1, <2>2, SeqEqual
<1> QED
  BY <1>3, <1>4, <1>5

\* The same as two formulas.
LEMMA Agree ==
    \A a, b, c, d \in Seq(Byte) :
        a \o b = c \o d => \A i \in 1..Len(a) : i <= Len(c) => a[i] = c[i]
<1> SUFFICES ASSUME NEW a \in Seq(Byte), NEW b \in Seq(Byte),
                    NEW c \in Seq(Byte), NEW d \in Seq(Byte), a \o b = c \o d
             PROVE  \A i \in 1..Len(a) : i <= Len(c) => a[i] = c[i]
  OBVIOUS
<1> QED
  BY Overlap

\* Two sequences joined in two ways, cut at the same place, are the same two.
LEMMA SameCut ==
    \A a, b, c, d \in Seq(Byte) :
        a \o b = c \o d /\ Len(a) = Len(c) => a = c /\ b = d
<1> SUFFICES ASSUME NEW a \in Seq(Byte), NEW b \in Seq(Byte),
                    NEW c \in Seq(Byte), NEW d \in Seq(Byte),
                    a \o b = c \o d, Len(a) = Len(c)
             PROVE  a = c /\ b = d
  OBVIOUS
<1> QED
  BY Overlap

\* A chunk is what is taken of it and the rest.
LEMMA Cut ==
    ASSUME NEW b \in Seq(Byte), NEW n \in 0..Len(b)
    PROVE  SubSeq(b, 1, n) \o SubSeq(b, n + 1, Len(b)) = b
<1>1. /\ 1 \in 1..(Len(b) + 1) /\ n \in (1 - 1)..Len(b) /\ Len(b) \in n..Len(b)
  OBVIOUS
<1>2. SubSeq(b, 1, n) \o SubSeq(b, n + 1, Len(b)) = SubSeq(b, 1, Len(b))
  BY <1>1, ConcatAdjacentSubSeq
<1> QED
  BY <1>2, SubSeqFull

-----------------------------------------------------------------------------
(* The message that is being received. *)

\* The messages that have not been delivered.
LEMMA Pending ==
    ASSUME FrameInv, Len(handled) <= Len(sent)
    PROVE  /\ Undelivered \in Seq(Message)
           /\ Len(Undelivered) = Len(sent) - Len(handled)
           /\ \A i \in 1..Len(Undelivered) : Undelivered[i] = sent[Len(handled) + i]
<1>1. /\ sent \in Seq(Message) /\ Len(sent) \in Nat /\ Len(handled) \in Nat
  BY DEF FrameInv, TypeOK
<1>2. \A i \in (Len(handled) + 1)..Len(sent) : sent[i] \in Message
  BY <1>1
<1>3. /\ Undelivered \in Seq(Message)
      /\ Len(Undelivered) = IF Len(handled) + 1 <= Len(sent)
                            THEN Len(sent) - (Len(handled) + 1) + 1 ELSE 0
      /\ \A i \in 1..(Len(sent) - (Len(handled) + 1) + 1) :
            Undelivered[i] = sent[(Len(handled) + 1) + i - 1]
  BY <1>1, <1>2, SubSeqProperties DEF Undelivered
<1> QED
  BY <1>1, <1>3

\* The length of a message is settled by its header, and so is that it hangs.
LEMMA SameHeader ==
    ASSUME NEW s \in Streams, NEW a, NEW b,
           \A i \in 1..HdrSize(s) : a[i] = b[i]
    PROVE  GetLen(s, a) = GetLen(s, b) /\ (Hangs(s, a) <=> Hangs(s, b))
<1>1. HdrSize(s) \in {2, 3}
  BY HeaderFits
<1>2. a[1] = b[1] /\ a[HdrSize(s)] = b[HdrSize(s)]
  BY <1>1
<1> QED
  BY <1>2 DEF GetLen, Hangs

\* The first message not delivered is one of stream s; got and the bytes after
\* it are that message and what is left for the others.
FirstIs(s, got, after) ==
    \E m \in Message, left \in Seq(Byte) :
       /\ Undelivered # <<>> /\ Undelivered[1] = m
       /\ s = m.stream /\ Proper(m) /\ m.bytes \in Seq(Byte)
       /\ \A i \in 1..Len(got) : i <= Len(m.bytes) => got[i] = m.bytes[i]
       /\ Len(got) = Len(m.bytes) => got = m.bytes /\ after = left
       /\ Laid(left, Tail(Undelivered))

\* If the bytes of a message not delivered begin with stream s, it is the first.
LEMMA FirstPending ==
    ASSUME FrameInv, Len(handled) <= Len(sent), \A m \in Message : Proper(m)
    PROVE  \A s \in Streams : \A got, rest \in Seq(Byte) :
              Laid(<<s>> \o (got \o rest), Undelivered) => FirstIs(s, got, rest)
<1> SUFFICES ASSUME NEW s \in Streams, NEW got \in Seq(Byte), NEW rest \in Seq(Byte),
                    Laid(<<s>> \o (got \o rest), Undelivered)
             PROVE  FirstIs(s, got, rest)
  OBVIOUS
<1>1. /\ Undelivered \in Seq(Message)
      /\ <<s>> \in Seq(Byte) /\ Len(<<s>>) = 1 /\ <<s>>[1] = s
      /\ got \o rest \in Seq(Byte)
  BY Pending, ByteAssumption, ConcatProperties
<1>2. /\ <<s>> \o (got \o rest) \in Seq(Byte)
      /\ Len(<<s>> \o (got \o rest)) = 1 + Len(got \o rest)
      /\ Len(got \o rest) \in Nat
  BY <1>1, ConcatProperties
<1>3. <<s>> \o (got \o rest) # <<>>
  BY <1>2, EmptySeq
<1>4. Undelivered # <<>>
  BY <1>3, LaidNone
<1>5. PICK left \in Seq(Byte) :
        /\ <<s>> \o (got \o rest) = OnLine(Undelivered[1]) \o left
        /\ Laid(left, Tail(Undelivered))
  BY <1>1, <1>2, <1>4, LaidFirst
<1>6. PICK m \in Message : m = Undelivered[1]
  BY <1>1, <1>4, EmptySeq
<1>7. /\ m.stream \in Byte /\ m.stream \in Streams /\ m.bytes \in Seq(Byte) /\ Proper(m)
      /\ <<m.stream>> \in Seq(Byte) /\ Len(<<m.stream>>) = 1 /\ <<m.stream>>[1] = m.stream
  <2>1. m.stream \in Streams /\ m.bytes \in Seq(Byte) /\ Proper(m)
    BY Carried
  <2>2. m.stream \in Byte
    BY <2>1, ByteAssumption
  <2> QED
    BY <2>1, <2>2, Single
<1>8. OnLine(m) \o left = <<m.stream>> \o (m.bytes \o left)
  BY <1>5, <1>7, Associative, Zenon DEF OnLine
<1>9. m.bytes \o left \in Seq(Byte)
  BY <1>5, <1>7, ConcatProperties
<1>10. s = m.stream /\ got \o rest = m.bytes \o left
  <2>1. <<s>> \o (got \o rest) = <<m.stream>> \o (m.bytes \o left)
    BY <1>5, <1>6, <1>8
  <2>2. <<s>> = <<m.stream>> /\ got \o rest = m.bytes \o left
    <3>1. /\ <<s>> \in Seq(Byte) /\ <<m.stream>> \in Seq(Byte)
          /\ got \o rest \in Seq(Byte) /\ m.bytes \o left \in Seq(Byte)
          /\ Len(<<s>>) = Len(<<m.stream>>)
      BY <1>1, <1>7, <1>9
    <3> QED
      BY <2>1, <3>1, SameCut, Zenon
  <2> QED
    BY <1>1, <1>7, <2>2
<1> QED
  <2>1. \A i \in 1..Len(got) : i <= Len(m.bytes) => got[i] = m.bytes[i]
    BY <1>5, <1>7, <1>10, Agree, Zenon
  <2>2. Len(got) = Len(m.bytes) => got = m.bytes /\ rest = left
    BY <1>5, <1>7, <1>10, SameCut, Zenon
  <2> QED
    BY <1>4, <1>5, <1>6, <1>7, <1>10, <2>1, <2>2 DEF FirstIs

\* One pass of ictrl_serial_rx_proc_cont() over a chunk of the messages sent: the
\* bytes stay those of the messages not delivered, and if it calls a handler then
\* on the first of them.
LEMMA ReceiveDelivers ==
    ASSUME FrameInv, Len(handled) <= Len(sent), \A m \in Message : Proper(m),
           NEW s \in Streams, NEW buff \in Seq(Byte), NEW len \in Nat,
           NEW bytes \in Seq(Byte), bytes # <<>>,
           Partial(s, buff, len), Incomplete(s, buff, len),
           Laid(<<s>> \o (buff \o (bytes \o line)), Undelivered),
           Receive(s, buff, len, bytes),
           UNCHANGED <<line, sent, noise>>
    PROVE  ChannelInv' /\ [Channel!Next]_(Channel!vars)
<1> DEFINE btr == Smaller(Wanted(s, buff, len), Len(bytes))
           took == SubSeq(bytes, 1, btr)
           got == buff \o took
           rest == SubSeq(bytes, btr + 1, Len(bytes))
<1>1. /\ HdrSize(s) \in {2, 3}
      /\ Len(buff) \in Nat
      /\ Len(bytes) \in Nat \ {0}
      /\ line \in Seq(Byte)
  BY HeaderFits, EmptySeq DEF FrameInv, TypeOK
<1>2. btr \in 1..Len(bytes) /\ Len(buff) + btr <= (IF len = 0 THEN HdrSize(s) ELSE len)
  BY <1>1 DEF Wanted, Incomplete, Smaller
<1>3. /\ took \in Seq(Byte) /\ Len(took) = btr /\ rest \in Seq(Byte)
      /\ took \o rest = bytes
  <2>1. btr \in 0..Len(bytes)
    BY <1>1, <1>2
  <2> QED
    BY <2>1, Split, Cut
<1>4. rx_buff' = got
  BY DEF Receive
<1>5. \/ HeaderReceived(s, got, len, rest)
      \/ BodyReceived(s, got, len, rest)
      \/ PartReceived(s, got, len, rest)
  BY DEF Receive
<1> HIDE DEF btr, took, rest
<1>6. /\ got \in Seq(Byte) /\ Len(got) = Len(buff) + btr
      /\ got \o (rest \o line) = buff \o (bytes \o line)
      /\ rest \o line \in Seq(Byte)
  <2>1. got \in Seq(Byte) /\ Len(got) = Len(buff) + btr /\ rest \o line \in Seq(Byte)
    BY <1>1, <1>3, ConcatProperties
  <2>2. Regroups(buff, took, rest, line)
    BY <1>1, <1>3, Regrouped, Zenon
  <2> QED
    BY <1>3, <2>1, <2>2 DEF Regroups
<1>7. /\ Len(got) \in Nat /\ Len(got) >= 1
      /\ Len(got) <= (IF len = 0 THEN HdrSize(s) ELSE len)
  BY <1>1, <1>2, <1>6
<1>8. GetLen(s, got) = GetLen(s, buff) \/ Len(buff) < HdrSize(s)
  <2>1. CASE Len(buff) >= HdrSize(s)
    BY <1>3, <2>1, LengthOfHeader
  <2> QED
    BY <1>1, <2>1
<1> HIDE DEF got
<1>9. Laid(<<s>> \o (got \o (rest \o line)), Undelivered)
  BY <1>6
<1>10. PICK m \in Message, left \in Seq(Byte) :
          /\ Undelivered # <<>> /\ Undelivered[1] = m
          /\ s = m.stream /\ Proper(m) /\ m.bytes \in Seq(Byte)
          /\ \A i \in 1..Len(got) : i <= Len(m.bytes) => got[i] = m.bytes[i]
          /\ Len(got) = Len(m.bytes) => got = m.bytes /\ rest \o line = left
          /\ Laid(left, Tail(Undelivered))
  <2>1. got \in Seq(Byte) /\ rest \o line \in Seq(Byte)
    BY <1>6
  <2>2. FirstIs(s, got, rest \o line)
    BY <1>9, <2>1, FirstPending, Zenon
  <2> QED
    BY <2>2 DEF FirstIs
<1>11. Len(m.bytes) \in Nat /\ HdrSize(s) < Len(m.bytes)
  BY <1>10 DEF Proper
<1>13. Len(got) >= HdrSize(s) => GetLen(s, got) = Len(m.bytes) /\ ~Hangs(s, got)
  <2> HAVE Len(got) >= HdrSize(s)
  <2>1. \A i \in 1..HdrSize(s) : got[i] = m.bytes[i]
    BY <1>1, <1>7, <1>10, <1>11
  <2>2. GetLen(s, got) = GetLen(s, m.bytes) /\ (Hangs(s, got) <=> Hangs(s, m.bytes))
    BY <2>1, SameHeader
  <2> QED
    BY <1>10, <2>2 DEF Proper
<1>14. len # 0 => len = Len(m.bytes)
  <2> HAVE len # 0
  <2>1. HdrSize(s) <= Len(buff) /\ len = GetLen(s, buff)
    BY DEF Partial
  <2>2. len = GetLen(s, got) /\ Len(got) >= HdrSize(s)
    BY <1>1, <1>2, <1>6, <1>8, <2>1
  <2> QED
    BY <1>13, <2>2
<1>15. ASSUME Remain(rest)
       PROVE  /\ tty_rx_buf' = rest /\ rx_pc' # "hung"
              /\ rx_pc' = "select" => tty_rx_buf' = <<>>
  BY <1>15 DEF Remain
<1>16. ASSUME Remain(rest), curr_stream' = s, UNCHANGED handled,
              Incomplete(s, got, stream_len')
       PROVE  ChannelInv' /\ [Channel!Next]_(Channel!vars)
  <2>1. UNCHANGED <<handled, sent>> /\ Undelivered' = Undelivered
    BY <1>16 DEF Undelivered
  <2>2. Taken' = <<s>> \o got
    BY <1>4, <1>16 DEF Taken, Streams, NULL, DBGL, CRSP, IMUD
  <2>3. Taken' \o (tty_rx_buf' \o line') = <<s>> \o (got \o (rest \o line))
    <3>1. <<s>> \in Seq(Byte)
      BY ByteAssumption
    <3>2. (<<s>> \o got) \o (rest \o line) = <<s>> \o (got \o (rest \o line))
      BY <1>6, <3>1, Associative, Zenon
    <3> QED
      BY <1>15, <1>16, <2>2, <3>2
  <2>4. Laid((Taken \o (tty_rx_buf \o line))', Undelivered')
    BY <1>9, <2>1, <2>3
  <2>5. ChannelInv'
    BY <1>4, <1>15, <1>16, <2>1, <2>4 DEF ChannelInv
  <2> QED
    BY <2>1, <2>5 DEF Channel!vars
<1>17. CASE HeaderReceived(s, got, len, rest)
  <2>1. Len(got) = HdrSize(s) /\ GetLen(s, got) = Len(m.bytes)
    BY <1>1, <1>13, <1>17 DEF HeaderReceived
  <2>2. stream_len' = Len(m.bytes) /\ Remain(rest)
    BY <1>1, <1>11, <1>17, <2>1 DEF HeaderReceived
  <2>3. Incomplete(s, got, stream_len')
    BY <1>1, <1>11, <2>1, <2>2 DEF Incomplete
  <2> QED
    BY <1>16, <1>17, <2>2, <2>3 DEF HeaderReceived
<1>18. CASE BodyReceived(s, got, len, rest)
  <2>1. Len(got) = len /\ len = Len(m.bytes)
    BY <1>7, <1>14, <1>18 DEF BodyReceived
  <2>2. got = m.bytes /\ rest \o line = left /\ ~Hangs(s, got)
    BY <1>1, <1>10, <1>11, <1>13, <2>1
  <2>3. m = [stream |-> s, bytes |-> got]
    BY <1>10, <2>2, MessageAssumption
  <2>4. handled' = Append(handled, m) /\ curr_stream' = NULL /\ Remain(rest)
    BY <1>18, <2>2, <2>3 DEF BodyReceived
  <2>5. /\ Len(handled') = Len(handled) + 1 /\ Len(handled) \in Nat /\ Len(sent) \in Nat
        /\ sent' = sent /\ sent \in Seq(Message)
    BY <2>4 DEF FrameInv, TypeOK
  <2>6. Len(handled) + 1 <= Len(sent)
    <3>1. Len(Undelivered) \in Nat /\ Len(Undelivered) # 0
      BY <1>10, Pending, EmptySeq
    <3> QED
      BY <2>5, <3>1, Pending
  <2>7. Undelivered' = Tail(Undelivered) /\ Head(Undelivered) = m
    <3>1. Len(handled) + 1 \in 1..Len(sent) /\ Len(sent) \in (Len(handled) + 1)..Len(sent)
      BY <2>5, <2>6
    <3>2. Tail(Undelivered) = SubSeq(sent, (Len(handled) + 1) + 1, Len(sent))
      BY <2>5, <3>1, HeadTailOfSubSeq DEF Undelivered
    <3>3. Head(Undelivered) = m
      BY <1>10, Pending
    <3> QED
      BY <2>5, <3>2, <3>3 DEF Undelivered
  <2>8. Taken' = <<>> /\ tty_rx_buf' = rest /\ line' = line
    BY <1>15, <2>4 DEF Taken
  <2>9. (Taken \o (tty_rx_buf \o line))' = left
    BY <1>6, <2>2, <2>8, ConcatEmptySeq
  <2>10. Laid((Taken \o (tty_rx_buf \o line))', Undelivered')
    BY <1>10, <2>7, <2>9
  <2>11. ChannelInv'
    BY <1>15, <2>4, <2>5, <2>6, <2>10 DEF ChannelInv
  <2>12. Channel!Deliver
    BY <1>10, <2>4, <2>7 DEF Channel!Deliver
  <2> QED
    BY <2>11, <2>12 DEF Channel!Next
<1>19. CASE PartReceived(s, got, len, rest)
  <2>1. Incomplete(s, got, stream_len')
    BY <1>1, <1>7, <1>19 DEF PartReceived, Incomplete
  <2> QED
    BY <1>16, <1>19, <2>1 DEF PartReceived
<1> QED
  BY <1>5, <1>17, <1>18, <1>19

-----------------------------------------------------------------------------
(* The other steps. *)

\* Nothing sent, nothing received.
LEMMA ChannelInit == Init => ChannelInv /\ Channel!Init
<1> SUFFICES ASSUME Init PROVE ChannelInv /\ Channel!Init
  OBVIOUS
<1>1. Undelivered = <<>> /\ handled = <<>>
  BY SubSeqEmpty DEF Init, Undelivered
<1>2. Taken \o (tty_rx_buf \o line) = <<>>
  BY EmptySeq, ConcatEmptySeq DEF Init, Taken
<1>3. Laid(Taken \o (tty_rx_buf \o line), Undelivered)
  BY <1>1, <1>2, LaidNone
<1> QED
  BY <1>1, <1>3 DEF ChannelInv, Init, Channel!Init

\* What is taken, what was read and what is on the line, as sequences of bytes.
LEMMA Bytes ==
    ASSUME FrameInv
    PROVE  /\ Taken \in Seq(Byte) /\ tty_rx_buf \in Seq(Byte) /\ line \in Seq(Byte)
           /\ tty_rx_buf \o line \in Seq(Byte)
           /\ Taken \o (tty_rx_buf \o line) \in Seq(Byte)
           /\ curr_stream = NULL => Taken \o (tty_rx_buf \o line) = tty_rx_buf \o line
<1>1. tty_rx_buf \in Seq(Byte) /\ line \in Seq(Byte) /\ rx_buff \in Seq(Byte)
  BY DEF FrameInv, TypeOK
<1>2. tty_rx_buf \o line \in Seq(Byte)
  BY <1>1, ConcatProperties
<1>3. Taken \in Seq(Byte)
  <2>1. CASE curr_stream = NULL
    BY <2>1, EmptySeq DEF Taken
  <2>2. CASE curr_stream # NULL
    <3>1. curr_stream \in Byte
      BY <2>2, ByteAssumption DEF FrameInv, TypeOK
    <3>2. <<curr_stream>> \in Seq(Byte)
      BY <3>1
    <3> QED
      BY <1>1, <2>2, <3>2, ConcatProperties DEF Taken
  <2> QED
    BY <2>1, <2>2
<1>4. Taken \o (tty_rx_buf \o line) \in Seq(Byte)
  BY <1>2, <1>3, ConcatProperties
<1>5. curr_stream = NULL => Taken \o (tty_rx_buf \o line) = tty_rx_buf \o line
  BY <1>2, ConcatEmptySeq DEF Taken
<1> QED
  BY <1>1, <1>2, <1>3, <1>4, <1>5

\* The microcontroller sends one more message.
LEMMA SendKeeps ==
    ASSUME FrameInv, ChannelInv, NEW m \in Message, DevSend(m)
    PROVE  ChannelInv' /\ [Channel!Next]_(Channel!vars)
<1>1. /\ Len(sent) \in Nat /\ Len(handled) \in Nat /\ Len(handled) <= Len(sent)
      /\ sent \in Seq(Message)
      /\ sent' = Append(sent, m) /\ handled' = handled
      /\ Len(sent') = Len(sent) + 1
  BY DEF FrameInv, TypeOK, ChannelInv, DevSend, rxVars
<1>2. /\ Undelivered \in Seq(Message)
      /\ Len(Undelivered) = Len(sent) - Len(handled)
      /\ \A i \in 1..Len(Undelivered) : Undelivered[i] = sent[Len(handled) + i]
  BY <1>1, Pending
<1>3. Undelivered' = Append(Undelivered, m)
  <2>1. Undelivered' = SubSeq(sent', Len(handled) + 1, Len(sent) + 1)
    BY <1>1 DEF Undelivered
  <2>2. /\ sent' \in Seq(Message)
        /\ \A i \in 1..Len(sent) : sent'[i] = sent[i]
        /\ sent'[Len(sent) + 1] = m
    BY <1>1, AppendProperties
  <2>3. /\ Undelivered' \in Seq(Message)
        /\ Len(Undelivered') = Len(Undelivered) + 1
        /\ \A i \in 1..(Len(Undelivered) + 1) : Undelivered'[i] = sent'[Len(handled) + i]
    <3>1. \A i \in (Len(handled) + 1)..(Len(sent) + 1) : sent'[i] \in Message
      BY <1>1, <2>2
    <3>2. /\ SubSeq(sent', Len(handled) + 1, Len(sent) + 1) \in Seq(Message)
          /\ Len(SubSeq(sent', Len(handled) + 1, Len(sent) + 1))
                = (Len(sent) + 1) - (Len(handled) + 1) + 1
          /\ \A i \in 1..((Len(sent) + 1) - (Len(handled) + 1) + 1) :
                SubSeq(sent', Len(handled) + 1, Len(sent) + 1)[i]
                   = sent'[(Len(handled) + 1) + i - 1]
      BY <1>1, <3>1, SubSeqProperties
    <3>3. /\ (Len(sent) + 1) - (Len(handled) + 1) + 1 = Len(Undelivered) + 1
          /\ \A i \in 1..(Len(Undelivered) + 1) :
                (Len(handled) + 1) + i - 1 = Len(handled) + i
      BY <1>1, <1>2
    <3> QED
      BY <2>1, <3>2, <3>3
  <2>4. ASSUME NEW i \in 1..(Len(Undelivered) + 1)
        PROVE  Undelivered'[i] = Append(Undelivered, m)[i]
    <3>1. CASE i = Len(Undelivered) + 1
      <4>1. Len(handled) + i = Len(sent) + 1
        BY <1>1, <1>2, <3>1
      <4>2. Append(Undelivered, m)[Len(Undelivered) + 1] = m
        BY <1>2, AppendProperties
      <4> QED
        BY <2>2, <2>3, <3>1, <4>1, <4>2
    <3>2. CASE i # Len(Undelivered) + 1
      <4>1. i \in 1..Len(Undelivered) /\ Len(handled) + i \in 1..Len(sent)
        BY <1>1, <1>2, <3>2
      <4> QED
        BY <1>2, <2>2, <2>3, <4>1, AppendProperties
    <3> QED
      BY <3>1, <3>2
  <2>5. Append(Undelivered, m) \in Seq(Message)
        /\ Len(Append(Undelivered, m)) = Len(Undelivered) + 1
    BY <1>2, AppendProperties
  <2> QED
    BY <2>3, <2>4, <2>5, SeqEqual
<1>4. /\ line' = line \o OnLine(m)
      /\ UNCHANGED <<rx_pc, tty_rx_buf, curr_stream, rx_buff, stream_len>>
      /\ Taken' = Taken
  BY DEF DevSend, rxVars, Taken
<1>5. (Taken \o (tty_rx_buf \o line))' = (Taken \o (tty_rx_buf \o line)) \o OnLine(m)
  <2>1. Extended(Taken, tty_rx_buf, line, OnLine(m))
    BY Bytes, Carried, ExtendedBehind, Zenon
  <2> QED
    BY <1>4, <2>1 DEF Extended
<1>6. Laid((Taken \o (tty_rx_buf \o line))', Undelivered')
  BY <1>2, <1>3, <1>5, Bytes, LaidMore DEF ChannelInv
<1>7. ChannelInv'
  BY <1>1, <1>4, <1>6 DEF ChannelInv
<1>8. Channel!Send(m)
  BY <1>1, <1>2, <1>3 DEF DevSend, Channel!Send
<1> QED
  BY <1>7, <1>8 DEF Channel!Next

\* A read takes a chunk from the line, wherever it is cut.
LEMMA ReadKeeps ==
    ASSUME FrameInv, ChannelInv, ReadTty
    PROVE  ChannelInv' /\ [Channel!Next]_(Channel!vars)
<1>1. PICK n \in 1..TtyRxBuf :
        /\ n <= Len(line)
        /\ tty_rx_buf' = SubSeq(line, 1, n)
        /\ line' = SubSeq(line, n + 1, Len(line))
  BY DEF ReadTty
<1>2. n \in 0..Len(line) /\ line \in Seq(Byte)
  BY <1>1, BoundAssumption DEF FrameInv, TypeOK
<1>3. tty_rx_buf' \o line' = tty_rx_buf \o line
  <2>1. tty_rx_buf \o line = line
    BY <1>2, ConcatEmptySeq DEF ChannelInv, ReadTty
  <2>2. SubSeq(line, 1, n) \o SubSeq(line, n + 1, Len(line)) = line
    BY <1>2, Cut
  <2> QED
    BY <1>1, <2>1, <2>2
<1>4. /\ UNCHANGED <<curr_stream, rx_buff, stream_len, handled, sent>>
      /\ rx_pc' = "proc" /\ Taken' = Taken /\ Undelivered' = Undelivered
  BY DEF ReadTty, Taken, Undelivered
<1>5. ChannelInv'
  BY <1>3, <1>4 DEF ChannelInv
<1> QED
  BY <1>4, <1>5 DEF Channel!vars

\* Between messages, the chunk begins with the stream number of the next.
LEMMA NextIsKnown ==
    ASSUME FrameInv, ChannelInv, \A m \in Message : Proper(m),
           rx_pc = "proc", curr_stream = NULL
    PROVE  /\ Head(tty_rx_buf) \in Streams /\ Tail(tty_rx_buf) \in Seq(Byte)
           /\ Laid(<<Head(tty_rx_buf)>> \o (Tail(tty_rx_buf) \o line), Undelivered)
<1> DEFINE h == Head(tty_rx_buf)
           chunk == Tail(tty_rx_buf)
<1>1. /\ tty_rx_buf \in Seq(Byte) /\ tty_rx_buf # <<>> /\ line \in Seq(Byte)
  BY DEF FrameInv, TypeOK
<1>2. h \in Byte /\ chunk \in Seq(Byte) /\ tty_rx_buf = <<h>> \o chunk
  <2>1. h \in Byte /\ chunk \in Seq(Byte) /\ Len(chunk) = Len(tty_rx_buf) - 1
        /\ \A i \in 1..Len(chunk) : chunk[i] = tty_rx_buf[i + 1]
    BY <1>1, HeadTailProperties
  <2>2. tty_rx_buf = <<h>> \o chunk
    BY <1>1
  <2> QED
    BY <2>1, <2>2
<1> HIDE DEF h, chunk
<1>3. Laid(<<h>> \o (chunk \o line), Undelivered)
  <2>1. tty_rx_buf \o line = <<h>> \o (chunk \o line)
    <3>1. <<h>> \in Seq(Byte)
      BY <1>2
    <3>2. (<<h>> \o chunk) \o line = <<h>> \o (chunk \o line)
      BY <1>1, <1>2, <3>1, Associative, Zenon
    <3> QED
      BY <1>2, <3>2
  <2> QED
    BY <2>1, Bytes DEF ChannelInv
<1>4. h \in Streams
  <2>1. chunk \o line \in Seq(Byte)
    BY <1>1, <1>2, ConcatProperties
  <2>2. <<h>> \in Seq(Byte) /\ Len(<<h>>) = 1 /\ <<h>>[1] = h
    BY <1>2, Single
  <2>3. Undelivered \in Seq(Message) /\ Undelivered # <<>>
    <3>1. <<h>> \o (chunk \o line) # <<>>
      BY <2>1, <2>2, EmptySeq, ConcatEqualIffEmpty
    <3> QED
      BY <1>3, <3>1, Pending, LaidNone DEF ChannelInv
  <2>4. <<h>> \o (chunk \o line) \in Seq(Byte)
    BY <2>1, <2>2, ConcatProperties
  <2>5. PICK left \in Seq(Byte) : <<h>> \o (chunk \o line) = OnLine(Undelivered[1]) \o left
    BY <1>3, <2>3, <2>4, LaidFirst
  <2>6. PICK m \in Message : m = Undelivered[1]
    BY <2>3, EmptySeq
  <2>7. /\ OnLine(m) \in Seq(Byte) /\ m.stream \in Streams
        /\ Len(OnLine(m)) >= 1 /\ OnLine(m)[1] = m.stream
    <3>1. m.stream \in Streams /\ m.bytes \in Seq(Byte) /\ OnLine(m) \in Seq(Byte)
      BY Carried
    <3>2. m.stream \in Byte
      BY <3>1, ByteAssumption
    <3>3. <<m.stream>> \in Seq(Byte) /\ Len(<<m.stream>>) = 1 /\ <<m.stream>>[1] = m.stream
      BY <3>2, Single
    <3> QED
      BY <3>1, <3>3, ConcatProperties DEF OnLine
  <2>8. <<h>>[1] = OnLine(m)[1]
    BY <2>1, <2>2, <2>5, <2>6, <2>7, Overlap
  <2> QED
    BY <2>2, <2>7, <2>8
<1> QED
  BY <1>2, <1>3, <1>4 DEF h, chunk

\* The first byte of a message, alone in the chunk or with bytes behind it.
LEMMA StartKeeps ==
    ASSUME FrameInv, ChannelInv, \A m \in Message : Proper(m), StartStream
    PROVE  ChannelInv' /\ [Channel!Next]_(Channel!vars)
<1> DEFINE h == Head(tty_rx_buf)
           chunk == Tail(tty_rx_buf)
<1>1. /\ rx_pc = "proc" /\ curr_stream = NULL
      /\ UNCHANGED <<line, sent, noise>>
      /\ tty_rx_buf \in Seq(Byte) /\ tty_rx_buf # <<>>
      /\ line \in Seq(Byte)
  BY DEF StartStream, FrameInv, TypeOK
<1>2. h \in Streams /\ chunk \in Seq(Byte) /\ Laid(<<h>> \o (chunk \o line), Undelivered)
  BY <1>1, NextIsKnown
<1>3. Len(chunk) = Len(tty_rx_buf) - 1 /\ Len(tty_rx_buf) \in Nat
  BY <1>1, HeadTailProperties
<1>4. HdrSize(h) \in {2, 3}
  BY <1>2, HeaderFits
<1>5. <<h>> \in Seq(Byte) /\ chunk \o line \in Seq(Byte)
  BY <1>1, <1>2, ByteAssumption, ConcatProperties
<1>6. CASE Len(tty_rx_buf) = 1
  <2>1. /\ curr_stream' = h /\ rx_buff' = <<>> /\ stream_len' = 0
        /\ tty_rx_buf' = <<>> /\ rx_pc' = "select"
        /\ UNCHANGED handled
    BY <1>6 DEF StartStream, Remain
  <2> HIDE DEF h, chunk
  <2>2. chunk = <<>>
    BY <1>2, <1>3, <1>6, EmptySeq
  <2>3. Taken' = <<h>>
    <3>1. Taken' = <<h>> \o <<>>
      BY <1>2, <2>1 DEF Taken, Streams, NULL, DBGL, CRSP, IMUD
    <3> QED
      BY <1>5, <3>1, ConcatEmptySeq
  <2>4. (Taken \o (tty_rx_buf \o line))' = <<h>> \o (chunk \o line)
    BY <1>1, <2>1, <2>2, <2>3
  <2>5. Undelivered' = Undelivered /\ UNCHANGED <<handled, sent>>
    BY <1>1, <2>1 DEF Undelivered
  <2>6. Laid((Taken \o (tty_rx_buf \o line))', Undelivered')
    BY <1>2, <2>4, <2>5
  <2>7. Incomplete(curr_stream', rx_buff', stream_len')
    BY <1>4, <2>1 DEF Incomplete
  <2>8. ChannelInv'
    BY <2>1, <2>5, <2>6, <2>7 DEF ChannelInv
  <2> QED
    BY <2>5, <2>8 DEF Channel!vars
<1>7. CASE Len(tty_rx_buf) # 1
  <2>1. Receive(h, <<>>, 0, chunk)
    BY <1>7 DEF StartStream
  <2> HIDE DEF h, chunk
  <2>2. chunk # <<>>
    BY <1>2, <1>3, <1>7, EmptySeq
  <2>3. Partial(h, <<>>, 0) /\ Incomplete(h, <<>>, 0) /\ <<>> \in Seq(Byte)
    BY <1>4, EmptySeq DEF Partial, Incomplete
  <2>4. Laid(<<h>> \o (<<>> \o (chunk \o line)), Undelivered)
    <3>1. <<>> \o (chunk \o line) = chunk \o line
      BY <1>5, ConcatEmptySeq
    <3> QED
      BY <1>2, <3>1
  <2>5. Len(handled) <= Len(sent)
    BY DEF ChannelInv
  <2> QED
    BY <1>1, <1>2, <2>1, <2>2, <2>3, <2>4, <2>5, ReceiveDelivers
<1> QED
  BY <1>6, <1>7

\* More bytes of the message that is being received.
LEMMA ContinueKeeps ==
    ASSUME FrameInv, ChannelInv, \A m \in Message : Proper(m), ContinueStream
    PROVE  ChannelInv' /\ [Channel!Next]_(Channel!vars)
<1>1. /\ curr_stream \in Streams /\ curr_stream # NULL /\ curr_stream \in Byte
      /\ rx_buff \in Seq(Byte) /\ stream_len \in Nat
      /\ tty_rx_buf \in Seq(Byte) /\ tty_rx_buf # <<>> /\ line \in Seq(Byte)
      /\ Partial(curr_stream, rx_buff, stream_len)
      /\ Incomplete(curr_stream, rx_buff, stream_len)
      /\ Len(handled) <= Len(sent)
  BY ByteAssumption DEF ContinueStream, FrameInv, TypeOK, ChannelInv
<1>2. Receive(curr_stream, rx_buff, stream_len, tty_rx_buf) /\ UNCHANGED <<line, sent, noise>>
  BY DEF ContinueStream
<1>3. <<curr_stream>> \in Seq(Byte) /\ tty_rx_buf \o line \in Seq(Byte)
  BY <1>1, ConcatProperties
<1>4. (<<curr_stream>> \o rx_buff) \o (tty_rx_buf \o line)
         = <<curr_stream>> \o (rx_buff \o (tty_rx_buf \o line))
  BY <1>1, <1>3, Associative, Zenon
<1>5. Laid(<<curr_stream>> \o (rx_buff \o (tty_rx_buf \o line)), Undelivered)
  BY <1>1, <1>4 DEF ChannelInv, Taken
<1> QED
  BY <1>1, <1>2, <1>5, ReceiveDelivers

\* Every step that leaves the line intact is a step of the channel or none.
LEMMA ChannelStep ==
    ASSUME FrameInv, ChannelInv, \A m \in Message : Proper(m),
           noise = 0, noise' = 0, [Next]_vars
    PROVE  ChannelInv' /\ [Channel!Next]_(Channel!vars)
<1>1. CASE DevStep
  BY <1>1, SendKeeps DEF DevStep
<1>2. CASE LineStep
  BY <1>2 DEF LineStep, LineLosesByte, LineDamagesByte
<1>3. CASE ReadTty
  BY <1>3, ReadKeeps
<1>4. CASE BadStream
  BY <1>4, NextIsKnown DEF BadStream
<1>5. CASE StartStream
  BY <1>5, StartKeeps
<1>6. CASE ContinueStream
  BY <1>6, ContinueKeeps
<1>7. CASE UNCHANGED vars
  <2>1. /\ UNCHANGED <<line, rx_pc, tty_rx_buf, curr_stream, rx_buff, stream_len,
                       handled, sent>>
    BY <1>7 DEF vars, rxVars
  <2>2. Undelivered' = Undelivered /\ Taken' = Taken
    BY <2>1 DEF Undelivered, Taken
  <2>3. ChannelInv'
    BY <2>1, <2>2 DEF ChannelInv
  <2> QED
    BY <2>1, <2>2, <2>3 DEF Channel!vars
<1> QED
  BY <1>1, <1>2, <1>3, <1>4, <1>5, <1>6, <1>7 DEF Next, RxStep, RxProcCont

-----------------------------------------------------------------------------
\* If every message sent carries its own mark and size and a payload, then while
\* the line is intact what was taken, read and not yet read are the messages not
\* delivered: the receiver never loses its place.
THEOREM NeverLost ==
    ASSUME \A m \in Message : Proper(m)
    PROVE  Spec /\ [](noise = 0) => []ChannelInv
<1>1. FrameInv /\ ChannelInv /\ noise = 0 /\ (noise = 0)' /\ [Next]_vars => ChannelInv'
  BY ChannelStep
<1> QED
  BY <1>1, ChannelInit, FrameInvariant, PTL DEF Spec

\* With the same messages and the line intact, the receiver is the channel: the
\* handlers are called with the messages sent, whole, in order, each once,
\* whatever the payloads are and however the reads of the tty cut them.
THEOREM ReceiverIsChannel ==
    ASSUME \A m \in Message : Proper(m)
    PROVE  Spec /\ [](noise = 0) => ImplementsChannel
<1>1. FrameInv /\ ChannelInv /\ noise = 0 /\ (noise = 0)' /\ [Next]_vars
         => [Channel!Next]_(Channel!vars)
  BY ChannelStep
<1>2. Init => Channel!Init
  BY ChannelInit
<1> QED
  BY <1>1, <1>2, FrameInvariant, NeverLost, PTL DEF Spec, ImplementsChannel, Channel!Spec
=============================================================================

-------------------------- MODULE SerialRx_proofs --------------------------
(***************************************************************************)
(* What holds of the receiver for every message, every buffer size and     *)
(* every line, however many bytes it loses or damages: the counts of the   *)
(* memcpy() in ictrl_serial_rx_proc_cont() stay within rx_buff, and on_rx()  *)
(* is called on whole messages only.                                       *)
(***************************************************************************)
EXTENDS SerialRx, SequenceTheorems, TLAPS

\* What a stream has received is a part of its header while its length is not
\* known, and a message of that length, up to some byte, when it is.
Partial(s, buff, len) ==
    IF len = 0 THEN Len(buff) <= HdrSize(s)
    ELSE /\ HdrSize(s) <= Len(buff)
         /\ Len(buff) <= len
         /\ len = GetLen(s, buff)

FrameInv ==
    /\ TypeOK
    /\ rx_pc = "proc" => tty_rx_buf # <<>>
    /\ Len(rx_buff) <= RxBuff
    /\ curr_stream # NULL => Partial(curr_stream, rx_buff, stream_len)
    /\ WholeMessages

-----------------------------------------------------------------------------
(* The length of a message. *)

USE DEF DBGL, CRSP, IMUD, Streams, NULL

\* A header fits into rx_buff, and so does what it announces.
LEMMA LengthFits ==
    ASSUME NEW s \in Streams, NEW b \in Seq(Byte), Len(b) >= HdrSize(s)
    PROVE  GetLen(s, b) \in {-1} \cup HdrSize(s)..RxBuff
<1>1. HdrSize(s) \in 2..3
  BY DEF HdrSize
<1>2. b[HdrSize(s)] \in Byte
  BY <1>1
<1>3. b[HdrSize(s)] \in Nat /\ b[HdrSize(s)] + 3 <= RxBuff /\ RxBuff \in Nat
  BY <1>2, ByteAssumption, RxBuffAssumption
<1> QED
  BY <1>1, <1>3 DEF GetLen

\* Every header fits into rx_buff.
LEMMA HeaderFits ==
    ASSUME NEW s \in Streams
    PROVE  HdrSize(s) \in {2, 3} /\ HdrSize(s) <= RxBuff
BY ByteAssumption, RxBuffAssumption DEF HdrSize

\* The length of a message is settled by its header.
LEMMA LengthOfHeader ==
    ASSUME NEW s \in Streams, NEW b \in Seq(Byte), NEW x \in Seq(Byte),
           Len(b) >= HdrSize(s)
    PROVE  GetLen(s, b \o x) = GetLen(s, b)
<1>1. (b \o x)[1] = b[1] /\ (b \o x)[HdrSize(s)] = b[HdrSize(s)]
  BY ConcatProperties DEF HdrSize
<1> QED
  BY <1>1 DEF GetLen

\* A chunk is split into what is wanted and the rest.
LEMMA Split ==
    ASSUME NEW b \in Seq(Byte), NEW n \in 0..Len(b)
    PROVE  /\ SubSeq(b, 1, n) \in Seq(Byte)
           /\ Len(SubSeq(b, 1, n)) = n
           /\ SubSeq(b, n + 1, Len(b)) \in Seq(Byte)
           /\ Len(SubSeq(b, n + 1, Len(b))) = Len(b) - n
<1>1. \A i \in 1..n : b[i] \in Byte
  OBVIOUS
<1>2. \A i \in (n + 1)..Len(b) : b[i] \in Byte
  OBVIOUS
<1> QED
  BY <1>1, <1>2, SubSeqProperties

-----------------------------------------------------------------------------
(* One pass of the receiver keeps the invariant. *)

\* ictrl_serial_rx_proc_cont() on a chunk that is not empty keeps the invariant,
\* whether it completes a header, a message or neither.
LEMMA ReceiveKeeps ==
    ASSUME FrameInv,
           NEW s \in Streams, NEW buff \in Seq(Byte), NEW len \in Nat,
           NEW bytes \in Seq(Byte), bytes # <<>>,
           Partial(s, buff, len),
           Receive(s, buff, len, bytes),
           UNCHANGED <<line, sent, noise>>
    PROVE  FrameInv'
<1> DEFINE btr == Smaller(Wanted(s, buff, len), Len(bytes))
           got == buff \o SubSeq(bytes, 1, btr)
           rest == SubSeq(bytes, btr + 1, Len(bytes))
<1>0. /\ HdrSize(s) \in {2, 3}
      /\ Len(buff) \in Nat
      /\ Len(bytes) \in Nat \ {0}
  BY HeaderFits, EmptySeq
<1>1. /\ Wanted(s, buff, len) \in Nat
      /\ btr \in 0..Len(bytes)
      /\ btr <= Wanted(s, buff, len)
      /\ btr = 0 => Wanted(s, buff, len) = 0
  <2>1. Wanted(s, buff, len) \in Nat
    BY <1>0 DEF Wanted, Partial
  <2> QED
    BY <1>0, <2>1 DEF Smaller
<1>2. /\ got \in Seq(Byte)
      /\ rest \in Seq(Byte)
      /\ Len(got) = Len(buff) + btr
  <2>1. /\ SubSeq(bytes, 1, btr) \in Seq(Byte)
        /\ Len(SubSeq(bytes, 1, btr)) = btr
        /\ rest \in Seq(Byte)
    BY <1>1, Split
  <2> QED
    BY <2>1, ConcatProperties
<1>3. GetLen(s, got) = GetLen(s, buff) \/ Len(buff) < HdrSize(s)
  <2>1. SubSeq(bytes, 1, btr) \in Seq(Byte)
    BY <1>1, Split
  <2>2. CASE Len(buff) >= HdrSize(s)
    BY <2>1, <2>2, LengthOfHeader
  <2> QED
    BY <1>0, <2>2
<1>4. rx_buff' = got
  BY DEF Receive
<1>5. /\ HeaderReceived(s, got, len, rest) \/ BodyReceived(s, got, len, rest)
         \/ PartReceived(s, got, len, rest)
  BY DEF Receive
<1> HIDE DEF btr, got, rest
<1>6. len = 0 => Len(got) \in 1..HdrSize(s)
  BY <1>0, <1>1, <1>2 DEF Wanted, Partial
<1>7. Partial(s, got, len)
  <2>1. CASE len = 0
    BY <1>0, <1>6, <2>1 DEF Partial
  <2>2. CASE len # 0
    <3>1. /\ HdrSize(s) <= Len(buff) /\ Len(buff) <= len
          /\ len = GetLen(s, buff)
      BY <2>2 DEF Partial
    <3>2. GetLen(s, got) = len
      BY <1>0, <1>3, <3>1
    <3>3. HdrSize(s) <= Len(got) /\ Len(got) <= len
      BY <1>0, <1>1, <1>2, <2>2, <3>1 DEF Wanted
    <3> QED
      BY <2>2, <3>2, <3>3 DEF Partial
  <2> QED
    BY <2>1, <2>2
<1>8. Len(got) <= RxBuff
  <2>1. CASE len = 0
    BY <1>0, <1>2, <1>7, <2>1, HeaderFits, RxBuffAssumption DEF Partial
  <2>2. CASE len # 0
    <3>1. HdrSize(s) <= Len(got) /\ Len(got) <= len /\ len = GetLen(s, got)
      BY <1>7, <2>2 DEF Partial
    <3>2. GetLen(s, got) \in {-1} \cup HdrSize(s)..RxBuff
      BY <1>2, <3>1, LengthFits
    <3>3. Len(got) \in Nat
      BY <1>2
    <3> QED
      BY <1>0, <3>1, <3>2, <3>3, RxBuffAssumption
  <2> QED
    BY <2>1, <2>2
<1>9. ASSUME NEW r \in Seq(Byte), Remain(r)
      PROVE  /\ tty_rx_buf' \in Seq(Byte)
             /\ rx_pc' \in {"select", "proc"}
             /\ rx_pc' = "proc" => tty_rx_buf' # <<>>
  BY <1>9 DEF Remain
<1>10. CASE HeaderReceived(s, got, len, rest)
  <2>1. \E r \in Seq(Byte) : Remain(r)
    BY <1>2, <1>10, EmptySeq DEF HeaderReceived
  <2>2. stream_len' \in Nat /\ Partial(s, got, stream_len')
    <3>1. CASE GetLen(s, got) > 0
      <4>1. Len(got) = HdrSize(s) /\ stream_len' = GetLen(s, got)
        BY <1>10, <3>1 DEF HeaderReceived
      <4>2. stream_len' \in HdrSize(s)..RxBuff
        <5>1. GetLen(s, got) \in {-1} \cup HdrSize(s)..RxBuff
          BY <1>0, <1>2, <4>1, LengthFits
        <5> QED
          BY <3>1, <4>1, <5>1
      <4> QED
        BY <1>0, <4>1, <4>2, RxBuffAssumption DEF Partial
    <3>2. CASE ~(GetLen(s, got) > 0)
      BY <1>7, <1>10, <3>2 DEF HeaderReceived
    <3> QED
      BY <3>1, <3>2
  <2>3. curr_stream' = s /\ handled' = handled
    BY <1>10 DEF HeaderReceived
  <2> QED
    BY <1>2, <1>4, <1>8, <1>9, <2>1, <2>2, <2>3
       DEF FrameInv, TypeOK, WholeMessages
<1>11. CASE BodyReceived(s, got, len, rest)
  <2>1. Len(got) = len /\ len = GetLen(s, got)
    BY <1>6, <1>7, <1>11 DEF BodyReceived, Partial
  <2>2. /\ stream_len' = len
        /\ handled' = Append(handled, [stream |-> s, bytes |-> got])
        /\ curr_stream' \in {s, NULL}
    BY <1>11 DEF BodyReceived
  <2>3. /\ tty_rx_buf' \in Seq(Byte)
        /\ rx_pc' \in {"select", "proc", "hung"}
        /\ rx_pc' = "proc" => tty_rx_buf' # <<>>
    BY <1>2, <1>9, <1>11 DEF BodyReceived
  <2>4. handled' \in Seq([stream : Streams, bytes : Seq(Byte)])
    BY <1>2, <2>2 DEF FrameInv, TypeOK
  <2>5. WholeMessages'
    <3>1. \A i \in 1..Len(handled') :
              handled'[i] = IF i <= Len(handled) THEN handled[i]
                            ELSE [stream |-> s, bytes |-> got]
      <4>1. /\ handled \in Seq([stream : Streams, bytes : Seq(Byte)])
            /\ [stream |-> s, bytes |-> got] \in [stream : Streams, bytes : Seq(Byte)]
        BY <1>2 DEF FrameInv, TypeOK
      <4> QED
        BY <2>2, <4>1
    <3>2. Len(handled') = Len(handled) + 1 /\ Len(handled) \in Nat
      BY <2>2 DEF FrameInv, TypeOK
    <3> QED
      BY <2>1, <3>1, <3>2 DEF FrameInv, WholeMessages
  <2> QED
    BY <1>2, <1>4, <1>7, <1>8, <2>2, <2>3, <2>4, <2>5 DEF FrameInv, TypeOK
<1>12. CASE PartReceived(s, got, len, rest)
  BY <1>2, <1>4, <1>7, <1>8, <1>9, <1>12
     DEF PartReceived, FrameInv, TypeOK, WholeMessages
<1> QED
  BY <1>5, <1>10, <1>11, <1>12

\* reedl_ictrl_serial_init() establishes the invariant.
LEMMA FrameInit == Init => FrameInv
BY RxBuffAssumption, BoundAssumption DEF Init, FrameInv, TypeOK, WholeMessages

\* Every step of the microcontroller, the line and the receiver keeps it.
LEMMA FrameStep == FrameInv /\ [Next]_vars => FrameInv'
<1> SUFFICES ASSUME FrameInv, [Next]_vars PROVE FrameInv'
  OBVIOUS
<1> USE DEF rxVars
<1>1. ASSUME NEW m \in Message, DevSend(m)
      PROVE  FrameInv'
  <2>1. OnLine(m) \in Seq(Byte)
    BY MessageAssumption, ByteAssumption, ConcatProperties DEF OnLine
  <2>2. line' \in Seq(Byte) /\ sent' \in Seq(Message)
    BY <1>1, <2>1, ConcatProperties DEF DevSend, FrameInv, TypeOK
  <2> QED
    BY <1>1, <2>2 DEF DevSend, FrameInv, TypeOK, WholeMessages
<1>2. CASE LineLosesByte
  <2>1. line' \in Seq(Byte)
    BY <1>2, HeadTailProperties DEF LineLosesByte, FrameInv, TypeOK
  <2> QED
    BY <1>2, <2>1, BoundAssumption
       DEF LineLosesByte, FrameInv, TypeOK, WholeMessages
<1>3. ASSUME NEW b \in Byte, LineDamagesByte(b)
      PROVE  FrameInv'
  <2>1. Tail(line) \in Seq(Byte)
    BY <1>3, HeadTailProperties DEF LineDamagesByte, FrameInv, TypeOK
  <2>2. line' \in Seq(Byte)
    BY <1>3, <2>1, ConcatProperties DEF LineDamagesByte
  <2> QED
    BY <1>3, <2>2, BoundAssumption
       DEF LineDamagesByte, FrameInv, TypeOK, WholeMessages
<1>4. CASE ReadTty
  <2>1. PICK n \in 1..TtyRxBuf : /\ n <= Len(line)
                                 /\ tty_rx_buf' = SubSeq(line, 1, n)
                                 /\ line' = SubSeq(line, n + 1, Len(line))
    BY <1>4 DEF ReadTty
  <2>2. line \in Seq(Byte) /\ n \in 0..Len(line) /\ n # 0
    BY <2>1, BoundAssumption DEF FrameInv, TypeOK
  <2>3. /\ tty_rx_buf' \in Seq(Byte) /\ Len(tty_rx_buf') = n
        /\ line' \in Seq(Byte)
    BY <2>1, <2>2, Split
  <2> QED
    <3>1. tty_rx_buf' # <<>>
      BY <2>2, <2>3, EmptySeq
    <3> QED
      BY <1>4, <2>3, <3>1 DEF ReadTty, FrameInv, TypeOK, WholeMessages
<1>5. CASE BadStream
  BY <1>5 DEF BadStream, Remain, FrameInv, TypeOK, WholeMessages
<1>6. CASE StartStream
  <2>1. /\ tty_rx_buf \in Seq(Byte) /\ tty_rx_buf # <<>>
        /\ Head(tty_rx_buf) \in Streams
    BY <1>6 DEF StartStream, FrameInv, TypeOK
  <2>2. CASE Len(tty_rx_buf) = 1
    BY <1>6, <2>1, <2>2, HeaderFits, RxBuffAssumption
       DEF StartStream, Remain, FrameInv, TypeOK, WholeMessages, Partial
  <2>3. CASE Len(tty_rx_buf) # 1
    <3>1. Tail(tty_rx_buf) \in Seq(Byte) /\ Tail(tty_rx_buf) # <<>>
      <4>1. Len(Tail(tty_rx_buf)) = Len(tty_rx_buf) - 1
        BY <2>1, HeadTailProperties
      <4> QED
        BY <2>1, <2>3, <4>1, HeadTailProperties, EmptySeq
    <3>2. Partial(Head(tty_rx_buf), <<>>, 0)
      BY <2>1, HeaderFits DEF Partial
    <3>3. Receive(Head(tty_rx_buf), <<>>, 0, Tail(tty_rx_buf))
      BY <1>6, <2>3 DEF StartStream
    <3>4. UNCHANGED <<line, sent, noise>>
      BY <1>6 DEF StartStream
    <3>5. <<>> \in Seq(Byte) /\ 0 \in Nat
      BY EmptySeq
    <3> QED
      BY <2>1, <3>1, <3>2, <3>3, <3>4, <3>5, ReceiveKeeps
  <2> QED
    BY <2>2, <2>3
<1>7. CASE ContinueStream
  BY <1>7, ReceiveKeeps DEF ContinueStream, FrameInv, TypeOK
<1>8. CASE UNCHANGED vars
  BY <1>8 DEF vars, FrameInv, TypeOK, WholeMessages
<1> QED
  BY <1>1, <1>2, <1>3, <1>4, <1>5, <1>6, <1>7, <1>8
     DEF Next, DevStep, LineStep, RxStep, RxProcCont

-----------------------------------------------------------------------------
\* The inductive invariant of the receiver, with any noise on the line.
THEOREM FrameInvariant == Spec => []FrameInv
<1> QED
  BY FrameInit, FrameStep, PTL DEF Spec

\* Whatever the line does, every variable of the receiver keeps its type; above
\* all, the length of a stream never becomes that of a header get_len() refused.
THEOREM TypeCorrect == Spec => []TypeOK
<1>1. FrameInv => TypeOK
  BY DEF FrameInv
<1> QED
  BY <1>1, FrameInvariant, PTL

\* Whatever the line does, on_rx() is called with as many bytes as the header of
\* the message says.
THEOREM OnlyWholeMessages == Spec => []WholeMessages
<1>1. FrameInv => WholeMessages
  BY DEF FrameInv
<1> QED
  BY <1>1, FrameInvariant, PTL

\* Whatever the line does, the memcpy() of ictrl_serial_rx_proc_cont() stays
\* within rx_buff and its length never becomes negative.
THEOREM NoOverrun == Spec => []BufferBound
<1>1. FrameInv => BufferBound
  BY HeaderFits DEF FrameInv, TypeOK, BufferBound, Partial, Wanted
<1> QED
  BY <1>1, FrameInvariant, PTL

=============================================================================

------------------------------ MODULE SerialRx ------------------------------
(***************************************************************************)
(* The receiver thread of reedl-ictrl.c: it reads the tty in chunks cut at *)
(* arbitrary places and takes them apart into the messages of the three    *)
(* multiplexed streams (debug log, command response, IMU dump).            *)
(*                                                                         *)
(* On the line a message is its stream number, then a header whose first   *)
(* byte is a mark and whose last byte is the size of the payload, then the *)
(* payload.  A message here is what the handler finds in rx_buff: header   *)
(* and payload.  Of the per-stream buffers only the current stream's is    *)
(* live, for the fields of a stream are reset when it becomes current.     *)
(***************************************************************************)
EXTENDS Integers, Sequences

CONSTANTS
    Byte,               \* the byte values on the line
    MarkLog,            \* marks of a debug log message
    MarkRsp,            \* the mark of a command response
    TypeImu,            \* the type of an IMU dump
    Message,            \* the messages the microcontroller sends
    TtyRxBuf,           \* the size of tty_rx_buf
    RxBuff,             \* the size of a stream's rx_buff
    MaxMessages,        \* bound: messages sent in one behaviour
    MaxNoise            \* bound: bytes lost or damaged in one behaviour

DBGL == 0
CRSP == 1
IMUD == 2
Streams == {DBGL, CRSP, IMUD}
NULL == -1

ASSUME ByteAssumption == Byte \subseteq Nat /\ Streams \subseteq Byte
ASSUME MessageAssumption == Message \subseteq [stream : Streams, bytes : Seq(Byte)]
\* sizeof(rx_buff) is 1024, and size is a uint8_t (reedl-ictrl.h:16-20, 51).
ASSUME RxBuffAssumption == RxBuff \in Nat /\ \A b \in Byte : b + 3 <= RxBuff
ASSUME BoundAssumption == TtyRxBuf \in Nat \ {0} /\ MaxNoise \in Nat

VARIABLES
    line,               \* bytes sent and not yet read from the tty
    rx_pc,              \* the thread: in select(), in rx_proc(), or hung
    tty_rx_buf,         \* the part of the last read still to be processed
    curr_stream,        \* the stream being received, or NULL
    rx_buff,            \* its rx_buff, up to wr_idx
    stream_len,         \* its length, 0 until the header is complete
    handled,            \* history: what on_rx() was called with
    sent,               \* history: what was sent
    noise               \* history: bytes lost or damaged

rxVars == <<rx_pc, tty_rx_buf, curr_stream, rx_buff, stream_len, handled>>
vars == <<line, rxVars, sent, noise>>

TypeOK ==
    /\ line \in Seq(Byte)
    /\ rx_pc \in {"select", "proc", "hung"}
    /\ tty_rx_buf \in Seq(Byte)
    /\ curr_stream \in Streams \cup {NULL}
    /\ rx_buff \in Seq(Byte)
    /\ stream_len \in Nat
    /\ handled \in Seq([stream : Streams, bytes : Seq(Byte)])
    /\ sent \in Seq(Message)
    /\ noise \in 0..MaxNoise

-----------------------------------------------------------------------------
(* The microcontroller and the line. *)

OnLine(m) == <<m.stream>> \o m.bytes

DevSend(m) ==
    /\ Len(sent) < MaxMessages
    /\ sent' = Append(sent, m)
    /\ line' = line \o OnLine(m)
    /\ UNCHANGED <<rxVars, noise>>

LineLosesByte ==
    /\ line # <<>>
    /\ noise < MaxNoise
    /\ line' = Tail(line)
    /\ noise' = noise + 1
    /\ UNCHANGED <<rxVars, sent>>

LineDamagesByte(b) ==
    /\ line # <<>>
    /\ b # Head(line)
    /\ noise < MaxNoise
    /\ line' = <<b>> \o Tail(line)
    /\ noise' = noise + 1
    /\ UNCHANGED <<rxVars, sent>>

-----------------------------------------------------------------------------
(* The receiver. *)

HdrSize(s) == IF s = CRSP THEN 3 ELSE 2

\* get_len(): only the debug log's looks at the mark.
GetLen(s, b) == IF s = DBGL /\ b[1] \notin MarkLog THEN -1
                ELSE b[HdrSize(s)] + HdrSize(s)

\* on_rx() of a command response or an IMU dump never returns on a wrong mark.
Hangs(s, b) == \/ s = CRSP /\ b[1] # MarkRsp
               \/ s = IMUD /\ b[1] # TypeImu

\* select() and read() of reedl_ictrl_serial_check_fds().
ReadTty ==
    /\ rx_pc = "select"
    /\ \E n \in 1..TtyRxBuf :
          /\ n <= Len(line)
          /\ tty_rx_buf' = SubSeq(line, 1, n)
          /\ line' = SubSeq(line, n + 1, Len(line))
    /\ rx_pc' = "proc"
    /\ UNCHANGED <<curr_stream, rx_buff, stream_len, handled, sent, noise>>

\* rx_proc() leaves its loop when the chunk is used up.
Remain(rest) == /\ tty_rx_buf' = rest
                /\ rx_pc' = IF rest = <<>> THEN "select" ELSE "proc"

\* Unknown stream number: the rest of the chunk is dropped.
BadStream ==
    /\ rx_pc = "proc"
    /\ curr_stream = NULL
    /\ Head(tty_rx_buf) \notin Streams
    /\ Remain(<<>>)
    /\ UNCHANGED <<line, curr_stream, rx_buff, stream_len, handled, sent, noise>>

Smaller(a, b) == IF a < b THEN a ELSE b

\* Bytes wanted next: the rest of the header, then the rest of the message.
Wanted(s, buff, len) == (IF len = 0 THEN HdrSize(s) ELSE len) - Len(buff)

\* Mutant of HeaderReceived: the result of get_len() is not looked at.
HeaderUnchecked(s, buff, len, rest) ==
    /\ Len(buff) = HdrSize(s)
    /\ curr_stream' = s
    /\ stream_len' = GetLen(s, buff)
    /\ Remain(rest)
    /\ UNCHANGED handled

\* Mutant of HeaderReceived: what follows the header in the chunk is dropped.
HeaderAlone(s, buff, len, rest) ==
    /\ Len(buff) = HdrSize(s)
    /\ curr_stream' = s
    /\ stream_len' = IF GetLen(s, buff) > 0 THEN GetLen(s, buff) ELSE len
    /\ Remain(<<>>)
    /\ UNCHANGED handled

\* The header is complete: its length, or the rest of the chunk is dropped.
HeaderReceived(s, buff, len, rest) ==
    /\ Len(buff) = HdrSize(s)
    /\ curr_stream' = s
    /\ IF GetLen(s, buff) > 0
       THEN stream_len' = GetLen(s, buff) /\ Remain(rest)
       ELSE stream_len' = len /\ Remain(<<>>)
    /\ UNCHANGED handled

\* Mutant of BodyReceived: the first bytes of the payload complete the message.
BodyTooSoon(s, buff, len, rest) ==
    /\ Len(buff) # HdrSize(s)
    /\ len # 0
    /\ handled' = Append(handled, [stream |-> s, bytes |-> buff])
    /\ stream_len' = len
    /\ IF Hangs(s, buff)
       THEN rx_pc' = "hung" /\ curr_stream' = s /\ tty_rx_buf' = rest
       ELSE curr_stream' = NULL /\ Remain(rest)

\* The message is complete: its handler is called.
BodyReceived(s, buff, len, rest) ==
    /\ Len(buff) # HdrSize(s)
    /\ Len(buff) = len
    /\ handled' = Append(handled, [stream |-> s, bytes |-> buff])
    /\ stream_len' = len
    /\ IF Hangs(s, buff)
       THEN rx_pc' = "hung" /\ curr_stream' = s /\ tty_rx_buf' = rest
       ELSE curr_stream' = NULL /\ Remain(rest)

\* Bytes are missing: the chunk is used up.
PartReceived(s, buff, len, rest) ==
    /\ Len(buff) \notin {HdrSize(s), len}
    /\ curr_stream' = s
    /\ stream_len' = len
    /\ Remain(rest)
    /\ UNCHANGED handled

\* Mutant of Receive: the whole chunk is taken for this stream.
ReceiveAll(s, buff, len, bytes) ==
    LET got == buff \o bytes
    IN /\ rx_buff' = got
       /\ \/ HeaderReceived(s, got, len, <<>>)
          \/ BodyReceived(s, got, len, <<>>)
          \/ PartReceived(s, got, len, <<>>)

\* One pass of ictrl_serial_rx_proc_cont() over bytes of stream s.
Receive(s, buff, len, bytes) ==
    LET btr == Smaller(Wanted(s, buff, len), Len(bytes))
        got == buff \o SubSeq(bytes, 1, btr)
        rest == SubSeq(bytes, btr + 1, Len(bytes))
    IN /\ rx_buff' = got
       /\ \/ HeaderReceived(s, got, len, rest)
          \/ BodyReceived(s, got, len, rest)
          \/ PartReceived(s, got, len, rest)

\* Mutant of StartStream: the length of the message before is not reset.
StartWithoutReset ==
    /\ rx_pc = "proc"
    /\ curr_stream = NULL
    /\ Head(tty_rx_buf) \in Streams
    /\ IF Len(tty_rx_buf) = 1
       THEN /\ curr_stream' = Head(tty_rx_buf)
            /\ rx_buff' = <<>>
            /\ Remain(<<>>)
            /\ UNCHANGED <<stream_len, handled>>
       ELSE Receive(Head(tty_rx_buf), <<>>, stream_len, Tail(tty_rx_buf))
    /\ UNCHANGED <<line, sent, noise>>

\* The first byte of a message names its stream; what follows it in the chunk
\* is received in the same pass.
StartStream ==
    /\ rx_pc = "proc"
    /\ curr_stream = NULL
    /\ Head(tty_rx_buf) \in Streams
    /\ IF Len(tty_rx_buf) = 1
       THEN /\ curr_stream' = Head(tty_rx_buf)
            /\ rx_buff' = <<>>
            /\ stream_len' = 0
            /\ Remain(<<>>)
            /\ UNCHANGED handled
       ELSE Receive(Head(tty_rx_buf), <<>>, 0, Tail(tty_rx_buf))
    /\ UNCHANGED <<line, sent, noise>>

ContinueStream ==
    /\ rx_pc = "proc"
    /\ curr_stream # NULL
    /\ Receive(curr_stream, rx_buff, stream_len, tty_rx_buf)
    /\ UNCHANGED <<line, sent, noise>>

RxProcCont == BadStream \/ StartStream \/ ContinueStream

-----------------------------------------------------------------------------
Init ==
    /\ line = <<>>
    /\ rx_pc = "select"
    /\ tty_rx_buf = <<>>
    /\ curr_stream = NULL
    /\ rx_buff = <<>>
    /\ stream_len = 0
    /\ handled = <<>>
    /\ sent = <<>>
    /\ noise = 0

DevStep == \E m \in Message : DevSend(m)

LineStep == LineLosesByte \/ \E b \in Byte : LineDamagesByte(b)

RxStep == ReadTty \/ RxProcCont

Next == DevStep \/ LineStep \/ RxStep

Spec == Init /\ [][Next]_vars

\* The receiver thread is scheduled.
FairSpec == Spec /\ WF_vars(RxStep)

-----------------------------------------------------------------------------
(* Properties. *)

\* Without noise the handlers get the messages sent, whole, in order and each
\* once, however the reads cut the stream and whatever the payloads contain
\* (ictrl_serial_rx_proc_cont()).
Undelivered == SubSeq(sent, Len(handled) + 1, Len(sent))

Channel == INSTANCE FrameChannel
               WITH inTransit <- Undelivered, delivered <- handled

ImplementsChannel == Channel!Spec

\* Without noise every message sent is handled sooner or later: no cut of the
\* stream makes the receiver drop bytes or wait for bytes that never come
\* (rx_proc()).
EveryMessageHandled ==
    \A n \in 1..MaxMessages : Len(sent) >= n ~> Len(handled) >= n

\* Whatever arrives, a handler is called with exactly the bytes its header
\* announces (ictrl_serial_rx_proc_cont() calls on_rx() on a whole message).
WholeMessages ==
    \A i \in 1..Len(handled) :
        LET m == handled[i] IN Len(m.bytes) = GetLen(m.stream, m.bytes)

\* Whatever arrives, a message never outgrows rx_buff, and the bytes wanted
\* next never become negative (btr is the length of a memcpy()).
BufferBound ==
    /\ Len(rx_buff) <= RxBuff
    /\ curr_stream # NULL => Wanted(curr_stream, rx_buff, stream_len) >= 0

\* The receiver always comes back to select(): no message keeps it busy for
\* ever (reedl-ictrl.c:294: a message of zero length is "broken", and the rest
\* of the chunk is dropped).
ReturnsToSelect == rx_pc = "proc" ~> rx_pc # "proc"

=============================================================================

---------------------------- MODULE FrameChannel ----------------------------
(***************************************************************************)
(* What the serial receiver offers the message handlers: the messages the  *)
(* microcontroller sends reach them whole, in order and each exactly once, *)
(* however the tty cuts the byte stream into reads.                        *)
(***************************************************************************)
EXTENDS Naturals, Sequences

CONSTANTS
    Message,            \* what can be sent
    MaxMessages         \* bound: messages sent in one behaviour

VARIABLES
    inTransit,          \* sent and not yet delivered
    delivered           \* what the handlers were called with

vars == <<inTransit, delivered>>

Init == inTransit = <<>> /\ delivered = <<>>

Send(m) == /\ Len(inTransit) + Len(delivered) < MaxMessages
           /\ inTransit' = Append(inTransit, m)
           /\ UNCHANGED delivered

Deliver == /\ inTransit # <<>>
           /\ inTransit' = Tail(inTransit)
           /\ delivered' = Append(delivered, Head(inTransit))

Next == Deliver \/ \E m \in Message : Send(m)

Spec == Init /\ [][Next]_vars
=============================================================================

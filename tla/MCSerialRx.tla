----------------------------- MODULE MCSerialRx -----------------------------
(***************************************************************************)
(* Small instances of SerialRx.  Payload bytes are chosen to look like     *)
(* stream numbers (0, 1), so that a receiver which lost its place would    *)
(* take payload for a message.                                             *)
(***************************************************************************)
EXTENDS SerialRx

CONSTANTS Sizes, Fills

MCByte == 0..6
MCMarkLog == {4}
MCMarkRsp == 5
MCTypeImu == 6

Mark(s) == CASE s = DBGL -> 4 [] s = CRSP -> 5 [] s = IMUD -> 6

Header(s, size) == IF s = CRSP THEN <<Mark(s), 0, size>> ELSE <<Mark(s), size>>

MCMessage ==
    {[stream |-> s, bytes |-> Header(s, n) \o [i \in 1..n |-> f]] :
        s \in Streams, n \in Sizes, f \in Fills}
=============================================================================

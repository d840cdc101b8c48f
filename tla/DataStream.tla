----------------------------- MODULE DataStream -----------------------------
(***************************************************************************)
(* What the data file promises to the transfers: streams of bytes, read in *)
(* rows of any length and in any order of the streams, each going on where *)
(* it was left, until all of them are taken back to their start.           *)
(***************************************************************************)
EXTENDS Integers, Sequences

CONSTANT Lengths       \* how long a row can be, in bytes

VARIABLES
    contents,   \* the bytes of each stream; none if there is no such stream
    endless,    \* does a stream start again behind its last byte?
    cursor,     \* how many bytes of each stream are taken
    row         \* the row just taken; empty when none was

vars == <<contents, endless, cursor, row>>

Streams == DOMAIN contents

Init ==
    /\ cursor = [s \in Streams |-> 0]
    /\ row = <<>>

Row(s, n) == [i \in 1..n |-> contents[s][1 + ((cursor[s] + i - 1) % Len(contents[s]))]]

\* The next n bytes of a stream.
Take(s, n) ==
    /\ contents[s] # <<>>
    /\ endless \/ cursor[s] + n <= Len(contents[s])
    /\ row' = Row(s, n)
    /\ cursor' = [cursor EXCEPT ![s] = IF endless THEN (@ + n) % Len(contents[s]) ELSE @ + n]
    /\ UNCHANGED <<contents, endless>>

\* There are not so many: what is left is lost.
Exhaust(s, n) ==
    /\ ~endless /\ cursor[s] + n > Len(contents[s])
    /\ row' = <<>>
    /\ cursor' = [cursor EXCEPT ![s] = Len(contents[s])]
    /\ UNCHANGED <<contents, endless>>

\* There is no such stream.
Refuse(s) ==
    /\ contents[s] = <<>>
    /\ row' = <<>>
    /\ UNCHANGED <<contents, endless, cursor>>

Rewind ==
    /\ cursor' = [s \in Streams |-> 0]
    /\ row' = <<>>
    /\ UNCHANGED <<contents, endless>>

\* The program is doing something else.
Pause ==
    /\ row' = <<>>
    /\ UNCHANGED <<contents, endless, cursor>>

Next ==
    \/ \E s \in Streams, n \in Lengths : Take(s, n) \/ Exhaust(s, n)
    \/ \E s \in Streams : Refuse(s)
    \/ Rewind \/ Pause

Spec == Init /\ [][Next]_vars
=============================================================================

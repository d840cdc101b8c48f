------------------------------ MODULE MCSession ------------------------------
(***************************************************************************)
(* Algorithm files for Session: headers in front of the programs of        *)
(* MCAlgoEngine, whole, damaged and broken off.                            *)
(***************************************************************************)
EXTENDS MCAlgoEngine, Session

Total(bytes) == FoldLeft(+, 0, bytes)

\* A header up to its checksum.
Fields(comments, compression, stackReq) ==
    comments \o <<ALGOID, 1, 2, 3, 4, VERSION, 4, 0, 0, BUFFERREQ, 4, STACKREQ, stackReq,
                  MASKBUFREQ, 1, HCHANNEL, 0, compression, 0>>

Sealed(fields) == fields \o <<HEADERCRC, (Total(fields) \div 256) % 256, Total(fields) % 256,
                              STARTOFALGO>>
Unsealed(fields) == fields \o <<HEADERCRC, 255, 255, STARTOFALGO>>

Plain == Fields(<<>>, COMPRESSION, 3)
Commented == Fields(<<HCOMMENT, 9, HENDCOMMENT, HCOMMENT, HENDCOMMENT>>, HCOMMENT, 0)

Tiny == Program(<<S("trst")>>)

\* Five loops in one another: more than a file may have.
Deep == Program(<<Block("loop", 1, <<Block("loop", 1, <<Block("loop", 1, <<Block("loop", 1,
            <<Block("loop", 1, <<S("clk")>>)>>)>>)>>)>>)>>)

Sound == {Sealed(Plain) \o a : a \in EngineAlgorithms}
            \cup {Sealed(Commented) \o Tiny, Unsealed(Commented) \o Tiny}

\* One byte of the header is another.
DamagedAt(i, whole) ==
    {[whole EXCEPT ![i] = b] :
        b \in {0, HCOMMENT, HENDCOMMENT, 255, (whole[i] + 1) % 256} \ {whole[i]}}

Damaged ==
    UNION {UNION {DamagedAt(i, Sealed(h) \o Tiny) : i \in 1..Len(Sealed(h))}
           : h \in {Plain, Commented}}

\* A byte of the checksum that was damaged to 0xFF is not compared.
Unchecked ==
    {[(Sealed(h) \o Tiny) EXCEPT ![Len(Sealed(h)) - i] = 255]
        : i \in {1, 2}, h \in {Plain, Commented}}

BrokenOff == Prefixes(Sealed(Commented)) \ {Sealed(Commented)}

\* A newer version, and a program deeper than the interpreter's stack.
Refused == {Sealed([Plain EXCEPT ![7] = 5]) \o Tiny, Sealed(Fields(<<>>, COMPRESSION, 4)) \o Deep}

MCImages == Sound \cup Damaged \cup Unchecked \cup BrokenOff \cup Refused

SessionAlgorithms == EngineAlgorithms \cup {<<>>, Tiny}

\* The algorithm is run from the byte behind STARTOFALGO if the header is sound,
\* and not at all if a byte of it is damaged, it breaks off or asks for too much;
\* and a sound header is not the reason that a run ends (core.c:115-368).
HeaderGate ==
    /\ mode # "idle" => image \in Sound \cup Unchecked
    /\ phase = "exit" /\ image \in Sound =>
          code \notin {ERROR_INIT_VERSION, ERROR_INIT_CHECKSUM}
              /\ (code = ERROR_INIT => signatures # <<"ok", "ok">>)
=============================================================================

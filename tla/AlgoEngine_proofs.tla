------------------------- MODULE AlgoEngine_proofs -------------------------
(***************************************************************************)
(* What holds of the interpreter for every algorithm file, well formed or  *)
(* not.                                                                    *)
(***************************************************************************)
EXTENDS AlgoEngine, WellFoundedInduction, TLAPS

-----------------------------------------------------------------------------
(* Induction: every set of naturals has a least element. *)

\* No set of naturals descends for ever.
LEMMA LeastElement ==
    ASSUME NEW S \in SUBSET Nat, S # {}
    PROVE  \E m \in S : \A k \in S : m <= k
<1> DEFINE R == {ss \in Nat \X Nat : ss[1] < ss[2]}
<1>1. IsWellFoundedOn(R, Nat)
  BY NatLessThanWellFounded DEF OpToRel
<1>2. PICK m \in S : \A k \in S : <<k, m>> \notin R
  <2> HIDE DEF R
  <2> QED
    BY <1>1, WFMin
<1>3. \A k \in S : ~(k < m)
  BY <1>2
<1> QED
  BY <1>3

\* What a recursion over the naturals makes of the value before.
Step(F, c, k, g) == IF k = 0 THEN c ELSE F[k][g[k - 1]]

\* A function may be defined by recursion over 0..n.
LEMMA NatRecursion ==
    ASSUME NEW c \in Nat, NEW n \in Nat, NEW F \in [0..n -> [Nat -> Nat]]
    PROVE  \E g \in [0..n -> Nat] : \A k \in 0..n : g[k] = Step(F, c, k, g)
<1> DEFINE T == Nat
<1>5. c \in T /\ F \in [0..n -> [T -> T]]
  OBVIOUS
<1> HIDE DEF T
<1> DEFINE Good(m) == \E g \in [0..m -> T] : \A k \in 0..m : g[k] = Step(F, c, k, g)
           Bad == {m \in 0..n : ~Good(m)}
<1>1. SUFFICES ASSUME Bad # {} PROVE FALSE
  <2>1. n \in 0..n
    OBVIOUS
  <2>2. Good(n) => \E g \in [0..n -> Nat] : \A k \in 0..n : g[k] = Step(F, c, k, g)
    BY DEF T
  <2> HIDE DEF Good
  <2> QED
    BY <2>1, <2>2
<1>2. PICK m \in Bad : \A k \in Bad : m <= k
  <2>1. Bad \in SUBSET Nat
    OBVIOUS
  <2> HIDE DEF Bad
  <2> QED
    BY <1>1, <2>1, LeastElement
<1>3. CASE m = 0
  <2> DEFINE g == [k \in 0..0 |-> c]
  <2>1. g \in [0..0 -> T] /\ \A k \in 0..0 : g[k] = Step(F, c, k, g)
    BY <1>5 DEF Step
  <2> QED
    BY <1>2, <1>3, <2>1
<1>4. CASE m # 0
  <2>1. m - 1 \in 0..n /\ m - 1 \notin Bad /\ m \in 0..n
    <3>1. m \in 0..n
      BY <1>2
    <3>2. m - 1 \in 0..n /\ ~(m <= m - 1)
      BY <1>4, <3>1
    <3> HIDE DEF Bad
    <3> QED
      BY <1>2, <3>1, <3>2
  <2>2. PICK h \in [0..(m - 1) -> T] : \A k \in 0..(m - 1) : h[k] = Step(F, c, k, h)
    BY <2>1
  <2> DEFINE g == [k \in 0..m |-> IF k = m THEN F[m][h[m - 1]] ELSE h[k]]
  <2>5. m \in Nat /\ m - 1 \in 0..(m - 1) /\ ~(m - 1 = m) /\ m - 1 \in 0..m /\ m \in 0..n
    BY <1>4, <2>1
  <2>6. F[m][h[m - 1]] \in T
    <3>1. h[m - 1] \in T
      BY <2>2, <2>5
    <3>2. F[m] \in [T -> T]
      BY <1>5, <2>5
    <3> QED
      BY <3>1, <3>2
  <2>7. \A k \in 0..m : k # m => k \in 0..(m - 1)
    BY <2>5
  <2>3. g \in [0..m -> T]
    BY <2>2, <2>6, <2>7
  <2>4. ASSUME NEW k \in 0..m PROVE g[k] = Step(F, c, k, g)
    <3>1. CASE k = m
      <4>1. g[k] = F[m][h[m - 1]] /\ g[k - 1] = h[m - 1]
        BY <2>5, <3>1
      <4>2. g[m] = F[m][g[m - 1]]
        BY <3>1, <4>1
      <4> HIDE DEF g
      <4> QED
        BY <1>4, <3>1, <4>2 DEF Step
    <3>2. CASE k # m
      <4>1. k \in 0..(m - 1) /\ (k # 0 => k - 1 \in 0..m /\ k - 1 # m)
        BY <2>5, <2>7, <3>2
      <4>2. g[k] = h[k] /\ (k # 0 => g[k - 1] = h[k - 1]) /\ h[k] = Step(F, c, k, h)
        BY <2>2, <3>2, <4>1
      <4> HIDE DEF g
      <4> QED
        BY <4>2 DEF Step
    <3> QED
      BY <3>1, <3>2
  <2> QED
    BY <1>2, <2>3, <2>4
<1> QED
  BY <1>3, <1>4

-----------------------------------------------------------------------------
(* Reading the algorithm. *)

\* The values of a byte.
Byte == 0..255

\* The algorithm and the buffer are bytes.
BytesOK == algo \in Seq(Byte) /\ algoBuffer \in [0..MAXBUF -> Byte]

\* A read gives a byte, at the end of the file and behind a body too.
LEMMA ByteRead ==
    ASSUME BytesOK, NEW src \in Source, NEW i \in Nat, NEW old \in Byte
    PROVE  ByteAt(src, i, old) \in Byte
<1>1. src.base + i \in Nat /\ 0 \in Byte /\ 255 \in Byte
  BY DEF Source, Byte
<1>2. FileByte(src.base + i, old) \in Byte
  BY <1>1 DEF BytesOK, FileByte
<1>3. Mem(src.base + i) \in Byte
  BY <1>1 DEF BytesOK, Mem
<1> QED
  BY <1>2, <1>3 DEF ByteAt

\* A comment ends behind where it began, or does not end.
LEMMA CommentRead ==
    ASSUME BytesOK, NEW src \in Source, NEW i \in Nat
    PROVE  CommentEnd(src, i) \in Nat \cup {Endless}
BY DEF CommentEnd, FirstFrom, Existing, Source, Endless, PROC_FAIL, BytesOK

\* The equation of NumberValue's recursion.
ValueEq(src, i, j, v) ==
    v = [k \in i..j |-> IF k = j THEN ByteAt(src, k, 0)
                        ELSE ByteAt(src, k, 0) - 128 + 128 * v[k + 1]]

\* It has a solution, when all the bytes but the last have the upper bit set.
LEMMA ValueExists ==
    ASSUME BytesOK, NEW src \in Source, NEW i \in Nat, NEW j \in Nat, i <= j,
           \A k \in i..(j - 1) : ~(ByteAt(src, k, 0) < 128)
    PROVE  \E v : ValueEq(src, i, j, v)
<1> DEFINE n == j - i
           F == [m \in 0..n |-> [x \in Nat |-> IF m = 0 THEN 0
                                              ELSE ByteAt(src, j - m, 0) - 128 + 128 * x]]
           c == ByteAt(src, j, 0)
<1>1. n \in Nat /\ 0 \in Byte
  BY DEF Byte
<1>2. ASSUME NEW k \in i..j
      PROVE  ByteAt(src, k, 0) \in Nat /\ (k # j => ByteAt(src, k, 0) - 128 \in Nat)
  <2>1. ByteAt(src, k, 0) \in Byte
    BY <1>1, ByteRead
  <2>2. k # j => ~(ByteAt(src, k, 0) < 128)
    OBVIOUS
  <2> QED
    BY <2>1, <2>2 DEF Byte
<1>3. ASSUME NEW m \in 0..n, NEW x \in Nat
      PROVE  (IF m = 0 THEN 0 ELSE ByteAt(src, j - m, 0) - 128 + 128 * x) \in Nat
  <2>1. CASE m # 0
    <3>1. j - m \in i..j /\ j - m # j
      BY <2>1
    <3> QED
      BY <1>2, <2>1, <3>1
  <2> QED
    BY <2>1
<1>4. F \in [0..n -> [Nat -> Nat]]
  BY <1>3
<1>5. c \in Nat
  BY <1>2
<1>6. PICK g \in [0..n -> Nat] : \A m \in 0..n : g[m] = Step(F, c, m, g)
  <2> HIDE DEF F, c, n
  <2>1. n \in Nat
    BY <1>1
  <2> QED
    BY <2>1, <1>4, <1>5, NatRecursion
<1> DEFINE v == [k \in i..j |-> g[j - k]]
<1>7. ASSUME NEW k \in i..j
      PROVE  g[j - k] = IF k = j THEN ByteAt(src, k, 0)
                        ELSE ByteAt(src, k, 0) - 128 + 128 * v[k + 1]
  <2>1. j - k \in 0..n
    BY <1>1
  <2>2. g[j - k] = Step(F, c, j - k, g)
    <3> HIDE DEF F, c, n
    <3> QED
      BY <1>6, <2>1
  <2>3. CASE k = j
    BY <2>2, <2>3 DEF Step
  <2>4. CASE k # j
    <3>1. j - k - 1 \in 0..n /\ k + 1 \in i..j /\ j - (k + 1) = j - k - 1 /\ j - (j - k) = k
          /\ j - k # 0
      BY <1>1, <2>4
    <3>2. v[k + 1] = g[j - k - 1]
      BY <3>1
    <3>3. g[j - k - 1] \in Nat
      <4> HIDE DEF F, c, n
      <4> QED
        BY <1>6, <3>1
    <3>4. g[j - k] = F[j - k][g[j - k - 1]]
      <4> HIDE DEF F, c, n
      <4> QED
        BY <2>2, <3>1 DEF Step
    <3>5. F[j - k] = [x \in Nat |-> ByteAt(src, k, 0) - 128 + 128 * x]
      BY <2>1, <3>1
    <3> HIDE DEF F, c, n, v
    <3> QED
      BY <2>4, <3>2, <3>3, <3>4, <3>5
  <2> QED
    BY <2>3, <2>4
<1>8. v = [k \in i..j |-> IF k = j THEN ByteAt(src, k, 0)
                         ELSE ByteAt(src, k, 0) - 128 + 128 * v[k + 1]]
  <2> DEFINE w == v
  <2>1. \A k \in i..j : g[j - k] = IF k = j THEN ByteAt(src, k, 0)
                                   ELSE ByteAt(src, k, 0) - 128 + 128 * w[k + 1]
    BY <1>7
  <2>2. v = [k \in i..j |-> g[j - k]]
    OBVIOUS
  <2> HIDE DEF w
  <2>3. v = [k \in i..j |-> IF k = j THEN ByteAt(src, k, 0)
                            ELSE ByteAt(src, k, 0) - 128 + 128 * w[k + 1]]
    BY <2>1, <2>2
  <2> QED
    BY <2>3 DEF w
<1>9. ValueEq(src, i, j, v)
  <2> HIDE DEF v
  <2> QED
    BY <1>8 DEF ValueEq
<1> HIDE DEF v
<1> QED
  BY <1>9

\* VME_getNumber() computes a natural number.
LEMMA ValueRead ==
    ASSUME BytesOK, NEW src \in Source, NEW i \in Nat, NEW j \in Nat, i <= j,
           \A k \in i..(j - 1) : ~(ByteAt(src, k, 0) < 128)
    PROVE  NumberValue(src, i, j) \in Nat
<1> DEFINE v[k \in i..j] == IF k = j THEN ByteAt(src, k, 0)
                            ELSE ByteAt(src, k, 0) - 128 + 128 * v[k + 1]
           Bad == {m \in Nat : m \in 0..(j - i) /\ v[j - m] \notin Nat}
<1>1. v = [k \in i..j |-> IF k = j THEN ByteAt(src, k, 0)
                          ELSE ByteAt(src, k, 0) - 128 + 128 * v[k + 1]]
  <2> DEFINE P(x) == ValueEq(src, i, j, x)
  <2>1. P(CHOOSE x : P(x))
    <3>1. \E x : P(x)
      BY ValueExists
    <3> HIDE DEF P
    <3> QED
      BY <3>1, Zenon
  <2>2. v = CHOOSE x : P(x)
    BY Zenon DEF ValueEq
  <2>3. P(v)
    <3> HIDE DEF v, P
    <3> QED
      BY <2>1, <2>2
  <2> HIDE DEF v
  <2> QED
    BY <2>3, Zenon DEF ValueEq
<1> HIDE DEF v
<1>2. ASSUME NEW k \in i..j
      PROVE  ByteAt(src, k, 0) \in Nat /\ (k # j => ByteAt(src, k, 0) - 128 \in Nat)
  <2>1. ByteAt(src, k, 0) \in Byte
    <3>1. 0 \in Byte
      BY DEF Byte
    <3> QED
      BY <3>1, ByteRead
  <2>2. k # j => ~(ByteAt(src, k, 0) < 128)
    OBVIOUS
  <2> QED
    BY <2>1, <2>2 DEF Byte
<1>3. ASSUME Bad # {} PROVE FALSE
  <2>1. PICK m \in Bad : \A k \in Bad : m <= k
    <3>1. Bad \in SUBSET Nat
      OBVIOUS
    <3> HIDE DEF Bad
    <3> QED
      BY <1>3, <3>1, LeastElement
  <2>2. m # 0
    BY <1>1, <1>2, <2>1
  <2>3. m - 1 \in 0..(j - i) /\ m \in 0..(j - i) /\ ~(m <= m - 1) /\ m - 1 \in Nat
    BY <2>1, <2>2
  <2>4. v[j - (m - 1)] \in Nat
    <3>1. m - 1 \notin Bad
      BY <2>1, <2>3
    <3> QED
      BY <2>3, <3>1
  <2>5. j - m \in i..j /\ j - m # j /\ j - (m - 1) = (j - m) + 1
    BY <2>2, <2>3
  <2>6. v[j - m] \in Nat
    <3>1. v[j - m] = ByteAt(src, j - m, 0) - 128 + 128 * v[j - (m - 1)]
      BY <1>1, <2>5
    <3>2. ByteAt(src, j - m, 0) - 128 \in Nat
      BY <1>2, <2>5
    <3> QED
      BY <2>4, <3>1, <3>2
  <2> QED
    BY <2>1, <2>6
<1>4. v[i] \in Nat
  <2>1. j - i \in Nat /\ j - (j - i) = i /\ j - i \in 0..(j - i)
    OBVIOUS
  <2>2. j - i \notin Bad
    <3> HIDE DEF Bad
    <3> QED
      BY <1>3
  <2> QED
    BY <2>1, <2>2
<1> QED
  BY <1>4 DEF NumberValue, v

\* The end of a number is where the bytes before it are not.
LEMMA NumberEndRead ==
    ASSUME BytesOK, NEW src \in Source, NEW i \in Nat, NEW e \in NumberEnds(src, i)
    PROVE  /\ e \in Nat /\ i <= e
           /\ \A k \in i..(e - 1) : ~(ByteAt(src, k, 0) < 128)
BY DEF NumberEnds, FirstFrom, Existing, Source, BytesOK

\* VME_getNumber() reads a natural number, or on and on.
LEMMA NumberRead ==
    ASSUME BytesOK, NEW src \in Source, NEW i \in Nat
    PROVE  /\ Number(src, i).val \in Nat \cup {Endless}
           /\ Number(src, i).next \in Nat
<1>1. CASE NumberEnds(src, i) = {}
  BY <1>1 DEF Number, NoNumber, PROC_FAIL, Source
<1>2. CASE NumberEnds(src, i) # {}
  <2> DEFINE e == CHOOSE x \in NumberEnds(src, i) : TRUE
  <2>1. e \in NumberEnds(src, i)
    BY <1>2
  <2>2. Number(src, i) = [val |-> NumberValue(src, i, e), next |-> e + 1]
    BY <1>2 DEF Number
  <2> HIDE DEF e
  <2> QED
    BY <2>1, <2>2, NumberEndRead, ValueRead
<1> QED
  BY <1>1, <1>2

-----------------------------------------------------------------------------
(* The inductive invariant. *)

\* What the log is made of: the calls of the interpreter, and those before it
\* begins.
Words == {"start", "clk", "wait", "trst", "reset", "tx", "rx", "end",
          "serial", "sign", "spi", "fopen", "data",
          "ok", "failed", "mismatch", "lost", "stale"}
\* A call and what became of it.
Entry == Words \X Words

\* What TypeOK says, of any bytes for the algorithm, and of the log.
Types ==
    /\ BytesOK
    /\ stack \in Seq(Frame)
    /\ ret \in ReturnCodes
    /\ mode \in {"idle", "step", "return", "hung", "done"}
    /\ cs \in {"high", "low"}
    /\ port \in {"on", "off", "stuck"}
    /\ files \in {"open", "closed"}
    /\ log \in Seq(Entry)
    /\ faults \in 0..MaxFaults

\* The kinds of frames that run a body again and again.
Loops == {"LOOP", "REPEAT"}

\* Who calls whom, and where the callee reads.
Calls(caller, callee) ==
    \/ /\ callee.kind = "trans"
       /\ caller.kind = "process"
       /\ callee.src.file = caller.src.file
    \/ /\ callee.kind \in Loops
       /\ caller.kind \in {"process", "trans"}
       /\ callee.src.file = caller.src.file
    \/ /\ callee.kind = "process"
       /\ caller.kind \in Loops
       /\ ~caller.scanning
       /\ ~callee.src.file

\* Every frame may have been called by the one below it.
CallChain == \A i \in 1..(Len(stack) - 1) : Calls(stack[i + 1], stack[i])

\* Below a call that reads the file all do: no call in a buffered body goes back
\* to the file.
FileBelow == \A i, j \in 1..Len(stack) : i <= j /\ stack[i].src.file => stack[j].src.file

\* The outermost call is SSPIEm_process() on the file.
Outer(frame) == frame.kind = "process" /\ frame.src.file

\* SSPIEm_process() never goes on behind an ENDOFALGO.
NotEnded(frame) == frame.kind = "process" => frame.op # ENDOFALGO

\* The stack is a chain of calls that SSPIEm_process() on the file began.
Frames ==
    /\ CallChain
    /\ FileBelow
    /\ stack # <<>> => Outer(stack[Len(stack)])
    /\ \A i \in 1..Len(stack) : NotEnded(stack[i])

\* Something is called as long as the interpreter runs; what returns to
\* SSPIEm_process() is not PROC_OVER, and what returns to a loop an iteration.
Running ==
    /\ mode \in {"step", "return", "hung"} => stack # <<>>
    /\ mode = "return" => /\ Top.kind \in Loops => ~Top.scanning
                          /\ Top.kind = "process" => ret # PROC_OVER

\* SPI_final() is called where the files are closed, and only by the call that ends
\* the run; the ends that do neither are two.
Holding ==
    /\ mode \in {"step", "return", "hung"} => port = "on" /\ files = "open"
    /\ mode = "done" => (port = "on" <=> files = "open")
    /\ mode = "done" /\ port = "on" => ret \in {ERROR_PROC_ALGO, ERROR_PROC_HARDWARE}

\* PROC_FAIL is the code of a TRSTTOGGLE that failed, and of nothing else.
FailTold ==
    mode \in {"return", "done"} /\ ret = PROC_FAIL
        => log # <<>> /\ log[Len(log)] = <<"trst", "failed">>

\* The inductive invariant.
EngineInv == Types /\ Frames /\ Running /\ Holding /\ FailTold

-----------------------------------------------------------------------------
(* What the calls and returns do to the stack. *)

\* A step has left the stack, the code and the mode as they should be.
StackKept ==
    /\ stack' \in Seq(Frame)
    /\ ret' \in ReturnCodes
    /\ mode' \in {"step", "return", "hung", "done"}
    /\ mode' = "done" => Len(stack) = 1
    /\ Frames'
    /\ Running'

\* The frame on top goes on.
LEMMA GotoKeeps ==
    ASSUME Types, Frames, stack # <<>>, NEW f \in Frame, Goto(f),
           f.kind = Top.kind, f.src = Top.src, NotEnded(f)
    PROVE  StackKept /\ mode' = "step" /\ ret' = ret
<1>1. stack \in Seq(Frame) /\ Len(stack) \in Nat \ {0}
  BY DEF Types
<1>2. stack' = [stack EXCEPT ![1] = f]
  BY DEF Goto
<1>3. /\ stack' \in Seq(Frame) /\ stack' # <<>> /\ Len(stack') = Len(stack)
      /\ stack'[1] = f
      /\ \A i \in 2..Len(stack) : stack'[i] = stack[i]
  BY <1>1, <1>2
<1>4. CallChain'
  <2> SUFFICES ASSUME NEW i \in 1..(Len(stack) - 1) PROVE Calls(stack'[i + 1], stack'[i])
    BY <1>3 DEF CallChain
  <2>1. Calls(stack[i + 1], stack[i]) /\ i + 1 \in 2..Len(stack)
    BY <1>1 DEF Frames, CallChain
  <2>2. CASE i = 1
    BY <1>3, <2>1, <2>2 DEF Calls, Top
  <2>3. CASE i # 1
    BY <1>1, <1>3, <2>1, <2>3
  <2> QED
    BY <2>2, <2>3
<1>5. \A i \in 1..Len(stack) : stack'[i].src = stack[i].src /\ stack'[i].kind = stack[i].kind
  BY <1>1, <1>3 DEF Top
<1>6. FileBelow'
  BY <1>3, <1>5 DEF Frames, FileBelow
<1>7. Outer(stack'[Len(stack')])
  BY <1>1, <1>3, <1>5 DEF Frames, Outer
<1>8. \A i \in 1..Len(stack') : NotEnded(stack'[i])
  BY <1>1, <1>3 DEF Frames
<1> QED
  BY <1>3, <1>4, <1>6, <1>7, <1>8 DEF StackKept, Types, Frames, Running, Goto

\* A call is made, while the caller goes on as f.
LEMMA CallKeeps ==
    ASSUME Types, Frames, stack # <<>>, NEW frame \in Frame, NEW f \in Frame,
           Call(frame, f), f.kind = Top.kind, f.src = Top.src, NotEnded(f),
           Calls(f, frame), NotEnded(frame)
    PROVE  StackKept /\ mode' = "step" /\ ret' = ret
<1>1. stack \in Seq(Frame) /\ Len(stack) \in Nat \ {0}
  BY DEF Types
<1>2. stack' = <<frame, f>> \o Tail(stack)
  BY DEF Call
<1>3. /\ stack' \in Seq(Frame) /\ stack' # <<>> /\ Len(stack') = Len(stack) + 1
      /\ stack'[1] = frame
      /\ stack'[2] = f
      /\ \A i \in 3..(Len(stack) + 1) : stack'[i] = stack[i - 1]
  BY <1>1, <1>2
<1>4. CallChain'
  <2> SUFFICES ASSUME NEW i \in 1..Len(stack) PROVE Calls(stack'[i + 1], stack'[i])
    BY <1>1, <1>3 DEF CallChain
  <2>1. CASE i = 1
    BY <1>3, <2>1
  <2>2. CASE i # 1
    <3>1. Calls(stack[i], stack[i - 1]) /\ i + 1 \in 3..(Len(stack) + 1) /\ i \in 2..Len(stack)
      <4>1. i - 1 \in 1..(Len(stack) - 1) /\ (i - 1) + 1 = i
        BY <1>1, <2>2
      <4> QED
        BY <1>1, <2>2, <4>1 DEF Frames, CallChain
    <3>2. stack'[i + 1] = stack[i]
      BY <1>3, <3>1
    <3>3. CASE i = 2
      BY <1>3, <3>1, <3>2, <3>3 DEF Calls, Top
    <3>4. CASE i # 2
      BY <1>3, <3>1, <3>2, <3>4
    <3> QED
      BY <3>3, <3>4
  <2> QED
    BY <2>1, <2>2
<1>5. \A i \in 2..(Len(stack) + 1) : /\ stack'[i].src = stack[i - 1].src
                                   /\ stack'[i].kind = stack[i - 1].kind
  BY <1>1, <1>3 DEF Top
<1>6. FileBelow'
  <2> SUFFICES ASSUME NEW i \in 1..(Len(stack) + 1), NEW j \in 1..(Len(stack) + 1), i <= j,
                      stack'[i].src.file
               PROVE  stack'[j].src.file
    BY <1>3 DEF FileBelow
  <2>1. CASE i = 1
    <3>1. stack[1].src.file \/ j = 1
      BY <1>3, <2>1 DEF Calls, Top
    <3>2. j # 1 => j - 1 \in 1..Len(stack) /\ 1 \in 1..Len(stack) /\ 1 <= j - 1
                   /\ j \in 2..(Len(stack) + 1)
      BY <1>1
    <3> QED
      BY <1>5, <2>1, <3>1, <3>2 DEF Frames, FileBelow
  <2>2. CASE i # 1
    <3>1. i - 1 \in 1..Len(stack) /\ j - 1 \in 1..Len(stack) /\ i - 1 <= j - 1
          /\ i \in 2..(Len(stack) + 1) /\ j \in 2..(Len(stack) + 1)
      BY <1>1, <2>2
    <3> QED
      BY <1>5, <3>1 DEF Frames, FileBelow
  <2> QED
    BY <2>1, <2>2
<1>7. Outer(stack'[Len(stack')])
  <2>1. Len(stack) + 1 \in 2..(Len(stack) + 1) /\ (Len(stack) + 1) - 1 = Len(stack)
    BY <1>1
  <2> QED
    BY <1>3, <1>5, <2>1 DEF Frames, Outer
<1>8. \A i \in 1..Len(stack') : NotEnded(stack'[i])
  <2> SUFFICES ASSUME NEW i \in 1..(Len(stack) + 1), i # 1, i # 2 PROVE NotEnded(stack'[i])
    BY <1>3
  <2>1. i \in 3..(Len(stack) + 1) /\ i - 1 \in 1..Len(stack)
    BY <1>1
  <2> QED
    BY <1>3, <2>1 DEF Frames
<1> QED
  BY <1>3, <1>4, <1>6, <1>7, <1>8 DEF StackKept, Types, Frames, Running, Call

\* A frame reads on.
LEMMA ReadOnFrame ==
    ASSUME NEW r \in Frame, NEW used \in Nat
    PROVE  LET s == [r EXCEPT !.idx = @ + used]
           IN /\ s \in Frame /\ s.kind = r.kind /\ s.src = r.src
              /\ s.scanning = r.scanning /\ s.op = r.op
<1>1. r.idx + used \in Nat
  BY DEF Frame
<1>2. [r EXCEPT !.idx = @ + used] \in Frame
  BY <1>1 DEF Frame
<1> QED
  BY <1>2 DEF Frame

\* The call on top returns: to nobody, or to the frame below, which has only
\* read on.  Only SSPIEm_process() may return PROC_OVER.
LEMMA ReturnKeeps ==
    ASSUME Types, Frames, stack # <<>>, NEW code \in ReturnCodes, NEW used \in Nat,
           Return(code, used), Top.kind # "process" => code # PROC_OVER
    PROVE  /\ StackKept
           /\ ret' = code
           /\ mode' \in {"return", "done"}
           /\ mode' = "done" <=> Len(stack) = 1
<1>1. stack \in Seq(Frame) /\ Len(stack) \in Nat \ {0}
  BY DEF Types
<1>2. CASE Len(stack) = 1
  <2>1. stack' = <<>> /\ mode' = "done" /\ ret' = code
    BY <1>2 DEF Return
  <2> QED
    BY <1>2, <2>1 DEF StackKept, Frames, Running, CallChain, FileBelow
<1>3. CASE Len(stack) # 1
  <2> DEFINE rest == Tail(stack)
  <2>1. /\ stack' = [rest EXCEPT ![1].idx = @ + used]
        /\ mode' = "return" /\ ret' = code
    BY <1>3 DEF Return
  <2>2. /\ rest \in Seq(Frame) /\ Len(rest) = Len(stack) - 1 /\ Len(rest) \in Nat \ {0}
        /\ \A i \in 1..Len(rest) : rest[i] = stack[i + 1]
    BY <1>1, <1>3
  <2>3. rest[1] \in Frame
    BY <2>2
  <2> DEFINE g == [rest[1] EXCEPT !.idx = @ + used]
  <2>4. g \in Frame /\ g.kind = rest[1].kind /\ g.src = rest[1].src
        /\ g.scanning = rest[1].scanning /\ g.op = rest[1].op
    BY <2>3, ReadOnFrame
  <2>5. stack' = [rest EXCEPT ![1] = g]
    BY <2>1, <2>2
  <2> HIDE DEF rest, g
  <2>6. /\ stack' \in Seq(Frame) /\ stack' # <<>> /\ Len(stack') = Len(rest)
        /\ stack'[1] = g
        /\ \A i \in 2..Len(rest) : stack'[i] = rest[i]
    BY <2>2, <2>4, <2>5
  <2>7. \A i \in 1..Len(rest) : /\ stack'[i].src = stack[i + 1].src
                               /\ stack'[i].kind = stack[i + 1].kind
                               /\ stack'[i].scanning = stack[i + 1].scanning
                               /\ stack'[i].op = stack[i + 1].op
    <3> SUFFICES ASSUME NEW i \in 1..Len(rest)
                 PROVE  /\ stack'[i].src = rest[i].src
                        /\ stack'[i].kind = rest[i].kind
                        /\ stack'[i].scanning = rest[i].scanning
                        /\ stack'[i].op = rest[i].op
      BY <2>2
    <3>1. CASE i = 1
      BY <2>4, <2>6, <3>1
    <3>2. CASE i # 1
      <4>1. i \in 2..Len(rest)
        BY <2>2, <3>2
      <4> QED
        BY <2>6, <4>1
    <3> QED
      BY <3>1, <3>2
  <2>8. CallChain'
    <3> SUFFICES ASSUME NEW i \in 1..(Len(rest) - 1) PROVE Calls(stack'[i + 1], stack'[i])
      BY <2>6 DEF CallChain
    <3>1. i \in 1..Len(rest) /\ i + 1 \in 1..Len(rest) /\ i + 1 \in 1..(Len(stack) - 1)
      BY <2>2
    <3>2. Calls(stack[(i + 1) + 1], stack[i + 1])
      BY <3>1 DEF Frames, CallChain
    <3> QED
      BY <2>7, <3>1, <3>2 DEF Calls
  <2>9. FileBelow'
    <3> SUFFICES ASSUME NEW i \in 1..Len(rest), NEW j \in 1..Len(rest), i <= j,
                        stack'[i].src.file
                 PROVE  stack'[j].src.file
      BY <2>6 DEF FileBelow
    <3>1. i + 1 \in 1..Len(stack) /\ j + 1 \in 1..Len(stack) /\ i + 1 <= j + 1
      BY <1>1, <2>2
    <3> QED
      BY <2>7, <3>1 DEF Frames, FileBelow
  <2>10. Outer(stack'[Len(stack')])
    <3>1. Len(rest) \in 1..Len(rest) /\ Len(rest) + 1 = Len(stack)
      BY <1>1, <2>2
    <3> QED
      BY <2>6, <2>7, <3>1 DEF Frames, Outer
  <2>11. \A i \in 1..Len(stack') : NotEnded(stack'[i])
    <3> SUFFICES ASSUME NEW i \in 1..Len(rest) PROVE NotEnded(stack'[i])
      BY <2>6
    <3>1. i + 1 \in 1..Len(stack)
      BY <1>1, <2>2
    <3> QED
      BY <2>7, <3>1 DEF Frames, NotEnded
  <2>12. Calls(stack[2], stack[1])
    <3>1. \A n \in Nat \ {0} : n # 1 => 1 \in 1..(n - 1)
      OBVIOUS
    <3>2. 1 \in 1..(Len(stack) - 1)
      BY <1>1, <1>3, <3>1, Zenon
    <3>3. Calls(stack[1 + 1], stack[1])
      BY <3>2, Zenon DEF Frames, CallChain
    <3> QED
      BY <3>3
  <2>13. Top'.kind = stack[2].kind /\ Top'.scanning = stack[2].scanning
    BY <2>2, <2>7 DEF Top
  <2>14. /\ Top'.kind \in Loops => ~Top'.scanning
         /\ Top'.kind = "process" => code # PROC_OVER
    BY <2>12, <2>13 DEF Calls, Loops, Top
  <2> QED
    BY <1>3, <2>1, <2>6, <2>8, <2>9, <2>10, <2>11, <2>14 DEF StackKept, Frames, Running
<1> QED
  BY <1>2, <1>3

\* A read that does not end.
LEMMA HangKeeps ==
    ASSUME Types, Frames, stack # <<>>, Hang
    PROVE  StackKept /\ mode' = "hung" /\ ret' = ret
BY DEF Hang, StackKept, Types, Frames, Running, CallChain, FileBelow

-----------------------------------------------------------------------------
(* The frames that are gone on with or called. *)

\* The frame on top, and what it reads next.
LEMMA TopRead ==
    ASSUME Types, stack # <<>>
    PROVE  /\ Top \in Frame /\ Top.src \in Source /\ Top.src.file \in BOOLEAN
           /\ Top.idx \in Nat /\ Top.op \in Byte /\ Top.kind \in Kinds
           /\ Top.trCount \in Nat /\ Top.size \in Nat /\ Top.count \in Nat
           /\ Top.nest \in Seq({LOOP, REPEAT})
           /\ Opcode \in Byte /\ After \in Nat
<1>1. Top \in Frame
  BY DEF Types, Top
<1>2. /\ Top.src \in Source /\ Top.src.file \in BOOLEAN
      /\ Top.idx \in Nat /\ Top.op \in Byte /\ Top.kind \in Kinds
      /\ Top.trCount \in Nat /\ Top.size \in Nat /\ Top.count \in Nat
      /\ Top.nest \in Seq({LOOP, REPEAT})
  BY <1>1 DEF Frame, Source, Byte
<1>3. Opcode \in Byte
  BY <1>2, ByteRead DEF Types, Opcode
<1> QED
  BY <1>1, <1>2, <1>3 DEF After

\* A frame that goes on at i, with op in currentByte.
Moved(f, i, op) == [f EXCEPT !.idx = i, !.op = op]

\* Going on elsewhere keeps what kind of frame it is and what it reads.
LEMMA NextFrame ==
    ASSUME NEW f \in Frame, NEW i \in Nat, NEW op \in Byte
    PROVE  /\ Moved(f, i, op) \in Frame
           /\ Moved(f, i, op).kind = f.kind /\ Moved(f, i, op).src = f.src
           /\ Moved(f, i, op).op = op /\ Moved(f, i, op).scanning = f.scanning
<1>1. [f EXCEPT !.idx = i, !.op = op] \in Frame
  BY DEF Frame, Byte
<1> QED
  BY <1>1 DEF Frame, Moved

\* A frame that is called.
LEMMA CalledFrame ==
    ASSUME NEW kind \in Kinds, NEW src \in Source, NEW op \in Byte, NEW max \in Nat
    PROVE  LET g == NewFrame(kind, src, op, max)
           IN g \in Frame /\ g.kind = kind /\ g.src = src /\ g.op = op
<1>1. NewFrame(kind, src, op, max) \in Frame
  BY DEF NewFrame, Frame, Byte
<1> QED
  BY <1>1 DEF NewFrame

\* What it reads begins where its caller's reading has come to.
LEMMA SourceFrom ==
    ASSUME NEW src \in Source, NEW i \in Nat
    PROVE  From(src, i) \in Source /\ From(src, i).file = src.file
BY DEF From, Source

-----------------------------------------------------------------------------
(* The calls of the layers below. *)

\* What the calls of the layers below keep.
LogKept == log' \in Seq(Entry) /\ faults' \in 0..MaxFaults

\* The log grows by one call.
LEMMA LogGrows ==
    ASSUME Types, NEW e \in Entry, log' = Append(log, e)
    PROVE  log' \in Seq(Entry) /\ log' # <<>> /\ log'[Len(log')] = e
<1>1. log \in Seq(Entry)
  BY DEF Types
<1> QED
  BY <1>1

\* A call that succeeds.
LEMMA DoneKeeps ==
    ASSUME Types, NEW what \in Words, Done(what)
    PROVE  LogKept
<1> DEFINE e == <<what, "ok">>
<1>1. log' = Append(log, e) /\ e \in Entry
  BY DEF Done, Entry, Words
<1>2. faults' \in 0..MaxFaults
  BY DEF Types, Done
<1> HIDE DEF e
<1> QED
  BY <1>1, <1>2, LogGrows DEF LogKept

\* A call that goes wrong: the last of the log.
LEMMA FaultKeeps ==
    ASSUME Types, NEW what \in Words, NEW how \in Words, Fault(what, how)
    PROVE  LogKept /\ log' # <<>> /\ log'[Len(log')] = <<what, how>>
<1> DEFINE e == <<what, how>>
<1>1. log' = Append(log, e) /\ e \in Entry
  BY DEF Fault, Entry
<1>2. faults' \in 0..MaxFaults
  BY BoundsAssumption DEF Types, Fault
<1>3. LogKept /\ log' # <<>> /\ log'[Len(log')] = e
  <2> HIDE DEF e
  <2> QED
    BY <1>1, <1>2, LogGrows DEF LogKept
<1> QED
  BY <1>3

\* A transfer whose loss nobody sees.
LEMMA SentKeeps ==
    ASSUME Types, NEW what \in Words, Sent(what)
    PROVE  LogKept
<1>1. CASE Done(what)
  BY <1>1, DoneKeeps
<1>2. CASE Fault(what, "lost")
  <2>1. "lost" \in Words
    BY DEF Words
  <2> QED
    BY <1>2, <2>1, FaultKeeps
<1> QED
  BY <1>1, <1>2 DEF Sent

-----------------------------------------------------------------------------
(* The two kinds of steps: those of SSPIEm_process(), which may end the run,   *)
(* and those of the calls it makes.                                            *)

\* The calls in progress are of some kind.
LEMMA SecondCalls ==
    ASSUME Types, Frames, stack # <<>>, Len(stack) # 1
    PROVE  Calls(stack[2], stack[1])
<1>1. \A n \in Nat \ {0} : n # 1 => 1 \in 1..(n - 1)
  OBVIOUS
<1>2. Len(stack) \in Nat \ {0}
  BY DEF Types
<1>3. 1 \in 1..(Len(stack) - 1)
  BY <1>1, <1>2, Zenon
<1>4. Calls(stack[1 + 1], stack[1])
  BY <1>3, Zenon DEF Frames, CallChain
<1> QED
  BY <1>4

\* Among the calls of SSPIEm_process() only the outermost reads the file.
LEMMA OutermostReadsFile ==
    ASSUME Types, Frames, stack # <<>>, Top.kind = "process"
    PROVE  Top.src.file <=> Len(stack) = 1
<1>1. CASE Len(stack) = 1
  BY <1>1 DEF Frames, Outer, Top
<1>2. CASE Len(stack) # 1
  <2>1. Calls(stack[2], stack[1])
    BY <1>2, SecondCalls
  <2> QED
    BY <1>2, <2>1 DEF Calls, Top, Loops
<1> QED
  BY <1>1, <1>2

\* The other functions are called by something.
LEMMA InnerCall ==
    ASSUME Types, Frames, stack # <<>>, Top.kind # "process"
    PROVE  Len(stack) # 1
BY DEF Frames, Outer, Top

\* A step of proc_TRANS(), proc_LOOP() or proc_REPEAT() keeps the invariant, if it
\* does not return a PROC_FAIL of its own.
LEMMA InnerStep ==
    ASSUME EngineInv, mode \in {"step", "return"}, Top.kind # "process",
           StackKept, LogKept, BytesOK', cs' \in {"high", "low"}, UNCHANGED <<port, files>>,
           mode' = "return" /\ ret' = PROC_FAIL
               => mode = "return" /\ ret = PROC_FAIL /\ log' = log
    PROVE  EngineInv'
<1>1. stack # <<>>
  BY DEF EngineInv, Running
<1>2. mode' # "done"
  BY <1>1, InnerCall DEF StackKept, EngineInv
<1>3. Types'
  BY DEF EngineInv, Types, StackKept, LogKept
<1>4. Holding'
  BY <1>2 DEF EngineInv, Holding
<1>5. FailTold'
  BY <1>2 DEF EngineInv, FailTold
<1> QED
  BY <1>3, <1>4, <1>5 DEF EngineInv, StackKept

\* So does a step of SSPIEm_process() that does not leave its loop: where it
\* returns from it on the spot the code is one of two.
LEMMA ProcessStep ==
    ASSUME EngineInv, mode \in {"step", "return"},
           StackKept, LogKept, BytesOK', cs' \in {"high", "low"}, UNCHANGED <<port, files>>,
           mode' = "return" => ret' # PROC_FAIL,
           mode' = "done" => ret' \in {ERROR_PROC_ALGO, ERROR_PROC_HARDWARE}
    PROVE  EngineInv'
<1>1. Types'
  BY DEF EngineInv, Types, StackKept, LogKept
<1>2. Holding'
  BY DEF EngineInv, Holding
<1>3. FailTold'
  BY DEF FailTold, PROC_FAIL, ERROR_PROC_ALGO, ERROR_PROC_HARDWARE
<1> QED
  BY <1>1, <1>2, <1>3 DEF EngineInv, StackKept

\* And one that leaves its loop.
LEMMA LeaveStep ==
    ASSUME EngineInv, mode \in {"step", "return"}, Top.kind = "process",
           NEW code \in ReturnCodes, Leave(code),
           LogKept, BytesOK', cs' \in {"high", "low"},
           code = PROC_FAIL => log' # <<>> /\ log'[Len(log')] = <<"trst", "failed">>
    PROVE  EngineInv'
<1>1. Types /\ Frames /\ stack # <<>>
  BY DEF EngineInv, Running
<1>2. StackKept /\ ret' = code /\ mode' \in {"return", "done"} /\ (mode' = "done" <=> Len(stack) = 1)
  <2>1. Return(code, 0)
    BY DEF Leave
  <2> QED
    BY <1>1, <2>1, ReturnKeeps
<1>3. mode' = "done" <=> Top.src.file
  BY <1>1, <1>2, OutermostReadsFile
<1>4. Types'
  BY <1>1, <1>2 DEF Types, StackKept, LogKept, Leave, SPI_final
<1>5. Holding'
  BY <1>2, <1>3 DEF EngineInv, Holding, Leave, SPI_final
<1>6. FailTold'
  BY <1>2 DEF FailTold
<1> QED
  BY <1>2, <1>4, <1>5, <1>6 DEF EngineInv, StackKept

-----------------------------------------------------------------------------
(* SSPIEm_process(). *)

\* The next opcode.
LEMMA GoOnKeeps ==
    ASSUME EngineInv, mode = "step", Top.kind = "process", Opcode # ENDOFALGO,
           NEW i \in Nat, GoOn(i)
    PROVE  StackKept /\ mode' = "step"
<1>1. Types /\ Frames /\ stack # <<>>
  BY DEF EngineInv, Running
<1> DEFINE f == Moved(Top, i, Opcode)
<1>2. f \in Frame /\ f.kind = Top.kind /\ f.src = Top.src /\ f.op = Opcode
  <2>1. Top \in Frame /\ Opcode \in Byte
    BY <1>1, TopRead
  <2> QED
    BY <2>1, NextFrame
<1>3. Goto(f) /\ NotEnded(f)
  BY <1>2 DEF GoOn, NotEnded, Moved
<1> HIDE DEF f
<1> QED
  BY <1>1, <1>2, <1>3, GotoKeeps

\* What a step of the interpreter that calls nobody below leaves alone.
LEMMA HwUnchanged ==
    ASSUME EngineInv, UnchangedHw
    PROVE  LogKept /\ cs' \in {"high", "low"} /\ UNCHANGED <<port, files>>
BY DEF EngineInv, Types, LogKept, UnchangedHw, hwVars

\* The algorithm does not change, nor does algoBuffer but for the loops.
LEMMA BytesUnchanged ==
    ASSUME EngineInv, UNCHANGED <<algo, algoBuffer>>
    PROVE  BytesOK'
BY DEF EngineInv, Types, BytesOK

\* A return from the loop of SSPIEm_process() on the spot.
LEMMA ReturnStep ==
    ASSUME EngineInv, mode = "step", Top.kind = "process",
           NEW code \in {ERROR_PROC_ALGO, ERROR_PROC_HARDWARE}, Return(code, 0),
           LogKept, BytesOK', cs' \in {"high", "low"}, UNCHANGED <<port, files>>
    PROVE  EngineInv'
<1>1. Types /\ Frames /\ stack # <<>>
  BY DEF EngineInv, Running
<1>2. code \in ReturnCodes /\ code # PROC_FAIL
  BY DEF ReturnCodes, ERROR_PROC_ALGO, ERROR_PROC_HARDWARE, PROC_FAIL
<1>3. StackKept /\ ret' = code
  BY <1>1, <1>2, ReturnKeeps
<1> QED
  BY <1>2, <1>3, ProcessStep

\* The end of a body ends the call that executes it, never the run.
LEMMA ProcEndKeeps == ASSUME EngineInv, ProcEnd PROVE EngineInv'
<1>1. Types /\ Frames /\ stack # <<>> /\ mode = "step" /\ Top.kind = "process" /\ ~Top.src.file
  BY DEF EngineInv, Running, ProcEnd, Stepping, Avail
<1>2. 0 \in Nat /\ PROC_OVER \in ReturnCodes /\ PROC_OVER # PROC_FAIL
  BY DEF ReturnCodes, PROC_OVER, PROC_FAIL
<1>3. StackKept /\ ret' = PROC_OVER /\ mode' # "done"
  <2>1. Return(PROC_OVER, 0)
    BY DEF ProcEnd
  <2>2. Len(stack) # 1
    BY <1>1, OutermostReadsFile
  <2> QED
    BY <1>1, <1>2, <2>1, <2>2, ReturnKeeps
<1>4. BytesOK' /\ UnchangedHw
  BY BytesUnchanged DEF ProcEnd
<1> QED
  BY <1>1, <1>2, <1>3, <1>4, HwUnchanged, ProcessStep

\* HCOMMENT
LEMMA ProcCommentKeeps == ASSUME EngineInv, ProcComment PROVE EngineInv'
<1>1. Types /\ Frames /\ stack # <<>> /\ mode = "step" /\ Top.kind = "process"
      /\ Opcode = HCOMMENT
  BY DEF EngineInv, Running, ProcComment, Fetched, Stepping
<1>2. BytesOK' /\ UnchangedHw
  BY BytesUnchanged DEF ProcComment, Fetched
<1> DEFINE end == CommentEnd(Top.src, After)
<1>3. end \in Nat \cup {Endless}
  BY <1>1, TopRead, CommentRead DEF Types
<1>4. CASE end = Endless
  <2>1. Hang
    BY <1>4 DEF ProcComment, Endless, PROC_FAIL
  <2> QED
    BY <1>1, <1>2, <2>1, HangKeeps, HwUnchanged, ProcessStep
<1>5. CASE end # Endless /\ end = PROC_FAIL
  <2>1. Return(ERROR_PROC_ALGO, 0)
    BY <1>5 DEF ProcComment
  <2> QED
    BY <1>1, <1>2, <2>1, HwUnchanged, ReturnStep
<1>6. CASE end # Endless /\ end # PROC_FAIL
  <2>1. GoOn(end)
    BY <1>6 DEF ProcComment
  <2>2. StackKept /\ mode' = "step"
    BY <1>1, <1>3, <1>6, <2>1, GoOnKeeps DEF HCOMMENT, ENDOFALGO
  <2> QED
    BY <1>1, <1>2, <2>2, HwUnchanged, ProcessStep
<1> QED
  BY <1>4, <1>5, <1>6

\* STARTTRAN
LEMMA ProcStartTranKeeps == ASSUME EngineInv, ProcStartTran PROVE EngineInv'
<1>1. Types /\ mode = "step" /\ Top.kind = "process" /\ Opcode = STARTTRAN /\ stack # <<>>
  BY DEF EngineInv, Running, ProcStartTran, Fetched, Stepping
<1>2. BytesOK' /\ cs' \in {"high", "low"} /\ UNCHANGED <<port, files>>
  BY BytesUnchanged DEF ProcStartTran, Fetched
<1>3. CASE Done("start") /\ GoOn(After)
  <2>1. StackKept /\ mode' = "step"
    BY <1>1, <1>3, TopRead, GoOnKeeps DEF STARTTRAN, ENDOFALGO
  <2>2. LogKept
    BY <1>1, <1>3, DoneKeeps DEF Words
  <2> QED
    BY <1>1, <1>2, <2>1, <2>2, ProcessStep
<1>4. CASE Fault("start", "failed") /\ Return(ERROR_PROC_HARDWARE, 0)
  <2>1. LogKept
    BY <1>1, <1>4, FaultKeeps DEF Words
  <2> QED
    BY <1>1, <1>2, <1>4, <2>1, ReturnStep
<1> QED
  BY <1>3, <1>4 DEF ProcStartTran

\* proc_TRANS() is called behind the opcode, which it takes over.
LEMMA ProcTransKeeps == ASSUME EngineInv, ProcTrans PROVE EngineInv'
<1>1. PICK op \in {TRANSIN, TRANSOUT} :
        /\ Fetched(op)
        /\ Call(NewFrame("trans", From(Top.src, After), op, 0), [Top EXCEPT !.idx = After, !.op = op])
  BY DEF ProcTrans
<1>2. Types /\ Frames /\ stack # <<>> /\ mode = "step" /\ Top.kind = "process"
  BY <1>1 DEF EngineInv, Running, Fetched, Stepping
<1>3. op \in Byte /\ op # ENDOFALGO
  BY DEF TRANSIN, TRANSOUT, ENDOFALGO, Byte
<1> DEFINE frame == NewFrame("trans", From(Top.src, After), op, 0)
           f == Moved(Top, After, op)
<1>4. Top \in Frame /\ Top.src \in Source /\ After \in Nat
  BY <1>2, TopRead
<1>5. f \in Frame /\ f.kind = Top.kind /\ f.src = Top.src /\ f.op = op
  BY <1>3, <1>4, NextFrame
<1>6. frame \in Frame /\ frame.kind = "trans" /\ frame.src.file = Top.src.file
  <2>1. From(Top.src, After) \in Source /\ From(Top.src, After).file = Top.src.file
    BY <1>4, SourceFrom
  <2>2. "trans" \in Kinds /\ 0 \in Nat
    BY DEF Kinds
  <2> QED
    BY <1>3, <2>1, <2>2, CalledFrame
<1>7. StackKept /\ mode' = "step"
  <2>1. Call(frame, f)
    BY <1>1 DEF Moved
  <2>2. Calls(f, frame) /\ NotEnded(f) /\ NotEnded(frame)
    BY <1>2, <1>3, <1>5, <1>6 DEF Calls, NotEnded
  <2> HIDE DEF f, frame
  <2> QED
    BY <1>2, <1>5, <1>6, <2>1, <2>2, CallKeeps
<1>8. BytesOK' /\ UnchangedHw
  BY <1>1, BytesUnchanged DEF ProcTrans, Fetched
<1> QED
  BY <1>2, <1>7, <1>8, HwUnchanged, ProcessStep

\* The number an opcode is followed by, if it is.
LEMMA NumberCases ==
    ASSUME Types, stack # <<>>, NEW i \in Nat
    PROVE  LET n == Number(Top.src, i)
           IN n.val # Endless => n.val \in Nat /\ n.next \in Nat
<1>1. Top.src \in Source /\ BytesOK
  BY TopRead DEF Types
<1> QED
  BY <1>1, NumberRead

\* Without a number the processing ends, or never does.
LEMMA NoNumberKeeps ==
    ASSUME EngineInv, Stepping("process"), UNCHANGED algo,
           \/ Hang /\ UNCHANGED algoBuffer /\ UnchangedHw
           \/ Leave(ERROR_PROC_ALGO) /\ UNCHANGED <<algoBuffer, cs, log, faults>>
    PROVE  EngineInv'
<1>1. Types /\ Frames /\ stack # <<>> /\ mode = "step" /\ Top.kind = "process"
  BY DEF EngineInv, Running, Stepping
<1>2. BytesOK'
  BY BytesUnchanged
<1>3. CASE Hang /\ UnchangedHw
  BY <1>1, <1>2, <1>3, HangKeeps, HwUnchanged, ProcessStep
<1>4. CASE Leave(ERROR_PROC_ALGO) /\ UNCHANGED <<cs, log, faults>>
  <2>1. LogKept /\ cs' \in {"high", "low"}
    BY <1>1, <1>4 DEF Types, LogKept
  <2>2. ERROR_PROC_ALGO \in ReturnCodes /\ ERROR_PROC_ALGO # PROC_FAIL
    BY DEF ReturnCodes, ERROR_PROC_ALGO, PROC_FAIL
  <2> QED
    BY <1>1, <1>2, <1>4, <2>1, <2>2, LeaveStep
<1> QED
  BY <1>3, <1>4

\* A call of the hardware behind which the processing goes on.
LEMMA GoOnStep ==
    ASSUME EngineInv, Stepping("process"), Opcode # ENDOFALGO, UNCHANGED <<algo, algoBuffer>>,
           NEW i \in Nat, GoOn(i), LogKept, cs' \in {"high", "low"}, UNCHANGED <<port, files>>
    PROVE  EngineInv'
<1>1. mode = "step" /\ Top.kind = "process"
  BY DEF Stepping
<1>2. StackKept /\ mode' = "step"
  BY <1>1, GoOnKeeps
<1>3. BytesOK'
  BY BytesUnchanged
<1> QED
  BY <1>1, <1>2, <1>3, ProcessStep

\* RUNCLOCK
LEMMA ProcRunClockKeeps == ASSUME EngineInv, ProcRunClock PROVE EngineInv'
<1> DEFINE n == Number(Top.src, After)
<1>1. /\ Types /\ stack # <<>> /\ Stepping("process") /\ UNCHANGED algo
      /\ Opcode = RUNCLOCK
  BY DEF EngineInv, Running, ProcRunClock, WithNumber, Fetched, Stepping
<1>2. CASE n.val \in {Endless, PROC_FAIL}
  BY <1>1, <1>2, NoNumberKeeps DEF ProcRunClock, WithNumber, Endless, PROC_FAIL
<1>3. CASE n.val \notin {Endless, PROC_FAIL}
  <2>1. Sent("clk") /\ GoOn(n.next) /\ UNCHANGED algoBuffer /\ UnchangedPins
    BY <1>3 DEF ProcRunClock, WithNumber, Endless, PROC_FAIL
  <2>2. n.next \in Nat
    BY <1>1, <1>3, NumberCases, TopRead
  <2>3. LogKept
    BY <1>1, <2>1, SentKeeps DEF Words
  <2> HIDE DEF n
  <2> QED
    BY <1>1, <2>1, <2>2, <2>3, GoOnStep
    DEF UnchangedPins, EngineInv, Types, RUNCLOCK, ENDOFALGO
<1> QED
  BY <1>2, <1>3

\* WAIT
LEMMA ProcWaitKeeps == ASSUME EngineInv, ProcWait PROVE EngineInv'
<1> DEFINE n == Number(Top.src, After)
<1>1. /\ Types /\ stack # <<>> /\ Stepping("process") /\ UNCHANGED algo
      /\ Opcode = WAIT
  BY DEF EngineInv, Running, ProcWait, WithNumber, Fetched, Stepping
<1>2. CASE n.val \in {Endless, PROC_FAIL}
  BY <1>1, <1>2, NoNumberKeeps DEF ProcWait, WithNumber, Endless, PROC_FAIL
<1>3. CASE n.val \notin {Endless, PROC_FAIL}
  <2>1. Done("wait") /\ GoOn(n.next) /\ UNCHANGED algoBuffer /\ UnchangedPins
    BY <1>3 DEF ProcWait, WithNumber, Endless, PROC_FAIL
  <2>2. n.next \in Nat
    BY <1>1, <1>3, NumberCases, TopRead
  <2>3. LogKept
    BY <1>1, <2>1, DoneKeeps DEF Words
  <2> HIDE DEF n
  <2> QED
    BY <1>1, <2>1, <2>2, <2>3, GoOnStep
    DEF UnchangedPins, EngineInv, Types, WAIT, ENDOFALGO
<1> QED
  BY <1>2, <1>3

\* A loop is called by SSPIEm_process(), or by proc_TRANS().
LEMMA CallLoopKeeps ==
    ASSUME EngineInv, mode = "step", Top.kind \in {"process", "trans"}, UNCHANGED algo,
           NEW op \in {LOOP, REPEAT}, NEW n \in Nat, NEW i \in Nat, CallLoop(op, n, i)
    PROVE  EngineInv'
<1>1. Types /\ Frames /\ stack # <<>>
  BY DEF EngineInv, Running
<1> DEFINE kind == IF op = LOOP THEN "LOOP" ELSE "REPEAT"
           frame == LoopFrame(op, n, i)
           f == Moved(Top, i, op)
<1>2. Top \in Frame /\ Top.src \in Source
  BY <1>1, TopRead
<1>3. op \in Byte /\ op # ENDOFALGO /\ 0 \in Byte /\ kind \in Kinds /\ kind \in Loops
  BY DEF LOOP, REPEAT, ENDOFALGO, Byte, Kinds, Loops
<1>4. f \in Frame /\ f.kind = Top.kind /\ f.src = Top.src /\ f.op = op
  BY <1>2, <1>3, NextFrame
<1>5. frame \in Frame /\ frame.kind = kind /\ frame.src.file = Top.src.file
  <2>1. From(Top.src, i) \in Source /\ From(Top.src, i).file = Top.src.file
    BY <1>2, SourceFrom
  <2>2. frame = NewFrame(kind, From(Top.src, i), 0, n)
    BY DEF LoopFrame
  <2> HIDE DEF frame, kind
  <2> QED
    BY <1>3, <2>1, <2>2, CalledFrame
<1>6. StackKept /\ mode' = "step"
  <2>1. Call(frame, f)
    BY DEF CallLoop, Moved
  <2> HIDE DEF frame, f, kind
  <2>2. Calls(f, frame) /\ NotEnded(f) /\ NotEnded(frame)
    BY <1>3, <1>4, <1>5 DEF Calls, NotEnded, Loops
  <2> QED
    BY <1>1, <1>4, <1>5, <2>1, <2>2, CallKeeps
<1>7. BytesOK' /\ UnchangedHw
  <2>1. algoBuffer \in [0..MAXBUF -> Byte] /\ algo \in Seq(Byte)
    BY <1>1 DEF Types, BytesOK
  <2>2. algoBuffer' \in [0..MAXBUF -> Byte]
    BY <1>3, <2>1 DEF CallLoop
  <2> QED
    BY <2>1, <2>2 DEF CallLoop, BytesOK
<1> QED
  BY <1>6, <1>7, HwUnchanged, ProcessStep

\* REPEAT
LEMMA ProcRepeatKeeps == ASSUME EngineInv, ProcRepeat PROVE EngineInv'
<1> DEFINE n == Number(Top.src, After)
<1>1. Types /\ stack # <<>> /\ Stepping("process") /\ UNCHANGED algo
  BY DEF EngineInv, Running, ProcRepeat, WithNumber, Fetched, Stepping
<1>2. CASE n.val \in {Endless, PROC_FAIL}
  BY <1>1, <1>2, NoNumberKeeps DEF ProcRepeat, WithNumber, Endless, PROC_FAIL
<1>3. CASE n.val \notin {Endless, PROC_FAIL}
  <2>1. CallLoop(REPEAT, n.val, n.next)
    BY <1>3 DEF ProcRepeat, WithNumber, Endless, PROC_FAIL
  <2>2. n.val \in Nat /\ n.next \in Nat
    BY <1>1, <1>3, NumberCases, TopRead
  <2> HIDE DEF n
  <2> QED
    BY <1>1, <2>1, <2>2, CallLoopKeeps DEF Stepping
<1> QED
  BY <1>2, <1>3

\* LOOP
LEMMA ProcLoopKeeps == ASSUME EngineInv, ProcLoop PROVE EngineInv'
<1> DEFINE n == Number(Top.src, After)
<1>1. Types /\ stack # <<>> /\ Stepping("process") /\ UNCHANGED algo
  BY DEF EngineInv, Running, ProcLoop, WithNumber, Fetched, Stepping
<1>2. CASE n.val \in {Endless, PROC_FAIL}
  BY <1>1, <1>2, NoNumberKeeps DEF ProcLoop, WithNumber, Endless, PROC_FAIL
<1>3. CASE n.val \notin {Endless, PROC_FAIL}
  <2>1. CallLoop(LOOP, n.val, n.next)
    BY <1>3 DEF ProcLoop, WithNumber, Endless, PROC_FAIL
  <2>2. n.val \in Nat /\ n.next \in Nat
    BY <1>1, <1>3, NumberCases, TopRead
  <2> HIDE DEF n
  <2> QED
    BY <1>1, <2>1, <2>2, CallLoopKeeps DEF Stepping
<1> QED
  BY <1>2, <1>3

\* TRSTTOGGLE: its failure, PROC_FAIL, is the last call in the log.
LEMMA ProcTrstToggleKeeps == ASSUME EngineInv, ProcTrstToggle PROVE EngineInv'
<1> DEFINE n == Number(Top.src, After)
<1>1. /\ Types /\ Frames /\ stack # <<>> /\ Stepping("process") /\ UNCHANGED <<algo, algoBuffer>>
      /\ Opcode = TRSTTOGGLE /\ mode = "step" /\ Top.kind = "process"
  BY DEF EngineInv, Running, ProcTrstToggle, Fetched, Stepping
<1>2. BytesOK'
  BY <1>1, BytesUnchanged
<1>3. CASE n.val = Endless
  BY <1>1, <1>2, <1>3, HangKeeps, HwUnchanged, ProcessStep DEF ProcTrstToggle
<1>4. CASE n.val # Endless
  <2>1. \/ Done("trst") /\ GoOn(n.next) /\ UnchangedPins
        \/ Fault("trst", "failed") /\ Leave(PROC_FAIL) /\ UNCHANGED cs
    BY <1>4 DEF ProcTrstToggle
  <2>2. n.next \in Nat
    BY <1>1, <1>4, NumberCases, TopRead
  <2> HIDE DEF n
  <2>3. CASE Done("trst") /\ GoOn(n.next) /\ UnchangedPins
    <3>1. LogKept
      BY <1>1, <2>3, DoneKeeps DEF Words
    <3> QED
      BY <1>1, <2>2, <2>3, <3>1, GoOnStep
      DEF UnchangedPins, EngineInv, Types, TRSTTOGGLE, ENDOFALGO
  <2>4. CASE Fault("trst", "failed") /\ Leave(PROC_FAIL) /\ UNCHANGED cs
    <3>1. LogKept /\ log' # <<>> /\ log'[Len(log')] = <<"trst", "failed">>
      BY <1>1, <2>4, FaultKeeps DEF Words
    <3>2. cs' \in {"high", "low"} /\ PROC_FAIL \in ReturnCodes
      BY <1>1, <2>4 DEF Types, ReturnCodes
    <3> QED
      BY <1>1, <1>2, <2>4, <3>1, <3>2, LeaveStep
  <2> QED
    BY <2>1, <2>3, <2>4
<1> QED
  BY <1>3, <1>4

\* RESETDATA
LEMMA ProcResetDataKeeps == ASSUME EngineInv, ProcResetData PROVE EngineInv'
<1>1. /\ Types /\ Stepping("process") /\ UNCHANGED <<algo, algoBuffer>>
      /\ Opcode = RESETDATA /\ mode = "step" /\ Top.kind = "process" /\ stack # <<>>
  BY DEF EngineInv, Running, ProcResetData, Fetched, Stepping
<1>2. BytesOK'
  BY <1>1, BytesUnchanged
<1>3. CASE Done("reset") /\ GoOn(After) /\ UnchangedPins
  <2>1. LogKept
    BY <1>1, <1>3, DoneKeeps DEF Words
  <2>2. After \in Nat
    BY <1>1, TopRead
  <2> QED
    BY <1>1, <1>3, <2>1, <2>2, GoOnStep
    DEF UnchangedPins, EngineInv, Types, RESETDATA, ENDOFALGO
<1>4. CASE Fault("reset", "failed") /\ Leave(ERROR_PROC_DATA) /\ UNCHANGED cs
  <2>1. LogKept
    BY <1>1, <1>4, FaultKeeps DEF Words
  <2>2. cs' \in {"high", "low"} /\ ERROR_PROC_DATA \in ReturnCodes /\ ERROR_PROC_DATA # PROC_FAIL
    BY <1>1, <1>4 DEF Types, ReturnCodes, ERROR_PROC_DATA, PROC_FAIL
  <2> QED
    BY <1>1, <1>2, <1>4, <2>1, <2>2, LeaveStep
<1> QED
  BY <1>3, <1>4 DEF ProcResetData

\* ENDTRAN
LEMMA ProcEndTranKeeps == ASSUME EngineInv, ProcEndTran PROVE EngineInv'
<1>1. /\ Types /\ Stepping("process") /\ UNCHANGED <<algo, algoBuffer>>
      /\ Opcode = ENDTRAN /\ mode = "step" /\ Top.kind = "process" /\ stack # <<>>
      /\ cs' \in {"high", "low"}
  BY DEF EngineInv, Running, ProcEndTran, Fetched, Stepping
<1>2. BytesOK'
  BY <1>1, BytesUnchanged
<1>3. CASE Done("end") /\ GoOn(After) /\ UNCHANGED <<port, files>>
  <2>1. LogKept
    BY <1>1, <1>3, DoneKeeps DEF Words
  <2>2. After \in Nat
    BY <1>1, TopRead
  <2> QED
    BY <1>1, <1>3, <2>1, <2>2, GoOnStep DEF ENDTRAN, ENDOFALGO
<1>4. CASE Fault("end", "failed") /\ Leave(ERROR_PROC_HARDWARE)
  <2>1. LogKept
    BY <1>1, <1>4, FaultKeeps DEF Words
  <2>2. ERROR_PROC_HARDWARE \in ReturnCodes /\ ERROR_PROC_HARDWARE # PROC_FAIL
    BY DEF ReturnCodes, ERROR_PROC_HARDWARE, PROC_FAIL
  <2> QED
    BY <1>1, <1>2, <1>4, <2>1, <2>2, LeaveStep
<1> QED
  BY <1>3, <1>4 DEF ProcEndTran

\* ENDOFALGO: the only code PROC_OVER of the file.
LEMMA ProcEndOfAlgoKeeps == ASSUME EngineInv, ProcEndOfAlgo PROVE EngineInv'
<1>1. /\ Types /\ UNCHANGED <<algo, algoBuffer>>
      /\ mode = "step" /\ Top.kind = "process"
      /\ Leave(PROC_OVER) /\ UNCHANGED <<cs, log, faults>>
  BY DEF EngineInv, ProcEndOfAlgo, Fetched, Stepping
<1>2. BytesOK' /\ LogKept /\ cs' \in {"high", "low"}
  BY <1>1, BytesUnchanged DEF Types, LogKept
<1>3. PROC_OVER \in ReturnCodes /\ PROC_OVER # PROC_FAIL
  BY DEF ReturnCodes, PROC_OVER, PROC_FAIL
<1> QED
  BY <1>1, <1>2, <1>3, LeaveStep

\* Any other byte returns on the spot.
LEMMA ProcUnrecognizedKeeps == ASSUME EngineInv, ProcUnrecognized PROVE EngineInv'
<1>1. /\ UNCHANGED <<algo, algoBuffer>> /\ UnchangedHw
      /\ mode = "step" /\ Top.kind = "process" /\ Return(ERROR_PROC_ALGO, 0)
  BY DEF ProcUnrecognized, Fetched, Stepping
<1> QED
  BY <1>1, BytesUnchanged, HwUnchanged, ReturnStep

\* A call it made has returned; it was not PROC_OVER.
LEMMA ProcResumeKeeps == ASSUME EngineInv, ProcResume PROVE EngineInv'
<1>1. /\ Types /\ Frames /\ stack # <<>>
      /\ mode = "return" /\ Top.kind = "process" /\ UNCHANGED <<algo, algoBuffer>>
  BY DEF EngineInv, Running, ProcResume
<1>2. BytesOK'
  BY <1>1, BytesUnchanged
<1> DEFINE code == IF Top.op = LOOP /\ ret <= 0 THEN ERROR_LOOP_COND ELSE ret
<1>3. CASE code = PROC_COMPLETE
  <2>1. Goto(Top) /\ UnchangedHw
    BY <1>3 DEF ProcResume
  <2>2. Top \in Frame /\ NotEnded(Top)
    <3>1. 1 \in 1..Len(stack)
      BY <1>1 DEF Types
    <3> QED
      BY <1>1, <3>1, TopRead DEF Frames, Top
  <2>3. StackKept /\ mode' = "step"
    BY <1>1, <2>1, <2>2, GotoKeeps
  <2> QED
    BY <1>1, <1>2, <2>1, <2>3, HwUnchanged, ProcessStep
<1>4. CASE code # PROC_COMPLETE
  <2>1. Leave(code) /\ UNCHANGED <<cs, log, faults>>
    BY <1>4 DEF ProcResume
  <2>2. code \in ReturnCodes
    BY <1>1 DEF Types, ReturnCodes
  <2>3. code = PROC_FAIL => log' # <<>> /\ log'[Len(log')] = <<"trst", "failed">>
    BY <1>1, <2>1 DEF EngineInv, FailTold, ERROR_LOOP_COND, PROC_FAIL
  <2>4. LogKept /\ cs' \in {"high", "low"}
    BY <1>1, <2>1 DEF Types, LogKept
  <2> HIDE DEF code
  <2> QED
    BY <1>1, <1>2, <2>1, <2>2, <2>3, <2>4, LeaveStep
<1> QED
  BY <1>3, <1>4

\* Every step of SSPIEm_process() keeps the invariant.
LEMMA ProcessKeeps == ASSUME EngineInv, Process PROVE EngineInv'
BY ProcEndKeeps, ProcCommentKeeps, ProcStartTranKeeps, ProcTransKeeps, ProcRunClockKeeps,
   ProcWaitKeeps, ProcRepeatKeeps, ProcLoopKeeps, ProcTrstToggleKeeps, ProcResetDataKeeps,
   ProcEndTranKeeps, ProcEndOfAlgoKeeps, ProcUnrecognizedKeeps, ProcResumeKeeps
   DEF Process

-----------------------------------------------------------------------------
(* proc_TRANS(). *)

\* The next opcode of a transmission, or the end of its buffer.
LEMMA FetchStep ==
    ASSUME EngineInv, mode \in {"step", "return"}, Top.kind = "trans",
           NEW f \in Frame, f.kind = Top.kind, f.src = Top.src,
           NEW i \in Nat, NEW c \in Byte, Fetch(f, i, c),
           LogKept, UNCHANGED <<algo, algoBuffer>>, cs' \in {"high", "low"}, UNCHANGED <<port, files>>
    PROVE  EngineInv'
<1>1. Types /\ Frames /\ stack # <<>> /\ BytesOK'
  BY BytesUnchanged DEF EngineInv, Running
<1>2. CASE Avail(f.src, i)
  <2> DEFINE op == ByteAt(f.src, i, c)
             g == Moved(f, i + 1, op)
  <2>1. op \in Byte
    BY <1>1, TopRead, ByteRead DEF Types
  <2>2. g \in Frame /\ g.kind = Top.kind /\ g.src = Top.src
    <3> HIDE DEF op
    <3> QED
      BY <2>1, NextFrame
  <2>3. Goto(g) /\ NotEnded(g)
    BY <1>2, <2>2 DEF Fetch, Moved, NotEnded
  <2> HIDE DEF g
  <2>4. StackKept /\ mode' = "step"
    BY <1>1, <2>2, <2>3, GotoKeeps
  <2> QED
    BY <1>1, <2>4, InnerStep
<1>3. CASE ~Avail(f.src, i)
  <2>1. Return(ERROR_PROC_ALGO, i)
    BY <1>3 DEF Fetch
  <2>2. ERROR_PROC_ALGO \in ReturnCodes /\ ERROR_PROC_ALGO # PROC_OVER /\ ERROR_PROC_ALGO # PROC_FAIL
    BY DEF ReturnCodes, ERROR_PROC_ALGO, PROC_OVER, PROC_FAIL
  <2>3. StackKept /\ ret' = ERROR_PROC_ALGO
    BY <1>1, <2>1, <2>2, ReturnKeeps
  <2> QED
    BY <1>1, <2>2, <2>3, InnerStep
<1> QED
  BY <1>2, <1>3

\* The end of a transmission, or of a loop.
LEMMA InnerReturn ==
    ASSUME EngineInv, mode \in {"step", "return"}, Top.kind # "process",
           NEW code \in ReturnCodes, code \notin {PROC_FAIL, PROC_OVER},
           NEW used \in Nat, Return(code, used),
           LogKept, UNCHANGED <<algo, algoBuffer>>, cs' \in {"high", "low"}, UNCHANGED <<port, files>>
    PROVE  EngineInv'
<1>1. Types /\ Frames /\ stack # <<>> /\ BytesOK'
  BY BytesUnchanged DEF EngineInv, Running
<1>2. StackKept /\ ret' = code
  BY <1>1, ReturnKeeps
<1> QED
  BY <1>1, <1>2, InnerStep

\* The codes that end a transmission or a loop with an error are no PROC_FAIL.
LEMMA ErrorCodes ==
    /\ ERROR_PROC_ALGO \in ReturnCodes /\ ERROR_PROC_ALGO \notin {PROC_FAIL, PROC_OVER}
    /\ ERROR_INIT_DATA \in ReturnCodes /\ ERROR_INIT_DATA \notin {PROC_FAIL, PROC_OVER}
    /\ ERROR_PROC_HARDWARE \in ReturnCodes /\ ERROR_PROC_HARDWARE \notin {PROC_FAIL, PROC_OVER}
    /\ \A f : Verdict(f) \in ReturnCodes /\ Verdict(f) \notin {PROC_FAIL, PROC_OVER}
BY DEF ReturnCodes, Verdict, ERROR_PROC_ALGO, ERROR_INIT_DATA, ERROR_PROC_HARDWARE,
       ERROR_VERIFICATION, PROC_FAIL, PROC_OVER, PROC_COMPLETE

\* A call that never returns.
LEMMA InnerHang ==
    ASSUME EngineInv, mode = "step", Top.kind # "process", Hang,
           UNCHANGED <<algo, algoBuffer>>, UnchangedHw
    PROVE  EngineInv'
<1>1. Types /\ Frames /\ stack # <<>> /\ BytesOK'
  BY BytesUnchanged DEF EngineInv, Running
<1>2. StackKept /\ mode' = "hung"
  BY <1>1, HangKeeps
<1> QED
  BY <1>1, <1>2, HwUnchanged, InnerStep

\* What holds when proc_TRANS() looks at an opcode.
LEMMA AtTrans ==
    ASSUME EngineInv, NEW op, At(op)
    PROVE  /\ Types /\ stack # <<>> /\ mode = "step" /\ Top.kind = "trans" /\ Top.op = op
           /\ Top \in Frame /\ Top.src \in Source /\ Top.idx \in Nat /\ Top.op \in Byte
           /\ Top.trCount \in Nat
<1>1. Types /\ stack # <<>> /\ mode = "step" /\ Top.kind = "trans" /\ Top.op = op
  BY DEF EngineInv, Running, At, Stepping
<1> QED
  BY <1>1, TopRead

\* The calls below that leave the pins alone.
LEMMA PinsUnchanged ==
    ASSUME EngineInv, UnchangedPins
    PROVE  cs' \in {"high", "low"} /\ UNCHANGED <<port, files>>
BY DEF EngineInv, Types, UnchangedPins

\* HCOMMENT within a transmission.
LEMMA TransCommentKeeps == ASSUME EngineInv, TransComment PROVE EngineInv'
<1>1. At(HCOMMENT) /\ UNCHANGED <<algo, algoBuffer>> /\ UnchangedHw
  BY DEF TransComment, At
<1>2. /\ Types /\ stack # <<>> /\ mode = "step" /\ Top.kind = "trans"
      /\ Top \in Frame /\ Top.src \in Source /\ Top.idx \in Nat
  BY <1>1, AtTrans
<1> DEFINE end == CommentEnd(Top.src, Top.idx)
<1>3. end \in Nat \cup {Endless}
  BY <1>2, CommentRead DEF Types
<1>4. CASE end = Endless
  <2>1. Hang
    BY <1>4 DEF TransComment, Endless, PROC_FAIL
  <2> QED
    BY <1>1, <1>2, <2>1, InnerHang
<1>5. CASE end # Endless /\ end = PROC_FAIL
  <2>1. Return(ERROR_PROC_ALGO, Top.idx)
    BY <1>5 DEF TransComment, GiveUp
  <2> QED
    BY <1>1, <1>2, <2>1, HwUnchanged, ErrorCodes, InnerReturn
<1>6. CASE end # Endless /\ end # PROC_FAIL
  <2>1. Fetch(Top, end, HCOMMENT) /\ end \in Nat
    BY <1>3, <1>6 DEF TransComment
  <2>2. HCOMMENT \in Byte
    BY DEF HCOMMENT, Byte
  <2> QED
    BY <1>1, <1>2, <2>1, <2>2, HwUnchanged, FetchStep
<1> QED
  BY <1>4, <1>5, <1>6

\* Without a number the transmission ends, or never does.
LEMMA TransNoNumber ==
    ASSUME EngineInv, NEW op, At(op), UNCHANGED algoBuffer, UnchangedHw,
           Hang \/ GiveUp(ERROR_PROC_ALGO)
    PROVE  EngineInv'
<1>1. /\ stack # <<>> /\ mode = "step" /\ Top.kind = "trans" /\ Top.idx \in Nat
      /\ UNCHANGED <<algo, algoBuffer>>
  BY AtTrans DEF At
<1>2. CASE Hang
  BY <1>1, <1>2, InnerHang
<1>3. CASE GiveUp(ERROR_PROC_ALGO)
  <2>1. Return(ERROR_PROC_ALGO, Top.idx)
    BY <1>3 DEF GiveUp
  <2> QED
    BY <1>1, <2>1, HwUnchanged, ErrorCodes, InnerReturn
<1> QED
  BY <1>2, <1>3

\* The transmission goes on, on the frame itself.
LEMMA TransGoesOn ==
    ASSUME EngineInv, NEW op, At(op), UNCHANGED algoBuffer,
           NEW f \in Frame, f.kind = Top.kind, f.src = Top.src,
           NEW i \in Nat, NEW c \in Byte, Fetch(f, i, c),
           LogKept, UnchangedPins
    PROVE  EngineInv'
<1>1. mode = "step" /\ Top.kind = "trans" /\ UNCHANGED <<algo, algoBuffer>>
  BY AtTrans DEF At
<1> QED
  BY <1>1, PinsUnchanged, FetchStep

\* The transmission ends with an error.
LEMMA TransGivesUp ==
    ASSUME EngineInv, NEW op, At(op), UNCHANGED algoBuffer,
           NEW code \in ReturnCodes, code \notin {PROC_FAIL, PROC_OVER}, GiveUp(code),
           LogKept, UnchangedPins
    PROVE  EngineInv'
<1>1. mode = "step" /\ Top.kind = "trans" /\ Top.idx \in Nat /\ UNCHANGED <<algo, algoBuffer>>
  BY AtTrans DEF At
<1>2. Return(code, Top.idx)
  BY DEF GiveUp
<1> QED
  BY <1>1, <1>2, PinsUnchanged, InnerReturn

\* Without a call of the layers below the pins and the log are as they were.
LEMMA PinsOfHw == ASSUME EngineInv, UnchangedHw PROVE UnchangedPins /\ LogKept
BY HwUnchanged DEF UnchangedHw, hwVars, UnchangedPins

\* The opcodes proc_TRANS() passes on are bytes.
LEMMA OpcodesAreBytes ==
    {STARTTRAN, TRANSOUT, TRANSIN, RUNCLOCK, ENDTRAN, MASK, ALGODATA, PROGDATA, RESETDATA,
     PROGDATAEH, WAIT, REPEAT, LOOP, HCOMMENT} \subseteq Byte
BY DEF STARTTRAN, TRANSOUT, TRANSIN, RUNCLOCK, ENDTRAN, MASK, ALGODATA, PROGDATA, RESETDATA,
       PROGDATAEH, WAIT, REPEAT, LOOP, HCOMMENT, Byte

\* WAIT within a transmission.
LEMMA TransWaitKeeps == ASSUME EngineInv, TransWait PROVE EngineInv'
<1> DEFINE n == Number(Top.src, Top.idx)
<1>1. At(WAIT)
  BY DEF TransWait, TransNumber
<1>2. /\ Types /\ stack # <<>> /\ Top \in Frame /\ Top.idx \in Nat
  BY <1>1, AtTrans
<1>3. CASE n.val \in {Endless, PROC_FAIL}
  BY <1>1, <1>3, TransNoNumber DEF TransWait, TransNumber, Endless, PROC_FAIL
<1>4. CASE n.val \notin {Endless, PROC_FAIL}
  <2>1. Done("wait") /\ Fetch(Top, n.next, WAIT) /\ UNCHANGED algoBuffer /\ UnchangedPins
    BY <1>4 DEF TransWait, TransNumber, Endless, PROC_FAIL
  <2>2. n.next \in Nat
    BY <1>2, <1>4, NumberCases
  <2>3. LogKept
    BY <1>2, <2>1, DoneKeeps DEF Words
  <2> HIDE DEF n
  <2> QED
    BY <1>1, <1>2, <2>1, <2>2, <2>3, OpcodesAreBytes, TransGoesOn
<1> QED
  BY <1>3, <1>4

\* RUNCLOCK within a transmission.
LEMMA TransRunClockKeeps == ASSUME EngineInv, TransRunClock PROVE EngineInv'
<1> DEFINE n == Number(Top.src, Top.idx)
<1>1. At(RUNCLOCK)
  BY DEF TransRunClock, TransNumber
<1>2. /\ Types /\ stack # <<>> /\ Top \in Frame /\ Top.idx \in Nat
  BY <1>1, AtTrans
<1>3. CASE n.val \in {Endless, PROC_FAIL}
  BY <1>1, <1>3, TransNoNumber DEF TransRunClock, TransNumber, Endless, PROC_FAIL
<1>4. CASE n.val \notin {Endless, PROC_FAIL}
  <2>1. Sent("clk") /\ Fetch(Top, n.next, RUNCLOCK) /\ UNCHANGED algoBuffer /\ UnchangedPins
    BY <1>4 DEF TransRunClock, TransNumber, Endless, PROC_FAIL
  <2>2. n.next \in Nat
    BY <1>2, <1>4, NumberCases
  <2>3. LogKept
    BY <1>2, <2>1, SentKeeps DEF Words
  <2> HIDE DEF n
  <2> QED
    BY <1>1, <1>2, <2>1, <2>2, <2>3, OpcodesAreBytes, TransGoesOn
<1> QED
  BY <1>3, <1>4

\* A transmission that changes its direction, or has seen a mismatch.
Directed(f, n, in) == [f EXCEPT !.trCount = n, !.transin = in]
\* A frame that has found a mismatch.
Mismatched(f) == [f EXCEPT !.mismatch = TRUE]

\* Setting size and direction keeps what kind of frame it is and what it reads.
LEMMA DirectedFrame ==
    ASSUME NEW f \in Frame, NEW n \in Nat, NEW in \in BOOLEAN
    PROVE  Directed(f, n, in) \in Frame /\ Directed(f, n, in).kind = f.kind
           /\ Directed(f, n, in).src = f.src
<1>1. [f EXCEPT !.trCount = n, !.transin = in] \in Frame
  BY DEF Frame
<1> QED
  BY <1>1 DEF Frame, Directed

\* So does finding a mismatch.
LEMMA MismatchedFrame ==
    ASSUME NEW f \in Frame
    PROVE  Mismatched(f) \in Frame /\ Mismatched(f).kind = f.kind /\ Mismatched(f).src = f.src
<1>1. [f EXCEPT !.mismatch = TRUE] \in Frame
  BY DEF Frame
<1> QED
  BY <1>1 DEF Frame, Mismatched

\* A number of bits fills a number of bytes.
LEMMA BytesOfBits == ASSUME NEW n \in Nat PROVE Bytes(n) \in Nat
BY DEF Bytes

\* TRANSIN
LEMMA TransInKeeps == ASSUME EngineInv, TransIn PROVE EngineInv'
<1> DEFINE n == Number(Top.src, Top.idx)
<1>1. At(TRANSIN)
  BY DEF TransIn, TransNumber
<1>2. /\ Types /\ stack # <<>> /\ Top \in Frame /\ Top.idx \in Nat
  BY <1>1, AtTrans
<1>3. CASE n.val \in {Endless, PROC_FAIL}
  BY <1>1, <1>3, TransNoNumber DEF TransIn, TransNumber, Endless, PROC_FAIL
<1>4. CASE n.val \notin {Endless, PROC_FAIL}
  <2> DEFINE f == Directed(Top, n.val, TRUE)
  <2>1. Fetch(f, n.next, TRANSIN) /\ UNCHANGED algoBuffer /\ UnchangedHw
    BY <1>4 DEF TransIn, TransNumber, Directed, Endless, PROC_FAIL
  <2>2. n.next \in Nat /\ n.val \in Nat
    BY <1>2, <1>4, NumberCases
  <2>3. f \in Frame /\ f.kind = Top.kind /\ f.src = Top.src
    <3> HIDE DEF n
    <3> QED
      BY <1>2, <2>2, DirectedFrame
  <2> HIDE DEF n, f
  <2> QED
    BY <1>1, <1>2, <2>1, <2>2, <2>3, PinsOfHw, OpcodesAreBytes, TransGoesOn
<1> QED
  BY <1>3, <1>4

\* REPEAT within a transmission.
LEMMA TransRepeatKeeps == ASSUME EngineInv, TransRepeat PROVE EngineInv'
<1> DEFINE n == Number(Top.src, Top.idx)
<1>1. At(REPEAT)
  BY DEF TransRepeat, TransNumber
<1>2. /\ Types /\ stack # <<>> /\ Top \in Frame /\ Top.idx \in Nat
      /\ mode = "step" /\ Top.kind = "trans" /\ UNCHANGED algo
  BY <1>1, AtTrans DEF At
<1>3. CASE n.val \in {Endless, PROC_FAIL}
  BY <1>1, <1>3, TransNoNumber DEF TransRepeat, TransNumber, Endless, PROC_FAIL
<1>4. CASE n.val \notin {Endless, PROC_FAIL}
  <2>1. CallLoop(REPEAT, n.val, n.next)
    BY <1>4 DEF TransRepeat, TransNumber, Endless, PROC_FAIL
  <2>2. n.next \in Nat /\ n.val \in Nat
    BY <1>2, <1>4, NumberCases
  <2> HIDE DEF n
  <2> QED
    BY <1>2, <2>1, <2>2, CallLoopKeeps
<1> QED
  BY <1>3, <1>4

\* MASK
LEMMA TransMaskKeeps == ASSUME EngineInv, TransMask PROVE EngineInv'
<1>1. At(MASK) /\ UNCHANGED algoBuffer /\ UnchangedHw
  BY DEF TransMask
<1>2. Types /\ stack # <<>> /\ Top \in Frame /\ Top.idx \in Nat /\ Top.trCount \in Nat
  BY <1>1, AtTrans
<1> DEFINE n == IF Top.trCount <= MAX_MASKSIZE THEN Bytes(Top.trCount) ELSE 0
<1>3. n \in Nat
  BY <1>2, BytesOfBits
<1>4. CASE HasBytes(Top.src, Top.idx, n)
  <2>1. Fetch(Top, Top.idx + n, MASK) /\ Top.idx + n \in Nat
    BY <1>2, <1>3, <1>4 DEF TransMask
  <2> QED
    BY <1>1, <1>2, <2>1, PinsOfHw, OpcodesAreBytes, TransGoesOn
<1>5. CASE ~HasBytes(Top.src, Top.idx, n)
  <2>1. GiveUp(ERROR_PROC_ALGO)
    BY <1>5 DEF TransMask
  <2> QED
    BY <1>1, <2>1, PinsOfHw, ErrorCodes, TransGivesUp
<1> QED
  BY <1>4, <1>5

\* TRANSOUT
LEMMA TransOutKeeps == ASSUME EngineInv, TransOut PROVE EngineInv'
<1> DEFINE n == Number(Top.src, Top.idx)
<1>1. At(TRANSOUT) /\ UNCHANGED algoBuffer
  BY DEF TransOut, TransNumber
<1>2. /\ Types /\ stack # <<>> /\ Top \in Frame /\ Top.src \in Source /\ Top.idx \in Nat
  BY <1>1, AtTrans
<1>3. CASE n.val \in {Endless, PROC_FAIL}
  BY <1>1, <1>3, TransNoNumber DEF TransOut, TransNumber, Endless, PROC_FAIL
<1>4. CASE n.val \notin {Endless, PROC_FAIL}
  <2> DEFINE f == Directed(Top, n.val, FALSE)
             kind == ByteAt(Top.src, n.next, TRANSOUT)
  <2>1. n.next \in Nat /\ n.val \in Nat
    BY <1>2, <1>4, NumberCases
  <2>2. f \in Frame /\ f.kind = Top.kind /\ f.src = Top.src
    <3> HIDE DEF n
    <3> QED
      BY <1>2, <2>1, DirectedFrame
  <2>3. kind \in Byte
    <3> HIDE DEF n
    <3> QED
      BY <1>2, <2>1, OpcodesAreBytes, ByteRead DEF Types
  <2>4. n.next + 1 + Bytes(n.val) \in Nat /\ n.next + 1 \in Nat
    <3> HIDE DEF n
    <3> QED
      BY <2>1, BytesOfBits
  <2>5. \/ Sent("tx") /\ Fetch(f, n.next + 1 + Bytes(n.val), kind) /\ UnchangedPins
        \/ Sent("tx") /\ Fetch(f, n.next + 1, kind) /\ UnchangedPins
        \/ Fault("tx", "failed") /\ GiveUp(ERROR_INIT_DATA) /\ UnchangedPins
        \/ GiveUp(ERROR_PROC_ALGO) /\ UnchangedHw
    BY <1>4, Zenon DEF TransOut, TransNumber, SendData, Directed, Endless, PROC_FAIL
  <2> HIDE DEF n, f, kind
  <2>6. CASE Sent("tx") /\ Fetch(f, n.next + 1 + Bytes(n.val), kind) /\ UnchangedPins
    <3>1. LogKept
      BY <1>2, <2>6, SentKeeps DEF Words
    <3> QED
      BY <1>1, <2>2, <2>3, <2>4, <2>6, <3>1, TransGoesOn
  <2>7. CASE Sent("tx") /\ Fetch(f, n.next + 1, kind) /\ UnchangedPins
    <3>1. LogKept
      BY <1>2, <2>7, SentKeeps DEF Words
    <3> QED
      BY <1>1, <2>2, <2>3, <2>4, <2>7, <3>1, TransGoesOn
  <2>8. CASE Fault("tx", "failed") /\ GiveUp(ERROR_INIT_DATA) /\ UnchangedPins
    <3>1. LogKept
      BY <1>2, <2>8, FaultKeeps DEF Words
    <3> QED
      BY <1>1, <2>8, <3>1, ErrorCodes, TransGivesUp
  <2>9. CASE GiveUp(ERROR_PROC_ALGO) /\ UnchangedHw
    BY <1>1, <2>9, PinsOfHw, ErrorCodes, TransGivesUp
  <2> QED
    BY <2>5, <2>6, <2>7, <2>8, <2>9
<1> QED
  BY <1>3, <1>4

\* What a transfer leaves in currentByte is a byte.
LEMMA LastByteRead ==
    ASSUME BytesOK, NEW src \in Source, NEW i \in Nat, NEW n \in Nat, NEW old \in Byte
    PROVE  LastByte(src, i, n, old) \in Byte
<1>1. CASE n = 0
  BY <1>1 DEF LastByte
<1>2. CASE n # 0
  <2>1. i + n - 1 \in Nat /\ 255 \in Byte
    BY <1>2 DEF Byte
  <2>2. ByteAt(src, i + n - 1, old) \in Byte
    BY <2>1, ByteRead
  <2> QED
    BY <1>2, <2>1, <2>2 DEF LastByte
<1> QED
  BY <1>1, <1>2

\* A comparison, of what was received or of what a read that failed left there.
Compared == Done("rx") \/ \E how \in {"mismatch", "lost", "stale"} : Fault("rx", how)

LEMMA ComparedKeeps == ASSUME Types, Compared PROVE LogKept
BY DoneKeeps, FaultKeeps DEF Compared, Words

\* ALGODATA: sent, or received and compared.
LEMMA TransAlgoDataKeeps == ASSUME EngineInv, TransAlgoData PROVE EngineInv'
<1>1. At(ALGODATA) /\ UNCHANGED algoBuffer /\ UnchangedPins
  BY DEF TransAlgoData
<1>2. /\ Types /\ stack # <<>> /\ Top \in Frame /\ Top.src \in Source /\ Top.idx \in Nat
      /\ Top.op \in Byte /\ Top.trCount \in Nat
  BY <1>1, AtTrans
<1> DEFINE n == Bytes(Top.trCount)
           c == LastByte(Top.src, Top.idx, n, ALGODATA)
           f == Mismatched(Top)
<1>3. n \in Nat
  BY <1>2, BytesOfBits
<1>4. c \in Byte /\ Top.idx + n \in Nat
  <2> HIDE DEF n
  <2> QED
    BY <1>2, <1>3, LastByteRead, OpcodesAreBytes DEF Types
<1>5. f \in Frame /\ f.kind = Top.kind /\ f.src = Top.src
  BY <1>2, MismatchedFrame
<1>6. \/ Sent("tx") /\ Fetch(Top, Top.idx, Top.op)
      \/ Compared /\ Fetch(Top, Top.idx + n, c)
      \/ Compared /\ Fetch(f, Top.idx + n, c)
      \/ Compared /\ GiveUp(ERROR_PROC_ALGO)
  BY Zenon DEF TransAlgoData, Received, Compared, FetchNext, Mismatched
<1> HIDE DEF n, c, f
<1>7. LogKept
  BY <1>2, <1>6, SentKeeps, ComparedKeeps DEF Words
<1>8. CASE Fetch(Top, Top.idx, Top.op)
  BY <1>1, <1>2, <1>7, <1>8, TransGoesOn
<1>9. CASE Fetch(Top, Top.idx + n, c)
  BY <1>1, <1>2, <1>4, <1>7, <1>9, TransGoesOn
<1>10. CASE Fetch(f, Top.idx + n, c)
  BY <1>1, <1>4, <1>5, <1>7, <1>10, TransGoesOn
<1>11. CASE GiveUp(ERROR_PROC_ALGO)
  BY <1>1, <1>7, <1>11, ErrorCodes, TransGivesUp
<1> QED
  BY <1>6, <1>8, <1>9, <1>10, <1>11

\* PROGDATA and PROGDATAEH: sent, or received and compared.
LEMMA TransProgDataKeeps == ASSUME EngineInv, TransProgData PROVE EngineInv'
<1>1. PICK op \in {PROGDATA, PROGDATAEH} :
        /\ At(op)
        /\ IF ~Top.transin THEN SendData(FetchNext)
           ELSE \/ Received(FetchNext,
                            IF op = PROGDATA THEN FetchNext
                            ELSE Fetch([Top EXCEPT !.mismatch = TRUE], Top.idx, op))
                \/ Fault("rx", "failed") /\ GiveUp(ERROR_INIT_DATA)
  BY DEF TransProgData
<1>2. UNCHANGED algoBuffer /\ UnchangedPins
  BY DEF TransProgData
<1>3. /\ Types /\ stack # <<>> /\ Top \in Frame /\ Top.src \in Source /\ Top.idx \in Nat
      /\ Top.op \in Byte
  BY <1>1, AtTrans
<1> DEFINE f == Mismatched(Top)
<1>4. f \in Frame /\ f.kind = Top.kind /\ f.src = Top.src /\ op \in Byte
  BY <1>3, MismatchedFrame, OpcodesAreBytes
<1>5. \/ Sent("tx") /\ Fetch(Top, Top.idx, Top.op)
      \/ Fault("tx", "failed") /\ GiveUp(ERROR_INIT_DATA)
      \/ Compared /\ Fetch(Top, Top.idx, Top.op)
      \/ Compared /\ Fetch(f, Top.idx, op)
      \/ Fault("rx", "failed") /\ GiveUp(ERROR_INIT_DATA)
  BY <1>1, Zenon DEF SendData, Received, Compared, FetchNext, Mismatched
<1> HIDE DEF f
<1>6. LogKept
  BY <1>3, <1>5, SentKeeps, ComparedKeeps, FaultKeeps DEF Words
<1>7. CASE Fetch(Top, Top.idx, Top.op)
  BY <1>1, <1>2, <1>3, <1>6, <1>7, TransGoesOn
<1>8. CASE Fetch(f, Top.idx, op)
  BY <1>1, <1>2, <1>3, <1>4, <1>6, <1>8, TransGoesOn
<1>9. CASE GiveUp(ERROR_INIT_DATA)
  BY <1>1, <1>2, <1>6, <1>9, ErrorCodes, TransGivesUp
<1> QED
  BY <1>5, <1>7, <1>8, <1>9

\* ENDTRAN within a transmission.
LEMMA TransEndTranKeeps == ASSUME EngineInv, TransEndTran PROVE EngineInv'
<1>1. /\ At(ENDTRAN) /\ UNCHANGED <<algo, algoBuffer, port, files>> /\ cs' \in {"high", "low"}
      /\ \/ Done("end") /\ Return(Verdict(Top), Top.idx)
         \/ Fault("end", "failed") /\ Return(ERROR_PROC_HARDWARE, Top.idx)
  BY DEF TransEndTran, GiveUp, At
<1>2. Types /\ mode = "step" /\ Top.kind = "trans" /\ Top.idx \in Nat
  BY <1>1, AtTrans
<1>3. LogKept
  BY <1>1, <1>2, DoneKeeps, FaultKeeps DEF Words
<1>4. CASE Return(Verdict(Top), Top.idx)
  BY <1>1, <1>2, <1>3, <1>4, ErrorCodes, InnerReturn
<1>5. CASE Return(ERROR_PROC_HARDWARE, Top.idx)
  BY <1>1, <1>2, <1>3, <1>5, ErrorCodes, InnerReturn
<1> QED
  BY <1>1, <1>4, <1>5

\* A REPEAT within the transmission has returned.
LEMMA TransResumeKeeps == ASSUME EngineInv, TransResume PROVE EngineInv'
<1>1. /\ mode = "return" /\ Top.kind = "trans" /\ UNCHANGED <<algo, algoBuffer>> /\ UnchangedHw
      /\ Return(ERROR_PROC_ALGO, Top.idx) \/ Fetch(Top, Top.idx, Top.op)
  BY DEF TransResume, GiveUp, FetchNext
<1>2. /\ Types /\ stack # <<>>
  BY <1>1 DEF EngineInv, Running
<1>3. Top \in Frame /\ Top.idx \in Nat /\ Top.op \in Byte
  BY <1>2, TopRead
<1>4. CASE Return(ERROR_PROC_ALGO, Top.idx)
  BY <1>1, <1>3, <1>4, HwUnchanged, ErrorCodes, InnerReturn
<1>5. CASE Fetch(Top, Top.idx, Top.op)
  BY <1>1, <1>3, <1>5, HwUnchanged, FetchStep
<1> QED
  BY <1>1, <1>4, <1>5

\* RESETDATA within a transmission.
LEMMA TransResetDataKeeps == ASSUME EngineInv, TransResetData PROVE EngineInv'
<1>1. /\ At(RESETDATA) /\ UNCHANGED algoBuffer /\ UnchangedPins
      /\ Done("reset") \/ Fault("reset", "failed")
      /\ Fetch(Top, Top.idx, Top.op)
  BY DEF TransResetData, FetchNext
<1>2. Types /\ Top \in Frame /\ Top.idx \in Nat /\ Top.op \in Byte
  BY <1>1, AtTrans
<1>3. LogKept
  BY <1>1, <1>2, DoneKeeps, FaultKeeps DEF Words
<1> QED
  BY <1>1, <1>2, <1>3, TransGoesOn

\* Any other byte ends the transmission with an error.
LEMMA TransUnrecognizedKeeps == ASSUME EngineInv, TransUnrecognized PROVE EngineInv'
<1>1. /\ At(Top.op) /\ UNCHANGED <<algo, algoBuffer>> /\ UnchangedHw
      /\ Return(ERROR_PROC_ALGO, Top.idx) \/ Return(Verdict(Top), Top.idx)
  BY DEF TransUnrecognized, GiveUp, At
<1>2. mode = "step" /\ Top.kind = "trans" /\ Top.idx \in Nat
  BY <1>1, AtTrans
<1>3. CASE Return(ERROR_PROC_ALGO, Top.idx)
  BY <1>1, <1>2, <1>3, HwUnchanged, ErrorCodes, InnerReturn
<1>4. CASE Return(Verdict(Top), Top.idx)
  BY <1>1, <1>2, <1>4, HwUnchanged, ErrorCodes, InnerReturn
<1> QED
  BY <1>1, <1>3, <1>4

\* Every step of proc_TRANS() keeps the invariant.
LEMMA TransKeeps == ASSUME EngineInv, Trans PROVE EngineInv'
BY TransCommentKeeps, TransWaitKeeps, TransRunClockKeeps, TransOutKeeps, TransInKeeps,
   TransMaskKeeps, TransAlgoDataKeeps, TransProgDataKeeps, TransEndTranKeeps,
   TransRepeatKeeps, TransResumeKeeps, TransResetDataKeeps, TransUnrecognizedKeeps
   DEF Trans

-----------------------------------------------------------------------------
(* proc_LOOP() and proc_REPEAT(). *)

\* A loop that scans on, or that begins an iteration, its frame changed.
Scanned(f, i, op, nest) == [f EXCEPT !.idx = i, !.op = op, !.nest = nest, !.size = @ + 1]
\* A loop that has found the end of its body.
Measured(f, i) == [f EXCEPT !.scanning = FALSE, !.idx = i]
\* A loop that has run its body once more.
Counted(f) == [f EXCEPT !.count = @ + 1]

\* Scanning keeps what kind of frame it is and what it reads.
LEMMA ScannedFrame ==
    ASSUME NEW f \in Frame, NEW i \in Nat, NEW op \in Byte, NEW nest \in Seq({LOOP, REPEAT})
    PROVE  Scanned(f, i, op, nest) \in Frame /\ Scanned(f, i, op, nest).kind = f.kind
           /\ Scanned(f, i, op, nest).src = f.src
<1>1. f.size + 1 \in Nat
  BY DEF Frame
<1>2. [f EXCEPT !.idx = i, !.op = op, !.nest = nest, !.size = @ + 1] \in Frame
  BY <1>1 DEF Frame, Byte
<1> QED
  BY <1>2 DEF Frame, Scanned

\* So does the end of the scan.
LEMMA MeasuredFrame ==
    ASSUME NEW f \in Frame, NEW i \in Nat
    PROVE  Measured(f, i) \in Frame /\ Measured(f, i).kind = f.kind /\ Measured(f, i).src = f.src
           /\ ~Measured(f, i).scanning
<1>1. [f EXCEPT !.scanning = FALSE, !.idx = i] \in Frame
  BY DEF Frame
<1> QED
  BY <1>1 DEF Frame, Measured

\* So does counting.
LEMMA CountedFrame ==
    ASSUME NEW f \in Frame
    PROVE  Counted(f) \in Frame /\ Counted(f).kind = f.kind /\ Counted(f).src = f.src
           /\ Counted(f).scanning = f.scanning /\ Counted(f).idx \in Nat
<1>1. f.count + 1 \in Nat
  BY DEF Frame
<1>2. [f EXCEPT !.count = @ + 1] \in Frame
  BY <1>1 DEF Frame
<1> QED
  BY <1>2 DEF Frame, Counted

\* The body of a loop is executed by SSPIEm_process(), out of a buffer.
LEMMA IterateKeeps ==
    ASSUME EngineInv, mode \in {"step", "return"}, Top.kind \in Loops,
           NEW f \in Frame, f.kind = Top.kind, f.src = Top.src, ~f.scanning,
           Iterate(f), UNCHANGED <<algo, algoBuffer>>, UnchangedHw
    PROVE  EngineInv'
<1>1. Types /\ Frames /\ stack # <<>> /\ BytesOK' /\ Top.kind # "process"
  BY BytesUnchanged DEF EngineInv, Running, Loops
<1> DEFINE frame == NewFrame("process", Body(f), 0, 0)
<1>2. Body(f) \in Source /\ ~Body(f).file
  BY DEF Body, Frame, Source
<1>3. 0 \in Byte /\ 0 # ENDOFALGO /\ "process" \in Kinds
  BY DEF Byte, ENDOFALGO, Kinds
<1>4. frame \in Frame /\ frame.kind = "process" /\ ~frame.src.file /\ frame.op = 0
  BY <1>2, <1>3, CalledFrame
<1>5. Call(frame, f)
  BY DEF Iterate
<1> HIDE DEF frame
<1>6. Calls(f, frame) /\ NotEnded(f) /\ NotEnded(frame)
  BY <1>1, <1>3, <1>4 DEF Calls, NotEnded
<1>7. StackKept /\ mode' = "step"
  BY <1>1, <1>4, <1>5, <1>6, CallKeeps
<1> QED
  BY <1>1, <1>7, HwUnchanged, InnerStep

\* What holds while the body is measured.
LEMMA AtScan ==
    ASSUME EngineInv, Scanning
    PROVE  /\ Types /\ Frames /\ stack # <<>> /\ mode = "step"
           /\ Top.kind \in Loops /\ Top.kind # "process"
           /\ Top \in Frame /\ Top.src \in Source /\ Top.idx \in Nat /\ Top.size \in Nat
           /\ Top.nest \in Seq({LOOP, REPEAT}) /\ Opcode \in Byte /\ After \in Nat
           /\ UNCHANGED algo /\ UnchangedHw
<1>1. Types /\ Frames /\ stack # <<>> /\ mode = "step" /\ Top.kind \in Loops
      /\ UNCHANGED algo /\ UnchangedHw
  BY DEF EngineInv, Running, Scanning, Loops
<1> QED
  BY <1>1, TopRead DEF Loops

\* A body that is not well formed.
LEMMA ScanFails ==
    ASSUME EngineInv, Scanning, UNCHANGED algoBuffer, NEW used \in Nat,
           Return(ERROR_PROC_ALGO, used)
    PROVE  EngineInv'
BY AtScan, HwUnchanged, ErrorCodes, InnerReturn

\* A byte of the body is counted and, if it comes from the file, buffered.
LEMMA KeepKeeps ==
    ASSUME EngineInv, Scanning, NEW nest \in Seq({LOOP, REPEAT}), Keep(nest)
    PROVE  EngineInv'
<1>1. /\ Types /\ Frames /\ stack # <<>> /\ mode = "step" /\ Top.kind \in Loops
      /\ Top.kind # "process" /\ Top \in Frame /\ Top.size \in Nat
      /\ Opcode \in Byte /\ After \in Nat /\ UNCHANGED algo /\ UnchangedHw
  BY AtScan
<1>2. CASE Top.size > MAXBUF
  BY <1>1, <1>2, ScanFails DEF Keep
<1>3. CASE ~(Top.size > MAXBUF)
  <2> DEFINE f == Scanned(Top, After, Opcode, nest)
  <2>1. f \in Frame /\ f.kind = Top.kind /\ f.src = Top.src
    BY <1>1, ScannedFrame
  <2>2. Goto(f) /\ NotEnded(f)
    BY <1>1, <1>3, <2>1 DEF Keep, Scanned, NotEnded
  <2>3. BytesOK'
    <3>1. algoBuffer \in [0..MAXBUF -> Byte] /\ algo \in Seq(Byte)
      BY <1>1 DEF Types, BytesOK
    <3>2. algoBuffer' \in [0..MAXBUF -> Byte]
      BY <1>1, <1>3, <3>1 DEF Keep
    <3> QED
      BY <1>1, <3>1, <3>2 DEF BytesOK
  <2> HIDE DEF f
  <2>4. StackKept /\ mode' = "step"
    BY <1>1, <2>1, <2>2, GotoKeeps
  <2> QED
    BY <1>1, <2>3, <2>4, HwUnchanged, InnerStep
<1> QED
  BY <1>2, <1>3

\* A body that breaks off in its buffer.
LEMMA ScanEndKeeps == ASSUME EngineInv, ScanEnd PROVE EngineInv'
<1>1. Scanning /\ UNCHANGED algoBuffer /\ Return(ERROR_PROC_ALGO, Top.idx)
  BY DEF ScanEnd
<1> QED
  BY <1>1, AtScan, ScanFails

\* A comment in a body is left out.
LEMMA ScanCommentKeeps == ASSUME EngineInv, ScanComment PROVE EngineInv'
<1>1. Scanning /\ UNCHANGED algoBuffer
  BY DEF ScanComment
<1>2. /\ Types /\ Frames /\ stack # <<>> /\ mode = "step" /\ Top.kind # "process"
      /\ Top \in Frame /\ Top.src \in Source /\ After \in Nat /\ UNCHANGED algo /\ UnchangedHw
  BY <1>1, AtScan
<1> DEFINE end == CommentEnd(Top.src, After)
<1>3. end \in Nat \cup {Endless}
  BY <1>2, CommentRead DEF Types
<1>4. CASE end = Endless
  <2>1. Hang
    BY <1>4 DEF ScanComment, Endless, PROC_FAIL
  <2> QED
    BY <1>1, <1>2, <2>1, InnerHang
<1>5. CASE end # Endless /\ end = PROC_FAIL
  <2>1. Return(ERROR_PROC_ALGO, After)
    BY <1>5 DEF ScanComment
  <2> QED
    BY <1>1, <1>2, <2>1, ScanFails
<1>6. CASE end # Endless /\ end # PROC_FAIL
  <2> DEFINE f == Moved(Top, end, HCOMMENT)
  <2>1. f \in Frame /\ f.kind = Top.kind /\ f.src = Top.src
    <3>1. end \in Nat
      BY <1>3, <1>6
    <3> HIDE DEF end
    <3> QED
      BY <1>2, <3>1, OpcodesAreBytes, NextFrame
  <2>2. Goto(f) /\ NotEnded(f)
    BY <1>2, <1>6, <2>1 DEF ScanComment, Moved, NotEnded
  <2> HIDE DEF f, end
  <2>3. StackKept /\ mode' = "step"
    BY <1>2, <2>1, <2>2, GotoKeeps
  <2>4. BytesOK'
    BY <1>1, <1>2, BytesUnchanged
  <2> QED
    BY <1>2, <2>3, <2>4, HwUnchanged, InnerStep
<1> QED
  BY <1>4, <1>5, <1>6

\* A byte of the body.
LEMMA ScanByteKeeps == ASSUME EngineInv, ScanByte PROVE EngineInv'
<1> DEFINE nest == IF Opcode \in {LOOP, REPEAT} THEN <<Opcode>> \o Top.nest ELSE Top.nest
<1>1. Scanning /\ Keep(nest)
  BY DEF ScanByte
<1>2. Top.nest \in Seq({LOOP, REPEAT})
  BY <1>1, AtScan
<1>3. nest \in Seq({LOOP, REPEAT})
  <2> DEFINE S == {LOOP, REPEAT}
  <2> SUFFICES ASSUME Opcode \in S PROVE <<Opcode>> \o Top.nest \in Seq(S)
    BY <1>2
  <2>1. Top.nest \in Seq(S)
    BY <1>2
  <2> HIDE DEF S
  <2>2. <<Opcode>> \in Seq(S)
    OBVIOUS
  <2> QED
    BY <2>1, <2>2
<1> HIDE DEF nest
<1> QED
  BY <1>1, <1>3, KeepKeeps

\* The end of a loop within the body.
LEMMA ScanNestedEndKeeps == ASSUME EngineInv, ScanNestedEnd PROVE EngineInv'
<1>1. Scanning /\ Top.nest # <<>>
  BY DEF ScanNestedEnd
<1>2. Top.nest \in Seq({LOOP, REPEAT}) /\ After \in Nat
  BY <1>1, AtScan
<1>3. Tail(Top.nest) \in Seq({LOOP, REPEAT})
  BY <1>1, <1>2
<1>4. CASE Keep(Tail(Top.nest))
  BY <1>1, <1>3, <1>4, KeepKeeps
<1>5. CASE Return(ERROR_PROC_ALGO, After) /\ UNCHANGED algoBuffer
  BY <1>1, <1>2, <1>5, ScanFails
<1> QED
  BY <1>4, <1>5 DEF ScanNestedEnd

\* The end of the body: the first iteration begins.
LEMMA ScanBodyEndKeeps == ASSUME EngineInv, ScanBodyEnd PROVE EngineInv'
<1>1. Scanning /\ UNCHANGED algoBuffer
  BY DEF ScanBodyEnd
<1>2. /\ mode = "step" /\ Top.kind \in Loops /\ Top \in Frame /\ Top.size \in Nat
      /\ After \in Nat /\ UNCHANGED algo /\ UnchangedHw
  BY <1>1, AtScan
<1> DEFINE i == IF Top.src.file THEN After ELSE Top.size + 1
           f == Measured(Top, i)
<1>3. i \in Nat
  BY <1>2
<1>4. f \in Frame /\ f.kind = Top.kind /\ f.src = Top.src /\ ~f.scanning
  <2> HIDE DEF i
  <2> QED
    BY <1>2, <1>3, MeasuredFrame
<1>5. Iterate(f) \/ Return(ERROR_PROC_ALGO, After)
  BY DEF ScanBodyEnd, Measured
<1> HIDE DEF f
<1>6. CASE Iterate(f)
  BY <1>1, <1>2, <1>4, <1>6, IterateKeeps
<1>7. CASE Return(ERROR_PROC_ALGO, After)
  BY <1>1, <1>2, <1>7, ScanFails
<1> QED
  BY <1>5, <1>6, <1>7

\* An iteration has returned: the next one, or the end of the loop with the code
\* of the last.
LEMMA LoopResumeKeeps == ASSUME EngineInv, LoopResume PROVE EngineInv'
<1>1. /\ mode = "return" /\ Top.kind \in Loops /\ UNCHANGED <<algo, algoBuffer>> /\ UnchangedHw
  BY DEF LoopResume, Loops
<1>2. /\ Types /\ Frames /\ stack # <<>> /\ ~Top.scanning /\ Top.kind # "process" /\ BytesOK'
  BY <1>1, BytesUnchanged DEF EngineInv, Running, Loops
<1>3. Top \in Frame
  BY <1>2, TopRead
<1> DEFINE f == Counted(Top)
           code == IF ret <= 0 THEN ret ELSE PROC_COMPLETE
<1>4. f \in Frame /\ f.kind = Top.kind /\ f.src = Top.src /\ ~f.scanning /\ f.idx \in Nat
  BY <1>2, <1>3, CountedFrame
<1>5. Iterate(f) \/ Return(code, f.idx)
  BY DEF LoopResume, Counted
<1>6. /\ code \in ReturnCodes /\ code # PROC_OVER
      /\ code = PROC_FAIL => ret = PROC_FAIL
  BY <1>2 DEF Types, ReturnCodes, PROC_OVER, PROC_COMPLETE, PROC_FAIL
<1> HIDE DEF f, code
<1>7. CASE Iterate(f)
  BY <1>1, <1>4, <1>7, IterateKeeps
<1>8. CASE Return(code, f.idx)
  <2>1. StackKept /\ ret' = code
    BY <1>2, <1>4, <1>6, <1>8, ReturnKeeps
  <2>2. log' = log
    BY <1>1 DEF UnchangedHw, hwVars
  <2> QED
    BY <1>1, <1>2, <1>6, <2>1, <2>2, HwUnchanged, InnerStep
<1> QED
  BY <1>5, <1>7, <1>8

\* Every step of proc_LOOP() and proc_REPEAT() keeps the invariant.
LEMMA LoopRepeatKeeps == ASSUME EngineInv, LoopRepeat PROVE EngineInv'
BY ScanEndKeeps, ScanCommentKeeps, ScanByteKeeps, ScanNestedEndKeeps, ScanBodyEndKeeps,
   LoopResumeKeeps DEF LoopRepeat

-----------------------------------------------------------------------------
(* The theorems. *)

\* The interpreter begins with SSPIEm_process() on the file.
LEMMA InitEngine == Init => EngineInv
<1> SUFFICES ASSUME Init PROVE EngineInv
  OBVIOUS
<1> DEFINE src == [file |-> TRUE, base |-> 0, size |-> 0]
           frame == NewFrame("process", src, 0, 0)
<1>1. src \in Source /\ src.file /\ 0 \in Byte /\ 0 # ENDOFALGO /\ "process" \in Kinds
  BY DEF Source, Byte, ENDOFALGO, Kinds
<1>2. frame \in Frame /\ frame.kind = "process" /\ frame.src.file /\ frame.op = 0
  <2> HIDE DEF src
  <2> QED
    BY <1>1, CalledFrame
<1>3. stack = <<frame>>
  BY DEF Init
<1> HIDE DEF frame
<1>4. stack \in Seq(Frame) /\ Len(stack) = 1 /\ stack[1] = frame /\ stack # <<>>
  BY <1>2, <1>3
<1>5. BytesOK
  <2>1. algo \in Seq(Byte)
    BY AlgorithmsAssumption DEF Init, Byte
  <2>2. algoBuffer \in [0..MAXBUF -> Byte]
    BY <1>1 DEF Init
  <2> QED
    BY <2>1, <2>2 DEF BytesOK
<1>6. Types
  BY <1>4, <1>5, BoundsAssumption DEF Init, Types, ReturnCodes
<1>7. Frames
  BY <1>1, <1>2, <1>4 DEF Frames, CallChain, FileBelow, Outer, NotEnded
<1>8. Running /\ Holding /\ FailTold
  BY <1>4 DEF Init, Running, Holding, FailTold
<1> QED
  BY <1>6, <1>7, <1>8 DEF EngineInv

\* The invariant is about nothing but the variables.
LEMMA StutterEngine == ASSUME EngineInv, UNCHANGED vars PROVE EngineInv'
BY DEF EngineInv, Types, BytesOK, Frames, CallChain, FileBelow, Running, Top, Holding, FailTold,
       vars, hwVars

\* Every step of the interpreter keeps the invariant.
LEMMA NextEngine == EngineInv /\ [Next]_vars => EngineInv'
BY ProcessKeeps, TransKeeps, LoopRepeatKeeps, StutterEngine DEF Next

\* The invariant of the interpreter, whatever bytes it is given: who may have
\* called whom, who reads the file and who a buffer, what is held while it runs
\* and what a code that is returned means (SSPIEm_process(), proc_TRANS(),
\* proc_LOOP(), proc_REPEAT()).
THEOREM EngineInvariant == Spec => []EngineInv
BY InitEngine, NextEngine, PTL DEF Spec

\* Nobody changes the algorithm.
LEMMA AlgoStays == Next => UNCHANGED algo
<1>1. Process => UNCHANGED algo
  BY Zenon DEF Process, ProcEnd, ProcComment, ProcStartTran, ProcTrans, ProcRunClock, ProcWait,
     ProcRepeat, ProcLoop, ProcTrstToggle, ProcResetData, ProcEndTran, ProcEndOfAlgo,
     ProcUnrecognized, ProcResume, WithNumber, Fetched
<1>2. Trans => UNCHANGED algo
  BY Zenon DEF Trans, TransComment, TransWait, TransRunClock, TransOut, TransIn, TransMask,
     TransAlgoData, TransProgData, TransEndTran, TransRepeat, TransResume, TransResetData,
     TransUnrecognized, TransNumber, At
<1>3. LoopRepeat => UNCHANGED algo
  BY Zenon DEF LoopRepeat, ScanEnd, ScanComment, ScanByte, ScanNestedEnd, ScanBodyEnd, LoopResume,
     Scanning
<1> QED
  BY <1>1, <1>2, <1>3 DEF Next

\* Type correctness of the interpreter, for every set of algorithm files.
THEOREM TypeCorrect == Spec => []TypeOK
<1>1. Init => algo \in Algorithms
  BY DEF Init
<1>2. algo \in Algorithms /\ [Next]_vars => (algo \in Algorithms)'
  BY AlgoStays DEF vars
<1>3. EngineInv /\ algo \in Algorithms => TypeOK
  BY DEF EngineInv, Types, BytesOK, Byte, TypeOK
<1> QED
  BY <1>1, <1>2, <1>3, EngineInvariant, PTL DEF Spec

\* Only the scan of a body in the file, or the call that begins it, writes to
\* algoBuffer.
Writing == Top.src.file /\ (Top.kind \in Loops => Top.scanning)

\* Nobody else does.
LEMMA WhoWrites == EngineInv /\ Next /\ ~Writing => UNCHANGED algoBuffer
<1> SUFFICES ASSUME EngineInv, ~Writing, Next PROVE UNCHANGED algoBuffer
  OBVIOUS
<1>1. \A op, n, i : CallLoop(op, n, i) /\ ~(Top.kind \in Loops) => UNCHANGED algoBuffer
  BY DEF CallLoop, Writing
<1>2. \A nest : Keep(nest) /\ Top.scanning => UNCHANGED algoBuffer
  BY DEF Keep, Writing
<1>3. CASE Process
  <2>1. Top.kind = "process" /\ ~(Top.kind \in Loops)
    BY <1>3 DEF Process, ProcEnd, ProcComment, ProcStartTran, ProcTrans, ProcRunClock, ProcWait,
       ProcRepeat, ProcLoop, ProcTrstToggle, ProcResetData, ProcEndTran, ProcEndOfAlgo,
       ProcUnrecognized, ProcResume, WithNumber, Fetched, Stepping, Loops
  <2> QED
    BY <1>1, <1>3, <2>1
    DEF Process, ProcEnd, ProcComment, ProcStartTran, ProcTrans, ProcRunClock, ProcWait,
        ProcRepeat, ProcLoop, ProcTrstToggle, ProcResetData, ProcEndTran, ProcEndOfAlgo,
        ProcUnrecognized, ProcResume, WithNumber
<1>4. CASE Trans
  <2>1. Top.kind = "trans" /\ ~(Top.kind \in Loops)
    BY <1>4 DEF Trans, TransComment, TransWait, TransRunClock, TransOut, TransIn, TransMask,
       TransAlgoData, TransProgData, TransEndTran, TransRepeat, TransResume, TransResetData,
       TransUnrecognized, TransNumber, At, Stepping, Loops
  <2> QED
    BY <1>1, <1>4, <2>1
    DEF Trans, TransComment, TransWait, TransRunClock, TransOut, TransIn, TransMask,
        TransAlgoData, TransProgData, TransEndTran, TransRepeat, TransResume, TransResetData,
        TransUnrecognized, TransNumber
<1>5. CASE LoopRepeat
  BY <1>2, <1>5 DEF LoopRepeat, ScanEnd, ScanComment, ScanByte, ScanNestedEnd, ScanBodyEnd,
     LoopResume, Scanning
<1> QED
  BY <1>3, <1>4, <1>5 DEF Next

\* While a body is executed all that happens above its loop happens in the buffer.
LEMMA ExecutingInBuffer == EngineInv /\ Executing => ~Writing
<1> SUFFICES ASSUME EngineInv, Executing PROVE ~Writing
  OBVIOUS
<1>1. PICK i \in 1..Len(stack) : stack[i].kind \in Loops /\ stack[i].src.file /\ ~stack[i].scanning
  BY DEF Executing, Loops
<1>2. CASE i = 1
  BY <1>1, <1>2 DEF Writing, Top
<1>3. CASE i # 1
  <2>1. Len(stack) \in Nat
    BY DEF EngineInv, Types
  <2>2. i - 1 \in 1..(Len(stack) - 1) /\ i - 1 \in 1..Len(stack) /\ 1 \in 1..Len(stack)
        /\ 1 <= i - 1 /\ (i - 1) + 1 = i
    BY <1>3, <2>1
  <2>3. Calls(stack[i], stack[i - 1])
    BY <2>2 DEF EngineInv, Frames, CallChain
  <2>4. ~stack[i - 1].src.file
    BY <1>1, <2>3 DEF Calls, Loops
  <2>5. ~stack[1].src.file
    BY <2>2, <2>4 DEF EngineInv, Frames, FileBelow
  <2> QED
    BY <2>5 DEF Writing, Top
<1> QED
  BY <1>2, <1>3

\* So no step writes to a body that is executed.
LEMMA BodyKept == EngineInv /\ [Next]_vars => (Executing => UNCHANGED algoBuffer)
BY WhoWrites, ExecutingInBuffer DEF vars

\* A body that is executed out of algoBuffer is not written to, whatever the file
\* holds and however its loops nest (core.c:1037-1210, 1062-1283).
THEOREM BodiesIntact == Spec => BodyIntact
<1>1. EngineInv /\ [Next]_vars => [Executing => UNCHANGED algoBuffer]_vars
  BY BodyKept
<1> QED
  BY <1>1, EngineInvariant, PTL DEF Spec, BodyIntact

\* The port is turned off by what leaves the loop of SSPIEm_process(), with
\* PROC_OVER at an ENDOFALGO only.
LEMMA PassLeaves == EngineInv /\ Next /\ port' # port /\ ret' = PROC_OVER => ProcEndOfAlgo
<1> SUFFICES ASSUME EngineInv, Next, port' # port, ret' = PROC_OVER PROVE ProcEndOfAlgo
  OBVIOUS
<1>1. ~UnchangedHw /\ ~UnchangedPins
  BY DEF UnchangedHw, hwVars, UnchangedPins
<1>2. \A code : Leave(code) => code = PROC_OVER
  BY DEF Leave, Return
<1>3. ~Leave(ERROR_PROC_ALGO) /\ ~Leave(PROC_FAIL) /\ ~Leave(ERROR_PROC_DATA)
      /\ ~Leave(ERROR_PROC_HARDWARE)
  BY <1>2 DEF ERROR_PROC_ALGO, PROC_FAIL, ERROR_PROC_DATA, ERROR_PROC_HARDWARE, PROC_OVER
<1>4. ~Trans
  BY <1>1 DEF Trans, TransComment, TransWait, TransRunClock, TransOut, TransIn, TransMask,
     TransAlgoData, TransProgData, TransEndTran, TransRepeat, TransResume, TransResetData,
     TransUnrecognized, TransNumber, CallLoop, SendData
<1>5. ~LoopRepeat
  BY <1>1 DEF LoopRepeat, ScanEnd, ScanComment, ScanByte, ScanNestedEnd, ScanBodyEnd, LoopResume,
     Scanning
<1>6. ~ProcResume
  <2> SUFFICES ASSUME ProcResume PROVE FALSE
    OBVIOUS
  <2>1. ret # PROC_OVER
    BY DEF ProcResume, EngineInv, Running
  <2> DEFINE code == IF Top.op = LOOP /\ ret <= 0 THEN ERROR_LOOP_COND ELSE ret
  <2>2. code # PROC_OVER
    BY <2>1 DEF ERROR_LOOP_COND, PROC_OVER
  <2>3. UnchangedHw \/ Leave(code)
    BY DEF ProcResume
  <2> QED
    BY <1>1, <1>2, <2>2, <2>3
<1>7. Process
  BY <1>4, <1>5 DEF Next
<1> QED
  BY <1>1, <1>3, <1>6, <1>7
  DEF Process, ProcEnd, ProcComment, ProcStartTran, ProcTrans, ProcRunClock, ProcWait,
      ProcRepeat, ProcLoop, ProcTrstToggle, ProcResetData, ProcEndTran, ProcUnrecognized,
      WithNumber, CallLoop

\* The opcode that ended a run that passes is the file's, and not left over.
LEMMA PassReadsEnd ==
    EngineInv /\ [Next]_vars
        => (mode # "done" /\ mode' = "done" /\ ret' = PROC_OVER
              => Top.src.file /\ ByteAt(Top.src, Top.idx, 0) = ENDOFALGO)
<1> SUFFICES ASSUME EngineInv, [Next]_vars, mode # "done", mode' = "done", ret' = PROC_OVER
             PROVE  Top.src.file /\ ByteAt(Top.src, Top.idx, 0) = ENDOFALGO
  OBVIOUS
<1>1. Next /\ EngineInv'
  BY NextEngine DEF vars
<1>2. mode \in {"step", "return"}
  BY <1>1 DEF Next, Process, ProcEnd, ProcComment, ProcStartTran, ProcTrans, ProcRunClock, ProcWait,
     ProcRepeat, ProcLoop, ProcTrstToggle, ProcResetData, ProcEndTran, ProcEndOfAlgo,
     ProcUnrecognized, ProcResume, WithNumber, Fetched, Stepping,
     Trans, TransComment, TransWait, TransRunClock, TransOut, TransIn, TransMask,
     TransAlgoData, TransProgData, TransEndTran, TransRepeat, TransResume, TransResetData,
     TransUnrecognized, TransNumber, At,
     LoopRepeat, ScanEnd, ScanComment, ScanByte, ScanNestedEnd, ScanBodyEnd, LoopResume, Scanning
<1>3. port' # port
  BY <1>1, <1>2 DEF EngineInv, Holding, ERROR_PROC_ALGO, ERROR_PROC_HARDWARE, PROC_OVER
<1>4. ProcEndOfAlgo
  BY <1>1, <1>3, PassLeaves
<1>5. Types /\ Frames /\ stack # <<>> /\ Top.kind = "process" /\ Opcode = ENDOFALGO /\ Top.src.file
  BY <1>3, <1>4 DEF EngineInv, Running, ProcEndOfAlgo, Fetched, Stepping, Leave
<1>6. Top.op # ENDOFALGO
  <2>1. 1 \in 1..Len(stack)
    BY <1>5 DEF Types
  <2> QED
    BY <1>5, <2>1 DEF Frames, NotEnded, Top
<1>7. ByteAt(Top.src, Top.idx, 0) = ENDOFALGO
  BY <1>5, <1>6 DEF Opcode, ByteAt, FileByte
<1> QED
  BY <1>5, <1>7

\* A run passes only where the file itself, and not a body in algoBuffer, has its
\* ENDOFALGO (core.c:601, 1276).
THEOREM PassesAtEnd == Spec => PassOnlyAtEnd
<1>1. EngineInv /\ [Next]_vars
        => [mode # "done" /\ mode' = "done" /\ ret' = PROC_OVER
              => Top.src.file /\ ByteAt(Top.src, Top.idx, 0) = ENDOFALGO]_vars
  BY PassReadsEnd
<1> QED
  BY <1>1, EngineInvariant, PTL DEF Spec, PassOnlyAtEnd

\* What the invariant says of a run that passed.
LEMMA PassClean == EngineInv => PassIsClean
BY DEF EngineInv, Types, Holding, PassIsClean, PROC_OVER, ERROR_PROC_ALGO, ERROR_PROC_HARDWARE

\* A run that passes has closed the files and called SPI_final(), whatever the
\* command of that call came to (core.c:612-620, hardware.c:187-194).
THEOREM PassReleases == Spec => []PassIsClean
BY EngineInvariant, PassClean, PTL

=============================================================================

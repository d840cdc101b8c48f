-------------------------- MODULE Transceive_proofs --------------------------
(***************************************************************************)
(* Rows of any size: what is sent is the data behind a padding of ones,    *)
(* and the comparisons notice exactly the bits they are to notice.         *)
(***************************************************************************)
EXTENDS Transceive, SequenceTheorems, TLAPS

-----------------------------------------------------------------------------
(* Bytes and their bits. *)

\* The bits of a byte.
Bits(b) == [j \in 0..7 |-> BitAt(b, j)]

\* A byte made of bits has these bits.
LEMMA MadeBits ==
    ASSUME NEW x \in [0..7 -> 0..1]
    PROVE  Made(x) \in Byte /\ \A j \in 0..7 : BitAt(Made(x), j) = x[j]
<1>1. /\ x[0] \in 0..1 /\ x[1] \in 0..1 /\ x[2] \in 0..1 /\ x[3] \in 0..1
      /\ x[4] \in 0..1 /\ x[5] \in 0..1 /\ x[6] \in 0..1 /\ x[7] \in 0..1
  OBVIOUS
<1>2. Made(x) \in Byte
  BY <1>1 DEF Made, Byte
<1>3. ASSUME NEW j \in 0..7 PROVE BitAt(Made(x), j) = x[j]
  <2>1. CASE j = 0
    BY <1>1, <2>1 DEF Made, BitAt
  <2>2. CASE j = 1
    BY <1>1, <2>2 DEF Made, BitAt
  <2>3. CASE j = 2
    BY <1>1, <2>3 DEF Made, BitAt
  <2>4. CASE j = 3
    BY <1>1, <2>4 DEF Made, BitAt
  <2>5. CASE j = 4
    BY <1>1, <2>5 DEF Made, BitAt
  <2>6. CASE j = 5
    BY <1>1, <2>6 DEF Made, BitAt
  <2>7. CASE j = 6
    BY <1>1, <2>7 DEF Made, BitAt
  <2>8. CASE j = 7
    BY <1>1, <2>8 DEF Made, BitAt
  <2> QED
    BY <2>1, <2>2, <2>3, <2>4, <2>5, <2>6, <2>7, <2>8
<1> QED
  BY <1>2, <1>3

\* A byte is made of its bits.
LEMMA MadeOf ==
    ASSUME NEW b \in Byte
    PROVE  Bits(b) \in [0..7 -> 0..1] /\ Made(Bits(b)) = b
<1>1. ASSUME NEW j \in 0..7 PROVE BitAt(b, j) \in 0..1
  <2>1. CASE j = 0
    BY <2>1 DEF BitAt, Byte
  <2>2. CASE j = 1
    BY <2>2 DEF BitAt, Byte
  <2>3. CASE j = 2
    BY <2>3 DEF BitAt, Byte
  <2>4. CASE j = 3
    BY <2>4 DEF BitAt, Byte
  <2>5. CASE j = 4
    BY <2>5 DEF BitAt, Byte
  <2>6. CASE j = 5
    BY <2>6 DEF BitAt, Byte
  <2>7. CASE j = 6
    BY <2>7 DEF BitAt, Byte
  <2>8. CASE j = 7
    BY <2>8 DEF BitAt, Byte
  <2> QED
    BY <2>1, <2>2, <2>3, <2>4, <2>5, <2>6, <2>7, <2>8
<1>2. Bits(b) \in [0..7 -> 0..1]
  BY <1>1 DEF Bits
<1>3. Made(Bits(b)) = b
  <2>1. Made(Bits(b)) = 128 * BitAt(b, 0) + 64 * BitAt(b, 1) + 32 * BitAt(b, 2)
                           + 16 * BitAt(b, 3) + 8 * BitAt(b, 4) + 4 * BitAt(b, 5)
                           + 2 * BitAt(b, 6) + BitAt(b, 7)
    BY DEF Made, Bits
  <2> QED
    BY <2>1 DEF BitAt, Byte
<1> QED
  BY <1>2, <1>3

\* All bits of 255 are ones.
LEMMA OnesAll == \A j \in 0..7 : BitAt(255, j) = 1
<1> SUFFICES ASSUME NEW j \in 0..7 PROVE BitAt(255, j) = 1
  OBVIOUS
<1>1. CASE j = 0
  BY <1>1 DEF BitAt
<1>2. CASE j = 1
  BY <1>2 DEF BitAt
<1>3. CASE j = 2
  BY <1>3 DEF BitAt
<1>4. CASE j = 3
  BY <1>4 DEF BitAt
<1>5. CASE j = 4
  BY <1>5 DEF BitAt
<1>6. CASE j = 5
  BY <1>6 DEF BitAt
<1>7. CASE j = 6
  BY <1>7 DEF BitAt
<1>8. CASE j = 7
  BY <1>8 DEF BitAt
<1> QED
  BY <1>1, <1>2, <1>3, <1>4, <1>5, <1>6, <1>7, <1>8

\* Bytes with the same bits are the same.
LEMMA SameByte ==
    ASSUME NEW a \in Byte, NEW b \in Byte, \A j \in 0..7 : BitAt(a, j) = BitAt(b, j)
    PROVE  a = b
<1>1. Bits(a) = Bits(b)
  BY DEF Bits
<1> QED
  BY <1>1, MadeOf

\* The bits of a & b.
LEMMA AndBits ==
    ASSUME NEW a \in Byte, NEW b \in Byte
    PROVE  /\ BitAnd(a, b) \in Byte
           /\ \A j \in 0..7 : BitAt(BitAnd(a, b), j) = BitAt(a, j) * BitAt(b, j)
<1> DEFINE x == [j \in 0..7 |-> BitAt(a, j) * BitAt(b, j)]
<1>1. \A j \in 0..7 : BitAt(a, j) \in 0..1 /\ BitAt(b, j) \in 0..1
  BY MadeOf DEF Bits
<1>2. x \in [0..7 -> 0..1]
  BY <1>1
<1> QED
  BY <1>2, MadeBits DEF BitAnd

\* A byte without its lower 8 - s bits.
LEMMA UpperPart ==
    ASSUME NEW a \in Byte, NEW s \in 1..7
    PROVE  /\ a - (a % 2 ^ (8 - s)) \in Byte
           /\ \A j \in 0..7 : BitAt(a - (a % 2 ^ (8 - s)), j)
                                 = IF j < s THEN BitAt(a, j) ELSE 0
<1> DEFINE x == Bits(a)
           y == [j \in 0..7 |-> IF j < s THEN x[j] ELSE 0]
<1>1. /\ x \in [0..7 -> 0..1] /\ a = Made(x)
      /\ \A j \in 0..7 : BitAt(a, j) = x[j]
  BY MadeOf DEF Bits
<1> HIDE DEF x
<1>2. /\ x[0] \in 0..1 /\ x[1] \in 0..1 /\ x[2] \in 0..1 /\ x[3] \in 0..1
      /\ x[4] \in 0..1 /\ x[5] \in 0..1 /\ x[6] \in 0..1 /\ x[7] \in 0..1
  BY <1>1
<1>3. y \in [0..7 -> 0..1] /\ \A j \in 0..7 : y[j] = IF j < s THEN x[j] ELSE 0
  BY <1>1
<1> HIDE DEF y
<1>4. a - (a % 2 ^ (8 - s)) = Made(y)
  <2>1. CASE s = 1
    <3>1. y[0] = x[0] /\ y[1] = 0 /\ y[2] = 0 /\ y[3] = 0 /\ y[4] = 0 /\ y[5] = 0 /\ y[6] = 0 /\ y[7] = 0
      BY <1>3, <2>1
    <3>2. Made(y) = 128 * x[0]
      BY <1>2, <3>1 DEF Made
    <3>3. a \div 128 = x[0]
      BY <1>1, <1>2 DEF Made
    <3>4. a - (a % 128) = 128 * (a \div 128)
      BY DEF Byte
    <3> QED
      BY <1>2, <2>1, <3>2, <3>3, <3>4
  <2>2. CASE s = 2
    <3>1. y[0] = x[0] /\ y[1] = x[1] /\ y[2] = 0 /\ y[3] = 0 /\ y[4] = 0 /\ y[5] = 0 /\ y[6] = 0 /\ y[7] = 0
      BY <1>3, <2>2
    <3>2. Made(y) = 128 * x[0] + 64 * x[1]
      BY <1>2, <3>1 DEF Made
    <3>3. a \div 64 = 2 * x[0] + x[1]
      BY <1>1, <1>2 DEF Made
    <3>4. a - (a % 64) = 64 * (a \div 64)
      BY DEF Byte
    <3> QED
      BY <1>2, <2>2, <3>2, <3>3, <3>4
  <2>3. CASE s = 3
    <3>1. y[0] = x[0] /\ y[1] = x[1] /\ y[2] = x[2] /\ y[3] = 0 /\ y[4] = 0 /\ y[5] = 0 /\ y[6] = 0 /\ y[7] = 0
      BY <1>3, <2>3
    <3>2. Made(y) = 128 * x[0] + 64 * x[1] + 32 * x[2]
      BY <1>2, <3>1 DEF Made
    <3>3. a \div 32 = 4 * x[0] + 2 * x[1] + x[2]
      BY <1>1, <1>2 DEF Made
    <3>4. a - (a % 32) = 32 * (a \div 32)
      BY DEF Byte
    <3> QED
      BY <1>2, <2>3, <3>2, <3>3, <3>4
  <2>4. CASE s = 4
    <3>1. y[0] = x[0] /\ y[1] = x[1] /\ y[2] = x[2] /\ y[3] = x[3] /\ y[4] = 0 /\ y[5] = 0 /\ y[6] = 0 /\ y[7] = 0
      BY <1>3, <2>4
    <3>2. Made(y) = 128 * x[0] + 64 * x[1] + 32 * x[2] + 16 * x[3]
      BY <1>2, <3>1 DEF Made
    <3>3. a \div 16 = 8 * x[0] + 4 * x[1] + 2 * x[2] + x[3]
      BY <1>1, <1>2 DEF Made
    <3>4. a - (a % 16) = 16 * (a \div 16)
      BY DEF Byte
    <3> QED
      BY <1>2, <2>4, <3>2, <3>3, <3>4
  <2>5. CASE s = 5
    <3>1. y[0] = x[0] /\ y[1] = x[1] /\ y[2] = x[2] /\ y[3] = x[3] /\ y[4] = x[4] /\ y[5] = 0 /\ y[6] = 0 /\ y[7] = 0
      BY <1>3, <2>5
    <3>2. Made(y) = 128 * x[0] + 64 * x[1] + 32 * x[2] + 16 * x[3] + 8 * x[4]
      BY <1>2, <3>1 DEF Made
    <3>3. a \div 8 = 16 * x[0] + 8 * x[1] + 4 * x[2] + 2 * x[3] + x[4]
      BY <1>1, <1>2 DEF Made
    <3>4. a - (a % 8) = 8 * (a \div 8)
      BY DEF Byte
    <3> QED
      BY <1>2, <2>5, <3>2, <3>3, <3>4
  <2>6. CASE s = 6
    <3>1. y[0] = x[0] /\ y[1] = x[1] /\ y[2] = x[2] /\ y[3] = x[3] /\ y[4] = x[4] /\ y[5] = x[5] /\ y[6] = 0 /\ y[7] = 0
      BY <1>3, <2>6
    <3>2. Made(y) = 128 * x[0] + 64 * x[1] + 32 * x[2] + 16 * x[3] + 8 * x[4] + 4 * x[5]
      BY <1>2, <3>1 DEF Made
    <3>3. a \div 4 = 32 * x[0] + 16 * x[1] + 8 * x[2] + 4 * x[3] + 2 * x[4] + x[5]
      BY <1>1, <1>2 DEF Made
    <3>4. a - (a % 4) = 4 * (a \div 4)
      BY DEF Byte
    <3> QED
      BY <1>2, <2>6, <3>2, <3>3, <3>4
  <2>7. CASE s = 7
    <3>1. y[0] = x[0] /\ y[1] = x[1] /\ y[2] = x[2] /\ y[3] = x[3] /\ y[4] = x[4] /\ y[5] = x[5] /\ y[6] = x[6] /\ y[7] = 0
      BY <1>3, <2>7
    <3>2. Made(y) = 128 * x[0] + 64 * x[1] + 32 * x[2] + 16 * x[3] + 8 * x[4] + 4 * x[5] + 2 * x[6]
      BY <1>2, <3>1 DEF Made
    <3>3. a \div 2 = 64 * x[0] + 32 * x[1] + 16 * x[2] + 8 * x[3] + 4 * x[4] + 2 * x[5] + x[6]
      BY <1>1, <1>2 DEF Made
    <3>4. a - (a % 2) = 2 * (a \div 2)
      BY DEF Byte
    <3> QED
      BY <1>2, <2>7, <3>2, <3>3, <3>4
  <2> QED
    BY <2>1, <2>2, <2>3, <2>4, <2>5, <2>6, <2>7
<1> QED
  BY <1>1, <1>3, <1>4, MadeBits

\* The upper s bits of bytes are the same if and only if they are bit by bit.
LEMMA UpperBits ==
    ASSUME NEW a \in Byte, NEW b \in Byte, NEW s \in 0..7
    PROVE  a \div 2 ^ (8 - s) = b \div 2 ^ (8 - s)
              <=> \A j \in 0..7 : j < s => BitAt(a, j) = BitAt(b, j)
<1>1. CASE s = 0
  <2>1. a \div 256 = 0 /\ b \div 256 = 0
    BY DEF Byte
  <2> QED
    BY <1>1, <2>1
<1>2. CASE s # 0
  <2> DEFINE u == a - (a % 2 ^ (8 - s))
             v == b - (b % 2 ^ (8 - s))
  <2>1. a \div 2 ^ (8 - s) = b \div 2 ^ (8 - s) <=> u = v
    <3>1. CASE s = 1
      BY <3>1 DEF Byte
    <3>2. CASE s = 2
      BY <3>2 DEF Byte
    <3>3. CASE s = 3
      BY <3>3 DEF Byte
    <3>4. CASE s = 4
      BY <3>4 DEF Byte
    <3>5. CASE s = 5
      BY <3>5 DEF Byte
    <3>6. CASE s = 6
      BY <3>6 DEF Byte
    <3>7. CASE s = 7
      BY <3>7 DEF Byte
    <3> QED
      BY <1>2, <3>1, <3>2, <3>3, <3>4, <3>5, <3>6, <3>7
  <2>2. /\ u \in Byte /\ \A j \in 0..7 : BitAt(u, j) = IF j < s THEN BitAt(a, j) ELSE 0
        /\ v \in Byte /\ \A j \in 0..7 : BitAt(v, j) = IF j < s THEN BitAt(b, j) ELSE 0
    <3>1. s \in 1..7
      BY <1>2
    <3>2. u \in Byte /\ \A j \in 0..7 : BitAt(u, j) = IF j < s THEN BitAt(a, j) ELSE 0
      BY <3>1, UpperPart
    <3>3. v \in Byte /\ \A j \in 0..7 : BitAt(v, j) = IF j < s THEN BitAt(b, j) ELSE 0
      BY <3>1, UpperPart
    <3> QED
      BY <3>2, <3>3
  <2> HIDE DEF u, v
  <2>3. ASSUME \A j \in 0..7 : j < s => BitAt(a, j) = BitAt(b, j) PROVE u = v
    <3>1. \A j \in 0..7 : BitAt(u, j) = BitAt(v, j)
      BY <2>2, <2>3
    <3> QED
      BY <2>2, <3>1, SameByte
  <2>4. ASSUME u = v, NEW j \in 0..7, j < s PROVE BitAt(a, j) = BitAt(b, j)
    BY <2>2, <2>4
  <2> QED
    BY <2>1, <2>3, <2>4
<1> QED
  BY <1>1, <1>2

\* A byte whose upper bits are the lower bits of p and whose lower bits are the
\* upper ones of c.
Mixed(p, c, s) == ((p * 2 ^ s) % 256) + c \div 2 ^ (8 - s)

\* The bits of such a byte.
LEMMA Shifted ==
    \A p, c \in Byte : \A s \in 1..7 :
       /\ Mixed(p, c, s) \in Byte
       /\ \A j \in 0..7 : BitAt(Mixed(p, c, s), j)
                             = IF j + s < 8 THEN BitAt(p, j + s) ELSE BitAt(c, j + s - 8)
<1> SUFFICES ASSUME NEW p \in Byte, NEW c \in Byte, NEW s \in 1..7
             PROVE  /\ Mixed(p, c, s) \in Byte
                    /\ \A j \in 0..7 : BitAt(Mixed(p, c, s), j)
                          = IF j + s < 8 THEN BitAt(p, j + s) ELSE BitAt(c, j + s - 8)
  OBVIOUS
<1> DEFINE x == Bits(p)
           y == Bits(c)
           z == [j \in 0..7 |-> IF j + s < 8 THEN x[j + s] ELSE y[j + s - 8]]
<1>1. /\ x \in [0..7 -> 0..1] /\ p = Made(x) /\ y \in [0..7 -> 0..1] /\ c = Made(y)
      /\ \A j \in 0..7 : BitAt(p, j) = x[j] /\ BitAt(c, j) = y[j]
  BY MadeOf DEF Bits
<1> HIDE DEF x, y
<1>2. /\ x[0] \in 0..1 /\ x[1] \in 0..1 /\ x[2] \in 0..1 /\ x[3] \in 0..1
      /\ x[4] \in 0..1 /\ x[5] \in 0..1 /\ x[6] \in 0..1 /\ x[7] \in 0..1
      /\ y[0] \in 0..1 /\ y[1] \in 0..1 /\ y[2] \in 0..1 /\ y[3] \in 0..1
      /\ y[4] \in 0..1 /\ y[5] \in 0..1 /\ y[6] \in 0..1 /\ y[7] \in 0..1
  BY <1>1
<1>3. \A j \in 0..7 : z[j] = IF j + s < 8 THEN x[j + s] ELSE y[j + s - 8]
  OBVIOUS
<1>4. z \in [0..7 -> 0..1]
  <2> SUFFICES ASSUME NEW j \in 0..7
               PROVE  (IF j + s < 8 THEN x[j + s] ELSE y[j + s - 8]) \in 0..1
    OBVIOUS
  <2>1. CASE j + s < 8
    <3>1. j + s \in 0..7
      BY <2>1
    <3> QED
      BY <1>1, <2>1, <3>1
  <2>2. CASE ~(j + s < 8)
    <3>1. j + s - 8 \in 0..7
      BY <2>2
    <3> QED
      BY <1>1, <2>2, <3>1
  <2> QED
    BY <2>1, <2>2
<1> HIDE DEF z
<1>5. Mixed(p, c, s) = Made(z)
  <2>1. CASE s = 1
    <3>1. (p * 2) % 256 = 128 * x[1] + 64 * x[2] + 32 * x[3] + 16 * x[4] + 8 * x[5] + 4 * x[6] + 2 * x[7]
      BY <1>1, <1>2 DEF Made
    <3>2. c \div 128 = y[0]
      BY <1>1, <1>2 DEF Made
    <3>3. /\ z[0] = x[1] /\ z[1] = x[2] /\ z[2] = x[3] /\ z[3] = x[4] /\ z[4] = x[5] /\ z[5] = x[6] /\ z[6] = x[7]
          /\ z[7] = y[0]
      BY <1>3, <2>1
    <3> QED
      BY <1>2, <2>1, <3>1, <3>2, <3>3 DEF Made, Mixed
  <2>2. CASE s = 2
    <3>1. (p * 4) % 256 = 128 * x[2] + 64 * x[3] + 32 * x[4] + 16 * x[5] + 8 * x[6] + 4 * x[7]
      BY <1>1, <1>2 DEF Made
    <3>2. c \div 64 = 2 * y[0] + y[1]
      BY <1>1, <1>2 DEF Made
    <3>3. /\ z[0] = x[2] /\ z[1] = x[3] /\ z[2] = x[4] /\ z[3] = x[5] /\ z[4] = x[6] /\ z[5] = x[7]
          /\ z[6] = y[0] /\ z[7] = y[1]
      BY <1>3, <2>2
    <3> QED
      BY <1>2, <2>2, <3>1, <3>2, <3>3 DEF Made, Mixed
  <2>3. CASE s = 3
    <3>1. (p * 8) % 256 = 128 * x[3] + 64 * x[4] + 32 * x[5] + 16 * x[6] + 8 * x[7]
      BY <1>1, <1>2 DEF Made
    <3>2. c \div 32 = 4 * y[0] + 2 * y[1] + y[2]
      BY <1>1, <1>2 DEF Made
    <3>3. /\ z[0] = x[3] /\ z[1] = x[4] /\ z[2] = x[5] /\ z[3] = x[6] /\ z[4] = x[7]
          /\ z[5] = y[0] /\ z[6] = y[1] /\ z[7] = y[2]
      BY <1>3, <2>3
    <3> QED
      BY <1>2, <2>3, <3>1, <3>2, <3>3 DEF Made, Mixed
  <2>4. CASE s = 4
    <3>1. (p * 16) % 256 = 128 * x[4] + 64 * x[5] + 32 * x[6] + 16 * x[7]
      BY <1>1, <1>2 DEF Made
    <3>2. c \div 16 = 8 * y[0] + 4 * y[1] + 2 * y[2] + y[3]
      BY <1>1, <1>2 DEF Made
    <3>3. /\ z[0] = x[4] /\ z[1] = x[5] /\ z[2] = x[6] /\ z[3] = x[7]
          /\ z[4] = y[0] /\ z[5] = y[1] /\ z[6] = y[2] /\ z[7] = y[3]
      BY <1>3, <2>4
    <3> QED
      BY <1>2, <2>4, <3>1, <3>2, <3>3 DEF Made, Mixed
  <2>5. CASE s = 5
    <3>1. (p * 32) % 256 = 128 * x[5] + 64 * x[6] + 32 * x[7]
      BY <1>1, <1>2 DEF Made
    <3>2. c \div 8 = 16 * y[0] + 8 * y[1] + 4 * y[2] + 2 * y[3] + y[4]
      BY <1>1, <1>2 DEF Made
    <3>3. /\ z[0] = x[5] /\ z[1] = x[6] /\ z[2] = x[7]
          /\ z[3] = y[0] /\ z[4] = y[1] /\ z[5] = y[2] /\ z[6] = y[3] /\ z[7] = y[4]
      BY <1>3, <2>5
    <3> QED
      BY <1>2, <2>5, <3>1, <3>2, <3>3 DEF Made, Mixed
  <2>6. CASE s = 6
    <3>1. (p * 64) % 256 = 128 * x[6] + 64 * x[7]
      BY <1>1, <1>2 DEF Made
    <3>2. c \div 4 = 32 * y[0] + 16 * y[1] + 8 * y[2] + 4 * y[3] + 2 * y[4] + y[5]
      BY <1>1, <1>2 DEF Made
    <3>3. /\ z[0] = x[6] /\ z[1] = x[7]
          /\ z[2] = y[0] /\ z[3] = y[1] /\ z[4] = y[2] /\ z[5] = y[3] /\ z[6] = y[4] /\ z[7] = y[5]
      BY <1>3, <2>6
    <3> QED
      BY <1>2, <2>6, <3>1, <3>2, <3>3 DEF Made, Mixed
  <2>7. CASE s = 7
    <3>1. (p * 128) % 256 = 128 * x[7]
      BY <1>1, <1>2 DEF Made
    <3>2. c \div 2 = 64 * y[0] + 32 * y[1] + 16 * y[2] + 8 * y[3] + 4 * y[4] + 2 * y[5] + y[6]
      BY <1>1, <1>2 DEF Made
    <3>3. /\ z[0] = x[7]
          /\ z[1] = y[0] /\ z[2] = y[1] /\ z[3] = y[2] /\ z[4] = y[3] /\ z[5] = y[4] /\ z[6] = y[5] /\ z[7] = y[6]
      BY <1>3, <2>7
    <3> QED
      BY <1>2, <2>7, <3>1, <3>2, <3>3 DEF Made, Mixed
  <2> QED
    BY <2>1, <2>2, <2>3, <2>4, <2>5, <2>6, <2>7
<1>6. \A j \in 0..7 : (IF j + s < 8 THEN x[j + s] ELSE y[j + s - 8])
                         = IF j + s < 8 THEN BitAt(p, j + s) ELSE BitAt(c, j + s - 8)
  BY <1>1
<1> QED
  BY <1>3, <1>4, <1>5, <1>6, MadeBits

-----------------------------------------------------------------------------
(* Rows and their bits. *)

\* Bit j of the byte behind i others.
LEMMA Position ==
    ASSUME NEW i \in Nat, NEW j \in 0..7
    PROVE  (8 * i + j) \div 8 = i /\ (8 * i + j) % 8 = j
OBVIOUS

\* Every bit is a bit of some byte.
LEMMA PositionOf ==
    ASSUME NEW m \in Nat, NEW k \in 0..(8 * m - 1)
    PROVE  \E i \in 1..m, j \in 0..7 : k = 8 * (i - 1) + j
<1> DEFINE q == k \div 8
           j == k % 8
<1>1. q \in Int /\ j \in 0..7 /\ k = 8 * q + j
  OBVIOUS
<1> HIDE DEF q, j
<1>2. 1 + q \in 1..m /\ k = 8 * ((1 + q) - 1) + j
  BY <1>1
<1> QED
  BY <1>1, <1>2

\* The bits of the last byte that count.
LEMMA Filled ==
    ASSUME NEW n \in Nat \ {0}
    PROVE  /\ BytesOf(n) \in Nat \ {0} /\ n % 8 \in 0..7
           /\ n % 8 = 0 => n = 8 * BytesOf(n)
           /\ n % 8 # 0 => n = 8 * (BytesOf(n) - 1) + (n % 8)
<1> DEFINE q == n \div 8
           s == n % 8
<1>1. q \in Nat /\ s \in 0..7 /\ n = 8 * q + s
  OBVIOUS
<1>2. BytesOf(n) = (8 * q + s + 7) \div 8
  BY <1>1 DEF BytesOf
<1> HIDE DEF q, s
<1>3. CASE s = 0
  <2>1. (8 * q + s + 7) \div 8 = q
    BY <1>1, <1>3
  <2> QED
    BY <1>1, <1>2, <1>3, <2>1 DEF s
<1>4. CASE s # 0
  <2>1. (8 * q + s + 7) \div 8 = q + 1
    BY <1>1, <1>4
  <2>2. BytesOf(n) = q + 1 /\ q + 1 \in Nat \ {0} /\ n = 8 * ((q + 1) - 1) + s
    BY <1>1, <1>2, <2>1
  <2> QED
    BY <1>1, <1>4, <2>2 DEF s
<1> QED
  BY <1>3, <1>4

\* A bit of a row.
LEMMA RowBit ==
    ASSUME NEW bytes \in Seq(Byte), NEW i \in 1..Len(bytes), NEW j \in 0..7
    PROVE  /\ Bit(bytes, 8 * (i - 1) + j) = BitAt(bytes[i], j)
           /\ Bit(bytes, 8 * (i - 1) + j) \in 0..1
<1>1. i - 1 \in Nat /\ 1 + (i - 1) = i /\ bytes[i] \in Byte
  OBVIOUS
<1>2. (8 * (i - 1) + j) \div 8 = i - 1 /\ (8 * (i - 1) + j) % 8 = j
  BY <1>1, Position
<1>3. Bit(bytes, 8 * (i - 1) + j) = BitAt(bytes[i], j)
  BY <1>1, <1>2 DEF Bit
<1>4. BitAt(bytes[i], j) \in 0..1
  BY <1>1, MadeOf DEF Bits
<1> QED
  BY <1>3, <1>4

\* What goes over the wire: first the ones, then the bits of the row.
LEMMA PaddedBits ==
    ASSUME NEW n \in Nat \ {0}, NEW row \in Seq(Byte), Len(row) = BytesOf(n)
    PROVE  /\ Padded(row, n) \in Seq(Byte) /\ Len(Padded(row, n)) = Len(row)
           /\ \A k \in 0..(8 * Len(row) - 1) :
                 Bit(Padded(row, n), k) = IF k < 8 * Len(row) - n THEN 1
                                          ELSE Bit(row, k - (8 * Len(row) - n))
<1> DEFINE s == n % 8
           m == Len(row)
           pad == 8 * m - n
           w == Padded(row, n)
           before(i) == IF i = 1 THEN 255 ELSE row[i - 1]
<1>1. /\ m \in Nat \ {0} /\ s \in 0..7 /\ DOMAIN row = 1..m
      /\ \A i \in 1..m : row[i] \in Byte
      /\ s = 0 => n = 8 * m
      /\ s # 0 => n = 8 * (m - 1) + s
  <2>1. DOMAIN row = 1..m /\ m = BytesOf(n) /\ \A i \in 1..m : row[i] \in Byte
    OBVIOUS
  <2>2. /\ BytesOf(n) \in Nat \ {0} /\ s \in 0..7
        /\ s = 0 => n = 8 * BytesOf(n)
        /\ s # 0 => n = 8 * (BytesOf(n) - 1) + s
    BY Filled
  <2> HIDE DEF s, m
  <2> QED
    BY <2>1, <2>2
<1>9. w = [i \in 1..m |-> IF s = 0 THEN row[i]
                          ELSE Mixed(before(i), row[i], s)]
  BY <1>1 DEF Padded, Unit, Mixed
<1> HIDE DEF w, m, s
<1>2. pad = IF s = 0 THEN 0 ELSE 8 - s
  BY <1>1
<1> HIDE DEF pad
<1>3. ASSUME NEW i \in 1..m PROVE before(i) \in Byte
  <2>1. CASE i = 1
    BY <2>1 DEF Byte
  <2>2. CASE i # 1
    <3>1. i - 1 \in 1..m
      BY <1>1, <2>2
    <3> QED
      BY <1>1, <2>2, <3>1
  <2> QED
    BY <2>1, <2>2
<1> HIDE DEF before
<1>5. ASSUME NEW i \in 1..m
      PROVE  /\ w[i] \in Byte
             /\ \A j \in 0..7 :
                   BitAt(w[i], j) = IF s = 0 THEN BitAt(row[i], j)
                                    ELSE IF j + s < 8 THEN BitAt(before(i), j + s)
                                    ELSE BitAt(row[i], j + s - 8)
  <2>1. CASE s = 0
    BY <1>1, <1>9, <2>1
  <2>2. CASE s # 0
    <3>1. s \in 1..7 /\ row[i] \in Byte /\ before(i) \in Byte
      BY <1>1, <1>3, <2>2
    <3>2. w[i] = Mixed(before(i), row[i], s)
      BY <1>9, <2>2
    <3> QED
      BY <2>2, <3>1, <3>2, Shifted
  <2> QED
    BY <2>1, <2>2
<1>6. w \in Seq(Byte) /\ Len(w) = m
  <2>1. w \in [1..m -> Byte]
    BY <1>9, <1>5
  <2> QED
    BY <1>1, <2>1
<1>7. ASSUME NEW k \in 0..(8 * m - 1)
      PROVE  Bit(w, k) = IF k < pad THEN 1 ELSE Bit(row, k - pad)
  <2>1. PICK i \in 1..m, j \in 0..7 : k = 8 * (i - 1) + j
    BY <1>1, PositionOf
  <2>2. Bit(w, k) = BitAt(w[i], j)
    BY <1>6, <2>1, RowBit
  <2>3. CASE s = 0
    <3>1. ~(k < pad) /\ k - pad = k
      BY <1>1, <1>2, <2>3
    <3>2. Bit(row, k) = BitAt(row[i], j)
      BY <2>1, RowBit DEF m
    <3> QED
      BY <1>5, <2>2, <2>3, <3>1, <3>2
  <2>4. CASE s # 0 /\ j + s < 8 /\ i = 1
    <3>1. k < pad /\ j + s \in 0..7
      BY <1>1, <1>2, <2>1, <2>4
    <3>2. BitAt(255, j + s) = 1
      BY <3>1, OnesAll
    <3> QED
      BY <1>5, <2>2, <2>4, <3>1, <3>2 DEF before
  <2>5. CASE s # 0 /\ j + s < 8 /\ i # 1
    <3>1. /\ i - 1 \in 1..m /\ j + s \in 0..7 /\ ~(k < pad)
          /\ k - pad = 8 * ((i - 1) - 1) + (j + s)
      BY <1>1, <1>2, <2>1, <2>5
    <3>2. Bit(row, k - pad) = BitAt(row[i - 1], j + s)
      BY <3>1, RowBit DEF m
    <3> QED
      BY <1>5, <2>2, <2>5, <3>1, <3>2 DEF before
  <2>6. CASE s # 0 /\ ~(j + s < 8)
    <3>1. /\ j + s - 8 \in 0..7 /\ ~(k < pad)
          /\ k - pad = 8 * (i - 1) + (j + s - 8)
      BY <1>1, <1>2, <2>1, <2>6
    <3>2. Bit(row, k - pad) = BitAt(row[i], j + s - 8)
      BY <3>1, RowBit DEF m
    <3> QED
      BY <1>5, <2>2, <2>6, <3>1, <3>2
  <2> QED
    BY <2>3, <2>4, <2>5, <2>6
<1> QED
  BY <1>6, <1>7 DEF w, m, pad

-----------------------------------------------------------------------------
(* Comparisons. *)

\* A bit of a byte under a mask.
LEMMA MaskedBit ==
    ASSUME NEW bytes \in Seq(Byte), NEW mask \in Seq(Byte),
           mask = <<>> \/ Len(mask) = Len(bytes),
           NEW i \in 1..Len(bytes), NEW j \in 0..7
    PROVE  /\ Masked(bytes[i], mask, i) \in Byte
           /\ BitAt(Masked(bytes[i], mask, i), j)
                 = IF Counts(mask, 8 * (i - 1) + j) THEN Bit(bytes, 8 * (i - 1) + j) ELSE 0
<1>1. bytes[i] \in Byte
  OBVIOUS
<1>2. /\ Bit(bytes, 8 * (i - 1) + j) = BitAt(bytes[i], j)
      /\ BitAt(bytes[i], j) \in 0..1
  BY RowBit
<1>3. CASE mask = <<>>
  <2>1. Masked(bytes[i], mask, i) = bytes[i]
    BY <1>3 DEF Masked
  <2> QED
    BY <1>1, <1>2, <1>3, <2>1 DEF Counts
<1>4. CASE mask # <<>>
  <2>1. Len(mask) = Len(bytes) /\ i \in 1..Len(mask) /\ mask[i] \in Byte
    BY <1>4
  <2>2. Masked(bytes[i], mask, i) = BitAnd(bytes[i], mask[i])
    BY <2>1 DEF Masked
  <2>3. /\ BitAnd(bytes[i], mask[i]) \in Byte
        /\ BitAt(BitAnd(bytes[i], mask[i]), j) = BitAt(bytes[i], j) * BitAt(mask[i], j)
    BY <1>1, <2>1, AndBits
  <2>4. Bit(mask, 8 * (i - 1) + j) = BitAt(mask[i], j) /\ BitAt(mask[i], j) \in 0..1
    BY <2>1, RowBit
  <2> QED
    BY <1>2, <1>4, <2>2, <2>3, <2>4 DEF Counts
<1> QED
  BY <1>3, <1>4

\* Bit k is the same in both rows, or does not count.
Agrees(got, row, mask, k) == Counts(mask, k) => Bit(got, k) = Bit(row, k)

\* The same for the bytes.
LEMMA AgreeAt ==
    ASSUME NEW got \in Seq(Byte), NEW row \in Seq(Byte), NEW mask \in Seq(Byte),
           Len(got) = Len(row), mask = <<>> \/ Len(mask) = Len(row),
           NEW i \in 1..Len(row), NEW j \in 0..7
    PROVE  BitAt(Masked(got[i], mask, i), j) = BitAt(Masked(row[i], mask, i), j)
              <=> Agrees(got, row, mask, 8 * (i - 1) + j)
<1>1. BitAt(Masked(got[i], mask, i), j)
         = IF Counts(mask, 8 * (i - 1) + j) THEN Bit(got, 8 * (i - 1) + j) ELSE 0
  BY MaskedBit
<1>2. BitAt(Masked(row[i], mask, i), j)
         = IF Counts(mask, 8 * (i - 1) + j) THEN Bit(row, 8 * (i - 1) + j) ELSE 0
  BY MaskedBit
<1> QED
  BY <1>1, <1>2 DEF Agrees

\* The comparison of TRANS_transceive_stream() finds a difference if and only if
\* there is one in the bits it looks at.
LEMMA DiffersExactly ==
    ASSUME NEW n \in Nat \ {0},
           NEW got \in Seq(Byte), NEW row \in Seq(Byte), NEW mask \in Seq(Byte),
           Len(row) = BytesOf(n), Len(got) = Len(row),
           mask = <<>> \/ Len(mask) = Len(row)
    PROVE  Differs(got, row, n, mask)
              <=> \E k \in 0..((IF n % 8 = 0 THEN n - 8 ELSE n) - 1) :
                     ~Agrees(got, row, mask, k)
<1> DEFINE s == n % 8
           m == Len(row)
           looked == IF s = 0 THEN n - 8 ELSE n
           a(i) == Masked(got[i], mask, i)
           b(i) == Masked(row[i], mask, i)
<1>1. /\ m \in Nat \ {0} /\ s \in 0..7 /\ DOMAIN row = 1..m
      /\ looked = 8 * (m - 1) + s
  <2>1. DOMAIN row = 1..m /\ m = BytesOf(n)
    OBVIOUS
  <2>2. /\ BytesOf(n) \in Nat \ {0} /\ s \in 0..7
        /\ s = 0 => n = 8 * BytesOf(n)
        /\ s # 0 => n = 8 * (BytesOf(n) - 1) + s
    BY Filled
  <2>3. looked = IF s = 0 THEN n - 8 ELSE n
    OBVIOUS
  <2> HIDE DEF s, m, looked
  <2> QED
    BY <2>1, <2>2, <2>3
<1>2. ASSUME NEW i \in 1..m
      PROVE  a(i) \in Byte /\ b(i) \in Byte
  <2>1. 0 \in 0..7
    OBVIOUS
  <2> QED
    BY <1>2, <2>1, MaskedBit
<1>3. ASSUME NEW i \in 1..m, NEW j \in 0..7
      PROVE  BitAt(a(i), j) = BitAt(b(i), j) <=> Agrees(got, row, mask, 8 * (i - 1) + j)
  BY <1>3, AgreeAt
<1>4. Differs(got, row, n, mask)
         <=> \E i \in 1..m : IF i = m THEN a(i) \div 2 ^ (8 - s) # b(i) \div 2 ^ (8 - s)
                             ELSE a(i) # b(i)
  BY <1>1 DEF Differs, Unit
<1> HIDE DEF a, b
<1>5. ASSUME NEW i \in 1..m
      PROVE  (IF i = m THEN a(i) \div 2 ^ (8 - s) # b(i) \div 2 ^ (8 - s) ELSE a(i) # b(i))
                <=> \E j \in 0..7 : (i = m => j < s) /\ BitAt(a(i), j) # BitAt(b(i), j)
  <2>1. CASE i = m
    <3> HIDE DEF s
    <3>1. a(i) \div 2 ^ (8 - s) = b(i) \div 2 ^ (8 - s)
             <=> \A j \in 0..7 : j < s => BitAt(a(i), j) = BitAt(b(i), j)
      BY <1>1, <1>2, UpperBits
    <3> QED
      BY <2>1, <3>1
  <2>2. CASE i # m
    <3>1. a(i) = b(i) <=> \A j \in 0..7 : BitAt(a(i), j) = BitAt(b(i), j)
      BY <1>2, SameByte
    <3> QED
      BY <2>2, <3>1
  <2> QED
    BY <2>1, <2>2
<1>6. ASSUME Differs(got, row, n, mask)
      PROVE  \E k \in 0..(looked - 1) : ~Agrees(got, row, mask, k)
  <2>1. PICK i \in 1..m, j \in 0..7 : (i = m => j < s) /\ BitAt(a(i), j) # BitAt(b(i), j)
    BY <1>4, <1>5, <1>6
  <2>2. ~Agrees(got, row, mask, 8 * (i - 1) + j)
    BY <1>3, <2>1
  <2>3. 8 * (i - 1) + j \in 0..(looked - 1)
    BY <1>1, <2>1
  <2> QED
    BY <2>2, <2>3
<1>7. ASSUME NEW k \in 0..(looked - 1), ~Agrees(got, row, mask, k)
      PROVE  Differs(got, row, n, mask)
  <2>1. k \in 0..(8 * m - 1)
    BY <1>1
  <2>2. PICK i \in 1..m, j \in 0..7 : k = 8 * (i - 1) + j
    BY <1>1, <2>1, PositionOf
  <2>3. i = m => j < s
    BY <1>1, <2>2
  <2>4. BitAt(a(i), j) # BitAt(b(i), j)
    BY <1>3, <1>7, <2>2
  <2> QED
    BY <1>4, <1>5, <2>3, <2>4
<1> QED
  BY <1>6, <1>7

\* A bit of what core.c compares: a lower bit of the last byte is cut off unless
\* there is a mask.
LEMMA TrimmedBit ==
    ASSUME NEW n \in Nat \ {0}, NEW got \in Seq(Byte), NEW mask \in Seq(Byte),
           Len(got) = BytesOf(n), mask = <<>> \/ Len(mask) = Len(got),
           NEW i \in 1..Len(got), NEW j \in 0..7
    PROVE  /\ Trimmed(got[i], n, mask, i) \in Byte
           /\ BitAt(Trimmed(got[i], n, mask, i), j)
                 = IF mask # <<>> \/ 8 * (i - 1) + j < n
                   THEN BitAt(Masked(got[i], mask, i), j) ELSE 0
<1> DEFINE s == n % 8
           m == BytesOf(n)
<1>1. /\ m \in Nat \ {0} /\ s \in 0..7 /\ i \in 1..m
      /\ s = 0 => n = 8 * m
      /\ s # 0 => n = 8 * (m - 1) + s
  BY Filled
<1>2. got[i] \in Byte
  OBVIOUS
<1>3. Trimmed(got[i], n, mask, i)
         = IF mask # <<>> THEN Masked(got[i], mask, i)
           ELSE IF i = m /\ s # 0 THEN got[i] - (got[i] % 2 ^ (8 - s)) ELSE got[i]
  BY DEF Trimmed, Unit
<1>4. CASE mask # <<>>
  BY <1>3, <1>4, MaskedBit
<1>5. CASE mask = <<>>
  <2>1. Masked(got[i], mask, i) = got[i]
    BY <1>5 DEF Masked
  <2>2. CASE i = m /\ s # 0
    <3>1. s \in 1..7
      BY <1>1, <2>2
    <3>2. Trimmed(got[i], n, mask, i) = got[i] - (got[i] % 2 ^ (8 - s))
      BY <1>3, <1>5, <2>2
    <3>3. 8 * (i - 1) + j < n <=> j < s
      <4> HIDE DEF s, m
      <4> QED
        BY <1>1, <2>2
    <3> HIDE DEF s, m
    <3>4. /\ got[i] - (got[i] % 2 ^ (8 - s)) \in Byte
          /\ BitAt(got[i] - (got[i] % 2 ^ (8 - s)), j) = IF j < s THEN BitAt(got[i], j) ELSE 0
      BY <1>2, <3>1, UpperPart
    <3> QED
      BY <1>5, <2>1, <3>2, <3>3, <3>4
  <2>3. CASE ~(i = m /\ s # 0)
    <3>1. Trimmed(got[i], n, mask, i) = got[i]
      BY <1>3, <1>5, <2>3
    <3>2. 8 * (i - 1) + j < n
      <4> HIDE DEF s, m
      <4> QED
        BY <1>1, <2>3
    <3> QED
      BY <1>2, <2>1, <3>1, <3>2
  <2> QED
    BY <2>2, <2>3
<1> QED
  BY <1>4, <1>5

\* If what was received matches, its n bits are right.
LEMMA MatchesOnly ==
    ASSUME NEW n \in Nat \ {0},
           NEW got \in Seq(Byte), NEW row \in Seq(Byte), NEW mask \in Seq(Byte),
           Len(row) = BytesOf(n), Len(got) = Len(row),
           mask = <<>> \/ Len(mask) = Len(row),
           Matches(got, row, n, mask), NEW k \in 0..(n - 1)
    PROVE  Agrees(got, row, mask, k)
<1>1. /\ Len(row) \in Nat \ {0} /\ k \in 0..(8 * Len(row) - 1)
  <2> DEFINE m == BytesOf(n)
             s == n % 8
  <2>1. /\ m \in Nat \ {0} /\ s \in 0..7
        /\ s = 0 => n = 8 * m
        /\ s # 0 => n = 8 * (m - 1) + s
    BY Filled
  <2>2. Len(row) = m
    OBVIOUS
  <2> HIDE DEF m, s
  <2>3. n <= 8 * m
    BY <2>1
  <2> QED
    BY <2>1, <2>2, <2>3
<1>2. PICK i \in 1..Len(row), j \in 0..7 : k = 8 * (i - 1) + j
  BY <1>1, PositionOf
<1>3. Trimmed(got[i], n, mask, i) = Masked(row[i], mask, i)
  BY <1>2 DEF Matches
<1>4. BitAt(Trimmed(got[i], n, mask, i), j) = BitAt(Masked(got[i], mask, i), j)
  <2>1. i \in 1..Len(got) /\ 8 * (i - 1) + j < n
    BY <1>2
  <2>2. Len(got) = BytesOf(n) /\ (mask = <<>> \/ Len(mask) = Len(got))
    OBVIOUS
  <2> QED
    BY <1>2, <2>1, <2>2, TrimmedBit
<1> QED
  BY <1>2, <1>3, <1>4, AgreeAt

\* If its n bits are right and the padding is zeros, it matches.
LEMMA MatchesWell ==
    ASSUME NEW n \in Nat \ {0},
           NEW got \in Seq(Byte), NEW row \in Seq(Byte), NEW mask \in Seq(Byte),
           Len(row) = BytesOf(n), Len(got) = Len(row),
           mask = <<>> \/ Len(mask) = Len(row),
           \A k \in 0..(n - 1) : Agrees(got, row, mask, k),
           \A k \in n..(8 * Len(row) - 1) : Bit(IF mask = <<>> THEN row ELSE mask, k) = 0
    PROVE  Matches(got, row, n, mask)
<1> SUFFICES ASSUME NEW i \in 1..Len(row)
             PROVE  Trimmed(got[i], n, mask, i) = Masked(row[i], mask, i)
  BY DEF Matches
<1>1. Trimmed(got[i], n, mask, i) \in Byte /\ Masked(row[i], mask, i) \in Byte
  <2>1. 0 \in 0..7
    OBVIOUS
  <2>2. /\ Len(got) = BytesOf(n) /\ i \in 1..Len(got)
        /\ mask = <<>> \/ Len(mask) = Len(got)
    OBVIOUS
  <2>3. Trimmed(got[i], n, mask, i) \in Byte
    BY <2>1, <2>2, TrimmedBit
  <2> QED
    BY <2>1, <2>3, MaskedBit
<1>2. ASSUME NEW j \in 0..7
      PROVE  BitAt(Trimmed(got[i], n, mask, i), j) = BitAt(Masked(row[i], mask, i), j)
  <2> DEFINE k == 8 * (i - 1) + j
  <2>1. k \in Nat /\ (k < n => k \in 0..(n - 1)) /\ (~(k < n) => k \in n..(8 * Len(row) - 1))
    OBVIOUS
  <2>2. BitAt(Trimmed(got[i], n, mask, i), j)
           = IF mask # <<>> \/ k < n THEN BitAt(Masked(got[i], mask, i), j) ELSE 0
    <3>1. /\ Len(got) = BytesOf(n) /\ i \in 1..Len(got)
          /\ mask = <<>> \/ Len(mask) = Len(got)
      OBVIOUS
    <3>2. BitAt(Trimmed(got[i], n, mask, i), j)
             = IF mask # <<>> \/ 8 * (i - 1) + j < n
               THEN BitAt(Masked(got[i], mask, i), j) ELSE 0
      BY <3>1, TrimmedBit, SMTT(30)
    <3> QED
      BY <3>2
  <2>3. /\ BitAt(Masked(row[i], mask, i), j) = IF Counts(mask, k) THEN Bit(row, k) ELSE 0
        /\ BitAt(Masked(got[i], mask, i), j) = IF Counts(mask, k) THEN Bit(got, k) ELSE 0
    BY MaskedBit
  <2> HIDE DEF k
  <2>4. CASE k < n
    <3>1. Agrees(got, row, mask, k)
      BY <2>1, <2>4
    <3> QED
      BY <2>2, <2>3, <2>4, <3>1 DEF Agrees
  <2>5. CASE ~(k < n) /\ mask = <<>>
    <3>1. Bit(row, k) = 0
      BY <2>1, <2>5
    <3> QED
      BY <2>2, <2>3, <2>5, <3>1 DEF Counts
  <2>6. CASE ~(k < n) /\ mask # <<>>
    <3>1. Bit(mask, k) = 0
      BY <2>1, <2>6
    <3> QED
      BY <2>2, <2>3, <2>6, <3>1 DEF Counts
  <2> QED
    BY <2>4, <2>5, <2>6
<1> QED
  BY <1>1, <1>2, SameByte

-----------------------------------------------------------------------------
(* The transfers. *)

\* DATA_TX
LEMMA SendRowPads ==
    ASSUME NEW n \in Nat \ {0}, NEW row \in SizedFor(n, Seq(Byte)), SendRow(row, n)
    PROVE  SentPadded'
<1>1. row \in Seq(Byte) /\ Len(row) = BytesOf(n)
  BY DEF SizedFor
<1>2. CASE last' = Transfer("DATA_TX", n, row, <<>>, <<>>, 1)
  BY <1>2 DEF Transfer, SentPadded
<1>3. CASE last' = Transfer("DATA_TX", n, row, Padded(row, n), <<>>, 1)
  <2>1. last'.wire = Padded(row, n) /\ last'.n = n /\ last'.row = row
    BY <1>3 DEF Transfer
  <2>2. Len(last'.wire) = Len(row)
    BY <1>1, <2>1, PaddedBits
  <2>3. \A k \in 0..(8 * Len(row) - 1) :
           Bit(Padded(row, n), k) = IF k < 8 * Len(row) - n THEN 1
                                    ELSE Bit(row, k - (8 * Len(row) - n))
    BY <1>1, PaddedBits
  <2> QED
    BY <1>1, <2>1, <2>2, <2>3 DEF SentPadded
<1> QED
  BY <1>2, <1>3 DEF SendRow

\* DATA_RX, of a row that could be read.
LEMMA VerifyRowExact ==
    ASSUME NEW n \in Nat \ {0}, NEW row \in SizedFor(n, Seq(Byte)),
           NEW got \in SizedFor(n, Seq(Byte)),
           NEW mask \in {<<>>} \cup SizedFor(n, Seq(Byte)),
           VerifyRow(row, TRUE, n, mask, got)
    PROVE  NoFalseAlarm' /\ MismatchFound'
<1>1. /\ row \in Seq(Byte) /\ Len(row) = BytesOf(n)
      /\ got \in Seq(Byte) /\ Len(got) = Len(row)
      /\ mask \in Seq(Byte) /\ (mask = <<>> \/ Len(mask) = Len(row))
  BY EmptySeq DEF SizedFor
<1>2. CASE last'.wire = <<>>
  BY <1>2 DEF NoFalseAlarm, MismatchFound, Received
<1>3. CASE last' = Transfer("DATA_RX", n, row, got, mask, Verdict(~Differs(got, row, n, mask)))
  <2>1. /\ last'.op = "DATA_RX" /\ last'.n = n /\ last'.row = row /\ last'.wire = got
        /\ last'.mask = mask /\ last'.code = Verdict(~Differs(got, row, n, mask))
    BY <1>3 DEF Transfer
  <2>2. Differs(got, row, n, mask)
           <=> \E k \in 0..((IF n % 8 = 0 THEN n - 8 ELSE n) - 1) : ~Agrees(got, row, mask, k)
    BY <1>1, DiffersExactly
  <2>3. Looked(last') = IF n % 8 = 0 THEN n - 8 ELSE n
    BY <2>1 DEF Looked
  <2>4. NoFalseAlarm'
    <3>1. ASSUME SameBits(last', n) PROVE ~Differs(got, row, n, mask)
      BY <2>1, <2>2, <3>1 DEF SameBits, Agrees
    <3> QED
      BY <2>1, <3>1 DEF NoFalseAlarm, Verdict
  <2>5. MismatchFound'
    <3>1. ASSUME ~SameBits(last', Looked(last')) PROVE Differs(got, row, n, mask)
      BY <2>1, <2>2, <2>3, <3>1 DEF SameBits, Agrees
    <3> QED
      BY <2>1, <3>1 DEF MismatchFound, Verdict
  <2> QED
    BY <2>4, <2>5
<1> QED
  BY <1>2, <1>3 DEF VerifyRow, Transfer

\* BUFFER_RX
LEMMA CheckBufferExact ==
    ASSUME NEW n \in Nat \ {0}, NEW row \in SizedFor(n, Seq(Byte)),
           NEW got \in SizedFor(n, Seq(Byte)),
           NEW mask \in {<<>>} \cup SizedFor(n, Seq(Byte)),
           CheckBuffer(row, n, mask, got)
    PROVE  NoFalseAlarm' /\ MismatchFound'
<1>1. /\ row \in Seq(Byte) /\ Len(row) = BytesOf(n)
      /\ got \in Seq(Byte) /\ Len(got) = Len(row)
      /\ mask \in Seq(Byte) /\ (mask = <<>> \/ Len(mask) = Len(row))
  BY EmptySeq DEF SizedFor
<1>2. CASE last'.wire = <<>>
  BY <1>2 DEF NoFalseAlarm, MismatchFound, Received
<1>3. CASE last' = Transfer("BUFFER_RX", n, row, got, mask, Verdict(Matches(got, row, n, mask)))
  <2>1. /\ last'.op = "BUFFER_RX" /\ last'.n = n /\ last'.row = row /\ last'.wire = got
        /\ last'.mask = mask /\ last'.code = Verdict(Matches(got, row, n, mask))
    BY <1>3 DEF Transfer
  <2>2. Looked(last') = n
    BY <2>1 DEF Looked
  <2>3. SameBits(last', n) <=> \A k \in 0..(n - 1) : Agrees(got, row, mask, k)
    BY <2>1 DEF SameBits, Agrees
  <2>4. NoFalseAlarm'
    <3>1. ASSUME ZeroPadded(last'), SameBits(last', n) PROVE Matches(got, row, n, mask)
      <4>1. \A k \in n..(8 * Len(row) - 1) : Bit(IF mask = <<>> THEN row ELSE mask, k) = 0
        <5>1. Len(IF mask = <<>> THEN row ELSE mask) = Len(row)
          BY <1>1
        <5> QED
          BY <2>1, <3>1, <5>1 DEF ZeroPadded
      <4> QED
        BY <1>1, <2>3, <3>1, <4>1, MatchesWell
    <3> QED
      BY <2>1, <3>1 DEF NoFalseAlarm, Verdict
  <2>5. MismatchFound'
    <3>1. ASSUME Matches(got, row, n, mask) PROVE SameBits(last', Looked(last'))
      BY <1>1, <2>2, <2>3, <3>1, MatchesOnly
    <3> QED
      BY <2>1, <3>1 DEF MismatchFound, Verdict
  <2> QED
    BY <2>4, <2>5
<1> QED
  BY <1>2, <1>3 DEF CheckBuffer, Transfer

\* Every transfer does what it is to do.
LEMMA TransferStep ==
    ASSUME NextTransfer
    PROVE  SentPadded' /\ NoFalseAlarm' /\ MismatchFound'
<1>1. CASE \E ok \in BOOLEAN : Reset(ok)
  <2>1. last'.op = "reset"
    BY <1>1 DEF Reset, Transfer
  <2> QED
    BY <2>1 DEF SentPadded, NoFalseAlarm, MismatchFound, Received
<1>2. ASSUME NEW n \in Nat, NEW row \in Seq(Byte), NEW got \in Seq(Byte),
             NEW mask \in Seq(Byte), TransferOf(n, row, got, mask)
      PROVE  SentPadded' /\ NoFalseAlarm' /\ MismatchFound'
  <2>1. n \in Nat \ {0} /\ mask \in {<<>>} \cup SizedFor(n, Seq(Byte))
    BY <1>2 DEF TransferOf
  <2>2. CASE SendNothing(row, n)
    BY <2>2 DEF SendNothing, Transfer, SentPadded, NoFalseAlarm, MismatchFound, Received
  <2>3. CASE VerifyRow(row, FALSE, n, mask, got)
    <3>1. last'.op = "DATA_RX" /\ last'.code = ERROR_INIT_DATA
      BY <2>3 DEF VerifyRow, Transfer
    <3> QED
      BY <3>1 DEF SentPadded, NoFalseAlarm, MismatchFound, Received
  <2>4. CASE /\ row \in SizedFor(n, Seq(Byte)) /\ got \in SizedFor(n, Seq(Byte))
             /\ \/ SendRow(row, n) \/ VerifyRow(row, TRUE, n, mask, got)
                \/ SendBuffer(row, n) \/ CheckBuffer(row, n, mask, got)
    <3>1. CASE SendRow(row, n)
      <4>1. last'.op = "DATA_TX"
        BY <3>1 DEF SendRow, Transfer
      <4>2. NoFalseAlarm' /\ MismatchFound'
        BY <4>1 DEF NoFalseAlarm, MismatchFound, Received
      <4> QED
        BY <2>1, <2>4, <3>1, <4>2, SendRowPads
    <3>2. CASE VerifyRow(row, TRUE, n, mask, got)
      <4>1. last'.op = "DATA_RX"
        BY <3>2 DEF VerifyRow, Transfer
      <4>2. SentPadded'
        BY <4>1 DEF SentPadded
      <4> QED
        BY <2>1, <2>4, <3>2, <4>2, VerifyRowExact
    <3>3. CASE SendBuffer(row, n)
      BY <3>3 DEF SendBuffer, Transfer, SentPadded, NoFalseAlarm, MismatchFound, Received
    <3>4. CASE CheckBuffer(row, n, mask, got)
      <4>1. last'.op = "BUFFER_RX"
        BY <3>4 DEF CheckBuffer, Transfer
      <4>2. SentPadded'
        BY <4>1 DEF SentPadded
      <4> QED
        BY <2>1, <2>4, <3>4, <4>2, CheckBufferExact
    <3> QED
      BY <2>4, <3>1, <3>2, <3>3, <3>4
  <2> QED
    BY <1>2, <2>2, <2>3, <2>4 DEF TransferOf, SizedFor
<1> QED
  BY <1>1, <1>2 DEF NextTransfer

\* Before the first transfer and while nothing is transferred.
LEMMA TransferIdle ==
    /\ last = NoTransfer => SentPadded /\ NoFalseAlarm /\ MismatchFound
    /\ SentPadded /\ UNCHANGED last => SentPadded'
    /\ NoFalseAlarm /\ UNCHANGED last => NoFalseAlarm'
    /\ MismatchFound /\ UNCHANGED last => MismatchFound'
<1>1. ASSUME last = NoTransfer
      PROVE  SentPadded /\ NoFalseAlarm /\ MismatchFound
  <2>1. last.op = "none"
    BY <1>1 DEF NoTransfer, Transfer
  <2> QED
    BY <2>1 DEF SentPadded, NoFalseAlarm, MismatchFound, Received
<1>2. ASSUME SentPadded, UNCHANGED last
      PROVE  SentPadded'
  BY <1>2 DEF SentPadded
<1>3. ASSUME NoFalseAlarm, UNCHANGED last
      PROVE  NoFalseAlarm'
  BY <1>3 DEF NoFalseAlarm
<1>4. ASSUME MismatchFound, UNCHANGED last
      PROVE  MismatchFound'
  BY <1>4 DEF MismatchFound
<1> QED
  BY <1>1, <1>2, <1>3, <1>4

-----------------------------------------------------------------------------
\* What has taken the steps that StepsAreTransfers speaks of, whatever else it
\* does, is transfers one after the other: all that follows holds of it.
THEOREM WitnessSuffices == last = NoTransfer /\ StepsAreTransfers => TransferSpec
<1>1. ASSUME Witnessed PROVE NextTransfer
  <2>1. CASE \E ok \in BOOLEAN : Reset(ok)
    BY <2>1 DEF NextTransfer
  <2>2. CASE ~\E ok \in BOOLEAN : Reset(ok)
    <3> DEFINE got == IF last'.wire = <<>> THEN last'.row ELSE last'.wire
    <3>1. TransferOf(last'.n, last'.row, got, last'.mask)
      BY <1>1, <2>2 DEF Witnessed
    <3>2. /\ last'.n \in Nat /\ last'.row \in Seq(Byte) /\ got \in Seq(Byte)
          /\ last'.mask \in Seq(Byte)
      BY <3>1, EmptySeq DEF TransferOf, SizedFor
    <3> HIDE DEF got
    <3> QED
      BY <3>1, <3>2 DEF NextTransfer
  <2> QED
    BY <2>1, <2>2
<1>2. [Witnessed]_last => [NextTransfer]_last
  BY <1>1
<1> QED
  BY <1>2, PTL DEF StepsAreTransfers, TransferSpec

\* Rows of any size go over the wire as their n bits behind as many ones as the
\* bytes have to spare, bit by bit, whatever the data.
THEOREM AlwaysPadded == TransferSpec => []SentPadded
<1>1. SentPadded /\ [NextTransfer]_last => SentPadded'
  BY TransferStep, TransferIdle
<1> QED
  BY <1>1, TransferIdle, PTL DEF TransferSpec

\* Whatever the FPGA sends, a comparison does not complain when the bits that
\* count are right.
THEOREM NeverFalseAlarm == TransferSpec => []NoFalseAlarm
<1>1. NoFalseAlarm /\ [NextTransfer]_last => NoFalseAlarm'
  BY TransferStep, TransferIdle
<1> QED
  BY <1>1, TransferIdle, PTL DEF TransferSpec

\* Whatever the FPGA sends, a wrong bit that counts is noticed, but in the last
\* byte of data that fill their bytes.
THEOREM MismatchAlwaysFound == TransferSpec => []MismatchFound
<1>1. MismatchFound /\ [NextTransfer]_last => MismatchFound'
  BY TransferStep, TransferIdle
<1> QED
  BY <1>1, TransferIdle, PTL DEF TransferSpec
==============================================================================

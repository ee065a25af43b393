------------------------------ MODULE FormatProofs ------------------------------
(***************************************************************************)
(* What the reader makes of octets, for octets of any content and length,  *)
(* and what the writer makes of a save, for any save that can be stored.   *)
(*                                                                         *)
(* First the codec of variable size values; then the steps from a number   *)
(* to a structure, each in two forms: what was stored is loaded as it was  *)
(* (LoadOneAt, LoadAt, LoadAllAt), and what is loaded from anything can be *)
(* stored again (LoadOneTyped, LoadTyped, LoadAllTyped). The second form   *)
(* goes on to the blocks, the body and the file: what file_reader accepts  *)
(* is well-formed (AcceptedIsWellFormed).                                  *)
(*                                                                         *)
(* The lists of loads are reasoned about as lists of names: ListOf gives   *)
(* the fields of some names, and each structure of FormatReader is shown   *)
(* to be such a list.                                                      *)
(*                                                                         *)
(* The stores of the writer go over each other, since the location table   *)
(* is filled in last. Holds says what octets a cursor has behind it after  *)
(* its stores; BodyIs and FileIs say where in these octets each part of a  *)
(* save is, and WriterIs that file_writer ends with such a file.           *)
(***************************************************************************)
EXTENDS FormatReader, FormatWriter, SequenceTheorems, TLAPS
-----------------------------------------------------------------------------
(* The codec, for every value and not only for the boundary values TLC tries. *)

\* What decode_vsval's array b holds after its loop has read the octets o: the
\* octets and zeroes for those that were not there.
Padded(o) == [k \in 1..3 |-> IF k <= Len(o) THEN o[k] ELSE 0]

\* Values that can be encoded lose nothing when they are shifted.
LEMMA ShiftKeeps ==
  ASSUME NEW v \in Nat, v <= VsvalMax
  PROVE  Shifted(v) = 4 * v /\ Shifted(v) \in Nat /\ Shifted(v) <= 16777212
BY SMT DEF Shifted, VsvalMax

\* The size information sits in the two bits the shift left zero.
LEMMA WordSplits ==
  ASSUME NEW v \in Nat, v <= VsvalMax
  PROVE  /\ OctetCount(Shifted(v)) \in 1..3
         /\ Word(v) = 4 * v + (OctetCount(Shifted(v)) - 1)
         /\ Word(v) \in Nat /\ Word(v) < 16777216
         /\ Word(v) \div 4 = v
<1>1. Shifted(v) = 4 * v /\ Shifted(v) \in Nat /\ Shifted(v) <= 16777212
  BY SMT, ShiftKeeps
<1>2. OctetCount(Shifted(v)) \in 1..3
  BY SMT, <1>1 DEF OctetCount
<1>3. Word(v) = 4 * v + (OctetCount(Shifted(v)) - 1)
  BY SMT, <1>1 DEF Word
<1>4. QED BY SMT, <1>1, <1>2, <1>3 DEF VsvalMax

\* A word of so many octets is below 256 to that power.
LEMMA WordFits ==
  ASSUME NEW v \in Nat, v <= VsvalMax
  PROVE  /\ OctetCount(Shifted(v)) = 1 => Word(v) < 256
         /\ OctetCount(Shifted(v)) = 2 => Word(v) < 65536
<1>1. Shifted(v) = 4 * v /\ v \in Nat
  BY SMT, ShiftKeeps
<1>2. CASE Shifted(v) < 256
  BY SMT, <1>1, <1>2 DEF Word, OctetCount
<1>3. CASE Shifted(v) >= 256 /\ Shifted(v) < 65536
  BY SMT, <1>1, <1>3 DEF Word, OctetCount
<1>4. CASE Shifted(v) >= 65536
  BY SMT, <1>1, <1>4 DEF OctetCount
<1>5. QED BY SMT, <1>1, <1>2, <1>3, <1>4

\* What the decoder makes of three octets before it shifts.
Rebuilt(o) == o[3] * 65536 + o[2] * 256 + o[1]

\* Reading the octets of a word back gives the word.
LEMMA OctetsRebuild ==
  ASSUME NEW w \in Nat, w < 16777216
  PROVE  Rebuilt(Octets(w)) = w
<1>. DEFINE q == w \div 256
            r == q \div 256
<1>1. q \in Nat /\ q < 65536 /\ w = q * 256 + (w % 256) /\ w % 256 \in 0..255
  BY SMT
<1>2. r \in Nat /\ r < 256 /\ q = r * 256 + (q % 256) /\ q % 256 \in 0..255
  <2>1. \A k \in Nat : k < 65536 => /\ k \div 256 \in Nat /\ k \div 256 < 256
                                   /\ k = (k \div 256) * 256 + (k % 256)
                                   /\ k % 256 \in 0..255
    BY SMT
  <2>2. QED BY SMT, <1>1, <2>1
<1>3. w \div 65536 = r
  <2>. DEFINE t == (q % 256) * 256 + (w % 256)
  <2>1. t \in Nat /\ t < 65536
    <3>. HIDE DEF q, r
    <3>1. QED BY SMT, <1>1, <1>2
  <2>2. w = r * 65536 + t
    <3>. HIDE DEF q, r
    <3>1. QED BY SMT, <1>1, <1>2
  <2>. HIDE DEF q, r, t
  <2>3. QED BY SMT, <1>2, <2>1, <2>2
<1>4. r % 256 = r
  <2>. HIDE DEF r
  <2>1. QED BY SMT, <1>2
<1>5. r * 65536 + (q % 256) * 256 + (w % 256) = w
  <2>. HIDE DEF q, r
  <2>1. QED BY SMT, <1>1, <1>2
<1>6. Rebuilt(Octets(w)) = r * 65536 + (q % 256) * 256 + (w % 256)
  BY SMT, <1>3, <1>4 DEF Rebuilt, Octets
<1>7. QED BY SMT, <1>5, <1>6

\* Every value encode_vsval accepts comes back from decode_vsval, and the first
\* octet tells the decoder to read exactly as many octets as were written.
THEOREM CodecRoundTrip ==
  ASSUME NEW v \in Nat, v <= VsvalMax
  PROVE  /\ LoopBound(Encoded(v)[1]) = Len(Encoded(v))
         /\ Encoded(v)[1] % 4 # 3
         /\ Assembled(Padded(Encoded(v))) = v
<1>. DEFINE n == OctetCount(Shifted(v))
            p == Padded(Encoded(v))
<1>1. n \in 1..3 /\ Word(v) = 4 * v + (n - 1) /\ Word(v) \in Nat /\ Word(v) < 16777216
      /\ Word(v) \div 4 = v
  BY SMT, WordSplits
<1>2. Len(Encoded(v)) = n
  BY SMT, <1>1 DEF Encoded
<1>3. Encoded(v)[1] = Word(v) % 256
  BY SMTT(30), <1>1 DEF Encoded, Octets
<1>4. LoopBound(Encoded(v)[1]) = n /\ Encoded(v)[1] % 4 # 3
  <2>1. Encoded(v)[1] % 4 = n - 1
    BY SMT, <1>1, <1>3
  <2>2. (Encoded(v)[1] + 1) % 4 = n
    BY SMT, <1>1, <1>3, <2>1
  <2>3. QED BY SMT, <1>1, <2>1, <2>2 DEF LoopBound
<1>5. p[1] = Word(v) % 256
  BY SMT, <1>1, <1>2, <1>3 DEF Padded
<1>6. p[2] = (Word(v) \div 256) % 256
  <2>1. CASE n = 1
    BY SMT, <1>1, <1>2, <2>1, WordFits DEF Padded
  <2>2. CASE n # 1
    <3>1. Octets(Word(v))[2] = (Word(v) \div 256) % 256
      BY SMT DEF Octets
    <3>2. 2 \in 1..n
      BY SMT, <1>1, <2>2
    <3>3. Encoded(v)[2] = Octets(Word(v))[2]
      BY SMT, <3>2 DEF Encoded
    <3>4. QED BY SMT, <1>2, <3>1, <3>2, <3>3 DEF Padded
  <2>3. QED BY SMT, <2>1, <2>2
<1>7. p[3] = (Word(v) \div 65536) % 256
  <2>1. CASE n # 3
    <3>1. Word(v) < 65536
      BY SMT, <1>1, <2>1, WordFits
    <3>2. (Word(v) \div 65536) % 256 = 0
      BY SMT, <1>1, <3>1
    <3>3. ~(3 <= Len(Encoded(v)))
      BY SMT, <1>1, <1>2, <2>1
    <3>4. QED BY SMT, <3>2, <3>3 DEF Padded
  <2>2. CASE n = 3
    BY SMT, <1>1, <1>2, <2>2 DEF Padded, Encoded, Octets
  <2>3. QED BY SMT, <2>1, <2>2
<1>8. Rebuilt(p) = Rebuilt(Octets(Word(v)))
  BY SMT, <1>5, <1>6, <1>7 DEF Rebuilt, Octets
<1>9. Assembled(p) = v
  BY SMT, <1>1, <1>8, OctetsRebuild DEF Assembled, Rebuilt
<1>10. QED BY SMT, <1>2, <1>4, <1>9
-----------------------------------------------------------------------------
FL == INSTANCE FoldFacts WITH Op <- LoadOne

Value == Seq(Octet)
-----------------------------------------------------------------------------
(* Numbers and their octets. *)

\* An octet is a number from 0 to 255.
LEMMA OctetIs == \A x \in Octet : x \in Int /\ 0 <= x /\ x <= 255
  BY SMT DEF Octet

\* The elements of a value are octets.
LEMMA ElementIs ==
  ASSUME NEW o \in Value, NEW i \in 1..Len(o)
  PROVE  o[i] \in Octet
BY ElementOfSeq, Zenon DEF Value

\* The powers the codec and the readers use.
LEMMA Powers ==
  /\ 256^0 = 1 /\ 256^1 = 256 /\ 256^2 = 65536 /\ 256^3 = 16777216
  /\ 2^0 = 1 /\ 2^1 = 2 /\ 2^2 = 4
  BY SMT

\* The octet of a number at a place.
Digit(n, i) == (n \div 256^(i - 1)) % 256

\* The four octets of a number, with their powers written out.
LEMMA DigitIs ==
  ASSUME NEW n \in Int
  PROVE  /\ Digit(n, 1) = n % 256 /\ Digit(n, 2) = (n \div 256) % 256
         /\ Digit(n, 3) = (n \div 65536) % 256
         /\ Digit(n, 4) = (n \div 16777216) % 256
<1>1. 1 - 1 = 0 /\ 2 - 1 = 1 /\ 3 - 1 = 2 /\ 4 - 1 = 3 /\ n \div 1 = n
  BY SMT
<1>2. QED BY <1>1, Powers, SMT DEF Digit

\* Every place of a number holds an octet.
LEMMA DigitTyped ==
  ASSUME NEW n \in Int, NEW i \in 1..4
  PROVE  Digit(n, i) \in Octet
<1>0. \A m \in Int : m % 256 \in Octet
  BY SMT DEF Octet
<1>1. /\ \E m \in Int : Digit(n, 1) = m % 256
      /\ \E m \in Int : Digit(n, 2) = m % 256
      /\ \E m \in Int : Digit(n, 3) = m % 256
      /\ \E m \in Int : Digit(n, 4) = m % 256
  BY DigitIs, SMT
<1>2. Digit(n, 1) \in Octet /\ Digit(n, 2) \in Octet /\ Digit(n, 3) \in Octet
      /\ Digit(n, 4) \in Octet
  <2>. DEFINE M(k) == k % 256
  <2>1. \A m \in Int : M(m) \in Octet
    BY <1>0
  <2>2. /\ \E m \in Int : Digit(n, 1) = M(m)
        /\ \E m \in Int : Digit(n, 2) = M(m)
        /\ \E m \in Int : Digit(n, 3) = M(m)
        /\ \E m \in Int : Digit(n, 4) = M(m)
    BY <1>1
  <2>. HIDE DEF M
  <2>3. QED BY <2>1, <2>2, Zenon
<1>3. i = 1 \/ i = 2 \/ i = 3 \/ i = 4
  BY SMT
<1>4. QED BY <1>2, <1>3, Zenon

\* A function on 1..w is a sequence of length w.
LEMMA FunctionIsSeq ==
  ASSUME NEW X, NEW w \in Nat, NEW f \in [1..w -> X]
  PROVE  f \in Seq(X) /\ Len(f) = w
  BY SMT

\* LE(n, w) is w octets: the lowest w places of n.
LEMMA LEIs ==
  ASSUME NEW n \in Int, NEW w \in {1, 2, 4}
  PROVE  /\ LE(n, w) \in Value /\ Len(LE(n, w)) = w
         /\ \A i \in 1..w : LE(n, w)[i] = Digit(n, i)
<1>0. w \in Int /\ w <= 4
  BY SMT
<1>1. ASSUME NEW i \in 1..w PROVE i \in 1..4
  BY <1>0, SMT
<1>2. \A i \in 1..w : Digit(n, i) \in Octet
  BY <1>1, DigitTyped, Zenon
<1>3. LE(n, w) = [i \in 1..w |-> Digit(n, i)]
  BY Zenon DEF LE, Digit
<1>4. LE(n, w) \in [1..w -> Octet]
  BY <1>2, <1>3, Zenon
<1>5. w \in Nat
  BY SMT
<1>6. LE(n, w) \in Seq(Octet) /\ Len(LE(n, w)) = w
  BY <1>4, <1>5, FunctionIsSeq, Zenon
<1>7. QED BY <1>3, <1>6, Zenon DEF Value

\* What stands for the numbers too large to tell apart is at least 2^24.
LEMMA TooManyIs == TooMany \in Nat /\ TooMany >= 16777216 /\ TooMany <= 4294967296
  BY FormatAssumption, SMT DEF TooMany

\* How many numbers there are of so many octets, as far as they are told apart.
Numbers(w) == IF w = 1 THEN 256 ELSE IF w = 2 THEN 65536 ELSE TooMany

\* How many numbers one, two and four octets can say.
LEMMA NumbersIs == Numbers(1) = 256 /\ Numbers(2) = 65536 /\ Numbers(4) = TooMany
  BY SMT DEF Numbers

\* The number of four octets.
LEMMA Assembled4Is ==
  ASSUME NEW x \in Int, NEW y \in Int, NEW z \in Int, NEW u \in Int
  PROVE  Assembled4(x, y, z, u) = IF z + 256 * u < HighHalves
                                  THEN x + 256 * y + 65536 * (z + 256 * u) ELSE TooMany
  BY SMT DEF Assembled4

\* The number of two octets.
LEMMA Assembled2Is ==
  ASSUME NEW x \in Int, NEW y \in Int
  PROVE  Assembled4(x, y, 0, 0) = x + 256 * y
<1>. DEFINE z == 0
<1>1. z \in Int /\ z = 0
  OBVIOUS
<1>2. HighHalves \in Int /\ HighHalves > 0
  BY FormatAssumption, SMT
<1>3. Assembled4(x, y, 0, 0) = Assembled4(x, y, z, z)
  OBVIOUS
<1>. HIDE DEF z
<1>4. Assembled4(x, y, z, z) = IF z + 256 * z < HighHalves
                               THEN x + 256 * y + 65536 * (z + 256 * z) ELSE TooMany
  BY ONLY x \in Int, y \in Int, <1>1, Assembled4Is, SMT
<1>5. Assembled4(x, y, z, z) = x + 256 * y
  BY ONLY x \in Int, y \in Int, <1>1, <1>2, <1>4, SMT
<1>6. QED BY <1>3, <1>5, Zenon

\* The number one octet says.
LEMMA Number1 ==
  ASSUME NEW o, NEW x \in Int, Len(o) = 1, o[1] = x
  PROVE  Number(o) = x
<1>1. Number(o) = Assembled4(x, 0, 0, 0)
  BY SMT DEF Number
<1>2. Assembled4(x, 0, 0, 0) = x + 256 * 0
  BY 0 \in Int, Assembled2Is, Zenon
<1>3. QED BY <1>1, <1>2, SMT

\* The number two octets say.
LEMMA Number2 ==
  ASSUME NEW o, NEW x \in Int, NEW y \in Int, Len(o) = 2, o[1] = x, o[2] = y
  PROVE  Number(o) = x + 256 * y
<1>1. Number(o) = Assembled4(x, y, 0, 0)
  BY SMT DEF Number
<1>2. QED BY <1>1, Assembled2Is, Zenon

\* The number four octets say, those too large to tell apart being TooMany.
LEMMA Number4 ==
  ASSUME NEW o, NEW x \in Int, NEW y \in Int, NEW z \in Int, NEW u \in Int,
         Len(o) = 4, o[1] = x, o[2] = y, o[3] = z, o[4] = u
  PROVE  Number(o) = IF z + 256 * u < HighHalves
                     THEN x + 256 * y + 65536 * (z + 256 * u) ELSE TooMany
<1>1. Number(o) = Assembled4(x, y, z, u)
  BY SMT DEF Number
<1>. DEFINE v == IF z + 256 * u < HighHalves
                 THEN x + 256 * y + 65536 * (z + 256 * u) ELSE TooMany
<1>2. Assembled4(x, y, z, u) = v
  BY SMT DEF Assembled4
<1>. HIDE DEF v
<1>3. Number(o) = v
  BY ONLY <1>1, <1>2, SMT
<1>4. QED BY ONLY <1>3, SMT DEF v

\* A number read from one octet is below 256.
LEMMA Range1 ==
  ASSUME NEW o \in Value, Len(o) = 1
  PROVE  Number(o) \in Nat /\ Number(o) < Numbers(1) /\ Number(o) <= TooMany
<1>1. 1 \in 1..Len(o)
  BY SMT
<1>2. o[1] \in Octet
  BY <1>1, ElementIs, Zenon
<1>3. PICK x \in Octet : o[1] = x
  BY <1>2, Zenon
<1>4. Number(o) = x
  BY <1>3, OctetIs, Number1, Zenon
<1>5. QED BY <1>4, OctetIs, NumbersIs, TooManyIs, SMT

\* A number read from two octets is below 65536.
LEMMA Range2 ==
  ASSUME NEW o \in Value, Len(o) = 2
  PROVE  Number(o) \in Nat /\ Number(o) < Numbers(2) /\ Number(o) <= TooMany
<1>1. 1 \in 1..Len(o) /\ 2 \in 1..Len(o)
  BY SMT
<1>2. o[1] \in Octet /\ o[2] \in Octet
  BY <1>1, ElementIs, Zenon
<1>3. PICK x \in Octet, y \in Octet : o[1] = x /\ o[2] = y
  BY <1>2, Zenon
<1>4. x \in Int /\ y \in Int /\ 0 <= x /\ x <= 255 /\ 0 <= y /\ y <= 255
  BY OctetIs, SMT
<1>5. Number(o) = x + 256 * y
  BY <1>3, <1>4, Number2, SMT
<1>6. QED BY <1>4, <1>5, NumbersIs, TooManyIs, SMT

\* A number read from four octets is at most TooMany.
LEMMA Range4 ==
  ASSUME NEW o \in Value, Len(o) = 4
  PROVE  Number(o) \in Nat /\ Number(o) <= TooMany
<1>1. 1 \in 1..Len(o) /\ 2 \in 1..Len(o) /\ 3 \in 1..Len(o) /\ 4 \in 1..Len(o)
  BY SMT
<1>2. o[1] \in Octet /\ o[2] \in Octet /\ o[3] \in Octet /\ o[4] \in Octet
  BY <1>1, ElementIs, Zenon
<1>3. PICK x \in Octet, y \in Octet, z \in Octet, u \in Octet :
         o[1] = x /\ o[2] = y /\ o[3] = z /\ o[4] = u
  BY <1>2, Zenon
<1>4. x \in Int /\ y \in Int /\ z \in Int /\ u \in Int /\ 0 <= x /\ x <= 255
      /\ 0 <= y /\ y <= 255 /\ 0 <= z /\ z <= 255 /\ 0 <= u
  BY OctetIs, SMT
<1>. DEFINE h == z + 256 * u
<1>5. Number(o) = IF h < HighHalves THEN x + 256 * y + 65536 * h ELSE TooMany
  <2>1. Len(o) = 4 /\ o[1] = x /\ o[2] = y /\ o[3] = z /\ o[4] = u
    BY <1>3
  <2>2. QED BY ONLY <1>4, <2>1, Number4, SMT
<1>6. h \in Nat
  BY <1>4
<1>. HIDE DEF h
<1>7. QED BY <1>4, <1>5, <1>6, FormatAssumption, SMT DEF TooMany

\* A number read from one, two or four octets is in the range of its width.
LEMMA NumberTyped ==
  ASSUME NEW w \in {1, 2, 4}, NEW o \in Value, Len(o) = w
  PROVE  /\ Number(o) \in Nat /\ Number(o) <= TooMany
         /\ w # 4 => Number(o) < Numbers(w)
BY Range1, Range2, Range4, Zenon

\* What is written of a number is read as the number.
LEMMA NumberOfLE ==
  ASSUME NEW w \in {1, 2, 4}, NEW n \in Nat, n < Numbers(w)
  PROVE  Number(LE(n, w)) = n
<1>0. n \in Int
  BY SMT
<1>. DEFINE x == n % 256
            y == (n \div 256) % 256
            z == (n \div 65536) % 256
            u == (n \div 16777216) % 256
<1>1. x \in Int /\ y \in Int /\ z \in Int /\ u \in Int
  BY SMT
<1>2. Digit(n, 1) = x /\ Digit(n, 2) = y /\ Digit(n, 3) = z /\ Digit(n, 4) = u
  BY <1>0, DigitIs, SMT
<1>3. n < 256 => x = n
  BY SMT
<1>4. n < 65536 => x + 256 * y = n
  BY SMT
<1>5. n < TooMany => z + 256 * u < HighHalves /\ x + 256 * y + 65536 * (z + 256 * u) = n
  <2>. DEFINE q == n \div 65536
  <2>1. q \in Nat /\ n \div 16777216 = q \div 256 /\ z = q % 256 /\ u = (q \div 256) % 256
    BY SMT
  <2>2. x + 256 * y + 65536 * q = n
    BY SMT
  <2>3. n < TooMany => q < HighHalves
    BY FormatAssumption, SMT DEF TooMany
  <2>. HIDE DEF q, x, y, z, u
  <2>4. q < HighHalves => z + 256 * u = q
    <3>. DEFINE s == q \div 256  b == q % 256
    <3>1. s \in Int /\ b \in Int /\ b + 256 * s = q
      BY <2>1, SMT
    <3>2. q < HighHalves => s % 256 = s
      <4>1. HighHalves \in Int /\ HighHalves <= 65536
        BY FormatAssumption, SMT
      <4>2. 0 <= b /\ b <= 255
        BY <2>1, SMT
      <4>3. q < HighHalves => 0 <= s /\ s <= 255
        BY ONLY <2>1, <3>1, <4>1, <4>2, SMT
      <4>4. \A k \in Int : 0 <= k /\ k <= 255 => k % 256 = k
        BY SMT
      <4>. HIDE DEF s, b
      <4>5. QED BY <3>1, <4>3, <4>4
    <3>3. z = b /\ u = s % 256
      BY <2>1
    <3>. HIDE DEF s, b
    <3>4. q < HighHalves => u = s
      BY <3>2, <3>3
    <3>5. QED BY ONLY <3>1, <3>3, <3>4, SMT
  <2>5. QED BY <2>2, <2>3, <2>4
<1>. HIDE DEF x, y, z, u
<1>6. CASE w = 1
  <2>1. 1 \in 1..1 /\ 1 \in {1, 2, 4}
    BY SMT
  <2>2. Len(LE(n, 1)) = 1 /\ LE(n, 1)[1] = x
    BY <1>0, <1>2, <2>1, LEIs, Zenon
  <2>3. Number(LE(n, 1)) = x
    BY <1>1, <2>2, Number1, Zenon
  <2>4. QED BY <1>3, <1>6, <2>3, NumbersIs, SMT
<1>7. CASE w = 2
  <2>1. 1 \in 1..2 /\ 2 \in 1..2 /\ 2 \in {1, 2, 4}
    BY SMT
  <2>2. Len(LE(n, 2)) = 2 /\ LE(n, 2)[1] = x /\ LE(n, 2)[2] = y
    BY <1>0, <1>2, <2>1, LEIs, Zenon
  <2>3. Number(LE(n, 2)) = x + 256 * y
    BY <1>1, <2>2, Number2, SMT
  <2>4. QED BY <1>4, <1>7, <2>3, NumbersIs, SMT
<1>8. CASE w = 4
  <2>1. 1 \in 1..4 /\ 2 \in 1..4 /\ 3 \in 1..4 /\ 4 \in 1..4 /\ 4 \in {1, 2, 4}
    BY SMT
  <2>2. Len(LE(n, 4)) = 4 /\ LE(n, 4)[1] = x /\ LE(n, 4)[2] = y /\ LE(n, 4)[3] = z
        /\ LE(n, 4)[4] = u
    BY <1>0, <1>2, <2>1, LEIs, Zenon
  <2>3. Number(LE(n, 4)) = IF z + 256 * u < HighHalves
                           THEN x + 256 * y + 65536 * (z + 256 * u) ELSE TooMany
    BY ONLY <1>1, <2>2, Number4, SMT
  <2>4. n < TooMany
    BY <1>8, NumbersIs, SMT
  <2>5. Number(LE(n, 4)) = n
    BY ONLY <1>1, <1>5, <2>3, <2>4, SMT
  <2>6. QED BY <1>8, <2>5, Zenon
<1>9. QED BY <1>6, <1>7, <1>8, SMT
-----------------------------------------------------------------------------
(* Arithmetic in 32 bits. *)

\* A sum or a product in 32 bits is four octets.
LEMMA CarriedIs ==
  ASSUME NEW p, p[1] \in Nat, p[2] \in Nat, p[3] \in Nat, p[4] \in Nat
  PROVE  Carried(p) \in Value /\ Len(Carried(p)) = 4
<1>. DEFINE q == p[2] + p[1] \div 256  r == p[3] + q \div 256  t == p[4] + r \div 256
<1>1. q \in Nat /\ r \in Nat /\ t \in Nat
  BY SMT
<1>2. Carried(p) = <<p[1] % 256, q % 256, r % 256, t % 256>>
  BY DEF Carried
<1>. HIDE DEF q, r, t
<1>3. \A m \in Nat : m % 256 \in Octet
  BY SMT DEF Octet
<1>4. p[1] % 256 \in Octet /\ q % 256 \in Octet /\ r % 256 \in Octet /\ t % 256 \in Octet
  BY <1>1, <1>3, Zenon
<1>5. \A x, y, z, u \in Octet : <<x, y, z, u>> \in Value /\ Len(<<x, y, z, u>>) = 4
  BY SMT DEF Value
<1>. DEFINE a == p[1] % 256 b == q % 256 c == r % 256 d == t % 256
<1>6. a \in Octet /\ b \in Octet /\ c \in Octet /\ d \in Octet /\ Carried(p) = <<a, b, c, d>>
  BY <1>2, <1>4
<1>. HIDE DEF a, b, c, d
<1>7. <<a, b, c, d>> \in Value /\ Len(<<a, b, c, d>>) = 4
  BY ONLY <1>5, <1>6, SMT
<1>8. QED BY ONLY <1>6, <1>7, SMT

\* The octets of four are numbers.
LEMMA FourOctets ==
  ASSUME NEW o \in Value, Len(o) = 4
  PROVE  o[1] \in Nat /\ o[2] \in Nat /\ o[3] \in Nat /\ o[4] \in Nat
<1>1. 1 \in 1..Len(o) /\ 2 \in 1..Len(o) /\ 3 \in 1..Len(o) /\ 4 \in 1..Len(o)
  BY SMT
<1>2. o[1] \in Octet /\ o[2] \in Octet /\ o[3] \in Octet /\ o[4] \in Octet
  BY <1>1, ElementIs, Zenon
<1>3. QED BY <1>2, OctetIs, SMT

\* A sum in 32 bits is four octets, and so is a product.
LEMMA SumAndProduct ==
  ASSUME NEW a \in Value, NEW b \in Value, Len(a) = 4, Len(b) = 4
  PROVE  /\ Plus(a, b) \in Value /\ Len(Plus(a, b)) = 4
         /\ Times(a, b) \in Value /\ Len(Times(a, b)) = 4
<1>0. /\ a[1] \in Nat /\ a[2] \in Nat /\ a[3] \in Nat /\ a[4] \in Nat
      /\ b[1] \in Nat /\ b[2] \in Nat /\ b[3] \in Nat /\ b[4] \in Nat
  BY FourOctets, Zenon
<1>1. \A m, n \in Nat : m + n \in Nat /\ m * n \in Nat
  BY SMT
<1>2. Plus(a, b) \in Value /\ Len(Plus(a, b)) = 4
  <2>. DEFINE p == [i \in 1..4 |-> a[i] + b[i]]
  <2>1. p[1] = a[1] + b[1] /\ p[2] = a[2] + b[2] /\ p[3] = a[3] + b[3] /\ p[4] = a[4] + b[4]
    OBVIOUS
  <2>2. Plus(a, b) = Carried(p)
    BY DEF Plus
  <2>. HIDE DEF p
  <2>3. p[1] \in Nat /\ p[2] \in Nat /\ p[3] \in Nat /\ p[4] \in Nat
    BY <1>0, <2>1
  <2>4. QED BY <2>2, <2>3, CarriedIs, Zenon
<1>3. Times(a, b) \in Value /\ Len(Times(a, b)) = 4
  <2>. DEFINE p1 == a[1] * b[1]
              p2 == a[1] * b[2] + a[2] * b[1]
              p3 == a[1] * b[3] + a[2] * b[2] + a[3] * b[1]
              p4 == a[1] * b[4] + a[2] * b[3] + a[3] * b[2] + a[4] * b[1]
              p == <<p1, p2, p3, p4>>
  <2>1. p1 \in Nat /\ p2 \in Nat /\ p3 \in Nat /\ p4 \in Nat
    BY <1>0, <1>1, Zenon
  <2>2. Times(a, b) = Carried(p)
    BY DEF Times
  <2>. HIDE DEF p1, p2, p3, p4
  <2>3. p[1] \in Nat /\ p[2] \in Nat /\ p[3] \in Nat /\ p[4] \in Nat
    BY <2>1
  <2>4. QED BY <2>2, <2>3, CarriedIs, Zenon
<1>4. QED BY <1>2, <1>3

-----------------------------------------------------------------------------
(* Concatenation of a list. *)

\* The function by which FlattenSeq is defined exists for lists of any length.
LEMMA FlattenExists ==
  ASSUME NEW ss
  PROVE  \A n \in Nat : \E flat :
            flat = [i \in 1..n |-> IF i = 1 THEN ss[i] ELSE flat[i - 1] \o ss[i]]
<1>. DEFINE F(flat, n) == flat = [i \in 1..n |-> IF i = 1 THEN ss[i] ELSE flat[i - 1] \o ss[i]]
            T == {n \in Nat : \E flat : F(flat, n)}
<1>1. 0 \in T
  <2>1. F(<<>>, 0)
    OBVIOUS
  <2>2. QED BY <2>1
<1>2. ASSUME NEW n \in Nat, n \in T PROVE n + 1 \in T
  <2>1. PICK f : F(f, n)
    BY <1>2
  <2>. DEFINE g == [i \in 1..(n + 1) |->
                      IF i = n + 1 THEN IF i = 1 THEN ss[i] ELSE f[i - 1] \o ss[i] ELSE f[i]]
              E(i) == IF i = 1 THEN ss[i] ELSE g[i - 1] \o ss[i]
  <2>2. ASSUME NEW i \in 1..(n + 1) PROVE g[i] = E(i)
    <3>1. CASE i = n + 1
      <4>1. CASE i = 1
        BY <3>1, <4>1
      <4>2. CASE i # 1
        <5>1. i - 1 \in 1..(n + 1) /\ i - 1 # n + 1
          BY <4>2
        <5>2. g[i - 1] = f[i - 1]
          BY <5>1
        <5>3. QED BY <3>1, <4>2, <5>2
      <4>3. QED BY <4>1, <4>2
    <3>2. CASE i # n + 1
      <4>1. i \in 1..n /\ g[i] = f[i]
        BY <3>2
      <4>2. f[i] = IF i = 1 THEN ss[i] ELSE f[i - 1] \o ss[i]
        BY <2>1, <4>1
      <4>3. i # 1 => i - 1 \in 1..(n + 1) /\ i - 1 # n + 1
        BY <4>1
      <4>4. i # 1 => g[i - 1] = f[i - 1]
        BY <4>3
      <4>5. QED BY <4>1, <4>2, <4>4
    <3>3. QED BY <3>1, <3>2
  <2>3. g = [i \in 1..(n + 1) |-> g[i]]
    OBVIOUS
  <2>. HIDE DEF g
  <2>4. g = [i \in 1..(n + 1) |-> E(i)]
    BY <2>2, <2>3
  <2>5. F(g, n + 1)
    BY <2>4
  <2>6. n + 1 \in Nat
    OBVIOUS
  <2>. HIDE DEF F
  <2>7. QED BY <2>5, <2>6
<1>. HIDE DEF T
<1>3. Nat \subseteq T
  BY <1>1, <1>2, FL!Induction
<1>4. QED BY <1>3 DEF T

\* Joining sequences is associative.
LEMMA Associative ==
  ASSUME NEW X
  PROVE  \A a, b, c \in Seq(X) : (a \o b) \o c = a \o (b \o c)
  BY ConcatAssociative

\* What holds of no elements, and of one more, holds of every sequence.
LEMMA InductionOver ==
  ASSUME NEW X, NEW T, <<>> \in T,
         \A s \in Seq(X) : \A x \in X : s \in T => Append(s, x) \in T
  PROVE  \A s \in Seq(X) : s \in T
<1>1. Seq(X) \subseteq T
  BY FL!SeqInduction
<1>2. QED BY <1>1

\* FlattenSeq is the last value of its recursive function.
LEMMA FlattenIs ==
  ASSUME NEW ss, NEW n \in Nat, Len(ss) = n, n # 0
  PROVE  \E flat : /\ flat = [i \in 1..n |-> IF i = 1 THEN ss[i] ELSE flat[i - 1] \o ss[i]]
                   /\ FlattenSeq(ss) = flat[n]
<1>. DEFINE F(flat) == flat = [i \in 1..n |-> IF i = 1 THEN ss[i] ELSE flat[i - 1] \o ss[i]]
            f == CHOOSE flat : F(flat)
<1>1. \E flat : F(flat)
  BY FlattenExists
<1>. HIDE DEF F
<1>2. F(f)
  BY <1>1, Zenon
<1>3. FlattenSeq(ss) = f[n]
  BY DEF FlattenSeq, F
<1>. HIDE DEF f
<1>4. QED BY <1>2, <1>3 DEF F

\* Joining no sequences gives no elements.
LEMMA FlattenEmpty == FlattenSeq(<<>>) = <<>>
  BY DEF FlattenSeq

\* Joining one more sequence appends it.
LEMMA FlattenAppend ==
  ASSUME NEW X, NEW ss \in Seq(Seq(X)), NEW x \in Seq(X)
  PROVE  FlattenSeq(Append(ss, x)) = FlattenSeq(ss) \o x
<1>. DEFINE n == Len(ss)
            tt == Append(ss, x)
<1>1. n \in Nat /\ Len(tt) = n + 1 /\ n + 1 \in Nat /\ n + 1 # 0
      /\ tt[n + 1] = x /\ (\A i \in 1..n : tt[i] = ss[i]) /\ (n = 0 => ss = <<>>)
  OBVIOUS
<1>. HIDE DEF tt
<1>2. PICK g : /\ g = [i \in 1..(n + 1) |-> IF i = 1 THEN tt[i] ELSE g[i - 1] \o tt[i]]
               /\ FlattenSeq(tt) = g[n + 1]
  BY <1>1, FlattenIs, Zenon
<1>3. CASE n = 0
  <2>1. g[1] = tt[1]
    BY <1>2, <1>3
  <2>2. FlattenSeq(tt) = x
    BY <1>1, <1>2, <1>3, <2>1
  <2>3. FlattenSeq(ss) = <<>>
    BY <1>1, <1>3, FlattenEmpty
  <2>4. <<>> \o x = x
    BY SMTT(30), ConcatEmptySeq
  <2>5. QED BY <2>2, <2>3, <2>4 DEF tt
<1>4. CASE n # 0
  <2>1. PICK f : /\ f = [i \in 1..n |-> IF i = 1 THEN ss[i] ELSE f[i - 1] \o ss[i]]
                 /\ FlattenSeq(ss) = f[n]
    BY <1>1, <1>4, FlattenIs, Zenon
  <2>. DEFINE T == {k \in Nat : k + 1 <= n => g[k + 1] = f[k + 1]}
  <2>2. 0 \in T
    <3>1. 1 \in 1..n /\ 1 \in 1..(n + 1)
      BY <1>1, <1>4
    <3>2. g[1] = tt[1] /\ f[1] = ss[1]
      BY <1>2, <2>1, <3>1
    <3>3. QED BY <1>1, <3>1, <3>2
  <2>3. ASSUME NEW k \in Nat, k \in T PROVE k + 1 \in T
    <3>1. SUFFICES ASSUME k + 2 <= n PROVE g[k + 2] = f[k + 2]
      BY SMT
    <3>2. k + 2 \in 1..n /\ k + 2 \in 1..(n + 1) /\ k + 2 # 1 /\ (k + 2) - 1 = k + 1
      BY <1>1, <3>1
    <3>3. g[k + 2] = g[k + 1] \o tt[k + 2]
      BY <1>2, <3>2
    <3>4. f[k + 2] = f[k + 1] \o ss[k + 2]
      BY <2>1, <3>2
    <3>5. g[k + 1] = f[k + 1]
      BY <2>3, <3>1, <1>1
    <3>6. tt[k + 2] = ss[k + 2]
      BY <1>1, <3>2
    <3>7. QED BY <3>3, <3>4, <3>5, <3>6
  <2>. HIDE DEF T
  <2>4. n - 1 \in T
    <3>1. Nat \subseteq T
      BY <2>2, <2>3, FL!Induction
    <3>2. QED BY <1>1, <1>4, <3>1
  <2>5. g[n] = f[n]
    <3>1. (n - 1) + 1 = n
      BY <1>1
    <3>2. QED BY <1>1, <2>4, <3>1 DEF T
  <2>6. n + 1 \in 1..(n + 1) /\ n + 1 # 1 /\ (n + 1) - 1 = n
    BY <1>1, <1>4
  <2>7. g[n + 1] = g[n] \o tt[n + 1]
    BY <1>2, <2>6
  <2>8. QED BY <1>1, <1>2, <2>1, <2>5, <2>7 DEF tt
<1>5. QED BY <1>3, <1>4

\* Joining sequences over a set gives a sequence over it.
LEMMA FlattenTyped ==
  ASSUME NEW X, NEW ss \in Seq(Seq(X))
  PROVE  FlattenSeq(ss) \in Seq(X)
<1>. DEFINE T == {tt \in Seq(Seq(X)) : FlattenSeq(tt) \in Seq(X)}
<1>1. <<>> \in T
  <2>1. <<>> \in Seq(Seq(X)) /\ <<>> \in Seq(X)
    OBVIOUS
  <2>2. QED BY <2>1, FlattenEmpty, Zenon
<1>2. ASSUME NEW tt \in Seq(Seq(X)), NEW x \in Seq(X), tt \in T PROVE Append(tt, x) \in T
  <2>1. FlattenSeq(Append(tt, x)) = FlattenSeq(tt) \o x
    BY FlattenAppend
  <2>2. Append(tt, x) \in Seq(Seq(X))
    OBVIOUS
  <2>3. FlattenSeq(tt) \in Seq(X)
    BY <1>2
  <2>4. FlattenSeq(tt) \o x \in Seq(X)
    BY <2>3
  <2>5. QED BY <2>1, <2>2, <2>4
<1>. HIDE DEF T
<1>3. Seq(Seq(X)) \subseteq T
  BY <1>1, <1>2, FL!SeqInduction
<1>4. QED BY <1>3 DEF T

\* Two lists joined are the one joined, then the other.
LEMMA FlattenConcat ==
  ASSUME NEW X, NEW ss \in Seq(Seq(X)), NEW tt \in Seq(Seq(X))
  PROVE  FlattenSeq(ss \o tt) = FlattenSeq(ss) \o FlattenSeq(tt)
<1>. DEFINE T == {uu \in Seq(Seq(X)) : FlattenSeq(ss \o uu) = FlattenSeq(ss) \o FlattenSeq(uu)}
<1>1. <<>> \in T
  <2>1. ss \o <<>> = ss /\ <<>> \in Seq(Seq(X))
    OBVIOUS
  <2>2. FlattenSeq(ss) \o <<>> = FlattenSeq(ss)
    BY FlattenTyped, ConcatEmptySeq
  <2>3. QED BY <2>1, <2>2, FlattenEmpty
<1>2. ASSUME NEW uu \in Seq(Seq(X)), NEW x \in Seq(X), uu \in T PROVE Append(uu, x) \in T
  <2>1. ss \o Append(uu, x) = Append(ss \o uu, x)
    BY SMTT(30)
  <2>2. ss \o uu \in Seq(Seq(X)) /\ Append(uu, x) \in Seq(Seq(X))
    OBVIOUS
  <2>3. FlattenSeq(ss \o Append(uu, x)) = FlattenSeq(ss \o uu) \o x
    BY <2>1, <2>2, FlattenAppend
  <2>4. FlattenSeq(Append(uu, x)) = FlattenSeq(uu) \o x
    BY FlattenAppend
  <2>5. FlattenSeq(ss \o uu) = FlattenSeq(ss) \o FlattenSeq(uu)
    BY <1>2
  <2>. DEFINE fs == FlattenSeq(ss)
              fu == FlattenSeq(uu)
  <2>6. (fs \o fu) \o x = fs \o (fu \o x)
    <3>1. fs \in Seq(X) /\ fu \in Seq(X)
      BY FlattenTyped, Zenon
    <3>. HIDE DEF fs, fu
    <3>2. QED BY <3>1, Associative, SMTT(30)
  <2>7. QED BY <2>2, <2>3, <2>4, <2>5, <2>6
<1>. HIDE DEF T
<1>3. \A uu \in Seq(Seq(X)) : \A x \in Seq(X) : uu \in T => Append(uu, x) \in T
  BY <1>2, Zenon
<1>4. \A uu \in Seq(Seq(X)) : uu \in T
  BY <1>1, <1>3, InductionOver, Zenon
<1>5. QED BY <1>4 DEF T
-----------------------------------------------------------------------------
(* A list of octets at a place. *)

At(octs, p, o) == p + Len(o) <= Len(octs) /\ \A i \in 1..Len(o) : octs[p + i] = o[i]

\* What is at a place in two parts has the second part behind the first.
LEMMA AtConcat ==
  ASSUME NEW octs \in Value, NEW p \in Nat, NEW a \in Value, NEW b \in Value,
         At(octs, p, a \o b)
  PROVE  At(octs, p, a) /\ At(octs, p + Len(a), b)
<1>0. a \in Seq(Octet) /\ b \in Seq(Octet) /\ octs \in Seq(Octet)
  BY Zenon DEF Value
<1>. DEFINE m == Len(a)
            k == Len(b)
            z == Len(octs)
<1>1. /\ m \in Nat /\ k \in Nat /\ z \in Nat
      /\ Len(a \o b) = m + k
      /\ \A i \in 1..m : (a \o b)[i] = a[i]
      /\ \A i \in 1..k : (a \o b)[m + i] = b[i]
  BY <1>0
<1>2. p + (m + k) <= z /\ \A i \in 1..(m + k) : octs[p + i] = (a \o b)[i]
  BY <1>1, Zenon DEF At
<1>. HIDE DEF m, k, z
<1>3. p + m <= z /\ (p + m) + k <= z
  BY <1>1, <1>2, SMT
<1>4. ASSUME NEW i \in 1..m PROVE octs[p + i] = a[i]
  <2>1. i \in 1..(m + k)
    BY <1>1, SMT
  <2>2. QED BY <1>1, <1>2, <2>1, Zenon
<1>5. ASSUME NEW i \in 1..k PROVE octs[(p + m) + i] = b[i]
  <2>1. m + i \in 1..(m + k) /\ p + (m + i) = (p + m) + i
    BY <1>1, SMT
  <2>2. octs[p + (m + i)] = (a \o b)[m + i]
    BY <1>2, <2>1, Zenon
  <2>3. QED BY <1>1, <2>1, <2>2, Zenon
<1>6. QED BY <1>3, <1>4, <1>5, Zenon DEF At, m, k, z
-----------------------------------------------------------------------------
(* Cursors. *)

IsCursor(c) ==
  /\ c = [octets |-> c.octets, pos |-> c.pos, ok |-> c.ok, got |-> c.got, save |-> c.save]
  /\ c.octets \in Value /\ c.pos \in Nat /\ c.pos <= Len(c.octets)
  /\ c.ok \in BOOLEAN /\ c.got \in Seq(Value)

\* A piece of w octets in front of a cursor is a value of length w.
LEMMA PieceTyped ==
  ASSUME NEW c, IsCursor(c), NEW skip \in Nat, NEW w \in Nat
  PROVE  Piece(c, skip, w) \in Value /\ Len(Piece(c, skip, w)) = w
<1>. DEFINE e(i) == IF skip + i <= Left(c) THEN c.octets[c.pos + skip + i] ELSE 0
<1>1. ASSUME NEW i \in 1..w PROVE e(i) \in Octet
  <2>1. CASE skip + i <= Left(c)
    <3>1. c.pos + skip + i \in 1..Len(c.octets)
      BY <2>1 DEF IsCursor, Left, Value
    <3>2. c.octets[c.pos + skip + i] \in Octet
      BY <3>1, ElementIs, Zenon DEF IsCursor
    <3>3. QED BY <2>1, <3>2
  <2>2. CASE ~(skip + i <= Left(c))
    <3>1. 0 \in Octet
      BY DEF Octet
    <3>2. QED BY <2>2, <3>1
  <2>3. QED BY <2>1, <2>2
<1>2. Piece(c, skip, w) = [i \in 1..w |-> e(i)]
  BY DEF Piece
<1>. HIDE DEF e
<1>3. Piece(c, skip, w) \in [1..w -> Octet]
  BY <1>1, <1>2
<1>4. QED BY <1>3, FunctionIsSeq, Zenon DEF Value

\* The piece in front of a cursor is what is at its place.
LEMMA PieceAt ==
  ASSUME NEW c, IsCursor(c), NEW skip \in Nat, NEW o \in Value,
         At(c.octets, c.pos + skip, o)
  PROVE  Piece(c, skip, Len(o)) = o /\ skip + Len(o) <= Left(c)
<1>1. Len(o) \in Nat /\ c.pos \in Nat /\ Len(c.octets) \in Nat
  BY DEF IsCursor, Value
<1>2. skip + Len(o) <= Left(c)
  BY <1>1 DEF At, Left
<1>3. ASSUME NEW i \in 1..Len(o)
      PROVE  skip + i <= Left(c) /\ c.octets[c.pos + skip + i] = o[i]
  <2>1. skip + i <= Left(c)
    BY <1>1, <1>2 DEF Left
  <2>2. QED BY <2>1 DEF At
<1>4. Piece(c, skip, Len(o)) = [i \in 1..Len(o) |-> o[i]]
  BY <1>3 DEF Piece
<1>5. o = [i \in 1..Len(o) |-> o[i]]
  BY DEF Value
<1>6. QED BY <1>2, <1>4, <1>5
-----------------------------------------------------------------------------
(* Strings. *)

NoNul(v) == \A i \in 1..Len(v) : v[i] # 0

\* A set of naturals with an element has a least one.
LEMMA FirstOf ==
  ASSUME NEW S, S \subseteq Nat, S # {}
  PROVE  /\ Min(S) \in S /\ \A k \in S : Min(S) <= k
<1>1. \E m \in S : \A k \in S : m <= k
  BY FL!LeastNat
<1>2. QED BY <1>1 DEF Min

\* The front of a list.
LEMMA FrontIs ==
  ASSUME NEW X, NEW v \in Seq(X), NEW k \in Nat, k <= Len(v)
  PROVE  /\ SubSeq(v, 1, k) \in Seq(X) /\ Len(SubSeq(v, 1, k)) = k
         /\ \A i \in 1..k : SubSeq(v, 1, k)[i] = v[i]
<1>1. \A i \in 1..k : v[i] \in X
  OBVIOUS
<1>2. QED BY <1>1, SubSeqProperties

\* A C string is nothing if there is no terminator, else the octets in front of
\* the first one.
LEMMA CStringIs ==
  ASSUME NEW v \in Value
  PROVE  \/ NoNul(v) /\ CString(v) = <<>>
         \/ \E k \in 1..Len(v) : /\ v[k] = 0 /\ \A i \in 1..Len(v) : i < k => v[i] # 0
                                 /\ CString(v) = SubSeq(v, 1, k - 1)
<1>. DEFINE I == {i \in 1..Len(v) : v[i] = 0}
<1>1. SelectInSeq(v, LAMBDA octet : octet = 0) = IF I # {} THEN Min(I) ELSE 0
  BY Zenon DEF SelectInSeq
<1>2. CString(v) = SubSeq(v, 1, (IF I # {} THEN Min(I) ELSE 0) - 1)
  BY <1>1, Zenon DEF CString
<1>3. CASE I = {}
  <2>1. SubSeq(v, 1, 0 - 1) = <<>>
    BY SubSeqEmpty DEF Value
  <2>2. NoNul(v)
    BY <1>3, Zenon DEF NoNul
  <2>3. QED BY <1>2, <1>3, <2>1, <2>2
<1>4. CASE I # {}
  <2>1. I \subseteq Nat
    BY SMT
  <2>. DEFINE k == Min(I)
  <2>2. k \in I /\ \A i \in I : k <= i
    BY <1>4, <2>1, FirstOf, Zenon
  <2>3. CString(v) = SubSeq(v, 1, k - 1)
    BY <1>2, <1>4, Zenon
  <2>. HIDE DEF k
  <2>4. \A i \in 1..Len(v) : i < k => v[i] # 0
    <3>1. ASSUME NEW i \in 1..Len(v), i < k, v[i] = 0 PROVE FALSE
      <4>1. k <= i
        BY <2>2, <3>1
      <4>2. k \in Int
        BY <2>2
      <4>3. QED BY <3>1, <4>1, <4>2
    <3>2. QED BY <3>1, Zenon
  <2>5. QED BY <2>2, <2>3, <2>4
<1>5. QED BY <1>3, <1>4

\* A C string has no terminator in it and is not longer than its buffer.
LEMMA CStringTyped ==
  ASSUME NEW v \in Value
  PROVE  CString(v) \in Value /\ NoNul(CString(v)) /\ Len(CString(v)) <= Len(v)
<1>1. CASE NoNul(v) /\ CString(v) = <<>>
  BY <1>1 DEF NoNul, Value
<1>2. ASSUME NEW k \in 1..Len(v), v[k] = 0, \A i \in 1..Len(v) : i < k => v[i] # 0,
             CString(v) = SubSeq(v, 1, k - 1)
      PROVE  CString(v) \in Value /\ NoNul(CString(v)) /\ Len(CString(v)) <= Len(v)
  <2>. DEFINE x == CString(v)
  <2>0. k - 1 \in Nat /\ k - 1 <= Len(v) /\ v \in Seq(Octet) /\ Len(v) \in Nat
    BY DEF Value
  <2>1. x \in Seq(Octet) /\ Len(x) = k - 1 /\ \A i \in 1..(k - 1) : x[i] = v[i]
    <3>. DEFINE m == k - 1
    <3>1. v \in Seq(Octet) /\ m \in Nat /\ m <= Len(v) /\ x = SubSeq(v, 1, m)
      BY <1>2, <2>0, Zenon
    <3>. HIDE DEF m, x
    <3>2. x \in Seq(Octet) /\ Len(x) = m /\ \A i \in 1..m : x[i] = v[i]
      BY <3>1, FrontIs
    <3>3. QED BY <3>2 DEF m
  <2>. HIDE DEF x
  <2>2. \A i \in 1..(k - 1) : v[i] # 0
    <3>1. \A i \in 1..(k - 1) : i \in 1..Len(v) /\ i < k
      BY <2>0, SMT
    <3>2. QED BY <1>2, <3>1, Zenon
  <2>3. NoNul(x)
    BY <2>1, <2>2, Zenon DEF NoNul
  <2>4. QED BY <2>0, <2>1, <2>3 DEF x, Value
<1>3. QED BY <1>1, <1>2, CStringIs

\* A string without NULs is what is in front of the NUL behind it.
LEMMA CStringOfString ==
  ASSUME NEW o \in Value, NoNul(o)
  PROVE  CString(Append(o, 0)) = o
<1>. DEFINE v == Append(o, 0)
            n == Len(o)
<1>0. 0 \in Octet
  BY DEF Octet
<1>1. v \in Value /\ n \in Nat /\ Len(v) = n + 1 /\ v[n + 1] = 0
      /\ \A i \in 1..n : v[i] = o[i]
  BY <1>0 DEF Value
<1>2. SubSeq(v, 1, n) = o
  <2>1. /\ SubSeq(v, 1, n) \in Seq(Octet) /\ Len(SubSeq(v, 1, n)) = n
        /\ \A i \in 1..n : SubSeq(v, 1, n)[i] = v[i]
    <3>1. v \in Seq(Octet) /\ n <= Len(v)
      BY <1>1 DEF Value
    <3>. HIDE DEF v
    <3>2. QED BY <1>1, <3>1, FrontIs, Zenon
  <2>. DEFINE x == SubSeq(v, 1, n)
  <2>. HIDE DEF x
  <2>2. x \in Seq(Octet) /\ Len(x) = n /\ \A i \in 1..n : x[i] = o[i]
    BY <1>1, <2>1 DEF x
  <2>3. x = o
    BY <2>2 DEF Value
  <2>4. QED BY <2>3 DEF x
<1>. HIDE DEF v
<1>3. ~NoNul(v)
  <2>1. n + 1 \in 1..Len(v)
    BY <1>1, SMT
  <2>2. QED BY <1>1, <2>1, Zenon DEF NoNul
<1>4. PICK k \in 1..Len(v) : v[k] = 0 /\ (\A i \in 1..Len(v) : i < k => v[i] # 0)
                             /\ CString(v) = SubSeq(v, 1, k - 1)
  BY <1>1, <1>3, CStringIs, Zenon
<1>5. k = n + 1
  <2>1. \A i \in 1..n : v[i] # 0
    BY <1>1, Zenon DEF NoNul, n
  <2>2. k \notin 1..n
    BY <1>4, <2>1, Zenon
  <2>. HIDE DEF n
  <2>3. QED BY <1>1, <2>2, SMT
<1>6. k - 1 = n
  BY <1>1, <1>5, SMT
<1>7. CString(v) = o
  BY <1>2, <1>4, <1>6, Zenon
<1>8. QED BY <1>7 DEF v

\* A string that was read is not longer than it says.
LEMMA CStringOfRead ==
  ASSUME NEW o \in Value
  PROVE  /\ Append(o, 0) \in Value
         /\ CString(Append(o, 0)) \in Value /\ Len(CString(Append(o, 0))) <= Len(o)
         /\ Last(Append(o, 0)) = 0
<1>. DEFINE v == Append(o, 0)
            n == Len(o)
<1>0. 0 \in Octet
  BY DEF Octet
<1>1. v \in Value /\ n \in Nat /\ Len(v) = n + 1 /\ v[n + 1] = 0
  BY <1>0 DEF Value
<1>. HIDE DEF v
<1>2. CString(v) \in Value
  BY <1>1, CStringTyped, Zenon
<1>3. ~NoNul(v)
  <2>1. n + 1 \in 1..Len(v)
    BY <1>1, SMT
  <2>2. QED BY <1>1, <2>1, Zenon DEF NoNul
<1>4. PICK k \in 1..Len(v) : CString(v) = SubSeq(v, 1, k - 1)
  BY <1>1, <1>3, CStringIs, Zenon
<1>5. k - 1 \in Nat /\ k - 1 <= Len(v) /\ v \in Seq(Octet) /\ k - 1 <= n
  BY <1>1, SMT DEF Value
<1>6. Len(CString(v)) = k - 1
  BY <1>4, <1>5, FrontIs, ZenonT(40)
<1>7. Last(v) = 0
  BY <1>1, Zenon DEF Last
<1>8. QED BY <1>1, <1>2, <1>5, <1>6, <1>7 DEF v

\* Two values joined are a value, as long as both.
LEMMA ConcatIs ==
  ASSUME NEW a \in Value, NEW b \in Value
  PROVE  /\ a \o b \in Value /\ Len(a \o b) = Len(a) + Len(b)
         /\ Len(a) \in Nat /\ Len(b) \in Nat
  BY DEF Value
-----------------------------------------------------------------------------
(* Elements of fields. *)

Kinds == {"str", "u8", "le16", "be24", "le32", "lef32", "le64"}

Storable(kind, v) ==
  /\ v \in Value
  /\ kind = "str" => Len(CString(v)) < Numbers(2)
  /\ kind = "be24" => Len(v) = 4 /\ v[4] = 0
  /\ kind \notin {"str", "be24", "chunk"} => Len(v) = Width[kind]

Norm(kind, v) == IF kind = "str" THEN Append(CString(v), 0) ELSE v

\* Three octets are a value.
LEMMA TripleIs ==
  ASSUME NEW a \in Octet, NEW b \in Octet, NEW d \in Octet
  PROVE  <<a, b, d>> \in Value /\ Len(<<a, b, d>>) = 3
  BY DEF Value

\* A string is stored as its 16 bit length and its octets without the terminator.
LEMMA StringStored ==
  ASSUME NEW v, Storable("str", v)
  PROVE  /\ CString(v) \in Value /\ LE(Len(CString(v)), 2) \in Value
         /\ Len(LE(Len(CString(v)), 2)) = 2
         /\ Number(LE(Len(CString(v)), 2)) = Len(CString(v))
         /\ Stored("str", v) = LE(Len(CString(v)), 2) \o CString(v)
<1>1. CString(v) \in Value /\ Len(CString(v)) < Numbers(2)
  BY CStringTyped, Zenon DEF Storable
<1>. DEFINE n == Len(CString(v))
<1>2. n \in Nat /\ n \in Int /\ 2 \in {1, 2, 4} /\ n < Numbers(2)
  BY <1>1, SMT DEF Value
<1>. HIDE DEF n
<1>3. LE(n, 2) \in Value /\ Len(LE(n, 2)) = 2 /\ Number(LE(n, 2)) = n
  BY <1>2, LEIs, NumberOfLE, Zenon
<1>4. Stored("str", v) = LE(Len(CString(v)), 2) \o CString(v)
  BY DEF Stored
<1>5. QED BY <1>1, <1>3, <1>4 DEF n

\* A number of three octets comes back from store_be24 and load_be24.
LEMMA Be24Stored ==
  ASSUME NEW v, Storable("be24", v)
  PROVE  /\ Stored("be24", v) \in Value /\ Len(Stored("be24", v)) = 3
         /\ Loaded("be24", Stored("be24", v)) = v
<1>1. v \in Value /\ Len(v) = 4 /\ v[4] = 0
  BY DEF Storable
<1>2. 1 \in 1..Len(v) /\ 2 \in 1..Len(v) /\ 3 \in 1..Len(v)
  BY <1>1, SMT
<1>3. v[1] \in Octet /\ v[2] \in Octet /\ v[3] \in Octet
  BY <1>1, <1>2, ElementIs, Zenon
<1>4. PICK a \in Octet, b \in Octet, d \in Octet : v[1] = a /\ v[2] = b /\ v[3] = d
  BY <1>3, Zenon
<1>5. Stored("be24", v) = <<d, b, a>>
  BY <1>4 DEF Stored
<1>6. v = <<a, b, d, 0>>
  BY <1>1, <1>4 DEF Value
<1>7. Loaded("be24", <<d, b, a>>) = <<a, b, d, 0>>
  BY DEF Loaded
<1>8. QED BY <1>5, <1>6, <1>7, TripleIs

\* Every other kind is stored, and loaded, as it is.
LEMMA OtherStored ==
  ASSUME NEW v, NEW kind \in Kinds \cup {"chunk"}, Storable(kind, v),
         kind # "str", kind # "be24"
  PROVE  Stored(kind, v) = v /\ v \in Value /\ Loaded(kind, v) = v /\ Norm(kind, v) = v
  BY DEF Stored, Loaded, Norm, Storable

\* What is stored for an element is octets.
LEMMA StoredTyped ==
  ASSUME NEW kind \in Kinds \cup {"chunk"}, NEW v, Storable(kind, v)
  PROVE  Stored(kind, v) \in Value
<1>1. CASE kind = "str"
  <2>1. \A a, b \in Value : a \o b \in Value
    BY DEF Value
  <2>2. QED BY <1>1, <2>1, StringStored, Zenon
<1>2. CASE kind = "be24"
  BY <1>2, Be24Stored, Zenon
<1>3. QED BY <1>1, <1>2, OtherStored, Zenon

MinWidth(kind) == IF kind = "str" THEN 2 ELSE IF kind = "chunk" THEN 0 ELSE Width[kind]

\* The widths of the kinds that have one.
LEMMA WidthIs ==
  /\ Width["u8"] = 1 /\ Width["le16"] = 2 /\ Width["be24"] = 3 /\ Width["le32"] = 4
  /\ Width["lef32"] = 4 /\ Width["le64"] = 8
  BY DEF Width

\* An element is stored with at least the octets the reader takes as its least.
LEMMA StoredLength ==
  ASSUME NEW kind \in Kinds, NEW v, Storable(kind, v)
  PROVE  Len(Stored(kind, v)) >= MinWidth(kind) /\ MinWidth(kind) >= 1
<1>1. CASE kind = "str"
  <2>1. \A a, b \in Value : Len(a \o b) = Len(a) + Len(b) /\ Len(b) \in Nat
    BY DEF Value
  <2>2. Len(Stored("str", v)) = 2 + Len(CString(v)) /\ Len(CString(v)) \in Nat
    BY <1>1, <2>1, StringStored, Zenon
  <2>3. QED BY <1>1, <2>2 DEF MinWidth
<1>2. CASE kind = "be24"
  <2>1. Len(Stored("be24", v)) = 3
    BY <1>2, Be24Stored, Zenon
  <2>2. MinWidth("be24") = 3
    BY WidthIs DEF MinWidth
  <2>3. QED BY <1>2, <2>1, <2>2
<1>3. CASE kind # "str" /\ kind # "be24"
  <2>1. Len(v) = Width[kind] /\ Stored(kind, v) = v
    BY <1>3, OtherStored DEF Storable, Kinds
  <2>2. kind \in {"u8", "le16", "le32", "lef32", "le64"}
    BY <1>3 DEF Kinds
  <2>3. Width[kind] >= 1
    BY <2>2, WidthIs
  <2>4. MinWidth(kind) = Width[kind]
    BY <2>2, SMT DEF MinWidth
  <2>5. Width[kind] \in Int
    BY <2>2, WidthIs
  <2>6. QED BY <2>1, <2>3, <2>4, <2>5
<1>4. QED BY <1>1, <1>2, <1>3
-----------------------------------------------------------------------------
(* Loading one element. *)

Moved(c, n, v) == [c EXCEPT !.pos = @ + n, !.got = Append(@, v)]

\* Taking octets that are in front of a cursor loads what they say.
LEMMA TakeAt ==
  ASSUME NEW c, IsCursor(c), NEW skip \in Nat, NEW o \in Value, NEW kind,
         At(c.octets, c.pos + skip, o)
  PROVE  Take(c, skip, Len(o), kind) = Moved(c, skip + Len(o), Loaded(kind, o))
<1>1. Piece(c, skip, Len(o)) = o /\ skip + Len(o) <= Left(c)
  BY PieceAt, Zenon
<1>. DEFINE n == Len(o)
<1>2. n \in Nat /\ c.pos \in Nat /\ Len(c.octets) \in Nat
  BY DEF Value, IsCursor
<1>3. ~(skip + n > Left(c)) /\ c.pos + skip + n = c.pos + (skip + n)
  BY <1>1, <1>2 DEF Left
<1>. HIDE DEF n
<1>4. Take(c, skip, n, kind) = [c EXCEPT !.pos = @ + skip + n, !.got = Append(@, Loaded(kind, o))]
  BY <1>1, <1>3, Zenon DEF Take, n
<1>5. QED BY <1>3, <1>4 DEF Moved, n

\* Loading an element that is stored in front of a cursor gives its normal form
\* and moves past it.
LEMMA LoadOneAt ==
  ASSUME NEW c, IsCursor(c), NEW kind \in Kinds \cup {"chunk"}, NEW v, Storable(kind, v),
         At(c.octets, c.pos, Stored(kind, v)),
         kind = "chunk" => c.pos + Len(v) = Len(c.octets)
  PROVE  LoadOne(c, kind) = Moved(c, Len(Stored(kind, v)), Norm(kind, v))
<1>0. c.pos \in Nat /\ c.octets \in Value /\ 0 \in Nat /\ 2 \in Nat
  BY DEF IsCursor
<1>1. CASE kind = "str"
  <2>. DEFINE x == CString(v)
              h == LE(Len(x), 2)
  <2>1. x \in Value /\ h \in Value /\ Len(h) = 2 /\ Number(h) = Len(x)
        /\ Stored("str", v) = h \o x
    BY <1>1, StringStored, Zenon
  <2>. HIDE DEF x, h
  <2>2. Len(h \o x) = 2 + Len(x) /\ Len(x) \in Nat
    BY <2>1, ConcatIs
  <2>3. At(c.octets, c.pos, h) /\ At(c.octets, c.pos + 2, x)
    <3>1. At(c.octets, c.pos, h \o x)
      BY <1>1, <2>1
    <3>2. At(c.octets, c.pos, h) /\ At(c.octets, c.pos + Len(h), x)
      BY <1>0, <2>1, <3>1, AtConcat, Zenon
    <3>3. QED BY <2>1, <3>2
  <2>4. c.pos + 0 = c.pos
    BY <1>0
  <2>5. Piece(c, 0, 2) = h
    <3>1. At(c.octets, c.pos + 0, h)
      BY <2>3, <2>4
    <3>2. Piece(c, 0, Len(h)) = h
      BY <1>0, <2>1, <3>1, PieceAt, Zenon
    <3>3. QED BY <2>1, <3>2
  <2>6. LoadOne(c, kind) = Take(c, 2, Len(x), kind)
    BY <1>1, <2>1, <2>5 DEF LoadOne, NumberAt
  <2>7. Take(c, 2, Len(x), kind) = Moved(c, 2 + Len(x), Loaded(kind, x))
    BY <1>0, <2>1, <2>3, TakeAt
  <2>8. Loaded(kind, x) = Norm(kind, v)
    BY <1>1 DEF Loaded, Norm, x
  <2>9. QED BY <1>1, <2>1, <2>2, <2>6, <2>7, <2>8
<1>2. ASSUME kind # "str", NEW o \in Value, o = Stored(kind, v), Loaded(kind, o) = v
      PROVE  Take(c, 0, Len(o), kind) = Moved(c, Len(o), v)
  <2>1. c.pos + 0 = c.pos /\ 0 + Len(o) = Len(o)
    BY <1>0 DEF Value
  <2>2. Take(c, 0, Len(o), kind) = Moved(c, 0 + Len(o), Loaded(kind, o))
    BY <1>0, <1>2, <2>1, TakeAt
  <2>3. QED BY <1>2, <2>1, <2>2
<1>3. CASE kind = "be24"
  <2>1. Stored(kind, v) \in Value /\ Len(Stored(kind, v)) = 3 /\ Loaded(kind, Stored(kind, v)) = v
    BY <1>3, Be24Stored, Zenon
  <2>2. Take(c, 0, Len(Stored(kind, v)), kind) = Moved(c, Len(Stored(kind, v)), v)
    BY <1>2, <1>3, <2>1
  <2>3. LoadOne(c, kind) = Take(c, 0, 3, kind)
    BY <1>3, WidthIs DEF LoadOne
  <2>4. Norm(kind, v) = v
    BY <1>3 DEF Norm
  <2>5. QED BY <2>1, <2>2, <2>3, <2>4
<1>4. CASE kind # "str" /\ kind # "be24"
  <2>1. Stored(kind, v) = v /\ v \in Value /\ Loaded(kind, v) = v /\ Norm(kind, v) = v
    BY <1>4, OtherStored, Zenon
  <2>2. Take(c, 0, Len(v), kind) = Moved(c, Len(v), v)
    BY <1>2, <1>4, <2>1
  <2>3. kind = "chunk" => Left(c) = Len(v)
    <3>1. Len(v) \in Nat /\ Len(c.octets) \in Nat
      BY <1>0, <2>1 DEF Value
    <3>2. QED BY <1>0, <3>1 DEF Left
  <2>4. kind # "chunk" => Len(v) = Width[kind]
    BY <1>4 DEF Storable
  <2>5. LoadOne(c, kind) = Take(c, 0, Len(v), kind)
    BY <1>4, <2>3, <2>4 DEF LoadOne
  <2>6. QED BY <2>1, <2>2, <2>5
<1>5. QED BY <1>1, <1>3, <1>4
-----------------------------------------------------------------------------
(* The same from any octets. *)

\* What the edits of a cursor's fields leave as it was.
LEMMA Edited ==
  ASSUME NEW c, IsCursor(c)
  PROVE  /\ \A x : [c EXCEPT !.ok = x] =
                    [octets |-> c.octets, pos |-> c.pos, ok |-> x, got |-> c.got, save |-> c.save]
         /\ \A n, v : [c EXCEPT !.pos = n, !.got = v] =
                    [octets |-> c.octets, pos |-> n, ok |-> c.ok, got |-> v, save |-> c.save]
         /\ \A n : [c EXCEPT !.pos = n] =
                    [octets |-> c.octets, pos |-> n, ok |-> c.ok, got |-> c.got, save |-> c.save]
<1>1. PICK o, p, k, g, s : c = [octets |-> o, pos |-> p, ok |-> k, got |-> g, save |-> s]
  BY Zenon DEF IsCursor
<1>2. ASSUME NEW x
      PROVE  [c EXCEPT !.ok = x] =
                    [octets |-> c.octets, pos |-> c.pos, ok |-> x, got |-> c.got, save |-> c.save]
  BY <1>1
<1>3. ASSUME NEW n, NEW v
      PROVE  [c EXCEPT !.pos = n, !.got = v] =
                    [octets |-> c.octets, pos |-> n, ok |-> c.ok, got |-> v, save |-> c.save]
  <2>1. c.octets = o /\ c.ok = k /\ c.save = s
    BY <1>1
  <2>. DEFINE r == [octets |-> o, pos |-> p, ok |-> k, got |-> g, save |-> s]
              q == [octets |-> o, pos |-> n, ok |-> k, got |-> g, save |-> s]
  <2>2. [r EXCEPT !.pos = n] = q
    OBVIOUS
  <2>3. [q EXCEPT !.got = v] = [octets |-> o, pos |-> n, ok |-> k, got |-> v, save |-> s]
    OBVIOUS
  <2>. HIDE DEF r, q
  <2>4. [r EXCEPT !.pos = n, !.got = v] = [[r EXCEPT !.pos = n] EXCEPT !.got = v]
    OBVIOUS
  <2>5. QED BY <1>1, <2>1, <2>2, <2>3, <2>4, Zenon DEF r
<1>4. ASSUME NEW n
      PROVE  [c EXCEPT !.pos = n] =
                    [octets |-> c.octets, pos |-> n, ok |-> c.ok, got |-> c.got, save |-> c.save]
  BY <1>1
<1>5. QED BY <1>2, <1>3, <1>4, Zenon

\* Taking octets from any place either refuses or appends what they say.
LEMMA TakeTyped ==
  ASSUME NEW c, IsCursor(c), NEW skip \in Nat, NEW w \in Nat, NEW kind,
         \A o \in Value : Len(o) = w => Loaded(kind, o) \in Value
  PROVE  /\ IsCursor(Take(c, skip, w, kind))
         /\ Take(c, skip, w, kind).octets = c.octets
         /\ Take(c, skip, w, kind).save = c.save
         /\ Take(c, skip, w, kind).ok =>
               /\ c.ok /\ skip + w <= Left(c)
               /\ Piece(c, skip, w) \in Value /\ Len(Piece(c, skip, w)) = w
               /\ Take(c, skip, w, kind).got = Append(c.got, Loaded(kind, Piece(c, skip, w)))
<1>. DEFINE o == Piece(c, skip, w)
            v == Loaded(kind, o)
<1>1. o \in Value /\ Len(o) = w
  BY PieceTyped, Zenon
<1>2. v \in Value
  BY <1>1
<1>. HIDE DEF o, v
<1>3. c.pos \in Nat /\ Len(c.octets) \in Nat /\ c.pos <= Len(c.octets) /\ c.got \in Seq(Value)
      /\ c.octets \in Value /\ c.ok \in BOOLEAN
      /\ c = [octets |-> c.octets, pos |-> c.pos, ok |-> c.ok, got |-> c.got, save |-> c.save]
  BY DEF IsCursor, Value
<1>4. CASE skip + w > Left(c)
  <2>1. Take(c, skip, w, kind) = [c EXCEPT !.ok = FALSE]
    BY <1>4 DEF Take, Refused
  <2>. DEFINE d == [c EXCEPT !.ok = FALSE]
  <2>2. d = [octets |-> c.octets, pos |-> c.pos, ok |-> FALSE, got |-> c.got, save |-> c.save]
    BY Edited
  <2>. HIDE DEF d
  <2>3. IsCursor(d) /\ d.octets = c.octets /\ d.save = c.save /\ ~d.ok
    BY <1>3, <2>2 DEF IsCursor
  <2>4. QED BY <2>1, <2>3 DEF d
<1>5. CASE ~(skip + w > Left(c))
  <2>1. Take(c, skip, w, kind) = [c EXCEPT !.pos = @ + skip + w, !.got = Append(@, v)]
    BY <1>5 DEF Take, v, o
  <2>. DEFINE d == [c EXCEPT !.pos = @ + skip + w, !.got = Append(@, v)]
  <2>2. d = [octets |-> c.octets, pos |-> c.pos + skip + w, ok |-> c.ok,
             got |-> Append(c.got, v), save |-> c.save]
    BY Edited
  <2>. HIDE DEF d
  <2>3. c.pos + skip + w \in Nat /\ c.pos + skip + w <= Len(c.octets) /\ skip + w <= Left(c)
    BY <1>3, <1>5 DEF Left
  <2>4. Append(c.got, v) \in Seq(Value)
    BY <1>2, <1>3
  <2>5. /\ d.octets = c.octets /\ d.pos = c.pos + skip + w /\ d.ok = c.ok
        /\ d.got = Append(c.got, v) /\ d.save = c.save
    BY <2>2
  <2>6. IsCursor(d)
    BY <1>3, <2>2, <2>3, <2>4, <2>5, Zenon DEF IsCursor
  <2>7. QED BY <1>1, <2>1, <2>3, <2>5, <2>6, Zenon DEF d, v, o
<1>6. QED BY <1>4, <1>5

\* A value that was read can be written.
WasRead(kind, v) == Storable(kind, v) /\ (kind = "str" => v # <<>> /\ Last(v) = 0)

\* Loading an element from any octets either refuses or appends something that
\* can be stored again.
LEMMA LoadOneTyped ==
  ASSUME NEW c, IsCursor(c), NEW kind \in Kinds \cup {"chunk"}
  PROVE  /\ IsCursor(LoadOne(c, kind))
         /\ LoadOne(c, kind).octets = c.octets
         /\ LoadOne(c, kind).save = c.save
         /\ LoadOne(c, kind).ok =>
               c.ok /\ \E v : WasRead(kind, v) /\ LoadOne(c, kind).got = Append(c.got, v)
<1>0. c.pos \in Nat /\ Len(c.octets) \in Nat /\ c.pos <= Len(c.octets) /\ 0 \in Nat /\ 2 \in Nat
      /\ 3 \in Nat
  BY DEF IsCursor, Value
<1>1. CASE kind = "str"
  <2>. DEFINE n == NumberAt(c, 0, 2)
  <2>1. Piece(c, 0, 2) \in Value /\ Len(Piece(c, 0, 2)) = 2 /\ 2 \in {1, 2, 4} /\ 2 # 4
    <3>1. 2 \in {1, 2, 4} /\ 2 # 4
      OBVIOUS
    <3>2. QED BY <1>0, <3>1, PieceTyped, Zenon
  <2>2. n \in Nat /\ n < Numbers(2)
    BY <2>1, NumberTyped, Zenon DEF NumberAt
  <2>. HIDE DEF n
  <2>3. LoadOne(c, kind) = Take(c, 2, n, kind)
    BY <1>1 DEF LoadOne, n
  <2>4. \A o : Loaded(kind, o) = Append(o, 0)
    BY <1>1 DEF Loaded
  <2>5. \A o \in Value : Loaded(kind, o) \in Value
    BY <2>4, CStringOfRead, Zenon
  <2>. DEFINE d == Take(c, 2, n, kind)
              o == Piece(c, 2, n)
  <2>6. /\ IsCursor(d) /\ d.octets = c.octets /\ d.save = c.save
        /\ d.ok => /\ c.ok /\ o \in Value /\ Len(o) = n
                   /\ d.got = Append(c.got, Loaded(kind, o))
    BY <1>0, <2>2, <2>5, TakeTyped
  <2>. HIDE DEF d, o
  <2>7. ASSUME d.ok PROVE WasRead(kind, Append(o, 0))
    <3>. DEFINE v == Append(o, 0)
    <3>1. o \in Value /\ Len(o) = n
      BY <2>6, <2>7
    <3>2. v \in Value /\ CString(v) \in Value /\ Len(CString(v)) <= Len(o) /\ Last(v) = 0
      BY <3>1, CStringOfRead, Zenon
    <3>3. v # <<>>
      BY <3>1 DEF Value
    <3>. HIDE DEF v
    <3>4. Len(CString(v)) \in Int
      BY <3>2 DEF Value
    <3>5. Numbers(2) \in Int
      BY NumbersIs
    <3>6. Len(CString(v)) < Numbers(2)
      BY <2>2, <3>1, <3>2, <3>4, <3>5
    <3>7. WasRead(kind, v)
      BY <1>1, <3>2, <3>3, <3>6 DEF WasRead, Storable
    <3>8. QED BY <3>7 DEF v
  <2>8. QED BY <2>3, <2>4, <2>6, <2>7, Zenon DEF d
<1>2. ASSUME kind # "str", NEW w \in Nat, LoadOne(c, kind) = Take(c, 0, w, kind),
             \A o \in Value : Len(o) = w => Storable(kind, Loaded(kind, o)),
             \A o \in Value : Len(o) = w => Loaded(kind, o) \in Value
      PROVE  /\ IsCursor(LoadOne(c, kind))
             /\ LoadOne(c, kind).octets = c.octets
             /\ LoadOne(c, kind).save = c.save
             /\ LoadOne(c, kind).ok =>
                   c.ok /\ \E v : WasRead(kind, v) /\ LoadOne(c, kind).got = Append(c.got, v)
  <2>. DEFINE d == Take(c, 0, w, kind)
              o == Piece(c, 0, w)
  <2>1. /\ IsCursor(d) /\ d.octets = c.octets /\ d.save = c.save
        /\ d.ok => /\ c.ok /\ o \in Value /\ Len(o) = w
                   /\ d.got = Append(c.got, Loaded(kind, o))
    BY <1>0, <1>2, TakeTyped
  <2>. HIDE DEF d, o
  <2>2. d.ok => WasRead(kind, Loaded(kind, o))
    BY <1>2, <2>1, Zenon DEF WasRead
  <2>3. LoadOne(c, kind) = d
    BY <1>2 DEF d
  <2>4. QED BY <2>1, <2>2, <2>3, Zenon
<1>3. CASE kind = "be24"
  <2>1. LoadOne(c, kind) = Take(c, 0, 3, kind)
    BY <1>3, WidthIs DEF LoadOne
  <2>2. ASSUME NEW o \in Value, Len(o) = 3
        PROVE  Loaded(kind, o) \in Value /\ Storable(kind, Loaded(kind, o))
    <3>. DEFINE x == o[3]
                y == o[2]
                z == o[1]
    <3>1. Loaded(kind, o) = <<x, y, z, 0>>
      BY <1>3 DEF Loaded
    <3>2. 1 \in 1..Len(o) /\ 2 \in 1..Len(o) /\ 3 \in 1..Len(o)
      BY <2>2, SMT
    <3>3. x \in Octet /\ y \in Octet /\ z \in Octet /\ 0 \in Octet
      <4>1. 0 \in Octet
        BY DEF Octet
      <4>2. QED BY <3>2, <4>1, ElementIs, Zenon
    <3>. HIDE DEF x, y, z
    <3>4. <<x, y, z, 0>> \in Seq(Octet) /\ Len(<<x, y, z, 0>>) = 4 /\ <<x, y, z, 0>>[4] = 0
      BY <3>3
    <3>5. QED BY <1>3, <3>1, <3>4 DEF Storable, Value
  <2>3. QED BY <1>0, <1>2, <1>3, <2>1, <2>2
<1>4. CASE kind # "str" /\ kind # "be24"
  <2>1. \A o : Loaded(kind, o) = o
    BY <1>4 DEF Loaded
  <2>2. CASE kind = "chunk"
    <3>1. LoadOne(c, kind) = Take(c, 0, Left(c), kind)
      BY <2>2 DEF LoadOne
    <3>2. Left(c) \in Nat
      BY <1>0 DEF Left
    <3>3. \A o \in Value : Storable(kind, o)
      BY <2>2 DEF Storable
    <3>4. QED BY <1>2, <1>4, <2>1, <3>1, <3>2, <3>3
  <2>3. CASE kind # "chunk"
    <3>1. LoadOne(c, kind) = Take(c, 0, Width[kind], kind)
      BY <1>4, <2>3 DEF LoadOne
    <3>2. Width[kind] \in Nat
      BY <1>4, <2>3, WidthIs DEF Kinds
    <3>3. \A o \in Value : Len(o) = Width[kind] => Storable(kind, o)
      BY <1>4, <2>3 DEF Storable
    <3>4. QED BY <1>2, <1>4, <2>1, <3>1, <3>2, <3>3
  <2>4. QED BY <2>2, <2>3
<1>5. QED BY <1>1, <1>3, <1>4

\* A list made of one more place is the list with one more element.
LEMMA OneMore ==
  ASSUME NEW f, NEW n \in Nat
  PROVE  [i \in 1..(n + 1) |-> f[i]] = Append([i \in 1..n |-> f[i]], f[n + 1])
<1>. DEFINE X == {f[i] : i \in 1..(n + 1)}
            a == [i \in 1..n |-> f[i]]
            b == [i \in 1..(n + 1) |-> f[i]]
            x == f[n + 1]
<1>1. n + 1 \in 1..(n + 1) /\ \A i \in 1..n : i \in 1..(n + 1)
  OBVIOUS
<1>2. a \in [1..n -> X] /\ b \in [1..(n + 1) -> X] /\ x \in X
  BY <1>1
<1>3. a \in Seq(X) /\ Len(a) = n /\ b \in Seq(X) /\ Len(b) = n + 1
  <2>1. n + 1 \in Nat
    OBVIOUS
  <2>. HIDE DEF a, b, X
  <2>2. QED BY <1>2, <2>1, FunctionIsSeq, Zenon
<1>4. (\A i \in 1..n : a[i] = b[i]) /\ b[n + 1] = x
  BY <1>1
<1>. HIDE DEF a, b, x, X
<1>5. b = Append(a, x)
  BY <1>2, <1>3, <1>4
<1>6. QED BY <1>5 DEF a, b, x

\* Loading several elements is a fold, so that it can be reasoned about one by
\* one.
LEMMA FoldIs == \A c, ks : FoldLeft(LoadOne, c, ks) = FL!Fold(c, ks)
BY DEF FoldLeft, MapThenFoldSet, Max, FL!Fold, FL!Folds, FL!Top

\* Loading no elements changes nothing.
LEMMA FoldNone == \A c : FoldLeft(LoadOne, c, <<>>) = c
BY FoldIs, FL!FoldEmpty

\* Loading one more element loads it after the others.
LEMMA FoldMore ==
  ASSUME NEW c, NEW X, NEW ks \in Seq(X), NEW k \in X
  PROVE  FoldLeft(LoadOne, c, Append(ks, k)) = LoadOne(FoldLeft(LoadOne, c, ks), k)
<1>1. FL!Fold(c, Append(ks, k)) = LoadOne(FL!Fold(c, ks), k)
  BY FL!FoldAppend
<1>2. QED BY <1>1, FoldIs

Norms(ks, vs) == [i \in 1..Len(ks) |-> Norm(ks[i], vs[i])]
Pieces(ks, vs) == [i \in 1..Len(ks) |-> Stored(ks[i], vs[i])]
AllStorable(ks, vs) == Len(vs) = Len(ks) /\ \A i \in 1..Len(ks) : Storable(ks[i], vs[i])

\* A cursor that has come n octets further and got so much.
Further(c, n, got) ==
  [octets |-> c.octets, pos |-> c.pos + n, ok |-> c.ok, got |-> got, save |-> c.save]

\* What a cursor that came further has in its fields.
LEMMA FurtherIs ==
  ASSUME NEW c, IsCursor(c), NEW n \in Nat, NEW got
  PROVE  /\ Further(c, n, got).octets = c.octets /\ Further(c, n, got).pos = c.pos + n
         /\ Further(c, n, got).ok = c.ok /\ Further(c, n, got).got = got
         /\ Further(c, n, got).save = c.save
         /\ got \in Seq(Value) /\ c.pos + n <= Len(c.octets) => IsCursor(Further(c, n, got))
<1>. DEFINE d == Further(c, n, got)
<1>1. d = [octets |-> c.octets, pos |-> c.pos + n, ok |-> c.ok, got |-> got, save |-> c.save]
  BY DEF Further
<1>. HIDE DEF d
<1>2. d.octets = c.octets /\ d.pos = c.pos + n /\ d.ok = c.ok /\ d.got = got /\ d.save = c.save
  BY <1>1
<1>3. c.pos + n \in Nat /\ c.octets \in Value /\ c.ok \in BOOLEAN
  BY DEF IsCursor
<1>4. got \in Seq(Value) /\ c.pos + n <= Len(c.octets) => IsCursor(d)
  BY <1>1, <1>2, <1>3, Zenon DEF IsCursor
<1>5. QED BY <1>2, <1>4 DEF d

\* A cursor that came further inside its octets is a cursor.
LEMMA FurtherCursor ==
  ASSUME NEW c, IsCursor(c), NEW n \in Nat, NEW got, got \in Seq(Value),
         c.pos + n <= Len(c.octets)
  PROVE  IsCursor(Further(c, n, got))
BY FurtherIs

\* Coming no further is staying.
LEMMA FurtherNone ==
  ASSUME NEW c, IsCursor(c)
  PROVE  Further(c, 0, c.got) = c
<1>1. c.pos + 0 = c.pos
  BY DEF IsCursor
<1>2. QED BY <1>1, Zenon DEF Further, IsCursor

\* Coming further and moving past one more element is coming further by both.
LEMMA FurtherMoved ==
  ASSUME NEW c, IsCursor(c), NEW n \in Nat, NEW got, NEW m \in Nat, NEW v,
         got \in Seq(Value), c.pos + n <= Len(c.octets)
  PROVE  Moved(Further(c, n, got), m, v) = Further(c, n + m, Append(got, v))
<1>. DEFINE d == Further(c, n, got)
<1>1. /\ IsCursor(d) /\ d.octets = c.octets /\ d.pos = c.pos + n /\ d.ok = c.ok /\ d.got = got
      /\ d.save = c.save
  BY FurtherIs
<1>. HIDE DEF d
<1>2. Moved(d, m, v) = [octets |-> d.octets, pos |-> d.pos + m, ok |-> d.ok,
                        got |-> Append(d.got, v), save |-> d.save]
  BY <1>1, Edited, Zenon DEF Moved
<1>3. (c.pos + n) + m = c.pos + (n + m)
  BY DEF IsCursor
<1>4. QED BY <1>1, <1>2, <1>3 DEF Further, d

\* The octets of a list of elements are octets.
LEMMA PiecesTyped ==
  ASSUME NEW ks \in Seq(Kinds), NEW vs, AllStorable(ks, vs)
  PROVE  Pieces(ks, vs) \in Seq(Value) /\ FlattenSeq(Pieces(ks, vs)) \in Value
<1>1. \A i \in 1..Len(ks) : ks[i] \in Kinds \cup {"chunk"}
  OBVIOUS
<1>2. \A i \in 1..Len(ks) : Stored(ks[i], vs[i]) \in Value
  BY <1>1, StoredTyped, Zenon DEF AllStorable
<1>3. Len(ks) \in Nat
  OBVIOUS
<1>4. Pieces(ks, vs) \in [1..Len(ks) -> Value]
  BY <1>2, Zenon DEF Pieces
<1>5. Pieces(ks, vs) \in Seq(Value)
  BY <1>3, <1>4, FunctionIsSeq, Zenon
<1>6. QED BY <1>5, FlattenTyped, Zenon DEF Value

\* What an element is loaded as is octets.
LEMMA NormTyped ==
  ASSUME NEW kind \in Kinds \cup {"chunk"}, NEW v, Storable(kind, v)
  PROVE  Norm(kind, v) \in Value
<1>1. CASE kind = "str"
  <2>1. CString(v) \in Value
    BY CStringTyped, Zenon DEF Storable
  <2>2. Append(CString(v), 0) \in Value
    BY <2>1, CStringOfRead, Zenon
  <2>3. QED BY <1>1, <2>2 DEF Norm
<1>2. QED BY <1>1 DEF Norm, Storable

\* What a list of elements is loaded as, one by one.
LEMMA NormsTyped ==
  ASSUME NEW ks \in Seq(Kinds), NEW vs, AllStorable(ks, vs)
  PROVE  Norms(ks, vs) \in Seq(Value) /\ Len(Norms(ks, vs)) = Len(ks)
<1>1. \A i \in 1..Len(ks) : ks[i] \in Kinds \cup {"chunk"}
  OBVIOUS
<1>2. \A i \in 1..Len(ks) : Norm(ks[i], vs[i]) \in Value
  BY <1>1, NormTyped, Zenon DEF AllStorable
<1>3. Len(ks) \in Nat
  OBVIOUS
<1>4. Norms(ks, vs) \in [1..Len(ks) -> Value]
  BY <1>2, Zenon DEF Norms
<1>5. QED BY <1>3, <1>4, FunctionIsSeq, Zenon

\* One element more.
IsOneMore(ks, k, vs, us, v) ==
  /\ AllStorable(ks, us) /\ Storable(k, v)
  /\ Pieces(Append(ks, k), vs) = Append(Pieces(ks, us), Stored(k, v))
  /\ Norms(Append(ks, k), vs) = Append(Norms(ks, us), Norm(k, v))

\* A list of elements that can be stored is one element more than another such
\* list.
LEMMA ElementsAppend ==
  ASSUME NEW ks \in Seq(Kinds), NEW k \in Kinds, NEW vs, AllStorable(Append(ks, k), vs)
  PROVE  \E us : \E v : IsOneMore(ks, k, vs, us, v)
<1>. DEFINE n == Len(ks)
            ls == Append(ks, k)
            us == [i \in 1..n |-> vs[i]]
            v == vs[n + 1]
<1>1. n \in Nat /\ Len(ls) = n + 1 /\ ls[n + 1] = k /\ \A i \in 1..n : ls[i] = ks[i]
  OBVIOUS
<1>. HIDE DEF ls
<1>2. n + 1 \in 1..(n + 1) /\ \A i \in 1..n : i \in 1..(n + 1)
  BY <1>1
<1>3. Storable(k, v) /\ \A i \in 1..n : Storable(ks[i], vs[i])
  BY <1>1, <1>2 DEF AllStorable, ls
<1>4. Len(us) = n /\ \A i \in 1..n : us[i] = vs[i]
  BY <1>1
<1>. HIDE DEF us
<1>5. AllStorable(ks, us)
  BY <1>3, <1>4 DEF AllStorable
<1>. DEFINE P == [i \in 1..(n + 1) |-> Stored(ls[i], vs[i])]
            Q == [i \in 1..(n + 1) |-> Norm(ls[i], vs[i])]
<1>6. Pieces(ls, vs) = P /\ Norms(ls, vs) = Q
  BY <1>1, Zenon DEF Pieces, Norms
<1>7. P[n + 1] = Stored(k, v) /\ Q[n + 1] = Norm(k, v)
  BY <1>1, <1>2
<1>8. [i \in 1..n |-> P[i]] = Pieces(ks, us) /\ [i \in 1..n |-> Q[i]] = Norms(ks, us)
  BY <1>1, <1>2, <1>4 DEF Pieces, Norms
<1>9. P = [i \in 1..(n + 1) |-> P[i]] /\ Q = [i \in 1..(n + 1) |-> Q[i]]
  OBVIOUS
<1>. HIDE DEF P, Q, n, v
<1>10. P = Append(Pieces(ks, us), Stored(k, v))
  <2>1. [i \in 1..(n + 1) |-> P[i]] = Append([i \in 1..n |-> P[i]], P[n + 1])
    BY <1>1, OneMore
  <2>2. QED BY <1>7, <1>8, <1>9, <2>1, Zenon
<1>11. Q = Append(Norms(ks, us), Norm(k, v))
  <2>1. [i \in 1..(n + 1) |-> Q[i]] = Append([i \in 1..n |-> Q[i]], Q[n + 1])
    BY <1>1, OneMore
  <2>2. QED BY <1>7, <1>8, <1>9, <2>1, Zenon
<1>12. IsOneMore(ks, k, vs, us, v)
  BY <1>3, <1>5, <1>6, <1>10, <1>11, Zenon DEF ls, IsOneMore
<1>13. QED BY <1>12, Zenon

\* What was stored of elements is loaded, whatever is in front and behind.
LEMMA LoadOnesAt ==
  ASSUME NEW c, IsCursor(c), c.got = <<>>, NEW ks \in Seq(Kinds), NEW vs, AllStorable(ks, vs),
         At(c.octets, c.pos, FlattenSeq(Pieces(ks, vs)))
  PROVE  /\ FoldLeft(LoadOne, c, ks) =
               Further(c, Len(FlattenSeq(Pieces(ks, vs))), Norms(ks, vs))
         /\ Len(FlattenSeq(Pieces(ks, vs))) >= Len(ks)
<1>. DEFINE O(ls, ws) == FlattenSeq(Pieces(ls, ws))
            Good(ls, ws) == AllStorable(ls, ws) /\ At(c.octets, c.pos, O(ls, ws))
            Done(ls, ws) == /\ FoldLeft(LoadOne, c, ls) = Further(c, Len(O(ls, ws)), Norms(ls, ws))
                            /\ Len(O(ls, ws)) >= Len(ls)
            T == {ls \in Seq(Kinds) : \A ws : Good(ls, ws) => Done(ls, ws)}
<1>1. <<>> \in T
  <2>1. ASSUME NEW ws PROVE Done(<<>>, ws)
    <3>1. Pieces(<<>>, ws) = <<>> /\ Norms(<<>>, ws) = <<>> /\ Len(<<>>) = 0 /\ <<>> \in Seq(Kinds)
      BY DEF Pieces, Norms
    <3>2. O(<<>>, ws) = <<>>
      BY <3>1, FlattenEmpty
    <3>. HIDE DEF O
    <3>3. Further(c, 0, <<>>) = c
      BY FurtherNone
    <3>4. QED BY <3>1, <3>2, <3>3, FoldNone
  <2>2. <<>> \in Seq(Kinds)
    OBVIOUS
  <2>. HIDE DEF Done, Good
  <2>3. QED BY <2>1, <2>2
<1>2. ASSUME NEW ls \in Seq(Kinds), NEW k \in Kinds, ls \in T PROVE Append(ls, k) \in T
  <2>1. SUFFICES ASSUME NEW ws, Good(Append(ls, k), ws) PROVE Done(Append(ls, k), ws)
    <3>1. Append(ls, k) \in Seq(Kinds)
      OBVIOUS
    <3>. HIDE DEF Good, Done
    <3>2. QED BY <3>1, <2>1
  <2>0. PICK us, v : IsOneMore(ls, k, ws, us, v)
    <3>1. AllStorable(Append(ls, k), ws)
      BY <2>1
    <3>. HIDE DEF O, Good, Done, T
    <3>2. QED BY <3>1, ElementsAppend, Zenon
  <2>2. /\ AllStorable(ls, us) /\ Storable(k, v)
        /\ Pieces(Append(ls, k), ws) = Append(Pieces(ls, us), Stored(k, v))
        /\ Norms(Append(ls, k), ws) = Append(Norms(ls, us), Norm(k, v))
    BY <2>0, Zenon DEF IsOneMore
  <2>. DEFINE a == O(ls, us)
              b == Stored(k, v)
  <2>3. Pieces(ls, us) \in Seq(Value) /\ a \in Value
    BY <2>2, PiecesTyped, Zenon
  <2>4. b \in Value /\ Len(b) >= 1
    <3>1. b \in Value
      BY <2>2, StoredTyped, Zenon
    <3>2. Len(b) >= MinWidth(k) /\ MinWidth(k) >= 1
      BY <2>2, StoredLength, Zenon
    <3>3. MinWidth(k) \in Int
      BY WidthIs DEF MinWidth, Kinds
    <3>4. Len(b) \in Nat
      BY <3>1 DEF Value
    <3>. HIDE DEF b
    <3>5. QED BY <3>1, <3>2, <3>3, <3>4
  <2>5. O(Append(ls, k), ws) = a \o b
    BY <2>2, <2>3, <2>4, FlattenAppend DEF Value
  <2>6. Len(a \o b) = Len(a) + Len(b) /\ Len(a) \in Nat /\ Len(b) \in Nat
    BY <2>3, <2>4, ConcatIs, Zenon
  <2>7. At(c.octets, c.pos, a \o b)
    BY <2>1, <2>5, Zenon
  <2>. HIDE DEF a, b
  <2>8. c.octets \in Value /\ c.pos \in Nat /\ Len(c.octets) \in Nat
    BY DEF IsCursor, Value
  <2>9. At(c.octets, c.pos, a) /\ At(c.octets, c.pos + Len(a), b)
    BY <2>3, <2>4, <2>7, <2>8, AtConcat, Zenon
  <2>10. /\ FoldLeft(LoadOne, c, ls) = Further(c, Len(a), Norms(ls, us))
         /\ Len(a) >= Len(ls)
    BY <1>2, <2>2, <2>9, Zenon DEF a
  <2>. DEFINE d == Further(c, Len(a), Norms(ls, us))
  <2>11. Norms(ls, us) \in Seq(Value) /\ Len(Norms(ls, us)) = Len(ls)
    BY <2>2, NormsTyped, Zenon
  <2>12. c.pos + Len(a) <= Len(c.octets)
    BY <2>9 DEF At
  <2>13. IsCursor(d) /\ d.octets = c.octets /\ d.pos = c.pos + Len(a)
    BY <2>6, <2>11, <2>12, FurtherIs
  <2>14. k \in Kinds \cup {"chunk"} /\ k # "chunk"
    BY DEF Kinds
  <2>15. LoadOne(d, k) = Moved(d, Len(b), Norm(k, v))
    <3>1. At(d.octets, d.pos, Stored(k, v))
      BY <2>9, <2>13, Zenon DEF b
    <3>2. QED BY <2>2, <2>13, <2>14, <3>1, LoadOneAt, Zenon DEF b
  <2>16. LoadOne(d, k) = Further(c, Len(a) + Len(b), Append(Norms(ls, us), Norm(k, v)))
    BY <2>6, <2>11, <2>12, <2>15, FurtherMoved
  <2>17. FoldLeft(LoadOne, c, Append(ls, k)) = LoadOne(d, k)
    <3>1. FoldLeft(LoadOne, c, Append(ls, k)) = LoadOne(FoldLeft(LoadOne, c, ls), k)
      BY FoldMore, ZenonT(40)
    <3>2. QED BY <2>10, <3>1
  <2>18. Len(Append(ls, k)) = Len(ls) + 1 /\ Len(ls) \in Nat
    OBVIOUS
  <2>19. Len(a) + Len(b) >= Len(Append(ls, k))
    BY <2>4, <2>6, <2>10, <2>18
  <2>20. Done(Append(ls, k), ws)
    BY <2>2, <2>5, <2>6, <2>16, <2>17, <2>19
  <2>21. QED BY <2>20
<1>. HIDE DEF T
<1>3. \A ls \in Seq(Kinds) : ls \in T
  BY <1>1, <1>2, InductionOver, Zenon
<1>4. Good(ks, vs)
  OBVIOUS
<1>. HIDE DEF Good, Done
<1>5. Done(ks, vs)
  BY <1>3, <1>4 DEF T
<1>6. QED BY <1>5, Zenon DEF Done

\* What is loaded as elements, from any octets, can be stored.
LEMMA LoadOnesTyped ==
  ASSUME NEW c, IsCursor(c), c.got = <<>>, NEW ks \in Seq(Kinds \cup {"chunk"})
  PROVE  /\ IsCursor(FoldLeft(LoadOne, c, ks))
         /\ FoldLeft(LoadOne, c, ks).octets = c.octets
         /\ FoldLeft(LoadOne, c, ks).save = c.save
         /\ FoldLeft(LoadOne, c, ks).ok =>
               /\ c.ok /\ Len(FoldLeft(LoadOne, c, ks).got) = Len(ks)
               /\ \A i \in 1..Len(ks) : WasRead(ks[i], FoldLeft(LoadOne, c, ks).got[i])
<1>. DEFINE K == Kinds \cup {"chunk"}
            D(ls) == FoldLeft(LoadOne, c, ls)
            Good(ls, d) == /\ IsCursor(d) /\ d.octets = c.octets /\ d.save = c.save
                           /\ d.ok => /\ c.ok /\ Len(d.got) = Len(ls)
                                      /\ \A i \in 1..Len(ls) : WasRead(ls[i], d.got[i])
            T == {ls \in Seq(K) : Good(ls, D(ls))}
<1>1. <<>> \in T
  <2>1. D(<<>>) = c
    BY FoldNone
  <2>2. Good(<<>>, c)
    OBVIOUS
  <2>3. <<>> \in Seq(K)
    OBVIOUS
  <2>. HIDE DEF Good, D
  <2>4. QED BY <2>1, <2>2, <2>3
<1>2. ASSUME NEW ls \in Seq(K), NEW k \in K, ls \in T PROVE Append(ls, k) \in T
  <2>. DEFINE d == D(ls)
              e == LoadOne(d, k)
  <2>1. Good(ls, d)
    BY <1>2
  <2>2. D(Append(ls, k)) = e
    BY FoldMore, ZenonT(40)
  <2>. HIDE DEF d, D
  <2>3. /\ IsCursor(e) /\ e.octets = d.octets /\ e.save = d.save
        /\ e.ok => d.ok /\ \E v : WasRead(k, v) /\ e.got = Append(d.got, v)
    BY <2>1, LoadOneTyped, Zenon
  <2>. HIDE DEF e
  <2>4. ASSUME e.ok PROVE /\ c.ok /\ Len(e.got) = Len(Append(ls, k))
                          /\ \A i \in 1..Len(Append(ls, k)) : WasRead(Append(ls, k)[i], e.got[i])
    <3>1. PICK v : WasRead(k, v) /\ e.got = Append(d.got, v)
      BY <2>3, <2>4
    <3>. DEFINE g == d.got
                n == Len(ls)
                ms == Append(ls, k)
                h == Append(g, v)
    <3>2. c.ok /\ g \in Seq(Value) /\ Len(g) = n /\ \A i \in 1..n : WasRead(ls[i], g[i])
      BY <2>1, <2>3, <2>4 DEF IsCursor
    <3>3. v \in Value
      BY <3>1 DEF WasRead, Storable
    <3>4. n \in Nat /\ Len(ms) = n + 1 /\ ms[n + 1] = k /\ \A i \in 1..n : ms[i] = ls[i]
      OBVIOUS
    <3>. HIDE DEF g, n
    <3>5. Len(h) = n + 1 /\ h[n + 1] = v /\ \A i \in 1..n : h[i] = g[i]
      BY <3>2, <3>3, <3>4
    <3>. HIDE DEF ms, h
    <3>6. \A i \in 1..(n + 1) : i \in 1..n \/ i = n + 1
      BY <3>4
    <3>7. \A i \in 1..(n + 1) : WasRead(ms[i], h[i])
      BY <3>1, <3>2, <3>4, <3>5, <3>6
    <3>8. e.got = h
      BY <3>1 DEF h, g
    <3>9. QED BY <3>2, <3>4, <3>5, <3>7, <3>8 DEF ms
  <2>5. Good(Append(ls, k), e)
    BY <2>1, <2>3, <2>4
  <2>6. Append(ls, k) \in Seq(K)
    OBVIOUS
  <2>. HIDE DEF Good
  <2>7. QED BY <2>2, <2>5, <2>6
<1>. HIDE DEF T
<1>3. \A ls \in Seq(K) : ls \in T
  <2>. HIDE DEF K
  <2>1. QED BY <1>1, <1>2, InductionOver, Zenon
<1>. HIDE DEF Good
<1>4. Good(ks, D(ks))
  BY <1>3 DEF T
<1>5. QED BY <1>4, Zenon DEF Good
-----------------------------------------------------------------------------
(* The kinds of several elements in a row. *)

Cycle(kinds, j) == kinds[1 + ((j - 1) % Len(kinds))]

\* Arithmetic of n groups of w elements: where a group starts and which kind an
\* element has.
LEMMA Multiples ==
  ASSUME NEW w \in {1, 2, 3, 6}, NEW n \in Nat
  PROVE  /\ w \in Nat /\ w >= 1 /\ n * w \in Nat /\ (n + 1) * w = n * w + w
         /\ (n * w) \div w = n /\ 0 * w = 0 /\ n <= n * w /\ (n > 0 => n * w > 0)
         /\ \A k \in 1..w : 1 + (((n * w + k) - 1) % w) = k
<1>1. CASE w = 1
  BY <1>1, SMT
<1>2. CASE w = 2
  BY <1>2, SMT
<1>3. CASE w = 3
  BY <1>3, SMT
<1>4. CASE w = 6
  BY <1>4, SMT
<1>5. QED BY <1>1, <1>2, <1>3, <1>4, SMT

\* The same kinds n times over: the kind at a place is the kind at that place of
\* a group.
LEMMA FlattenConst ==
  ASSUME NEW X, NEW kinds \in Seq(X), Len(kinds) \in {1, 2, 3, 6}
  PROVE  \A n \in Nat : LET ks == FlattenSeq([i \in 1..n |-> kinds])
                        IN  /\ ks \in Seq(X) /\ Len(ks) = n * Len(kinds)
                            /\ \A j \in 1..Len(ks) : ks[j] = Cycle(kinds, j)
<1>. DEFINE w == Len(kinds)
            L(n) == [i \in 1..n |-> kinds]
            ks(n) == FlattenSeq(L(n))
            Good(n) == /\ ks(n) \in Seq(X) /\ Len(ks(n)) = n * w
                       /\ \A j \in 1..Len(ks(n)) : ks(n)[j] = Cycle(kinds, j)
            T == {n \in Nat : Good(n)}
<1>1. 0 \in T
  <2>1. ks(0) = <<>>
    <3>1. L(0) = <<>>
      OBVIOUS
    <3>2. QED BY <3>1, FlattenEmpty
  <2>2. 0 * w = 0
    BY Multiples
  <2>3. <<>> \in Seq(X) /\ Len(<<>>) = 0 /\ \A j \in 1..0 : FALSE
    OBVIOUS
  <2>. HIDE DEF ks, w
  <2>4. Good(0)
    BY <2>1, <2>2, <2>3
  <2>. HIDE DEF Good
  <2>5. QED BY <2>4
<1>2. ASSUME NEW n \in Nat, n \in T PROVE n + 1 \in T
  <2>. DEFINE a == ks(n)
              b == ks(n + 1)
  <2>1. a \in Seq(X) /\ Len(a) = n * w /\ \A j \in 1..Len(a) : a[j] = Cycle(kinds, j)
    BY <1>2
  <2>2. L(n) \in Seq(Seq(X))
    <3>1. L(n) \in [1..n -> Seq(X)]
      OBVIOUS
    <3>. HIDE DEF L
    <3>2. QED BY <3>1, FunctionIsSeq, Zenon
  <2>3. L(n + 1) = Append(L(n), kinds)
    <3>. DEFINE f == [i \in Nat |-> kinds]
    <3>1. [i \in 1..(n + 1) |-> f[i]] = Append([i \in 1..n |-> f[i]], f[n + 1])
      <4>. HIDE DEF f
      <4>1. QED BY OneMore
    <3>2. /\ [i \in 1..(n + 1) |-> f[i]] = L(n + 1) /\ [i \in 1..n |-> f[i]] = L(n)
          /\ f[n + 1] = kinds
      OBVIOUS
    <3>. HIDE DEF f, L
    <3>3. QED BY <3>1, <3>2, Zenon
  <2>4. b = a \o kinds
    <3>. HIDE DEF L
    <3>1. FlattenSeq(Append(L(n), kinds)) = FlattenSeq(L(n)) \o kinds
      BY <2>2, FlattenAppend
    <3>2. QED BY <2>3, <3>1
  <2>. HIDE DEF a, b, ks
  <2>5. w \in Nat /\ n * w \in Nat /\ (n + 1) * w = n * w + w
        /\ \A k \in 1..w : 1 + (((n * w + k) - 1) % w) = k
    <3>. HIDE DEF w
    <3>1. w \in {1, 2, 3, 6}
      BY DEF w
    <3>2. QED BY <3>1, Multiples
  <2>. DEFINE m == n * w
  <2>. HIDE DEF m
  <2>6. /\ b \in Seq(X) /\ Len(b) = m + w /\ (\A j \in 1..m : b[j] = a[j])
        /\ \A k \in 1..w : b[m + k] = kinds[k]
    <3>1. a \in Seq(X) /\ Len(a) = m /\ kinds \in Seq(X) /\ Len(kinds) = w
      BY <2>1 DEF m
    <3>. HIDE DEF w
    <3>2. QED BY SMTT(30), <2>4, <3>1
  <2>7. ASSUME NEW j \in 1..(m + w) PROVE b[j] = Cycle(kinds, j)
    <3>1. CASE j \in 1..m
      <4>1. b[j] = a[j]
        BY <2>6, <3>1, Zenon
      <4>2. a[j] = Cycle(kinds, j)
        BY <2>1, <3>1, Zenon DEF m
      <4>3. QED BY <4>1, <4>2
    <3>2. CASE j \notin 1..m
      <4>. DEFINE k == j - m
      <4>1. m \in Nat /\ w \in Nat
        BY <2>5 DEF m
      <4>. HIDE DEF w
      <4>2. k \in 1..w /\ j = m + k
        BY <3>2, <4>1
      <4>3. 1 + ((j - 1) % w) = k
        BY <2>5, <4>2, Zenon DEF m
      <4>4. b[j] = kinds[k]
        BY <2>6, <4>2, Zenon
      <4>5. QED BY <4>3, <4>4, Zenon DEF Cycle, w
    <3>3. QED BY <3>1, <3>2
  <2>8. Good(n + 1)
    <3>1. Len(b) = (n + 1) * w
      BY <2>5, <2>6 DEF m
    <3>2. QED BY <2>6, <2>7, <3>1, Zenon DEF b
  <2>. HIDE DEF Good
  <2>9. n + 1 \in Nat
    OBVIOUS
  <2>10. QED BY <2>8, <2>9
<1>. HIDE DEF T, Good
<1>3. Nat \subseteq T
  BY <1>1, <1>2, FL!Induction
<1>4. \A n \in Nat : Good(n)
  BY <1>3 DEF T
<1>5. QED BY <1>4, Zenon DEF Good
-----------------------------------------------------------------------------
(* Fields. *)

IsField(f) ==
  /\ f = [name |-> f.name, count |-> f.count, kinds |-> f.kinds]
  /\ f.count \in {"one", "vsval", "u8", "le16", "le32"}
  /\ f.kinds \in Seq(Kinds) /\ Len(f.kinds) \in {1, 2, 3, 6}

CountOK(count, n) ==
  /\ count = "one" => n = 1
  /\ count = "vsval" => n <= VsvalMax
  /\ count \in {"u8", "le16", "le32"} => n < Numbers(Width[count])

\* The value of a field that can be stored and loaded.
FieldOK(f, v) ==
  \E n \in Nat : /\ CountOK(f.count, n) /\ Len(v) = n * Len(f.kinds)
                 /\ v \in Seq(Value)
                 /\ \A i \in 1..Len(v) : Storable(Cycle(f.kinds, i), v[i])

NormF(f, v) == [i \in 1..Len(v) |-> Norm(Cycle(f.kinds, i), v[i])]

\* What a field consists of, and how many times.
KindsOf(f, n) == FlattenSeq([i \in 1..n |-> f.kinds])

Parts(s, f, n) ==
  LET v == s[f.name] ks == KindsOf(f, n)
  IN  /\ CountOK(f.count, n) /\ ks \in Seq(Kinds) /\ AllStorable(ks, v) /\ n <= Len(ks)
      /\ Store(s, f) = StoredCount(f.count, n) \o FlattenSeq(Pieces(ks, v))
      /\ NormF(f, v) = Norms(ks, v)

\* What is stored for a field is its count and its elements.
LEMMA StoreIs ==
  ASSUME NEW s, NEW f, IsField(f), FieldOK(f, s[f.name])
  PROVE  \E n \in Nat : Parts(s, f, n)
<1>. DEFINE v == s[f.name]
            w == Len(f.kinds)
<1>1. PICK n \in Nat : /\ CountOK(f.count, n) /\ Len(v) = n * w
                       /\ v \in Seq(Value)
                       /\ \A i \in 1..Len(v) : Storable(Cycle(f.kinds, i), v[i])
  BY Zenon DEF FieldOK
<1>. DEFINE ks == KindsOf(f, n)
            m == n * w
<1>2. f.kinds \in Seq(Kinds) /\ w \in {1, 2, 3, 6}
  BY DEF IsField
<1>3. /\ ks \in Seq(Kinds) /\ Len(ks) = m
      /\ \A j \in 1..Len(ks) : ks[j] = Cycle(f.kinds, j)
  BY <1>2, FlattenConst, Zenon DEF KindsOf
<1>4. m \in Nat /\ m \div w = n /\ n <= m
  <2>. HIDE DEF w
  <2>1. QED BY <1>2, Multiples
<1>. HIDE DEF ks, m, w, v
<1>5. DOMAIN v = 1..m /\ Len(v) = m /\ Len(v) \div w = n
  BY <1>1, <1>4 DEF m
<1>6. AllStorable(ks, v)
  BY <1>1, <1>3, <1>5, Zenon DEF AllStorable
<1>7. Store(s, f) = StoredCount(f.count, Len(v) \div w)
                    \o FlattenSeq([i \in DOMAIN v |-> Stored(Cycle(f.kinds, i), v[i])])
  BY Zenon DEF Store, Cycle, v, w
<1>8. [i \in DOMAIN v |-> Stored(Cycle(f.kinds, i), v[i])] = Pieces(ks, v)
  BY <1>3, <1>5 DEF Pieces
<1>9. NormF(f, v) = Norms(ks, v)
  BY <1>3, <1>5 DEF NormF, Norms
<1>10. Store(s, f) = StoredCount(f.count, n) \o FlattenSeq(Pieces(ks, v))
  BY <1>5, <1>7, <1>8
<1>11. Parts(s, f, n)
  BY <1>1, <1>3, <1>4, <1>6, <1>9, <1>10 DEF Parts, v, ks
<1>12. QED BY <1>11
-----------------------------------------------------------------------------
(* The number in front of a field. *)

\* encode_vsval gives one to three octets.
LEMMA EncodedTyped ==
  ASSUME NEW n \in Nat, n <= VsvalMax
  PROVE  Encoded(n) \in Value /\ Len(Encoded(n)) \in 1..3
<1>1. OctetCount(Shifted(n)) \in 1..3 /\ Word(n) \in Int
  BY WordSplits, SMT
<1>. DEFINE k == OctetCount(Shifted(n))
            w == Word(n)
<1>2. k \in 1..3 /\ k \in Nat /\ w \in Int
  BY <1>1
<1>. HIDE DEF k, w
<1>3. \A m \in Int : m % 256 \in Octet
  BY SMT DEF Octet
<1>4. w \div 256 \in Int /\ w \div 65536 \in Int
  BY <1>2, SMT
<1>5. PICK x \in Octet, y \in Octet, z \in Octet : Octets(w) = <<x, y, z>>
  BY <1>2, <1>3, <1>4, SMT DEF Octets
<1>6. \A i \in 1..k : Octets(w)[i] \in Octet
  <2>1. \A i \in 1..k : i = 1 \/ i = 2 \/ i = 3
    BY <1>2, SMT
  <2>2. <<x, y, z>>[1] = x /\ <<x, y, z>>[2] = y /\ <<x, y, z>>[3] = z
    OBVIOUS
  <2>3. QED BY <1>5, <2>1, <2>2
<1>7. Encoded(n) \in [1..k -> Octet]
  BY <1>6, Zenon DEF Encoded, k, w
<1>8. Encoded(n) \in Seq(Octet) /\ Len(Encoded(n)) = k
  BY <1>2, <1>7, FunctionIsSeq, Zenon
<1>9. QED BY <1>2, <1>8 DEF Value

\* The first octet in front of a cursor is the first of what is at its place.
LEMMA FirstPiece ==
  ASSUME NEW c, IsCursor(c), NEW o \in Value, Len(o) >= 1, At(c.octets, c.pos, o)
  PROVE  Piece(c, 0, 1)[1] = o[1]
<1>1. Len(o) \in Nat /\ c.pos \in Nat /\ Len(c.octets) \in Nat
  BY DEF IsCursor, Value
<1>2. 1 \in 1..Len(o) /\ c.pos + Len(o) <= Len(c.octets)
  BY <1>1 DEF At
<1>3. 0 + 1 <= Left(c) /\ c.pos + 0 + 1 = c.pos + 1 /\ 1 \in 1..1
  BY <1>1, <1>2 DEF Left
<1>4. c.octets[c.pos + 1] = o[1]
  BY <1>2 DEF At
<1>5. QED BY <1>3, <1>4 DEF Piece

\* The count of a field is octets, and none exactly where the field has no count.
LEMMA CountStored ==
  ASSUME NEW count \in {"one", "vsval", "u8", "le16", "le32"}, NEW n \in Nat, CountOK(count, n)
  PROVE  StoredCount(count, n) \in Value /\ (count = "one" <=> Len(StoredCount(count, n)) = 0)
<1>1. CASE count = "one"
  <2>1. StoredCount(count, n) = <<>>
    BY <1>1 DEF StoredCount
  <2>2. <<>> \in Value /\ Len(<<>>) = 0
    BY DEF Value
  <2>3. QED BY <1>1, <2>1, <2>2
<1>2. CASE count = "vsval"
  <2>1. StoredCount(count, n) = Encoded(n)
    BY <1>2 DEF StoredCount
  <2>2. Encoded(n) \in Value /\ Len(Encoded(n)) \in 1..3
    BY <1>2, EncodedTyped DEF CountOK
  <2>3. QED BY <1>2, <2>1, <2>2
<1>3. CASE count \in {"u8", "le16", "le32"}
  <2>. DEFINE w == Width[count]
  <2>1. StoredCount(count, n) = LE(n, w) /\ w \in {1, 2, 4} /\ n \in Int
    BY <1>3, WidthIs DEF StoredCount
  <2>. HIDE DEF w
  <2>2. LE(n, w) \in Value /\ Len(LE(n, w)) = w
    BY <2>1, LEIs, Zenon
  <2>3. QED BY <1>3, <2>1, <2>2
<1>4. QED BY <1>1, <1>2, <1>3

\* The count that was stored in front of a cursor is the count read ahead of the
\* elements.
LEMMA CountAt ==
  ASSUME NEW c, IsCursor(c), NEW count \in {"one", "vsval", "u8", "le16", "le32"},
         NEW n \in Nat, CountOK(count, n), At(c.octets, c.pos, StoredCount(count, n))
  PROVE  /\ CountWidth(c, count) = Len(StoredCount(count, n))
         /\ CountAhead(c, count) = n
<1>0. c.pos + 0 = c.pos /\ 0 \in Nat
  BY DEF IsCursor
<1>1. CASE count = "one"
  <2>1. StoredCount(count, n) = <<>> /\ n = 1 /\ Len(<<>>) = 0
    BY <1>1 DEF StoredCount, CountOK
  <2>2. QED BY <1>1, <2>1 DEF CountWidth, CountAhead
<1>2. CASE count = "vsval"
  <2>. DEFINE e == Encoded(n)
  <2>1. StoredCount(count, n) = e
    BY <1>2 DEF StoredCount
  <2>2. n <= VsvalMax
    BY <1>2 DEF CountOK
  <2>3. e \in Value /\ Len(e) \in 1..3
    BY <2>2, EncodedTyped, Zenon
  <2>4. LoopBound(e[1]) = Len(e) /\ Assembled(Padded(e)) = n
    BY <2>2, CodecRoundTrip, Zenon
  <2>. HIDE DEF e
  <2>5. At(c.octets, c.pos, e) /\ Len(e) >= 1
    BY SMTT(30), <2>1, <2>3
  <2>6. Piece(c, 0, 1)[1] = e[1]
    BY <2>3, <2>5, FirstPiece, Zenon
  <2>7. CountWidth(c, count) = Len(e)
    <3>1. CountWidth(c, count) = IF LoopBound(Piece(c, 0, 1)[1]) = 0 THEN TooMany
                                 ELSE LoopBound(Piece(c, 0, 1)[1])
      BY <1>2 DEF CountWidth
    <3>2. Len(e) # 0
      BY <2>3
    <3>3. QED BY <2>4, <2>6, <3>1, <3>2
  <2>8. Piece(c, 0, Len(e)) = e
    <3>1. At(c.octets, c.pos + 0, e)
      BY <1>0, <2>5
    <3>2. QED BY <1>0, <2>3, <3>1, PieceAt, Zenon
  <2>9. CountAhead(c, count) = Assembled(e \o <<0, 0>>)
    BY <1>2, <2>7, <2>8 DEF CountAhead
  <2>10. Assembled(e \o <<0, 0>>) = Assembled(Padded(e))
    <3>. DEFINE q == e \o <<0, 0>>
    <3>1. \A k \in 1..3 : q[k] = IF k <= Len(e) THEN e[k] ELSE 0
      <4>1. <<0, 0>> \in Seq(Nat) /\ Len(<<0, 0>>) = 2 /\ <<0, 0>>[1] = 0 /\ <<0, 0>>[2] = 0
        OBVIOUS
      <4>. DEFINE z == <<0, 0>>
      <4>. HIDE DEF z
      <4>2. z \in Seq(Nat) /\ Len(z) = 2 /\ z[1] = 0 /\ z[2] = 0 /\ q = e \o z
        BY <4>1 DEF z
      <4>3. e \in Seq(Int)
        <5>1. \A i \in 1..Len(e) : e[i] \in Int
          BY <2>3, ElementIs, OctetIs, Zenon
        <5>2. e = [i \in 1..Len(e) |-> e[i]] /\ Len(e) \in Nat
          BY <2>3 DEF Value
        <5>3. e \in [1..Len(e) -> Int]
          BY <5>1, <5>2, Zenon
        <5>4. QED BY <5>2, <5>3, FunctionIsSeq, Zenon
      <4>. HIDE DEF q
      <4>4. z \in Seq(Int)
        BY <4>2
      <4>. DEFINE h == Len(e)
      <4>5. h \in 1..3 /\ \A i \in 1..(h + 2) : q[i] = IF i <= h THEN e[i] ELSE z[i - h]
        <5>1. /\ Len(e \o z) = Len(e) + Len(z)
              /\ \A i \in 1..(Len(e) + Len(z)) :
                   (e \o z)[i] = IF i <= Len(e) THEN e[i] ELSE z[i - Len(e)]
          BY <4>3, <4>4, ConcatProperties, Zenon
        <5>2. QED BY SMTT(30), <2>3, <4>2, <5>1
      <4>. HIDE DEF h
      <4>9. z[1] = 0 /\ z[2] = 0
        BY <4>2
      <4>10. h \in 1..3 /\ \A i \in 1..(h + 2) : q[i] = IF i <= h THEN e[i] ELSE z[i - h]
        BY <4>5
      <4>6. q[1] = (IF 1 <= h THEN e[1] ELSE 0) /\ q[2] = (IF 2 <= h THEN e[2] ELSE 0)
            /\ q[3] = (IF 3 <= h THEN e[3] ELSE 0)
        <5>1. CASE h = 1
          BY <4>9, <4>10, <5>1
        <5>2. CASE h = 2
          BY <4>9, <4>10, <5>2
        <5>3. CASE h = 3
          BY <4>9, <4>10, <5>3
        <5>4. QED BY <4>5, <5>1, <5>2, <5>3
      <4>7. \A k \in 1..3 : k = 1 \/ k = 2 \/ k = 3
        OBVIOUS
      <4>8. QED BY <4>6, <4>7 DEF h
    <3>2. \A k \in 1..3 : Padded(e)[k] = IF k <= Len(e) THEN e[k] ELSE 0
      BY DEF Padded
    <3>. HIDE DEF q
    <3>3. q[1] = Padded(e)[1] /\ q[2] = Padded(e)[2] /\ q[3] = Padded(e)[3]
      BY <3>1, <3>2
    <3>4. Assembled(q) = Assembled(Padded(e))
      BY <3>3, SMT DEF Assembled
    <3>5. QED BY <3>4 DEF q
  <2>11. QED BY <2>1, <2>4, <2>7, <2>9, <2>10
<1>3. CASE count \in {"u8", "le16", "le32"}
  <2>. DEFINE w == Width[count]
  <2>1. StoredCount(count, n) = LE(n, w) /\ w \in {1, 2, 4} /\ n \in Int /\ n < Numbers(w)
    BY <1>3, WidthIs DEF StoredCount, CountOK
  <2>2. CountWidth(c, count) = w /\ CountAhead(c, count) = NumberAt(c, 0, w)
    BY <1>3 DEF CountWidth, CountAhead
  <2>. HIDE DEF w
  <2>3. LE(n, w) \in Value /\ Len(LE(n, w)) = w /\ Number(LE(n, w)) = n
    BY <2>1, LEIs, NumberOfLE, Zenon
  <2>4. Piece(c, 0, w) = LE(n, w)
    <3>1. At(c.octets, c.pos + 0, LE(n, w))
      BY <1>0, <2>1
    <3>2. Piece(c, 0, Len(LE(n, w))) = LE(n, w)
      BY <1>0, <2>3, <3>1, PieceAt, Zenon
    <3>3. QED BY <2>3, <3>2
  <2>5. QED BY <2>1, <2>2, <2>3, <2>4 DEF NumberAt
<1>4. QED BY <1>1, <1>2, <1>3
-----------------------------------------------------------------------------
(* A field is stored and loaded. *)

\* What loading what is stored of a field makes of a cursor and its save.
Filled(c, s, f) ==
  [octets |-> c.octets, pos |-> c.pos + Len(Store(s, f)), ok |-> c.ok,
   got |-> NormF(f, s[f.name]), save |-> [c.save EXCEPT ![f.name] = NormF(f, s[f.name])]]

\* What setting one field of the save leaves as it was.
LEMMA SaveEdited ==
  ASSUME NEW o, NEW p, NEW k, NEW g, NEW s, NEW n, NEW v
  PROVE  [[octets |-> o, pos |-> p, ok |-> k, got |-> g, save |-> s] EXCEPT !.save[n] = v] =
           [octets |-> o, pos |-> p, ok |-> k, got |-> g, save |-> [s EXCEPT ![n] = v]]
<1>. DEFINE r == [octets |-> o, pos |-> p, ok |-> k, got |-> g, save |-> s]
            t == [s EXCEPT ![n] = v]
<1>1. r.save = s
  OBVIOUS
<1>2. [r EXCEPT !.save[n] = v] = [r EXCEPT !.save = [r.save EXCEPT ![n] = v]]
  <2>. HIDE DEF r
  <2>1. QED OBVIOUS
<1>. HIDE DEF t
<1>3. [r EXCEPT !.save = t] = [octets |-> o, pos |-> p, ok |-> k, got |-> g, save |-> t]
  OBVIOUS
<1>. HIDE DEF r
<1>4. QED BY <1>1, <1>2, <1>3, Zenon DEF r, t

IsFilled(d, c, s, f) ==
  /\ IsCursor(d) /\ d.octets = c.octets /\ d.pos = c.pos + Len(Store(s, f)) /\ d.ok = c.ok
  /\ d.save = [c.save EXCEPT ![f.name] = NormF(f, s[f.name])]

\* The cursor that has loaded a field: further by its octets, the field set, all
\* else kept.
LEMMA FilledIs ==
  ASSUME NEW c, IsCursor(c), NEW s, NEW f, NormF(f, s[f.name]) \in Seq(Value),
         Store(s, f) \in Value, c.pos + Len(Store(s, f)) <= Len(c.octets)
  PROVE  IsFilled(Filled(c, s, f), c, s, f)
<1>. DEFINE n == Len(Store(s, f))
            g == NormF(f, s[f.name])
            t == [c.save EXCEPT ![f.name] = g]
            d == Filled(c, s, f)
<1>1. d = [octets |-> c.octets, pos |-> c.pos + n, ok |-> c.ok, got |-> g, save |-> t]
  BY Zenon DEF Filled
<1>2. n \in Nat /\ g \in Seq(Value) /\ c.pos + n <= Len(c.octets)
  BY DEF Value
<1>. HIDE DEF n, g, t, d
<1>3. d.octets = c.octets /\ d.pos = c.pos + n /\ d.ok = c.ok /\ d.got = g /\ d.save = t
  BY <1>1
<1>4. c.octets \in Value /\ c.pos + n \in Nat /\ c.ok \in BOOLEAN
  BY <1>2 DEF IsCursor
<1>5. IsCursor(d)
  BY <1>1, <1>2, <1>3, <1>4, Zenon DEF IsCursor
<1>6. QED BY <1>3, <1>5, Zenon DEF n, g, t, d, IsFilled

\* A field that is stored in front of a cursor is loaded as its normal form, and
\* nothing else happens.
LEMMA LoadAt ==
  ASSUME NEW c, IsCursor(c), NEW f, IsField(f), NEW s, FieldOK(f, s[f.name]),
         At(c.octets, c.pos, Store(s, f))
  PROVE  /\ Load(c, f) = Filled(c, s, f)
         /\ Store(s, f) \in Value /\ NormF(f, s[f.name]) \in Seq(Value)
         /\ c.pos + Len(Store(s, f)) <= Len(c.octets)
<1>1. PICK n \in Nat : Parts(s, f, n)
  BY StoreIs, Zenon
<1>. DEFINE v == s[f.name]
            ks == KindsOf(f, n)
            h == StoredCount(f.count, n)
            b == FlattenSeq(Pieces(ks, v))
            width == Len(h)
<1>2. /\ CountOK(f.count, n) /\ ks \in Seq(Kinds) /\ AllStorable(ks, v) /\ n <= Len(ks)
      /\ Store(s, f) = h \o b /\ NormF(f, v) = Norms(ks, v)
  BY <1>1, Zenon DEF Parts
<1>3. f.count \in {"one", "vsval", "u8", "le16", "le32"}
  BY DEF IsField
<1>4. h \in Value /\ (f.count = "one" <=> width = 0)
  BY <1>2, <1>3, CountStored, Zenon
<1>5. b \in Value /\ Norms(ks, v) \in Seq(Value)
  BY <1>2, PiecesTyped, NormsTyped, Zenon
<1>6. h \o b \in Value /\ Len(h \o b) = width + Len(b) /\ width \in Nat /\ Len(b) \in Nat
  BY <1>4, <1>5, ConcatIs, Zenon
<1>7. Len(ks) \in Nat
  BY <1>2
<1>8. c.octets \in Value /\ c.pos \in Nat /\ Len(c.octets) \in Nat
  BY DEF IsCursor, Value
<1>. HIDE DEF ks, h, b, v
<1>9. At(c.octets, c.pos, h) /\ At(c.octets, c.pos + width, b)
  <2>1. At(c.octets, c.pos, h \o b)
    BY <1>2
  <2>2. QED BY <1>4, <1>5, <1>8, <2>1, AtConcat, Zenon
<1>10. CountWidth(c, f.count) = width /\ CountAhead(c, f.count) = n
  BY <1>2, <1>3, <1>9, CountAt, Zenon DEF h
<1>. HIDE DEF width
<1>11. (c.pos + width) + Len(b) <= Len(c.octets) /\ c.pos + width <= Len(c.octets)
  <2>1. (c.pos + width) + Len(b) <= Len(c.octets)
    BY <1>9 DEF At
  <2>2. QED BY <1>6, <1>8, <2>1
<1>. DEFINE d == Further(c, width, <<>>)
<1>12. /\ IsCursor(d) /\ d.octets = c.octets /\ d.pos = c.pos + width /\ d.ok = c.ok
       /\ d.got = <<>> /\ d.save = c.save
  <2>1. <<>> \in Seq(Value)
    OBVIOUS
  <2>. DEFINE g == <<>>
  <2>. HIDE DEF g
  <2>2. g \in Seq(Value) /\ d = Further(c, width, g)
    BY <2>1 DEF g
  <2>. HIDE DEF d
  <2>3. IsCursor(d)
    BY <1>6, <1>11, <2>2, FurtherCursor
  <2>4. QED BY <1>6, <2>2, <2>3, FurtherIs DEF g
<1>13. [c EXCEPT !.pos = @ + width, !.got = <<>>] = d
  BY Edited, Zenon DEF Further
<1>. HIDE DEF d
<1>14. FoldLeft(LoadOne, d, ks) = Further(d, Len(b), Norms(ks, v)) /\ Len(b) >= Len(ks)
  <2>1. At(d.octets, d.pos, b)
    BY <1>9, <1>12
  <2>2. QED BY <1>2, <1>12, <2>1, LoadOnesAt, Zenon DEF b
<1>15. ~(width > Left(c)) /\ ~(n > Left(c) - width)
  BY SMTT(30), <1>2, <1>6, <1>7, <1>8, <1>11, <1>14 DEF Left
<1>. DEFINE e == FoldLeft(LoadOne, d, ks)
<1>16. Load(c, f) = [e EXCEPT !.save[f.name] = e.got]
  <2>1. f.count # "some"
    BY <1>3
  <2>. HIDE DEF e
  <2>2. FoldLeft(LoadOne, [c EXCEPT !.pos = @ + CountWidth(c, f.count), !.got = <<>>],
                 FlattenSeq([i \in 1..CountAhead(c, f.count) |-> f.kinds])) = e
    BY <1>10, <1>13, Zenon DEF e, ks, KindsOf
  <2>3. QED BY <1>10, <1>15, <2>1, <2>2, Zenon DEF Load
<1>17. e = [octets |-> c.octets, pos |-> c.pos + Len(Store(s, f)), ok |-> c.ok,
            got |-> NormF(f, v), save |-> c.save]
  <2>1. e = [octets |-> d.octets, pos |-> d.pos + Len(b), ok |-> d.ok,
             got |-> Norms(ks, v), save |-> d.save]
    BY <1>14, Zenon DEF Further
  <2>2. d.pos + Len(b) = c.pos + Len(Store(s, f))
    BY <1>2, <1>6, <1>8, <1>12
  <2>. HIDE DEF e
  <2>3. QED BY <1>2, <1>12, <2>1, <2>2, Zenon
<1>. HIDE DEF e
<1>18. e.got = NormF(f, v)
  BY <1>17
<1>19. Load(c, f) = Filled(c, s, f)
  <2>1. [e EXCEPT !.save[f.name] = e.got] =
          [octets |-> c.octets, pos |-> c.pos + Len(Store(s, f)), ok |-> c.ok,
           got |-> NormF(f, v), save |-> [c.save EXCEPT ![f.name] = NormF(f, v)]]
    BY <1>17, <1>18, SaveEdited
  <2>2. QED BY <1>16, <2>1, Zenon DEF Filled, v
<1>20. c.pos + Len(Store(s, f)) <= Len(c.octets)
  BY <1>2, <1>6, <1>8, <1>11
<1>21. QED BY <1>2, <1>5, <1>6, <1>19, <1>20 DEF v
-----------------------------------------------------------------------------
(* A field is loaded from any octets. *)

FieldWasRead(f, v) ==
  FieldOK(f, v) /\ \A i \in 1..Len(v) : WasRead(Cycle(f.kinds, i), v[i])

\* One to three octets assemble to a value below 2^22.
LEMMA AssembledTyped ==
  ASSUME NEW e \in Value, Len(e) \in 1..3
  PROVE  Assembled(e \o <<0, 0>>) \in Nat /\ Assembled(e \o <<0, 0>>) <= VsvalMax
<1>1. <<0, 0>> \in Value /\ Len(<<0, 0>>) = 2
  BY DEF Value, Octet
<1>. DEFINE z == <<0, 0>>
            q == e \o z
<1>. HIDE DEF z
<1>2. q \in Value /\ Len(q) = Len(e) + 2
  <2>1. z \in Value /\ Len(z) = 2
    BY <1>1 DEF z
  <2>2. QED BY <2>1, ConcatIs
<1>. HIDE DEF q
<1>3. 1 \in 1..Len(q) /\ 2 \in 1..Len(q) /\ 3 \in 1..Len(q)
  BY SMTT(30), <1>2
<1>4. q[1] \in Octet /\ q[2] \in Octet /\ q[3] \in Octet
  BY <1>2, <1>3, ElementIs, Zenon
<1>5. PICK x \in Octet, y \in Octet, w \in Octet : q[1] = x /\ q[2] = y /\ q[3] = w
  BY <1>4, Zenon
<1>6. Assembled(q) = (w * 65536 + y * 256 + x) \div 4
  BY <1>5, SMT DEF Assembled
<1>7. (w * 65536 + y * 256 + x) \div 4 \in Nat /\ (w * 65536 + y * 256 + x) \div 4 <= VsvalMax
  BY OctetIs, SMT DEF VsvalMax
<1>8. QED BY <1>6, <1>7 DEF q, z

\* A count read from any octets that leaves room for its elements can be stored
\* again.
LEMMA CountTyped ==
  ASSUME NEW c, IsCursor(c), Len(c.octets) < TooMany,
         NEW count \in {"one", "vsval", "u8", "le16", "le32"}
  PROVE  LET w == CountWidth(c, count)
             n == CountAhead(c, count)
         IN  /\ w \in Nat /\ (count = "one" => w = 0)
             /\ w <= Left(c) => n \in Nat
             /\ w <= Left(c) /\ ~(w > 0 /\ n > Left(c) - w) => CountOK(count, n)
<1>. DEFINE w == CountWidth(c, count)
            n == CountAhead(c, count)
<1>0. Left(c) \in Nat /\ Left(c) < TooMany /\ 0 \in Nat /\ TooMany \in Nat
  BY TooManyIs DEF Left, IsCursor, Value
<1>1. CASE count = "one"
  BY <1>1 DEF CountWidth, CountAhead, CountOK
<1>2. CASE count = "vsval"
  <2>. DEFINE b == LoopBound(Piece(c, 0, 1)[1])
  <2>1. b \in 0..3
    <3>1. Piece(c, 0, 1) \in Value /\ Len(Piece(c, 0, 1)) = 1
      BY <1>0, PieceTyped, Zenon
    <3>2. 1 \in 1..Len(Piece(c, 0, 1))
      BY <3>1
    <3>3. Piece(c, 0, 1)[1] \in Octet
      BY <3>1, <3>2, ElementIs, Zenon
    <3>4. PICK x \in Octet : Piece(c, 0, 1)[1] = x
      BY <3>3, Zenon
    <3>5. (x + 1) % 4 \in 0..3
      BY OctetIs, SMT
    <3>6. QED BY <3>4, <3>5 DEF LoopBound
  <2>2. w = IF b = 0 THEN TooMany ELSE b
    BY <1>2 DEF CountWidth
  <2>3. n = Assembled(Piece(c, 0, w) \o <<0, 0>>)
    BY <1>2 DEF CountAhead
  <2>. HIDE DEF b, w, n
  <2>4. w \in Nat
    BY <1>0, <2>1, <2>2
  <2>5. ASSUME w <= Left(c) PROVE n \in Nat /\ n <= VsvalMax
    <3>1. w \in 1..3
      BY <1>0, <2>1, <2>2, <2>5
    <3>2. Piece(c, 0, w) \in Value /\ Len(Piece(c, 0, w)) = w
      BY <1>0, <2>4, PieceTyped, Zenon
    <3>3. Len(Piece(c, 0, w)) \in 1..3
      BY <3>1, <3>2
    <3>4. QED BY <2>3, <3>2, <3>3, AssembledTyped
  <2>6. QED BY <1>2, <2>4, <2>5 DEF CountOK, w, n
<1>3. CASE count \in {"u8", "le16", "le32"}
  <2>. DEFINE k == Width[count]
  <2>1. w = k /\ k \in {1, 2, 4} /\ k \in Nat /\ n = NumberAt(c, 0, k)
        /\ (k = 4 <=> count = "le32") /\ count # "one" /\ count # "vsval"
    BY <1>3, WidthIs DEF CountWidth, CountAhead
  <2>. HIDE DEF k, w, n
  <2>2. Piece(c, 0, k) \in Value /\ Len(Piece(c, 0, k)) = k
    BY <1>0, <2>1, PieceTyped, Zenon
  <2>3. n \in Nat /\ n <= TooMany /\ (k # 4 => n < Numbers(k))
    BY <2>1, <2>2, NumberTyped, Zenon DEF NumberAt
  <2>4. ASSUME w <= Left(c), ~(w > 0 /\ n > Left(c) - w) PROVE n < Numbers(k)
    <3>1. n < TooMany
      BY <1>0, <2>1, <2>3, <2>4
    <3>2. k = 4 => Numbers(k) = TooMany
      BY NumbersIs
    <3>3. QED BY <2>3, <3>1, <3>2
  <2>5. CountOK(count, n) <=> n < Numbers(k)
    BY <1>3, <2>1 DEF CountOK, k
  <2>6. QED BY <2>1, <2>3, <2>4, <2>5 DEF w, n
<1>4. QED BY <1>1, <1>2, <1>3

\* Refusing changes nothing but the verdict.
LEMMA RefusedIs ==
  ASSUME NEW c, IsCursor(c)
  PROVE  /\ IsCursor(Refused(c)) /\ Refused(c).octets = c.octets /\ Refused(c).save = c.save
         /\ ~Refused(c).ok /\ Refused(c).pos = c.pos
<1>. DEFINE d == Refused(c)
<1>1. d = [octets |-> c.octets, pos |-> c.pos, ok |-> FALSE, got |-> c.got, save |-> c.save]
  BY Edited, Zenon DEF Refused
<1>. HIDE DEF d
<1>2. d.octets = c.octets /\ d.pos = c.pos /\ d.ok = FALSE /\ d.got = c.got /\ d.save = c.save
  BY <1>1
<1>3. FALSE \in BOOLEAN
  OBVIOUS
<1>4. IsCursor(d)
  BY <1>1, <1>2, <1>3, Zenon DEF IsCursor
<1>5. QED BY <1>2, <1>4 DEF d

\* A cursor that differs in one part of its save.
IsSet(d, c, n, v) ==
  /\ IsCursor(d) /\ d.octets = c.octets /\ d.pos = c.pos /\ d.ok = c.ok
  /\ d.save = [c.save EXCEPT ![n] = v]

\* What setting one field of the save under a cursor leaves as it was.
LEMMA SaveSet ==
  ASSUME NEW c, IsCursor(c), NEW n, NEW v
  PROVE  IsSet([c EXCEPT !.save[n] = v], c, n, v)
<1>1. PICK o, p, k, g, s : c = [octets |-> o, pos |-> p, ok |-> k, got |-> g, save |-> s]
  BY Zenon DEF IsCursor
<1>2. c.octets = o /\ c.pos = p /\ c.ok = k /\ c.got = g /\ c.save = s
  BY <1>1
<1>. DEFINE d == [c EXCEPT !.save[n] = v]
            t == [s EXCEPT ![n] = v]
<1>3. d = [octets |-> o, pos |-> p, ok |-> k, got |-> g, save |-> t]
  BY <1>1, SaveEdited
<1>. HIDE DEF d, t
<1>4. d.octets = o /\ d.pos = p /\ d.ok = k /\ d.got = g /\ d.save = t
  BY <1>3
<1>5. IsCursor(d)
  BY <1>2, <1>3, <1>4, Zenon DEF IsCursor
<1>6. QED BY <1>2, <1>4, <1>5, Zenon DEF d, t, IsSet

\* Loading a field from any octets either refuses or sets it to something that
\* can be stored again.
LEMMA LoadTyped ==
  ASSUME NEW c, IsCursor(c), Len(c.octets) < TooMany, NEW f, IsField(f)
  PROVE  /\ IsCursor(Load(c, f)) /\ Load(c, f).octets = c.octets
         /\ Load(c, f).ok => /\ c.ok
                             /\ \E v : /\ FieldWasRead(f, v)
                                       /\ Load(c, f).save = [c.save EXCEPT ![f.name] = v]
<1>. DEFINE width == CountWidth(c, f.count)
            n == CountAhead(c, f.count)
            ks == KindsOf(f, n)
            d == [c EXCEPT !.pos = @ + width, !.got = <<>>]
            e == FoldLeft(LoadOne, d, ks)
            Bad == width > Left(c) \/ (width > 0 /\ n > Left(c) - width)
<1>1. f.count \in {"one", "vsval", "u8", "le16", "le32"} /\ f.count # "some"
  BY DEF IsField
<1>2. /\ width \in Nat
      /\ width <= Left(c) => n \in Nat
      /\ width <= Left(c) /\ ~(width > 0 /\ n > Left(c) - width) => CountOK(f.count, n)
  BY <1>1, CountTyped, Zenon
<1>3. Load(c, f) = IF Bad THEN Refused(c) ELSE [e EXCEPT !.save[f.name] = e.got]
  BY <1>1, Zenon DEF Load, KindsOf
<1>4. CASE Bad
  <2>. HIDE DEF Bad, e
  <2>1. Load(c, f) = Refused(c)
    BY <1>3, <1>4
  <2>2. QED BY <2>1, RefusedIs
<1>5. CASE ~Bad
  <2>1. Load(c, f) = [e EXCEPT !.save[f.name] = e.got]
    <3>. HIDE DEF Bad, e
    <3>1. QED BY <1>3, <1>5
  <2>2. c.pos \in Nat /\ Left(c) \in Nat /\ Left(c) = Len(c.octets) - c.pos /\ Len(c.octets) \in Nat
    BY DEF IsCursor, Value, Left
  <2>. HIDE DEF width, n
  <2>3. width \in Nat /\ width <= Left(c) /\ n \in Nat /\ CountOK(f.count, n)
    BY <1>2, <1>5, <2>2
  <2>4. ks \in Seq(Kinds) /\ Len(ks) = n * Len(f.kinds)
        /\ \A j \in 1..Len(ks) : ks[j] = Cycle(f.kinds, j)
    <3>1. f.kinds \in Seq(Kinds) /\ Len(f.kinds) \in {1, 2, 3, 6}
      BY DEF IsField
    <3>2. QED BY <2>3, <3>1, FlattenConst, Zenon DEF KindsOf
  <2>. HIDE DEF width, n, ks
  <2>5. IsCursor(d) /\ d.octets = c.octets /\ d.save = c.save /\ d.ok = c.ok /\ d.got = <<>>
    <3>1. d = Further(c, width, <<>>)
      BY Edited, Zenon DEF Further
    <3>2. c.pos + width <= Len(c.octets)
      BY <2>2, <2>3
    <3>. DEFINE g == <<>>
    <3>3. g \in Seq(Value)
      OBVIOUS
    <3>. HIDE DEF d, g
    <3>4. d = Further(c, width, g)
      BY <3>1 DEF g
    <3>5. IsCursor(d)
      BY <2>3, <3>2, <3>3, <3>4, FurtherCursor
    <3>6. QED BY <2>3, <3>4, <3>5, FurtherIs DEF g
  <2>. HIDE DEF d
  <2>6. ks \in Seq(Kinds \cup {"chunk"})
    BY <2>4
  <2>7. /\ IsCursor(e) /\ e.octets = d.octets /\ e.save = d.save
        /\ e.ok => /\ d.ok /\ Len(e.got) = Len(ks)
                   /\ \A i \in 1..Len(ks) : WasRead(ks[i], e.got[i])
    BY <2>5, <2>6, LoadOnesTyped, Zenon
  <2>. HIDE DEF e
  <2>8. e.ok => FieldWasRead(f, e.got)
    <3>1. SUFFICES ASSUME e.ok PROVE FieldWasRead(f, e.got)
      OBVIOUS
    <3>2. e.got \in Seq(Value)
      BY <2>7, Zenon DEF IsCursor
    <3>3. Len(e.got) = Len(ks) /\ \A i \in 1..Len(ks) : WasRead(Cycle(f.kinds, i), e.got[i])
      BY <2>4, <2>7, <3>1
    <3>4. QED BY <2>3, <2>4, <3>2, <3>3 DEF FieldWasRead, FieldOK, WasRead
  <2>9. LET r == [e EXCEPT !.save[f.name] = e.got]
        IN  /\ IsCursor(r) /\ r.octets = e.octets /\ r.ok = e.ok
            /\ r.save = [e.save EXCEPT ![f.name] = e.got]
    BY <2>7, SaveSet DEF IsSet
  <2>10. QED BY <2>1, <2>5, <2>7, <2>8, <2>9
<1>6. QED BY <1>4, <1>5
-----------------------------------------------------------------------------
(* The fields by their names. *)

PlainNames ==
  {"file_version", "save_num", "player_name", "level", "player_location_name", "game_time",
   "race_id", "sex", "current_xp", "target_xp", "filetime", "snapshot_width",
   "snapshot_height", "compressor", "plugins", "light_plugins",
   "next_object_id", "world_space1", "coord_x", "coord_y", "world_space2", "pos_x", "pos_y",
   "pos_z", "unknown", "climate", "weather", "prev_weather", "unk_weather1", "unk_weather2",
   "regn_weather", "current_time", "begin_time", "weather_pct", "data1", "data2", "data3",
   "flags", "misc_stats", "global_vars", "favourites", "hotkeys", "form_version",
   "game_version", "form_ids", "world_spaces", "unknown3"}

AllNames == PlainNames \cup {"data4"}

CountOf(n) ==
  IF n = "data4" THEN "some" ELSE IF n = "plugins" THEN "u8"
  ELSE IF n = "light_plugins" THEN "le16"
  ELSE IF n \in {"misc_stats", "form_ids", "world_spaces", "unknown3"} THEN "le32"
  ELSE IF n \in {"global_vars", "favourites", "hotkeys"} THEN "vsval" ELSE "one"

KindsNamed(n) ==
  IF n = "data4" THEN <<"chunk">>
  ELSE IF n \in {"player_name", "player_location_name", "game_time", "race_id",
                 "game_version", "plugins", "light_plugins"} THEN <<"str">>
  ELSE IF n \in {"world_space1", "world_space2", "climate", "weather", "prev_weather",
                 "unk_weather1", "unk_weather2", "regn_weather", "favourites", "hotkeys"}
       THEN <<"be24">>
  ELSE IF n \in {"current_xp", "target_xp", "pos_x", "pos_y", "pos_z", "current_time",
                 "begin_time", "weather_pct", "data2"} THEN <<"lef32">>
  ELSE IF n \in {"sex", "compressor"} THEN <<"le16">>
  ELSE IF n = "filetime" THEN <<"le64">>
  ELSE IF n \in {"unknown", "flags", "unknown3", "form_version"} THEN <<"u8">>
  ELSE IF n = "data1" THEN <<"le32", "le32", "le32", "le32", "le32", "le32">>
  ELSE IF n = "misc_stats" THEN <<"str", "u8", "le32">>
  ELSE IF n = "global_vars" THEN <<"be24", "lef32">>
  ELSE <<"le32">>

FieldNamed(n) == Field(n, CountOf(n), KindsNamed(n))

ListOf(ns) == [i \in 1..Len(ns) |-> FieldNamed(ns[i])]

\* The fields with elements are none of those that are handled apart.
LEMMA NamesApart == \A n \in PlainNames : n # "data4" /\ n \notin {"game", "snapshot_data", "change_forms", "globals"}
  BY DEF PlainNames

\* A field is its name with the count and the kinds of that name.
LEMMA FieldNamedIs ==
  ASSUME NEW n
  PROVE  /\ FieldNamed(n).name = n /\ FieldNamed(n).count = CountOf(n)
         /\ FieldNamed(n).kinds = KindsNamed(n)
         /\ n # "data4" => IsField(FieldNamed(n))
<1>. DEFINE f == FieldNamed(n)
            ct == CountOf(n)
            ks == KindsNamed(n)
<1>1. f = [name |-> n, count |-> ct, kinds |-> ks]
  BY Zenon DEF FieldNamed, Field
<1>2. n # "data4" => ct \in {"one", "vsval", "u8", "le16", "le32"}
  BY DEF CountOf
<1>3. n # "data4" =>
        ks \in {<<"str">>, <<"be24">>, <<"lef32">>, <<"le16">>, <<"le64">>, <<"u8">>, <<"le32">>,
                <<"le32", "le32", "le32", "le32", "le32", "le32">>,
                <<"str", "u8", "le32">>, <<"be24", "lef32">>}
  BY Zenon DEF KindsNamed
<1>. HIDE DEF ct, ks, f
<1>4. f.name = n /\ f.count = ct /\ f.kinds = ks
  BY <1>1
<1>5. n # "data4" => ks \in Seq(Kinds) /\ Len(ks) \in {1, 2, 3, 6}
  <2>1. /\ <<"str">> \in Seq(Kinds) /\ <<"be24">> \in Seq(Kinds) /\ <<"lef32">> \in Seq(Kinds)
        /\ <<"le16">> \in Seq(Kinds) /\ <<"le64">> \in Seq(Kinds) /\ <<"u8">> \in Seq(Kinds)
        /\ <<"le32">> \in Seq(Kinds)
    BY DEF Kinds
  <2>2. /\ <<"le32", "le32", "le32", "le32", "le32", "le32">> \in Seq(Kinds)
        /\ <<"str", "u8", "le32">> \in Seq(Kinds) /\ <<"be24", "lef32">> \in Seq(Kinds)
    BY DEF Kinds
  <2>3. /\ Len(<<"str">>) = 1 /\ Len(<<"be24">>) = 1 /\ Len(<<"lef32">>) = 1
        /\ Len(<<"le16">>) = 1 /\ Len(<<"le64">>) = 1 /\ Len(<<"u8">>) = 1 /\ Len(<<"le32">>) = 1
        /\ Len(<<"le32", "le32", "le32", "le32", "le32", "le32">>) = 6
        /\ Len(<<"str", "u8", "le32">>) = 3 /\ Len(<<"be24", "lef32">>) = 2
    OBVIOUS
  <2>4. 1 \in {1, 2, 3, 6} /\ 2 \in {1, 2, 3, 6} /\ 3 \in {1, 2, 3, 6} /\ 6 \in {1, 2, 3, 6}
    OBVIOUS
  <2>5. QED BY <1>3, <2>1, <2>2, <2>3, <2>4, Zenon
<1>6. n # "data4" => IsField(f)
  BY <1>1, <1>2, <1>4, <1>5, Zenon DEF IsField
<1>7. QED BY <1>4, <1>6, Zenon DEF f, ct, ks

\* The list of the fields of some names, place by place.
LEMMA ListIs ==
  ASSUME NEW ns \in Seq(AllNames)
  PROVE  Len(ListOf(ns)) = Len(ns) /\ \A i \in 1..Len(ns) : ListOf(ns)[i] = FieldNamed(ns[i])
BY DEF ListOf

AllFieldsSet == {FieldNamed(n) : n \in AllNames}

\* Such a list consists of fields.
LEMMA ListTyped ==
  ASSUME NEW ns \in Seq(AllNames)
  PROVE  ListOf(ns) \in Seq(AllFieldsSet)
<1>1. \A i \in 1..Len(ns) : ns[i] \in AllNames
  OBVIOUS
<1>2. ListOf(ns) \in [1..Len(ns) -> AllFieldsSet]
  BY <1>1, Zenon DEF ListOf, AllFieldsSet
<1>3. Len(ns) \in Nat
  OBVIOUS
<1>4. QED BY <1>2, <1>3, FunctionIsSeq, Zenon

\* One more name is one more field.
LEMMA ListAppend ==
  ASSUME NEW ns \in Seq(AllNames), NEW n \in AllNames
  PROVE  ListOf(Append(ns, n)) = Append(ListOf(ns), FieldNamed(n))
<1>. DEFINE ms == Append(ns, n)
            k == Len(ns)
            f == [i \in 1..(k + 1) |-> FieldNamed(ms[i])]
<1>1. k \in Nat /\ Len(ms) = k + 1 /\ ms[k + 1] = n /\ \A i \in 1..k : ms[i] = ns[i]
  OBVIOUS
<1>. HIDE DEF ms, k
<1>2. \A i \in 1..k : i \in 1..(k + 1)
  BY <1>1
<1>3. k + 1 \in 1..(k + 1)
  BY <1>1
<1>4. f[k + 1] = FieldNamed(n)
  BY <1>1, <1>3
<1>5. [i \in 1..k |-> f[i]] = ListOf(ns)
  BY <1>1, <1>2 DEF ListOf, k
<1>6. ListOf(ms) = [i \in 1..(k + 1) |-> f[i]]
  BY <1>1 DEF ListOf
<1>. HIDE DEF f
<1>7. [i \in 1..(k + 1) |-> f[i]] = Append([i \in 1..k |-> f[i]], f[k + 1])
  BY <1>1, OneMore
<1>8. QED BY <1>4, <1>5, <1>6, <1>7, Zenon DEF ms

\* Two lists of names in a row are their two lists of fields in a row.
LEMMA ListConcat ==
  ASSUME NEW ns \in Seq(AllNames), NEW ms \in Seq(AllNames)
  PROVE  ListOf(ns \o ms) = ListOf(ns) \o ListOf(ms)
<1>. DEFINE a == ListOf(ns)
            b == ListOf(ms)
            d == ListOf(ns \o ms)
            k == Len(ns)
            m == Len(ms)
<1>1. /\ k \in Nat /\ m \in Nat /\ ns \o ms \in Seq(AllNames) /\ Len(ns \o ms) = k + m
      /\ \A i \in 1..(k + m) : (ns \o ms)[i] = IF i <= k THEN ns[i] ELSE ms[i - k]
  BY ConcatProperties
<1>2. /\ a \in Seq(AllFieldsSet) /\ Len(a) = k /\ \A i \in 1..k : a[i] = FieldNamed(ns[i])
  BY ListTyped, ListIs, Zenon
<1>3. /\ b \in Seq(AllFieldsSet) /\ Len(b) = m /\ \A i \in 1..m : b[i] = FieldNamed(ms[i])
  BY ListTyped, ListIs, Zenon
<1>4. /\ d \in Seq(AllFieldsSet) /\ Len(d) = k + m
      /\ \A i \in 1..(k + m) : d[i] = FieldNamed((ns \o ms)[i])
  BY <1>1, ListTyped, ListIs
<1>. HIDE DEF a, b, d, k, m
<1>5. /\ a \o b \in Seq(AllFieldsSet) /\ Len(a \o b) = k + m
      /\ \A i \in 1..(k + m) : (a \o b)[i] = IF i <= k THEN a[i] ELSE b[i - k]
  BY <1>2, <1>3, ConcatProperties
<1>6. ASSUME NEW i \in 1..(k + m) PROVE d[i] = (a \o b)[i]
  <2>1. CASE i <= k
    <3>1. i \in 1..k
      BY <1>1, <2>1
    <3>2. QED BY <1>1, <1>2, <1>4, <1>5, <2>1, <3>1, ZenonT(40)
  <2>2. CASE ~(i <= k)
    <3>1. i - k \in 1..m
      BY <1>1, <2>2
    <3>2. QED BY <1>1, <1>3, <1>4, <1>5, <2>2, <3>1, Zenon
  <2>3. QED BY <2>1, <2>2
<1>7. a \o b = d
  <2>. DEFINE e == a \o b
  <2>. HIDE DEF e
  <2>1. e \in Seq(AllFieldsSet) /\ Len(e) = k + m /\ \A i \in 1..(k + m) : d[i] = e[i]
    BY <1>5, <1>6 DEF e
  <2>2. e = d
    BY <1>4, <2>1
  <2>3. QED BY <2>2 DEF e
<1>8. QED BY <1>7 DEF a, b, d
-----------------------------------------------------------------------------
(* What the lists of loads consist of. *)

HeaderNames ==
  (<<"file_version", "save_num", "player_name", "level">>
   \o <<"player_location_name", "game_time", "race_id">>)
  \o <<"sex", "current_xp", "target_xp", "filetime", "snapshot_width", "snapshot_height">>

LocationNames(game) ==
  (<<"next_object_id", "world_space1", "coord_x", "coord_y", "world_space2">>
   \o <<"pos_x", "pos_y", "pos_z">>)
  \o IF game = "SKYRIM" THEN <<"unknown">> ELSE <<>>

WeatherNames ==
  (<<"climate", "weather", "prev_weather", "unk_weather1", "unk_weather2", "regn_weather">>
   \o <<"current_time", "begin_time", "weather_pct">>)
  \o <<"data1", "data2", "data3", "flags">>

GlobalNames(t, game) ==
  IF t = MISC_STATS THEN <<"misc_stats">>
  ELSE IF t = PLAYER_LOCATION THEN LocationNames(game)
  ELSE IF t = GLOBAL_VARIABLES THEN <<"global_vars">>
  ELSE IF t = WEATHER THEN WeatherNames
  ELSE <<"favourites", "hotkeys">>

VersionNames(game) ==
  <<"form_version">> \o IF game = "FALLOUT4" THEN <<"game_version">> ELSE <<>>

TailNames == <<"form_ids", "world_spaces", "unknown3">>

\* The pieces file_header consists of, as lists of names.
LEMMA HeaderParts ==
  /\ <<One("file_version", "le32"), One("save_num", "le32"), One("player_name", "str"),
       One("level", "le32")>> = ListOf(<<"file_version", "save_num", "player_name", "level">>)
  /\ Each(<<"player_location_name", "game_time", "race_id">>, "str")
       = ListOf(<<"player_location_name", "game_time", "race_id">>)
  /\ <<One("sex", "le16"), One("current_xp", "lef32"), One("target_xp", "lef32"),
       One("filetime", "le64"), One("snapshot_width", "le32"), One("snapshot_height", "le32")>>
       = ListOf(<<"sex", "current_xp", "target_xp", "filetime", "snapshot_width",
                  "snapshot_height">>)
<1>1. /\ FieldNamed("file_version") = One("file_version", "le32")
      /\ FieldNamed("save_num") = One("save_num", "le32")
      /\ FieldNamed("player_name") = One("player_name", "str")
      /\ FieldNamed("level") = One("level", "le32")
      /\ FieldNamed("player_location_name") = One("player_location_name", "str")
      /\ FieldNamed("game_time") = One("game_time", "str")
      /\ FieldNamed("race_id") = One("race_id", "str")
      /\ FieldNamed("sex") = One("sex", "le16")
      /\ FieldNamed("current_xp") = One("current_xp", "lef32")
      /\ FieldNamed("target_xp") = One("target_xp", "lef32")
      /\ FieldNamed("filetime") = One("filetime", "le64")
      /\ FieldNamed("snapshot_width") = One("snapshot_width", "le32")
      /\ FieldNamed("snapshot_height") = One("snapshot_height", "le32")
  BY DEF FieldNamed, One, CountOf, KindsNamed
<1>2. QED BY <1>1 DEF ListOf, Each

\* Appending to four elements gives five.
LEMMA Append4 ==
  ASSUME NEW a, NEW b, NEW c, NEW d, NEW e
  PROVE  Append(<<a, b, c, d>>, e) = <<a, b, c, d, e>>
<1>. DEFINE X == {a, b, c, d, e}
            p == <<a, b, c, d>>
            q == <<a, b, c, d, e>>
<1>1. /\ p \in Seq(X) /\ Len(p) = 4 /\ p[1] = a /\ p[2] = b /\ p[3] = c /\ p[4] = d
  OBVIOUS
<1>2. /\ q \in Seq(X) /\ Len(q) = 5 /\ q[1] = a /\ q[2] = b /\ q[3] = c /\ q[4] = d /\ q[5] = e
  OBVIOUS
<1>3. e \in X
  OBVIOUS
<1>. HIDE DEF p, q, X
<1>4. /\ Append(p, e) \in Seq(X) /\ Len(Append(p, e)) = 5 /\ Append(p, e)[5] = e
      /\ \A i \in 1..4 : Append(p, e)[i] = p[i]
  <2>1. p \in Seq(X)
    BY <1>1
  <2>2. \A s \in Seq(X) : \A x \in X :
          /\ Append(s, x) \in Seq(X) /\ Len(Append(s, x)) = Len(s) + 1
          /\ Append(s, x)[Len(s) + 1] = x /\ \A i \in 1..Len(s) : Append(s, x)[i] = s[i]
    OBVIOUS
  <2>. DEFINE r == Append(p, e)
  <2>3. /\ r \in Seq(X) /\ Len(r) = Len(p) + 1
        /\ r[Len(p) + 1] = e /\ \A i \in 1..Len(p) : r[i] = p[i]
    BY <1>3, <2>1, <2>2, Zenon
  <2>. HIDE DEF r
  <2>4. Len(p) = 4 /\ 4 + 1 = 5
    BY <1>1
  <2>5. r \in Seq(X) /\ Len(r) = 5 /\ r[5] = e /\ \A i \in 1..4 : r[i] = p[i]
    BY <2>3, <2>4
  <2>6. QED BY <2>5 DEF r
<1>. DEFINE r == Append(p, e)
<1>. HIDE DEF r
<1>5. r \in Seq(X) /\ Len(r) = 5 /\ r[5] = e /\ r[1] = a /\ r[2] = b /\ r[3] = c /\ r[4] = d
  BY <1>1, <1>4 DEF r
<1>6. \A i \in 1..5 : i = 1 \/ i = 2 \/ i = 3 \/ i = 4 \/ i = 5
  OBVIOUS
<1>7. \A i \in 1..5 : r[i] = q[i]
  BY <1>2, <1>5, <1>6, Zenon
<1>8. r = q
  BY <1>2, <1>5, <1>7
<1>9. QED BY <1>8 DEF r, p, q

\* The pieces of the player location, as lists of names.
LEMMA LocationParts ==
  /\ <<One("next_object_id", "le32"), One("world_space1", "be24"), One("coord_x", "le32"),
       One("coord_y", "le32"), One("world_space2", "be24")>>
       = ListOf(<<"next_object_id", "world_space1", "coord_x", "coord_y", "world_space2">>)
  /\ Each(<<"pos_x", "pos_y", "pos_z">>, "lef32") = ListOf(<<"pos_x", "pos_y", "pos_z">>)
  /\ <<One("unknown", "u8")>> = ListOf(<<"unknown">>)
<1>1. /\ FieldNamed("next_object_id") = One("next_object_id", "le32")
      /\ FieldNamed("world_space1") = One("world_space1", "be24")
      /\ FieldNamed("coord_x") = One("coord_x", "le32")
      /\ FieldNamed("coord_y") = One("coord_y", "le32")
      /\ FieldNamed("world_space2") = One("world_space2", "be24")
      /\ FieldNamed("pos_x") = One("pos_x", "lef32")
      /\ FieldNamed("pos_y") = One("pos_y", "lef32")
      /\ FieldNamed("pos_z") = One("pos_z", "lef32")
      /\ FieldNamed("unknown") = One("unknown", "u8")
  BY DEF FieldNamed, One, CountOf, KindsNamed
<1>2. QED BY <1>1 DEF ListOf, Each

\* The pieces of the weather, as lists of names.
LEMMA WeatherParts ==
  /\ Each(<<"climate", "weather", "prev_weather", "unk_weather1", "unk_weather2",
            "regn_weather">>, "be24")
       = ListOf(<<"climate", "weather", "prev_weather", "unk_weather1", "unk_weather2",
                  "regn_weather">>)
  /\ Each(<<"current_time", "begin_time", "weather_pct">>, "lef32")
       = ListOf(<<"current_time", "begin_time", "weather_pct">>)
  /\ <<Field("data1", "one", [i \in 1..6 |-> "le32"]), One("data2", "lef32"),
       One("data3", "le32"), One("flags", "u8"), Field("data4", "some", <<"chunk">>)>>
       = ListOf(<<"data1", "data2", "data3", "flags", "data4">>)
<1>1. /\ FieldNamed("climate") = One("climate", "be24")
      /\ FieldNamed("weather") = One("weather", "be24")
      /\ FieldNamed("prev_weather") = One("prev_weather", "be24")
      /\ FieldNamed("unk_weather1") = One("unk_weather1", "be24")
      /\ FieldNamed("unk_weather2") = One("unk_weather2", "be24")
      /\ FieldNamed("regn_weather") = One("regn_weather", "be24")
      /\ FieldNamed("current_time") = One("current_time", "lef32")
      /\ FieldNamed("begin_time") = One("begin_time", "lef32")
      /\ FieldNamed("weather_pct") = One("weather_pct", "lef32")
      /\ FieldNamed("data2") = One("data2", "lef32")
      /\ FieldNamed("data3") = One("data3", "le32")
      /\ FieldNamed("flags") = One("flags", "u8")
      /\ FieldNamed("data4") = Field("data4", "some", <<"chunk">>)
  BY DEF FieldNamed, One, CountOf, KindsNamed
<1>2. FieldNamed("data1") = Field("data1", "one", [i \in 1..6 |-> "le32"])
  <2>1. [i \in 1..6 |-> "le32"] = <<"le32", "le32", "le32", "le32", "le32", "le32">>
    OBVIOUS
  <2>2. KindsNamed("data1") = <<"le32", "le32", "le32", "le32", "le32", "le32">>
        /\ CountOf("data1") = "one"
    BY DEF KindsNamed, CountOf
  <2>3. QED BY <2>1, <2>2, Zenon DEF FieldNamed
<1>3. QED BY <1>1, <1>2 DEF ListOf, Each

\* The lists of loads of the other structures, as lists of names.
LEMMA OtherParts ==
  /\ CompressorLoads = ListOf(<<"compressor">>)
  /\ PluginLoads = ListOf(<<"plugins">>)
  /\ LightPluginLoads = ListOf(<<"light_plugins">>)
  /\ <<Field("misc_stats", "le32", <<"str", "u8", "le32">>)>> = ListOf(<<"misc_stats">>)
  /\ <<Field("global_vars", "vsval", <<"be24", "lef32">>)>> = ListOf(<<"global_vars">>)
  /\ <<Field("favourites", "vsval", <<"be24">>), Field("hotkeys", "vsval", <<"be24">>)>>
       = ListOf(<<"favourites", "hotkeys">>)
  /\ <<One("form_version", "u8")>> = ListOf(<<"form_version">>)
  /\ <<One("game_version", "str")>> = ListOf(<<"game_version">>)
  /\ TailLoads = ListOf(TailNames)
<1>1. /\ FieldNamed("compressor") = One("compressor", "le16")
      /\ FieldNamed("plugins") = Field("plugins", "u8", <<"str">>)
      /\ FieldNamed("light_plugins") = Field("light_plugins", "le16", <<"str">>)
      /\ FieldNamed("misc_stats") = Field("misc_stats", "le32", <<"str", "u8", "le32">>)
      /\ FieldNamed("global_vars") = Field("global_vars", "vsval", <<"be24", "lef32">>)
      /\ FieldNamed("favourites") = Field("favourites", "vsval", <<"be24">>)
      /\ FieldNamed("hotkeys") = Field("hotkeys", "vsval", <<"be24">>)
      /\ FieldNamed("form_version") = One("form_version", "u8")
      /\ FieldNamed("game_version") = One("game_version", "str")
      /\ FieldNamed("form_ids") = Field("form_ids", "le32", <<"le32">>)
      /\ FieldNamed("world_spaces") = Field("world_spaces", "le32", <<"le32">>)
      /\ FieldNamed("unknown3") = Field("unknown3", "le32", <<"u8">>)
  BY DEF FieldNamed, One, CountOf, KindsNamed
<1>2. QED BY <1>1 DEF ListOf, CompressorLoads, PluginLoads, LightPluginLoads, TailLoads, TailNames

\* The names in these lists are names of fields with elements.
LEMMA NamesTyped ==
  /\ <<"file_version", "save_num", "player_name", "level">> \in Seq(PlainNames)
  /\ <<"player_location_name", "game_time", "race_id">> \in Seq(PlainNames)
  /\ <<"sex", "current_xp", "target_xp", "filetime", "snapshot_width", "snapshot_height">>
        \in Seq(PlainNames)
  /\ <<"next_object_id", "world_space1", "coord_x", "coord_y", "world_space2">> \in Seq(PlainNames)
  /\ <<"pos_x", "pos_y", "pos_z">> \in Seq(PlainNames) /\ <<"unknown">> \in Seq(PlainNames)
  /\ <<"climate", "weather", "prev_weather", "unk_weather1", "unk_weather2", "regn_weather">>
        \in Seq(PlainNames)
  /\ <<"current_time", "begin_time", "weather_pct">> \in Seq(PlainNames)
  /\ <<"data1", "data2", "data3", "flags">> \in Seq(PlainNames)
  /\ <<"compressor">> \in Seq(PlainNames) /\ <<"plugins">> \in Seq(PlainNames)
  /\ <<"light_plugins">> \in Seq(PlainNames) /\ <<"misc_stats">> \in Seq(PlainNames)
  /\ <<"global_vars">> \in Seq(PlainNames) /\ <<"favourites", "hotkeys">> \in Seq(PlainNames)
  /\ <<"form_version">> \in Seq(PlainNames) /\ <<"game_version">> \in Seq(PlainNames)
  /\ TailNames \in Seq(PlainNames) /\ <<>> \in Seq(PlainNames)
BY DEF PlainNames, TailNames

\* A list of names of fields with elements is a list of names.
LEMMA PlainIsName == \A s \in Seq(PlainNames) : s \in Seq(AllNames)
<1>1. PlainNames \subseteq AllNames
  BY Zenon DEF AllNames
<1>. SUFFICES ASSUME NEW s \in Seq(PlainNames) PROVE s \in Seq(AllNames)
  OBVIOUS
<1>2. \A i \in 1..Len(s) : s[i] \in AllNames
  BY <1>1
<1>3. QED BY <1>2

\* Two such lists in a row, with their fields.
LEMMA PlainConcat ==
  ASSUME NEW a \in Seq(PlainNames), NEW b \in Seq(PlainNames)
  PROVE  a \o b \in Seq(PlainNames) /\ ListOf(a \o b) = ListOf(a) \o ListOf(b)
<1>1. a \o b \in Seq(PlainNames)
  BY ConcatProperties
<1>2. QED BY <1>1, PlainIsName, ListConcat, Zenon

Joined3(a, b, d) ==
  /\ a \o b \in Seq(PlainNames) /\ ListOf(a \o b) = ListOf(a) \o ListOf(b)
  /\ (a \o b) \o d \in Seq(PlainNames)
  /\ ListOf((a \o b) \o d) = (ListOf(a) \o ListOf(b)) \o ListOf(d)

\* Three such lists in a row, with their fields.
LEMMA PlainConcat3 ==
  ASSUME NEW a \in Seq(PlainNames), NEW b \in Seq(PlainNames), NEW d \in Seq(PlainNames)
  PROVE  Joined3(a, b, d)
<1>1. a \o b \in Seq(PlainNames) /\ ListOf(a \o b) = ListOf(a) \o ListOf(b)
  BY PlainConcat, Zenon
<1>. DEFINE p == a \o b
<1>2. p \in Seq(PlainNames) /\ ListOf(p) = ListOf(a) \o ListOf(b)
  BY <1>1
<1>. HIDE DEF p
<1>3. p \o d \in Seq(PlainNames) /\ ListOf(p \o d) = ListOf(p) \o ListOf(d)
  BY <1>2, PlainConcat, Zenon
<1>4. QED BY <1>1, <1>2, <1>3, Zenon DEF p, Joined3

\* The loads of the file header are the fields of its names.
LEMMA HeaderList == HeaderNames \in Seq(PlainNames) /\ FileHeaderLoads = ListOf(HeaderNames)
<1>. DEFINE a == <<"file_version", "save_num", "player_name", "level">>
            b == <<"player_location_name", "game_time", "race_id">>
            d == <<"sex", "current_xp", "target_xp", "filetime", "snapshot_width",
                   "snapshot_height">>
<1>1. a \in Seq(PlainNames) /\ b \in Seq(PlainNames) /\ d \in Seq(PlainNames)
  BY NamesTyped, Zenon
<1>2. FileHeaderLoads = (ListOf(a) \o ListOf(b)) \o ListOf(d)
  BY HeaderParts, Zenon DEF FileHeaderLoads
<1>3. HeaderNames = (a \o b) \o d
  BY Zenon DEF HeaderNames
<1>. HIDE DEF a, b, d
<1>4. Joined3(a, b, d)
  BY <1>1, PlainConcat3, Zenon
<1>5. QED BY <1>2, <1>3, <1>4, Zenon DEF Joined3

\* The loads of the player location are the fields of its names, for either game.
LEMMA LocationList ==
  ASSUME NEW game
  PROVE  /\ LocationNames(game) \in Seq(PlainNames)
         /\ PlayerLocationLoads(game) = ListOf(LocationNames(game))
<1>. DEFINE a == <<"next_object_id", "world_space1", "coord_x", "coord_y", "world_space2">>
            b == <<"pos_x", "pos_y", "pos_z">>
            d == IF game = "SKYRIM" THEN <<"unknown">> ELSE <<>>
            e == IF game = "SKYRIM" THEN <<One("unknown", "u8")>> ELSE <<>>
<1>1. a \in Seq(PlainNames) /\ b \in Seq(PlainNames) /\ d \in Seq(PlainNames)
  BY NamesTyped, Zenon
<1>2. e = ListOf(d)
  <2>1. ListOf(<<>>) = <<>>
    BY DEF ListOf
  <2>2. QED BY <2>1, LocationParts, Zenon
<1>3. PlayerLocationLoads(game) = (ListOf(a) \o ListOf(b)) \o e
  BY LocationParts, Zenon DEF PlayerLocationLoads
<1>4. LocationNames(game) = (a \o b) \o d
  BY Zenon DEF LocationNames
<1>. HIDE DEF a, b, d, e
<1>5. Joined3(a, b, d)
  BY <1>1, PlainConcat3, Zenon
<1>6. QED BY <1>2, <1>3, <1>4, <1>5, Zenon DEF Joined3

\* The loads of the versions in front of the plugins are the fields of their
\* names.
LEMMA VersionList ==
  ASSUME NEW game
  PROVE  /\ VersionNames(game) \in Seq(PlainNames)
         /\ VersionLoads(game) = ListOf(VersionNames(game))
<1>. DEFINE a == <<"form_version">>
            d == IF game = "FALLOUT4" THEN <<"game_version">> ELSE <<>>
            e == IF game = "FALLOUT4" THEN <<One("game_version", "str")>> ELSE <<>>
<1>1. a \in Seq(PlainNames) /\ d \in Seq(PlainNames)
  BY NamesTyped, Zenon
<1>2. e = ListOf(d)
  <2>1. ListOf(<<>>) = <<>>
    BY DEF ListOf
  <2>2. QED BY <2>1, OtherParts, Zenon
<1>3. VersionLoads(game) = ListOf(a) \o e
  BY OtherParts, Zenon DEF VersionLoads
<1>4. VersionNames(game) = a \o d
  BY Zenon DEF VersionNames
<1>. HIDE DEF a, d, e
<1>5. QED BY <1>1, <1>2, <1>3, <1>4, PlainConcat, Zenon

\* The loads of the weather are the fields of its names and the rest of its
\* block.
LEMMA WeatherList ==
  /\ WeatherNames \in Seq(PlainNames)
  /\ WeatherLoads = Append(ListOf(WeatherNames), FieldNamed("data4"))
<1>. DEFINE a == <<"climate", "weather", "prev_weather", "unk_weather1", "unk_weather2",
                   "regn_weather">>
            b == <<"current_time", "begin_time", "weather_pct">>
            d == <<"data1", "data2", "data3", "flags">>
            e == <<"data1", "data2", "data3", "flags", "data4">>
<1>1. a \in Seq(PlainNames) /\ b \in Seq(PlainNames) /\ d \in Seq(PlainNames)
  BY NamesTyped, Zenon
<1>2. WeatherLoads = (ListOf(a) \o ListOf(b)) \o ListOf(e)
  BY WeatherParts, Zenon DEF WeatherLoads
<1>3. WeatherNames = (a \o b) \o d
  BY Zenon DEF WeatherNames
<1>4. e = Append(d, "data4")
  BY Append4, Zenon
<1>5. "data4" \in AllNames
  BY Zenon DEF AllNames
<1>. HIDE DEF a, b, d, e
<1>6. ListOf(e) = Append(ListOf(d), FieldNamed("data4"))
  BY <1>1, <1>4, <1>5, PlainIsName, ListAppend, Zenon
<1>7. /\ a \o b \in Seq(PlainNames) /\ ListOf(a \o b) = ListOf(a) \o ListOf(b)
      /\ (a \o b) \o d \in Seq(PlainNames)
      /\ ListOf((a \o b) \o d) = (ListOf(a) \o ListOf(b)) \o ListOf(d)
  <2>1. Joined3(a, b, d)
    BY <1>1, PlainConcat3, Zenon
  <2>2. QED BY <2>1, Zenon DEF Joined3
<1>. DEFINE p == ListOf(a) \o ListOf(b)
            q == ListOf(d)
            g == FieldNamed("data4")
            X == AllFieldsSet
<1>8. p \in Seq(X) /\ q \in Seq(X) /\ g \in X
  BY <1>1, <1>5, <1>7, PlainIsName, ListTyped, Zenon DEF AllFieldsSet
<1>. HIDE DEF p, q, g, X
<1>9. p \o Append(q, g) = Append(p \o q, g)
  <2>1. Append(q, g) = q \o <<g>> /\ <<g>> \in Seq(X)
    BY <1>8, AppendIsConcat
  <2>2. p \o q \in Seq(X) /\ Append(p \o q, g) = (p \o q) \o <<g>>
    BY <1>8, ConcatProperties, AppendIsConcat
  <2>3. (p \o q) \o <<g>> = p \o (q \o <<g>>)
    <3>1. \A x, y, z \in Seq(X) : (x \o y) \o z = x \o (y \o z)
      BY Associative
    <3>2. QED BY <1>8, <2>1, <3>1, Zenon
  <2>4. QED BY <2>1, <2>2, <2>3, Zenon
<1>10. QED BY <1>2, <1>3, <1>6, <1>7, <1>9, Zenon DEF p, q, g

\* The loads of a structured block are the fields of its names, the weather's
\* rest apart.
LEMMA GlobalList ==
  ASSUME NEW t \in Structured, NEW game
  PROVE  /\ GlobalNames(t, game) \in Seq(PlainNames)
         /\ t # WEATHER => GlobalLoads(t, game) = ListOf(GlobalNames(t, game))
         /\ t = WEATHER => GlobalLoads(t, game)
                             = Append(ListOf(GlobalNames(t, game)), FieldNamed("data4"))
<1>1. t = MISC_STATS \/ t = PLAYER_LOCATION \/ t = GLOBAL_VARIABLES \/ t = WEATHER
      \/ t = MAGIC_FAVORITES
  BY DEF Structured
<1>2. /\ MISC_STATS # PLAYER_LOCATION /\ MISC_STATS # GLOBAL_VARIABLES /\ MISC_STATS # WEATHER
      /\ MISC_STATS # MAGIC_FAVORITES /\ PLAYER_LOCATION # GLOBAL_VARIABLES
      /\ PLAYER_LOCATION # WEATHER /\ PLAYER_LOCATION # MAGIC_FAVORITES
      /\ GLOBAL_VARIABLES # WEATHER /\ GLOBAL_VARIABLES # MAGIC_FAVORITES
      /\ WEATHER # MAGIC_FAVORITES
  BY DEF MISC_STATS, PLAYER_LOCATION, GLOBAL_VARIABLES, WEATHER, MAGIC_FAVORITES
<1>3. CASE t = MISC_STATS
  <2>1. /\ GlobalLoads(t, game) = <<Field("misc_stats", "le32", <<"str", "u8", "le32">>)>>
        /\ GlobalNames(t, game) = <<"misc_stats">>
    BY <1>2, <1>3 DEF GlobalLoads, GlobalNames
  <2>2. QED BY <1>2, <1>3, <2>1, OtherParts, NamesTyped, Zenon
<1>4. CASE t = PLAYER_LOCATION
  <2>1. /\ GlobalLoads(t, game) = PlayerLocationLoads(game)
        /\ GlobalNames(t, game) = LocationNames(game)
    BY <1>2, <1>4 DEF GlobalLoads, GlobalNames
  <2>2. QED BY <1>2, <1>4, <2>1, LocationList, Zenon
<1>5. CASE t = GLOBAL_VARIABLES
  <2>1. /\ GlobalLoads(t, game) = <<Field("global_vars", "vsval", <<"be24", "lef32">>)>>
        /\ GlobalNames(t, game) = <<"global_vars">>
    BY <1>2, <1>5 DEF GlobalLoads, GlobalNames
  <2>2. QED BY <1>2, <1>5, <2>1, OtherParts, NamesTyped, Zenon
<1>6. CASE t = WEATHER
  <2>1. GlobalLoads(t, game) = WeatherLoads /\ GlobalNames(t, game) = WeatherNames
    BY <1>2, <1>6 DEF GlobalLoads, GlobalNames
  <2>2. QED BY <1>6, <2>1, WeatherList, Zenon
<1>7. CASE t = MAGIC_FAVORITES
  <2>1. /\ GlobalLoads(t, game) = <<Field("favourites", "vsval", <<"be24">>),
                                    Field("hotkeys", "vsval", <<"be24">>)>>
        /\ GlobalNames(t, game) = <<"favourites", "hotkeys">>
    BY <1>2, <1>7 DEF GlobalLoads, GlobalNames
  <2>2. QED BY <1>2, <1>7, <2>1, OtherParts, NamesTyped, Zenon
<1>8. QED BY <1>1, <1>3, <1>4, <1>5, <1>6, <1>7

\* What is stored in a block is what is loaded from it in Skyrim.
LEMMA StoresAreLoads ==
  /\ FileHeaderStores = FileHeaderLoads /\ CompressorStores = CompressorLoads
  /\ PluginStores = PluginLoads /\ LightPluginStores = LightPluginLoads
  /\ \A t \in Structured : GlobalStores(t) = GlobalLoads(t, "SKYRIM")
  /\ \A game : VersionStores(game) = VersionLoads(game)
<1>1. /\ FileHeaderStores = FileHeaderLoads /\ CompressorStores = CompressorLoads
      /\ PluginStores = PluginLoads /\ LightPluginStores = LightPluginLoads
  BY Zenon DEF FileHeaderStores, FileHeaderLoads, CompressorStores, CompressorLoads, PluginStores,
            PluginLoads, LightPluginStores, LightPluginLoads
<1>2. PlayerLocationStores = PlayerLocationLoads("SKYRIM")
  BY Zenon DEF PlayerLocationStores, PlayerLocationLoads
<1>3. WeatherStores = WeatherLoads
  BY Zenon DEF WeatherStores, WeatherLoads
<1>4. \A t \in Structured : GlobalStores(t) = GlobalLoads(t, "SKYRIM")
  BY <1>2, <1>3 DEF GlobalStores, GlobalLoads, Structured
<1>5. \A game : VersionStores(game) = VersionLoads(game)
  BY Zenon DEF VersionStores, VersionLoads
<1>6. QED BY <1>1, <1>4, <1>5
-----------------------------------------------------------------------------
(* The set of all fields. *)

\* The elements of two sequences in a row are those of both.
LEMMA ToSetConcat ==
  ASSUME NEW X, NEW a \in Seq(X), NEW b \in Seq(X)
  PROVE  \A x : x \in ToSet(a \o b) <=> x \in ToSet(a) \/ x \in ToSet(b)
<1>. DEFINE d == a \o b
<1>1. /\ d \in Seq(X) /\ Len(d) = Len(a) + Len(b) /\ Len(a) \in Nat /\ Len(b) \in Nat
      /\ \A i \in 1..(Len(a) + Len(b)) : d[i] = IF i <= Len(a) THEN a[i] ELSE b[i - Len(a)]
  BY ConcatProperties
<1>. HIDE DEF d
<1>2. /\ DOMAIN d = 1..(Len(a) + Len(b)) /\ DOMAIN a = 1..Len(a) /\ DOMAIN b = 1..Len(b)
  BY <1>1
<1>. SUFFICES ASSUME NEW x PROVE x \in ToSet(d) <=> x \in ToSet(a) \/ x \in ToSet(b)
  BY DEF d
<1>3. ASSUME NEW i \in 1..(Len(a) + Len(b)), d[i] = x
      PROVE  x \in ToSet(a) \/ x \in ToSet(b)
  <2>1. CASE i <= Len(a)
    <3>1. i \in 1..Len(a) /\ a[i] = x
      BY <1>1, <1>3, <2>1
    <3>2. QED BY <1>2, <3>1, Zenon DEF ToSet
  <2>2. CASE ~(i <= Len(a))
    <3>1. i - Len(a) \in 1..Len(b) /\ b[i - Len(a)] = x
      BY <1>1, <1>3, <2>2
    <3>2. QED BY <1>2, <3>1, Zenon DEF ToSet
  <2>3. QED BY <2>1, <2>2
<1>4. ASSUME NEW i \in 1..Len(a), a[i] = x PROVE x \in ToSet(d)
  <2>1. i \in 1..(Len(a) + Len(b)) /\ d[i] = x
    BY <1>1, <1>4
  <2>2. QED BY <1>2, <2>1, Zenon DEF ToSet
<1>5. ASSUME NEW i \in 1..Len(b), b[i] = x PROVE x \in ToSet(d)
  <2>1. i + Len(a) \in 1..(Len(a) + Len(b)) /\ ~(i + Len(a) <= Len(a)) /\ i + Len(a) - Len(a) = i
    BY <1>1
  <2>2. d[i + Len(a)] = x
    BY <1>1, <1>5, <2>1
  <2>3. QED BY <1>2, <2>1, <2>2, Zenon DEF ToSet
<1>6. QED BY <1>2, <1>3, <1>4, <1>5 DEF ToSet

\* The elements of a list are those of its flattening.
LEMMA ToSetFlatten ==
  ASSUME NEW X, NEW ss \in Seq(Seq(X))
  PROVE  \A x : x \in ToSet(FlattenSeq(ss)) <=> \E i \in 1..Len(ss) : x \in ToSet(ss[i])
<1>. DEFINE T == {tt \in Seq(Seq(X)) :
                    \A x : x \in ToSet(FlattenSeq(tt)) <=> \E i \in 1..Len(tt) : x \in ToSet(tt[i])}
<1>1. <<>> \in T
  <2>1. <<>> \in Seq(Seq(X)) /\ Len(<<>>) = 0 /\ DOMAIN <<>> = {}
    OBVIOUS
  <2>2. FlattenSeq(<<>>) = <<>>
    BY FlattenEmpty
  <2>3. \A x : x \notin ToSet(<<>>)
    BY <2>1 DEF ToSet
  <2>4. QED BY <2>1, <2>2, <2>3
<1>2. ASSUME NEW tt \in Seq(Seq(X)), NEW u \in Seq(X), tt \in T
      PROVE  Append(tt, u) \in T
  <2>. DEFINE e == Append(tt, u)
              k == Len(tt)
  <2>1. /\ e \in Seq(Seq(X)) /\ k \in Nat /\ Len(e) = k + 1 /\ e[k + 1] = u
        /\ \A i \in 1..k : e[i] = tt[i]
    OBVIOUS
  <2>2. FlattenSeq(e) = FlattenSeq(tt) \o u /\ FlattenSeq(tt) \in Seq(X)
    BY FlattenAppend, FlattenTyped, Zenon
  <2>. HIDE DEF e, k
  <2>3. \A x : x \in ToSet(FlattenSeq(e)) <=> x \in ToSet(FlattenSeq(tt)) \/ x \in ToSet(u)
    BY <2>2, ToSetConcat, Zenon
  <2>4. \A i : i \in 1..(k + 1) <=> i \in 1..k \/ i = k + 1
    BY <2>1
  <2>5. \A x : x \in ToSet(FlattenSeq(tt)) <=> \E i \in 1..k : x \in ToSet(tt[i])
    BY <1>2 DEF k
  <2>6. \A x : x \in ToSet(FlattenSeq(e)) <=> \E i \in 1..(k + 1) : x \in ToSet(e[i])
    BY <2>1, <2>3, <2>4, <2>5, Zenon
  <2>7. QED BY <2>1, <2>6 DEF e
<1>. HIDE DEF T
<1>3. \A s \in Seq(Seq(X)) : s \in T
  BY <1>1, <1>2, InductionOver
<1>4. QED BY <1>3 DEF T

\* The fields of the names in a list are in its list of fields.
LEMMA ToSetList ==
  ASSUME NEW ns \in Seq(AllNames)
  PROVE  \A n \in ToSet(ns) : FieldNamed(n) \in ToSet(ListOf(ns))
<1>1. DOMAIN ns = 1..Len(ns) /\ DOMAIN ListOf(ns) = 1..Len(ns)
  BY DEF ListOf
<1>2. \A i \in 1..Len(ns) : ListOf(ns)[i] = FieldNamed(ns[i])
  BY ListIs
<1>3. QED BY <1>1, <1>2, Zenon DEF ToSet

Globals == [i \in 1..38 |-> IF i - 1 \in Structured THEN GlobalLoads(i - 1, "SKYRIM") ELSE <<>>]

\* The loads of a structured block consist of fields.
LEMMA GlobalLoadsTyped ==
  ASSUME NEW t \in Structured, NEW game
  PROVE  GlobalLoads(t, game) \in Seq(AllFieldsSet)
<1>1. /\ GlobalNames(t, game) \in Seq(AllNames) /\ "data4" \in AllNames
  BY GlobalList, PlainIsName, Zenon DEF AllNames
<1>2. ListOf(GlobalNames(t, game)) \in Seq(AllFieldsSet) /\ FieldNamed("data4") \in AllFieldsSet
  BY <1>1, ListTyped, Zenon DEF AllFieldsSet
<1>3. Append(ListOf(GlobalNames(t, game)), FieldNamed("data4")) \in Seq(AllFieldsSet)
  <2>. DEFINE l == ListOf(GlobalNames(t, game)) g == FieldNamed("data4") X == AllFieldsSet
  <2>. HIDE DEF l, g, X
  <2>1. QED BY <1>2 DEF l, g, X
<1>4. QED BY <1>2, <1>3, GlobalList, Zenon

\* The list of all the blocks' loads: 38 of them, each at its place.
LEMMA GlobalsTyped ==
  /\ Globals \in Seq(Seq(AllFieldsSet)) /\ Len(Globals) = 38
  /\ \A t \in Structured : t + 1 \in 1..38 /\ Globals[t + 1] = GlobalLoads(t, "SKYRIM")
<1>. DEFINE X == AllFieldsSet
<1>1. \A i \in 1..38 : (IF i - 1 \in Structured THEN GlobalLoads(i - 1, "SKYRIM") ELSE <<>>) \in Seq(X)
  <2>1. <<>> \in Seq(X)
    OBVIOUS
  <2>2. QED BY <2>1, GlobalLoadsTyped, Zenon
<1>2. Globals \in [1..38 -> Seq(X)]
  BY <1>1, Zenon DEF Globals
<1>3. 38 \in Nat
  OBVIOUS
<1>4. Globals \in Seq(Seq(X)) /\ Len(Globals) = 38
  BY <1>2, <1>3, FunctionIsSeq, ZenonT(40)
<1>5. \A t \in Structured : t \in Int /\ t + 1 \in 1..38
  BY DEF Structured, MISC_STATS, PLAYER_LOCATION, GLOBAL_VARIABLES, WEATHER, MAGIC_FAVORITES
<1>6. \A t \in Structured : Globals[t + 1] = GlobalLoads(t, "SKYRIM")
  <2>1. \A i \in 1..38 : i - 1 \in Structured => Globals[i] = GlobalLoads(i - 1, "SKYRIM")
    BY Zenon DEF Globals
  <2>. SUFFICES ASSUME NEW t \in Structured PROVE Globals[t + 1] = GlobalLoads(t, "SKYRIM")
    OBVIOUS
  <2>. DEFINE i == t + 1
  <2>2. i \in 1..38 /\ i - 1 = t
    BY <1>5
  <2>. HIDE DEF i
  <2>3. Globals[i] = GlobalLoads(t, "SKYRIM")
    BY <2>1, <2>2, Zenon
  <2>4. QED BY <2>3 DEF i
<1>7. QED BY <1>4, <1>5, <1>6, Zenon

\* An element of a short tuple is in its set.
LEMMA InTuple ==
  /\ \A a : a \in ToSet(<<a>>)
  /\ \A a, b : a \in ToSet(<<a, b>>) /\ b \in ToSet(<<a, b>>)
  /\ \A a, b, c : a \in ToSet(<<a, b, c>>) /\ b \in ToSet(<<a, b, c>>) /\ c \in ToSet(<<a, b, c>>)
  /\ \A a, b, c, d : /\ a \in ToSet(<<a, b, c, d>>) /\ b \in ToSet(<<a, b, c, d>>)
                     /\ c \in ToSet(<<a, b, c, d>>) /\ d \in ToSet(<<a, b, c, d>>)
  /\ \A a, b, c, d, e : /\ a \in ToSet(<<a, b, c, d, e>>) /\ b \in ToSet(<<a, b, c, d, e>>)
                        /\ c \in ToSet(<<a, b, c, d, e>>) /\ d \in ToSet(<<a, b, c, d, e>>)
                        /\ e \in ToSet(<<a, b, c, d, e>>)
  /\ \A a, b, c, d, e, f :
        /\ a \in ToSet(<<a, b, c, d, e, f>>) /\ b \in ToSet(<<a, b, c, d, e, f>>)
        /\ c \in ToSet(<<a, b, c, d, e, f>>) /\ d \in ToSet(<<a, b, c, d, e, f>>)
        /\ e \in ToSet(<<a, b, c, d, e, f>>) /\ f \in ToSet(<<a, b, c, d, e, f>>)
BY DEF ToSet

\* Every name the lists are said to have is in one of them.
LEMMA NamesInLists ==
  /\ {"file_version", "save_num", "player_name", "level", "player_location_name", "game_time",
      "race_id", "sex", "current_xp", "target_xp", "filetime", "snapshot_width",
      "snapshot_height"} \subseteq ToSet(HeaderNames)
  /\ {"next_object_id", "world_space1", "coord_x", "coord_y", "world_space2", "pos_x", "pos_y",
      "pos_z", "unknown"} \subseteq ToSet(LocationNames("SKYRIM"))
  /\ {"climate", "weather", "prev_weather", "unk_weather1", "unk_weather2", "regn_weather",
      "current_time", "begin_time", "weather_pct", "data1", "data2", "data3", "flags"}
        \subseteq ToSet(WeatherNames)
  /\ {"form_version", "game_version"} \subseteq ToSet(VersionNames("FALLOUT4"))
  /\ {"form_ids", "world_spaces", "unknown3"} \subseteq ToSet(TailNames)
<1>0. \A a, b \in Seq(PlainNames) : \A x : x \in ToSet(a \o b) <=> x \in ToSet(a) \/ x \in ToSet(b)
  BY ToSetConcat, Zenon
<1>1. {"file_version", "save_num", "player_name", "level", "player_location_name", "game_time",
      "race_id", "sex", "current_xp", "target_xp", "filetime", "snapshot_width",
      "snapshot_height"} \subseteq ToSet(HeaderNames)
  <2>. DEFINE a == <<"file_version", "save_num", "player_name", "level">>
              b == <<"player_location_name", "game_time", "race_id">>
              d == <<"sex", "current_xp", "target_xp", "filetime", "snapshot_width",
                     "snapshot_height">>
  <2>1. a \in Seq(PlainNames) /\ b \in Seq(PlainNames) /\ d \in Seq(PlainNames)
    BY NamesTyped, Zenon
  <2>2. HeaderNames = (a \o b) \o d
    BY Zenon DEF HeaderNames
  <2>3. /\ \A x \in {"file_version", "save_num", "player_name", "level"} : x \in ToSet(a)
        /\ \A x \in {"player_location_name", "game_time", "race_id"} : x \in ToSet(b)
        /\ \A x \in {"sex", "current_xp", "target_xp", "filetime", "snapshot_width",
                     "snapshot_height"} : x \in ToSet(d)
    BY InTuple, Zenon
  <2>. HIDE DEF a, b, d
  <2>4. a \o b \in Seq(PlainNames)
    BY <2>1, PlainConcat, Zenon
  <2>5. \A x : x \in ToSet(HeaderNames) <=> x \in ToSet(a) \/ x \in ToSet(b) \/ x \in ToSet(d)
    BY <1>0, <2>1, <2>2, <2>4, Zenon
  <2>6. QED BY <2>3, <2>5, Zenon
<1>2. {"next_object_id", "world_space1", "coord_x", "coord_y", "world_space2", "pos_x", "pos_y",
      "pos_z", "unknown"} \subseteq ToSet(LocationNames("SKYRIM"))
  <2>. DEFINE a == <<"next_object_id", "world_space1", "coord_x", "coord_y", "world_space2">>
              b == <<"pos_x", "pos_y", "pos_z">>
              d == <<"unknown">>
  <2>1. a \in Seq(PlainNames) /\ b \in Seq(PlainNames) /\ d \in Seq(PlainNames)
    BY NamesTyped, Zenon
  <2>2. LocationNames("SKYRIM") = (a \o b) \o d
    BY Zenon DEF LocationNames
  <2>3. /\ \A x \in {"next_object_id", "world_space1", "coord_x", "coord_y", "world_space2"} :
             x \in ToSet(a)
        /\ \A x \in {"pos_x", "pos_y", "pos_z"} : x \in ToSet(b)
        /\ "unknown" \in ToSet(d)
    BY InTuple, Zenon
  <2>. HIDE DEF a, b, d
  <2>4. a \o b \in Seq(PlainNames)
    BY <2>1, PlainConcat, Zenon
  <2>5. \A x : x \in ToSet(LocationNames("SKYRIM"))
               <=> x \in ToSet(a) \/ x \in ToSet(b) \/ x \in ToSet(d)
    BY <1>0, <2>1, <2>2, <2>4, Zenon
  <2>6. QED BY <2>3, <2>5, Zenon
<1>3. {"climate", "weather", "prev_weather", "unk_weather1", "unk_weather2", "regn_weather",
      "current_time", "begin_time", "weather_pct", "data1", "data2", "data3", "flags"}
        \subseteq ToSet(WeatherNames)
  <2>. DEFINE a == <<"climate", "weather", "prev_weather", "unk_weather1", "unk_weather2",
                     "regn_weather">>
              b == <<"current_time", "begin_time", "weather_pct">>
              d == <<"data1", "data2", "data3", "flags">>
  <2>1. a \in Seq(PlainNames) /\ b \in Seq(PlainNames) /\ d \in Seq(PlainNames)
    BY NamesTyped, Zenon
  <2>2. WeatherNames = (a \o b) \o d
    BY Zenon DEF WeatherNames
  <2>3. /\ \A x \in {"climate", "weather", "prev_weather", "unk_weather1", "unk_weather2",
                     "regn_weather"} : x \in ToSet(a)
        /\ \A x \in {"current_time", "begin_time", "weather_pct"} : x \in ToSet(b)
        /\ \A x \in {"data1", "data2", "data3", "flags"} : x \in ToSet(d)
    BY InTuple, Zenon
  <2>. HIDE DEF a, b, d
  <2>4. a \o b \in Seq(PlainNames)
    BY <2>1, PlainConcat, Zenon
  <2>5. \A x : x \in ToSet(WeatherNames) <=> x \in ToSet(a) \/ x \in ToSet(b) \/ x \in ToSet(d)
    BY <1>0, <2>1, <2>2, <2>4, Zenon
  <2>6. QED BY <2>3, <2>5, Zenon
<1>4. {"form_version", "game_version"} \subseteq ToSet(VersionNames("FALLOUT4"))
  <2>. DEFINE a == <<"form_version">> b == <<"game_version">>
  <2>1. a \in Seq(PlainNames) /\ b \in Seq(PlainNames)
    BY NamesTyped, Zenon
  <2>2. VersionNames("FALLOUT4") = a \o b
    BY Zenon DEF VersionNames
  <2>3. "form_version" \in ToSet(a) /\ "game_version" \in ToSet(b)
    BY InTuple, Zenon
  <2>. HIDE DEF a, b
  <2>4. QED BY <1>0, <2>1, <2>2, <2>3, ZenonT(40)
<1>5. {"form_ids", "world_spaces", "unknown3"} \subseteq ToSet(TailNames)
  BY InTuple, Zenon DEF TailNames
<1>6. QED BY <1>1, <1>2, <1>3, <1>4, <1>5

\* AllFields is the fields of all the names: no structure is forgotten and none
\* is invented.
LEMMA AllFieldsAre == AllFields = AllFieldsSet
<1>. DEFINE X == AllFieldsSet
            l1 == FileHeaderLoads
            l2 == CompressorLoads
            l3 == PluginLoads
            l4 == LightPluginLoads
            l5 == VersionLoads("FALLOUT4")
            l6 == TailLoads
            l7 == FlattenSeq(Globals)
<1>1. /\ l1 \in Seq(X) /\ l2 \in Seq(X) /\ l3 \in Seq(X) /\ l4 \in Seq(X)
      /\ l5 \in Seq(X) /\ l6 \in Seq(X) /\ l7 \in Seq(X)
  <2>1. \A ns \in Seq(PlainNames) : ListOf(ns) \in Seq(X)
    BY PlainIsName, ListTyped, Zenon
  <2>2. l7 \in Seq(X)
    BY GlobalsTyped, FlattenTyped, Zenon
  <2>3. l1 \in Seq(X) /\ l5 \in Seq(X)
    BY <2>1, HeaderList, VersionList, Zenon
  <2>4. l2 \in Seq(X) /\ l3 \in Seq(X) /\ l4 \in Seq(X) /\ l6 \in Seq(X)
    BY <2>1, OtherParts, NamesTyped, Zenon
  <2>5. QED BY <2>2, <2>3, <2>4
<1>2. AllFields = ToSet((((((l1 \o l2) \o l3) \o l4) \o l5) \o l6) \o l7)
  BY Zenon DEF AllFields, Globals
<1>3. /\ ToSet(ListOf(HeaderNames)) = ToSet(l1)
      /\ ToSet(ListOf(<<"compressor">>)) = ToSet(l2)
      /\ ToSet(ListOf(<<"plugins">>)) = ToSet(l3)
      /\ ToSet(ListOf(<<"light_plugins">>)) = ToSet(l4)
      /\ ToSet(ListOf(VersionNames("FALLOUT4"))) = ToSet(l5)
      /\ ToSet(ListOf(TailNames)) = ToSet(l6)
  BY HeaderList, VersionList, OtherParts, Zenon
<1>4. \A f : f \in ToSet(l7) <=> \E i \in 1..38 : f \in ToSet(Globals[i])
  BY GlobalsTyped, ToSetFlatten, Zenon
<1>5. \A t \in Structured : \A f \in ToSet(GlobalLoads(t, "SKYRIM")) : f \in ToSet(l7)
  BY <1>4, GlobalsTyped, Zenon
<1>. HIDE DEF l1, l2, l3, l4, l5, l6, l7, X
<1>6. \A a, b \in Seq(X) : a \o b \in Seq(X)
                           /\ \A x : x \in ToSet(a \o b) <=> x \in ToSet(a) \/ x \in ToSet(b)
  <2>1. \A a, b \in Seq(X) : a \o b \in Seq(X)
    OBVIOUS
  <2>2. QED BY <2>1, ToSetConcat, Zenon
<1>. DEFINE m2 == l1 \o l2
            m3 == m2 \o l3
            m4 == m3 \o l4
            m5 == m4 \o l5
            m6 == m5 \o l6
            m7 == m6 \o l7
<1>7. m2 \in Seq(X) /\ \A x : x \in ToSet(m2) <=> x \in ToSet(l1) \/ x \in ToSet(l2)
  BY <1>1, <1>6, Zenon
<1>. HIDE DEF m2
<1>8. m3 \in Seq(X) /\ \A x : x \in ToSet(m3) <=> x \in ToSet(m2) \/ x \in ToSet(l3)
  BY <1>1, <1>6, <1>7, Zenon
<1>. HIDE DEF m3
<1>9. m4 \in Seq(X) /\ \A x : x \in ToSet(m4) <=> x \in ToSet(m3) \/ x \in ToSet(l4)
  BY <1>1, <1>6, <1>8, Zenon
<1>. HIDE DEF m4
<1>10. m5 \in Seq(X) /\ \A x : x \in ToSet(m5) <=> x \in ToSet(m4) \/ x \in ToSet(l5)
  BY <1>1, <1>6, <1>9, Zenon
<1>. HIDE DEF m5
<1>11. m6 \in Seq(X) /\ \A x : x \in ToSet(m6) <=> x \in ToSet(m5) \/ x \in ToSet(l6)
  BY <1>1, <1>6, <1>10, Zenon
<1>. HIDE DEF m6
<1>12. m7 \in Seq(X) /\ \A x : x \in ToSet(m7) <=> x \in ToSet(m6) \/ x \in ToSet(l7)
  BY <1>1, <1>6, <1>11, Zenon
<1>13. AllFields = ToSet(m7)
  BY <1>2, Zenon DEF m2, m3, m4, m5, m6, m7
<1>. HIDE DEF m7
<1>14. \A x : x \in AllFields <=> \/ x \in ToSet(l1) \/ x \in ToSet(l2) \/ x \in ToSet(l3)
                                  \/ x \in ToSet(l4) \/ x \in ToSet(l5) \/ x \in ToSet(l6)
                                  \/ x \in ToSet(l7)
  BY <1>7, <1>8, <1>9, <1>10, <1>11, <1>12, <1>13, Zenon
<1>15. AllFields \subseteq X
  <2>1. \A i \in 1..Len(m7) : m7[i] \in X
    BY <1>12
  <2>2. DOMAIN m7 = 1..Len(m7)
    BY <1>12
  <2>3. QED BY <1>13, <2>1, <2>2, Zenon DEF ToSet
<1>16. \A ns \in Seq(PlainNames) : \A n \in ToSet(ns) : FieldNamed(n) \in ToSet(ListOf(ns))
  BY PlainIsName, ToSetList, Zenon
<1>17. /\ \A n \in ToSet(HeaderNames) : FieldNamed(n) \in AllFields
       /\ \A n \in ToSet(VersionNames("FALLOUT4")) : FieldNamed(n) \in AllFields
       /\ \A n \in ToSet(TailNames) : FieldNamed(n) \in AllFields
       /\ FieldNamed("compressor") \in AllFields
       /\ FieldNamed("plugins") \in AllFields /\ FieldNamed("light_plugins") \in AllFields
  <2>1. /\ HeaderNames \in Seq(PlainNames) /\ VersionNames("FALLOUT4") \in Seq(PlainNames)
        /\ TailNames \in Seq(PlainNames) /\ <<"compressor">> \in Seq(PlainNames)
        /\ <<"plugins">> \in Seq(PlainNames) /\ <<"light_plugins">> \in Seq(PlainNames)
    BY HeaderList, VersionList, NamesTyped, Zenon
  <2>2. /\ "compressor" \in ToSet(<<"compressor">>) /\ "plugins" \in ToSet(<<"plugins">>)
        /\ "light_plugins" \in ToSet(<<"light_plugins">>)
    BY InTuple, Zenon
  <2>3. \A n \in ToSet(HeaderNames) : FieldNamed(n) \in ToSet(l1)
    BY <1>3, <1>16, <2>1, Zenon
  <2>4. \A n \in ToSet(VersionNames("FALLOUT4")) : FieldNamed(n) \in ToSet(l5)
    BY <1>3, <1>16, <2>1, Zenon
  <2>5. \A n \in ToSet(TailNames) : FieldNamed(n) \in ToSet(l6)
    BY <1>3, <1>16, <2>1, Zenon
  <2>6. FieldNamed("compressor") \in ToSet(l2) /\ FieldNamed("plugins") \in ToSet(l3)
        /\ FieldNamed("light_plugins") \in ToSet(l4)
    BY <1>3, <1>16, <2>1, <2>2, Zenon
  <2>7. QED BY <1>14, <2>3, <2>4, <2>5, <2>6, Zenon
<1>18. \A t \in Structured : \A n \in ToSet(GlobalNames(t, "SKYRIM")) : FieldNamed(n) \in AllFields
  <2>. SUFFICES ASSUME NEW t \in Structured, NEW n \in ToSet(GlobalNames(t, "SKYRIM"))
                PROVE  FieldNamed(n) \in AllFields
    OBVIOUS
  <2>. DEFINE ns == GlobalNames(t, "SKYRIM")
  <2>1. ns \in Seq(PlainNames) /\ FieldNamed(n) \in ToSet(ListOf(ns))
    BY <1>16, GlobalList, Zenon
  <2>2. CASE t # WEATHER
    BY <1>5, <1>14, <2>1, <2>2, GlobalList, Zenon
  <2>3. CASE t = WEATHER
    <3>1. GlobalLoads(t, "SKYRIM") = Append(ListOf(ns), FieldNamed("data4"))
      BY <2>3, GlobalList, Zenon
    <3>2. ListOf(ns) \in Seq(X) /\ FieldNamed("data4") \in X
      BY <2>1, PlainIsName, ListTyped, Zenon DEF AllFieldsSet, AllNames, X
    <3>. DEFINE l == ListOf(ns) g == FieldNamed("data4")
    <3>3. l \in Seq(X) /\ g \in X /\ FieldNamed(n) \in ToSet(l)
      BY <2>1, <3>2
    <3>. HIDE DEF l, g
    <3>4. <<g>> \in Seq(X) /\ Append(l, g) = l \o <<g>>
      BY <3>3, AppendIsConcat
    <3>5. FieldNamed(n) \in ToSet(Append(l, g))
      BY <1>6, <3>3, <3>4, Zenon
    <3>6. QED BY <1>5, <1>14, <3>1, <3>5, Zenon DEF l, g
  <2>4. QED BY <2>2, <2>3
<1>19. FieldNamed("data4") \in AllFields
  <2>. DEFINE l == ListOf(WeatherNames) g == FieldNamed("data4")
  <2>1. l \in Seq(X) /\ g \in X
    BY WeatherList, PlainIsName, ListTyped, Zenon DEF AllFieldsSet, AllNames, X
  <2>2. WEATHER \in Structured /\ GlobalLoads(WEATHER, "SKYRIM") = Append(l, g)
    <3>1. WEATHER \in Structured
      BY DEF Structured
    <3>2. GlobalNames(WEATHER, "SKYRIM") = WeatherNames
      BY DEF GlobalNames, MISC_STATS, PLAYER_LOCATION, GLOBAL_VARIABLES, WEATHER
    <3>3. QED BY <3>1, <3>2, GlobalList, Zenon
  <2>. HIDE DEF l, g
  <2>3. <<g>> \in Seq(X) /\ Append(l, g) = l \o <<g>> /\ g \in ToSet(<<g>>)
    BY <2>1, AppendIsConcat, InTuple
  <2>4. g \in ToSet(Append(l, g))
    BY <1>6, <2>1, <2>3, Zenon
  <2>5. QED BY <1>5, <1>14, <2>2, <2>4, Zenon DEF g
<1>20. /\ FieldNamed("misc_stats") \in AllFields /\ FieldNamed("global_vars") \in AllFields
       /\ FieldNamed("favourites") \in AllFields /\ FieldNamed("hotkeys") \in AllFields
       /\ \A n \in ToSet(LocationNames("SKYRIM")) : FieldNamed(n) \in AllFields
       /\ \A n \in ToSet(WeatherNames) : FieldNamed(n) \in AllFields
  <2>1. /\ GlobalNames(MISC_STATS, "SKYRIM") = <<"misc_stats">>
        /\ GlobalNames(PLAYER_LOCATION, "SKYRIM") = LocationNames("SKYRIM")
        /\ GlobalNames(GLOBAL_VARIABLES, "SKYRIM") = <<"global_vars">>
        /\ GlobalNames(WEATHER, "SKYRIM") = WeatherNames
        /\ GlobalNames(MAGIC_FAVORITES, "SKYRIM") = <<"favourites", "hotkeys">>
    BY DEF GlobalNames, MISC_STATS, PLAYER_LOCATION, GLOBAL_VARIABLES, WEATHER, MAGIC_FAVORITES
  <2>2. /\ MISC_STATS \in Structured /\ PLAYER_LOCATION \in Structured
        /\ GLOBAL_VARIABLES \in Structured /\ WEATHER \in Structured
        /\ MAGIC_FAVORITES \in Structured
    BY DEF Structured
  <2>3. QED BY <1>18, <2>1, <2>2, InTuple, Zenon
<1>21. \A n \in AllNames : FieldNamed(n) \in AllFields
  <2>1. \A n \in AllNames :
          \/ n \in ToSet(HeaderNames) \/ n \in ToSet(VersionNames("FALLOUT4"))
          \/ n \in ToSet(TailNames) \/ n \in {"compressor", "plugins", "light_plugins", "data4"}
          \/ n \in {"misc_stats", "global_vars", "favourites", "hotkeys"}
          \/ n \in ToSet(LocationNames("SKYRIM")) \/ n \in ToSet(WeatherNames)
    <3>1. \A n \in AllNames :
            \/ n \in {"file_version", "save_num", "player_name", "level", "player_location_name",
                     "game_time", "race_id", "sex", "current_xp", "target_xp", "filetime",
                     "snapshot_width", "snapshot_height"}
            \/ n \in {"form_version", "game_version"}
            \/ n \in {"form_ids", "world_spaces", "unknown3"}
            \/ n \in {"compressor", "plugins", "light_plugins", "data4"}
            \/ n \in {"misc_stats", "global_vars", "favourites", "hotkeys"}
            \/ n \in {"next_object_id", "world_space1", "coord_x", "coord_y", "world_space2",
                     "pos_x", "pos_y", "pos_z", "unknown"}
            \/ n \in {"climate", "weather", "prev_weather", "unk_weather1", "unk_weather2",
                     "regn_weather", "current_time", "begin_time", "weather_pct", "data1",
                     "data2", "data3", "flags"}
      BY DEF AllNames, PlainNames
    <3>2. QED BY <3>1, NamesInLists, Zenon
  <2>2. QED BY <1>17, <1>19, <1>20, <2>1, Zenon
<1>22. QED BY <1>15, <1>21, Zenon DEF AllFieldsSet, X

OtherNames == {"game", "snapshot_data", "change_forms", "globals"}
Names == AllNames \cup OtherNames

\* A save has the same parts at all times.
IsSave(s) == s = [n \in Names |-> s[n]]

StartOf(n) ==
  IF CountOf(n) = "one" THEN [i \in DOMAIN KindsNamed(n) |-> Zeroes(KindsNamed(n)[i])] ELSE <<>>

\* The value savegame_alloc leaves in a field can be stored.
LEMMA StartTyped ==
  ASSUME NEW n \in PlainNames
  PROVE  FieldOK(FieldNamed(n), StartOf(n))
<1>. DEFINE f == FieldNamed(n)
            ks == KindsNamed(n)
            v == StartOf(n)
<1>1. IsField(f) /\ f.count = CountOf(n) /\ f.kinds = ks
  BY FieldNamedIs, NamesApart, Zenon
<1>2. ks \in Seq(Kinds) /\ Len(ks) \in {1, 2, 3, 6} /\ DOMAIN ks = 1..Len(ks)
  BY <1>1 DEF IsField
<1>3. CASE CountOf(n) # "one"
  <2>1. v = <<>>
    BY <1>3, Zenon DEF StartOf
  <2>2. <<>> \in Seq(Value) /\ Len(<<>>) = 0 /\ 0 * Len(f.kinds) = 0
    BY <1>1, <1>2
  <2>3. CountOK(f.count, 0)
    <3>1. f.count \in {"one", "vsval", "u8", "le16", "le32"} /\ f.count # "one"
      BY <1>1, <1>3 DEF IsField
    <3>2. 0 <= VsvalMax
      BY DEF VsvalMax
    <3>3. 0 < Numbers(1) /\ 0 < Numbers(2) /\ 0 < Numbers(4)
      BY NumbersIs, TooManyIs
    <3>4. Width["u8"] = 1 /\ Width["le16"] = 2 /\ Width["le32"] = 4
      BY WidthIs
    <3>5. QED BY <3>1, <3>2, <3>3, <3>4, Zenon DEF CountOK
  <2>4. \A i \in 1..0 : FALSE
    OBVIOUS
  <2>5. 0 \in Nat
    OBVIOUS
  <2>6. QED BY <2>1, <2>2, <2>3, <2>4, <2>5, Zenon DEF FieldOK
<1>4. CASE CountOf(n) = "one"
  <2>1. v = [i \in 1..Len(ks) |-> Zeroes(ks[i])]
    BY <1>2, <1>4, Zenon DEF StartOf
  <2>2. ASSUME NEW k \in Kinds PROVE Zeroes(k) \in Value /\ Storable(k, Zeroes(k))
    <3>1. CASE k = "str"
      <4>1. Zeroes(k) = <<>> /\ <<>> \in Value /\ Len(<<>>) = 0
        BY <3>1 DEF Zeroes, Value
      <4>2. CString(<<>>) \in Value /\ Len(CString(<<>>)) <= 0
        BY <4>1, CStringTyped
      <4>3. Len(CString(<<>>)) < Numbers(2)
        <5>1. Len(CString(<<>>)) \in Nat
          BY <4>2 DEF Value
        <5>2. QED BY <4>2, <5>1, NumbersIs
      <4>4. QED BY <3>1, <4>1, <4>3 DEF Storable
    <3>2. CASE k # "str"
      <4>. DEFINE w == Width[k]
                  z == [i \in 1..w |-> 0]
      <4>1. w \in Nat /\ k # "chunk" /\ (k = "be24" => w = 3)
        BY <3>2, WidthIs DEF Kinds
      <4>2. z \in Value /\ Len(z) = w
        <5>1. 0 \in Octet
          BY SMT DEF Octet
        <5>2. z \in [1..w -> Octet]
          BY <5>1
        <5>. HIDE DEF w
        <5>3. QED BY <4>1, <5>2, FunctionIsSeq, Zenon DEF Value
      <4>3. Zeroes(k) = Loaded(k, z)
        BY <3>2, <4>1 DEF Zeroes
      <4>4. CASE k = "be24"
        <5>1. z[1] = 0 /\ z[2] = 0 /\ z[3] = 0
          BY <4>1, <4>4
        <5>2. Loaded(k, z) = <<0, 0, 0, 0>>
          BY <4>4, <5>1 DEF Loaded
        <5>3. 0 \in Octet
          BY SMT DEF Octet
        <5>4. <<0, 0, 0, 0>> \in Value /\ Len(<<0, 0, 0, 0>>) = 4 /\ <<0, 0, 0, 0>>[4] = 0
          BY <5>3 DEF Value
        <5>5. QED BY <4>3, <4>4, <5>2, <5>4 DEF Storable
      <4>5. CASE k # "be24"
        <5>1. Zeroes(k) = z
          BY <3>2, <4>3, <4>5 DEF Loaded
        <5>2. QED BY <3>2, <4>2, <4>5, <5>1, Zenon DEF Storable
      <4>6. QED BY <4>4, <4>5
    <3>3. QED BY <3>1, <3>2
  <2>3. \A i \in 1..Len(ks) : ks[i] \in Kinds
    BY <1>2
  <2>4. v \in [1..Len(ks) -> Value] /\ \A i \in 1..Len(ks) : Storable(ks[i], v[i])
    BY <2>1, <2>2, <2>3
  <2>. HIDE DEF v
  <2>5. v \in Seq(Value) /\ Len(v) = Len(ks)
    <3>1. Len(ks) \in Nat
      BY <1>2
    <3>2. QED BY <2>4, <3>1, FunctionIsSeq, Zenon
  <2>6. \A i \in 1..Len(ks) : Cycle(ks, i) = ks[i]
    <3>. DEFINE w == Len(ks)
    <3>1. w \in {1, 2, 3, 6}
      BY <1>2
    <3>. HIDE DEF w
    <3>2. \A k \in 1..w : 1 + (((0 * w + k) - 1) % w) = k
      BY <3>1, Multiples
    <3>3. \A k \in 1..w : 0 * w + k = k
      BY <3>1
    <3>4. \A k \in 1..w : 1 + ((k - 1) % w) = k
      BY <3>2, <3>3
    <3>5. QED BY <3>4 DEF Cycle, w
  <2>7. 1 * Len(ks) = Len(ks) /\ 1 \in Nat
    <3>. DEFINE w == Len(ks)
    <3>1. w = 1 \/ w = 2 \/ w = 3 \/ w = 6
      BY <1>2
    <3>. HIDE DEF w
    <3>2. 1 * w = w
      BY <3>1
    <3>3. QED BY <3>2 DEF w
  <2>8. CountOK(f.count, 1)
    BY <1>1, <1>4 DEF CountOK
  <2>9. /\ Len(v) = 1 * Len(f.kinds)
        /\ \A i \in 1..Len(v) : Storable(Cycle(f.kinds, i), v[i])
    BY <1>1, <2>4, <2>5, <2>6, <2>7, Zenon
  <2>. HIDE DEF f
  <2>10. FieldOK(f, v)
    BY <2>5, <2>7, <2>8, <2>9, Zenon DEF FieldOK
  <2>11. QED BY <2>10 DEF f, v
<1>5. QED BY <1>3, <1>4

\* What savegame_alloc leaves in every field.
LEMMA AllocIs ==
  /\ IsSave(savegame_alloc) /\ DOMAIN savegame_alloc = Names
  /\ \A n \in AllNames : savegame_alloc[n] = StartOf(n)
  /\ savegame_alloc["game"] = "none"
  /\ savegame_alloc["snapshot_data"] = <<>> /\ savegame_alloc["change_forms"] = <<>>
  /\ savegame_alloc["globals"] = [t \in ObjectTypes |-> <<>>]
<1>. DEFINE D == {f.name : f \in AllFields}
            G(n) == LET f == CHOOSE f \in AllFields : f.name = n
                    IN  IF f.count = "one" THEN [i \in DOMAIN f.kinds |-> Zeroes(f.kinds[i])]
                        ELSE <<>>
            H(n) == CASE n = "game" -> "none"
                      [] n \in {"snapshot_data", "change_forms"} -> <<>>
                      [] n = "globals" -> [t \in ObjectTypes |-> <<>>]
                      [] OTHER -> G(n)
            a == [n \in D \cup OtherNames |-> H(n)]
<1>1. savegame_alloc = a
  BY Zenon DEF savegame_alloc, OtherNames
<1>2. \A n : FieldNamed(n).name = n /\ FieldNamed(n).count = CountOf(n)
             /\ FieldNamed(n).kinds = KindsNamed(n)
  BY FieldNamedIs, Zenon
<1>3. D = AllNames
  BY <1>2, AllFieldsAre, Zenon DEF AllFieldsSet
<1>4. \A n \in AllNames : G(n) = StartOf(n)
  <2>. SUFFICES ASSUME NEW n \in AllNames PROVE G(n) = StartOf(n)
    OBVIOUS
  <2>. DEFINE f == CHOOSE f \in AllFields : f.name = n
  <2>1. FieldNamed(n) \in AllFields /\ FieldNamed(n).name = n
    BY <1>2, AllFieldsAre, Zenon DEF AllFieldsSet
  <2>2. \A e \in AllFields : e.name = n => e = FieldNamed(n)
    BY <1>2, AllFieldsAre, Zenon DEF AllFieldsSet
  <2>3. f = FieldNamed(n)
    BY <2>1, <2>2, Zenon
  <2>4. G(n) = IF f.count = "one" THEN [i \in DOMAIN f.kinds |-> Zeroes(f.kinds[i])] ELSE <<>>
    BY Zenon
  <2>. HIDE DEF f, G
  <2>5. f.count = CountOf(n) /\ f.kinds = KindsNamed(n)
    BY <1>2, <2>3, Zenon
  <2>6. QED BY <2>4, <2>5, Zenon DEF StartOf
<1>5. \A n \in AllNames : n \notin OtherNames
  BY DEF OtherNames, AllNames, PlainNames
<1>. HIDE DEF G, D
<1>6. \A n \in AllNames : H(n) = StartOf(n)
  <2>1. \A n : n \notin OtherNames => H(n) = G(n)
    BY DEF OtherNames
  <2>. HIDE DEF H
  <2>2. QED BY <1>4, <1>5, <2>1, Zenon
<1>7. H("game") = "none" /\ H("snapshot_data") = <<>> /\ H("change_forms") = <<>>
      /\ H("globals") = [t \in ObjectTypes |-> <<>>]
  OBVIOUS
<1>. HIDE DEF H
<1>8. DOMAIN a = Names /\ \A n \in Names : a[n] = H(n)
  BY <1>3 DEF Names
<1>9. IsSave(savegame_alloc)
  <2>1. a = [n \in Names |-> a[n]]
    BY <1>3, <1>8 DEF Names
  <2>. HIDE DEF a
  <2>2. QED BY <1>1, <2>1 DEF IsSave
<1>. HIDE DEF a
<1>12. /\ "game" \in OtherNames /\ "snapshot_data" \in OtherNames
       /\ "change_forms" \in OtherNames /\ "globals" \in OtherNames
  BY DEF OtherNames
<1>13. OtherNames \subseteq Names /\ AllNames \subseteq Names
  BY DEF Names
<1>14. QED BY <1>1, <1>6, <1>7, <1>8, <1>9, <1>12, <1>13, Zenon

FF == INSTANCE FoldFacts WITH Op <- Load

\* Loading a list of fields is a fold, so that it can be reasoned about field by
\* field.
LEMMA LoadAllIs == \A c, fs : LoadAll(c, fs) = FF!Fold(c, fs)
BY DEF LoadAll, FoldLeft, MapThenFoldSet, Max, FF!Fold, FF!Folds, FF!Top

\* Loading no fields changes nothing.
LEMMA LoadAllNone == \A c : LoadAll(c, <<>>) = c
BY LoadAllIs, FF!FoldEmpty

\* Loading one more field loads it after the others.
LEMMA LoadAllMore ==
  ASSUME NEW c, NEW X, NEW fs \in Seq(X), NEW f \in X
  PROVE  LoadAll(c, Append(fs, f)) = Load(LoadAll(c, fs), f)
<1>1. FF!Fold(c, Append(fs, f)) = Load(FF!Fold(c, fs), f)
  BY FF!FoldAppend
<1>2. QED BY <1>1, LoadAllIs

\* Appending to the second of two sequences appends to both.
LEMMA ConcatAppend ==
  ASSUME NEW X, NEW p \in Seq(X), NEW q \in Seq(X), NEW x \in X
  PROVE  p \o Append(q, x) = Append(p \o q, x)
<1>1. Append(q, x) = q \o <<x>> /\ <<x>> \in Seq(X)
  BY AppendIsConcat
<1>2. p \o q \in Seq(X) /\ Append(p \o q, x) = (p \o q) \o <<x>>
  BY ConcatProperties, AppendIsConcat
<1>3. (p \o q) \o <<x>> = p \o (q \o <<x>>)
  BY <1>1, ConcatAssociative
<1>4. QED BY <1>1, <1>2, <1>3, Zenon
-----------------------------------------------------------------------------
(* What is stored. *)

\* What is stored for a field is octets.
LEMMA StoreTyped ==
  ASSUME NEW s, NEW f, IsField(f), FieldOK(f, s[f.name])
  PROVE  Store(s, f) \in Value
<1>1. PICK n \in Nat : Parts(s, f, n)
  BY StoreIs
<1>. DEFINE v == s[f.name] ks == KindsOf(f, n)
<1>2. /\ CountOK(f.count, n) /\ ks \in Seq(Kinds) /\ AllStorable(ks, v)
      /\ Store(s, f) = StoredCount(f.count, n) \o FlattenSeq(Pieces(ks, v))
  BY <1>1, Zenon DEF Parts
<1>. HIDE DEF v, ks
<1>3. f.count \in {"one", "vsval", "u8", "le16", "le32"}
  BY DEF IsField
<1>4. StoredCount(f.count, n) \in Value
  BY <1>2, <1>3, CountStored
<1>5. FlattenSeq(Pieces(ks, v)) \in Value
  BY <1>2, PiecesTyped
<1>6. QED BY <1>2, <1>4, <1>5, ConcatIs, Zenon

\* data4 is what is left of the block, if anything is.
SomeOK(v) == v = <<>> \/ \E x \in Value : x # <<>> /\ v = <<x>>

Rest(v) == IF v = <<>> THEN <<>> ELSE v[1]

\* Joining one sequence gives it.
LEMMA FlattenOne ==
  ASSUME NEW x \in Value
  PROVE  FlattenSeq(<<x>>) = x
<1>1. <<>> \in Seq(Value) /\ Append(<<>>, x) = <<x>>
  OBVIOUS
<1>2. FlattenSeq(Append(<<>>, x)) = FlattenSeq(<<>>) \o x
  BY <1>1, FlattenAppend, Zenon DEF Value
<1>3. <<>> \o x = x
  BY DEF Value
<1>4. QED BY <1>1, <1>2, <1>3, FlattenEmpty

\* The rest of the weather is stored as it is.
LEMMA ChunkStored ==
  ASSUME NEW s, SomeOK(s["data4"])
  PROVE  /\ Store(s, FieldNamed("data4")) = Rest(s["data4"])
         /\ Rest(s["data4"]) \in Value
         /\ s["data4"] = <<>> <=> Len(Rest(s["data4"])) = 0
<1>. DEFINE f == FieldNamed("data4")
            v == s["data4"]
            all == [i \in DOMAIN v |-> Stored(Cycle(f.kinds, i), v[i])]
<1>1. f.name = "data4" /\ f.count = "some" /\ f.kinds = <<"chunk">>
  BY FieldNamedIs DEF CountOf, KindsNamed
<1>2. Store(s, f) = StoredCount("some", Len(v) \div Len(f.kinds)) \o FlattenSeq(all)
  BY <1>1 DEF Store, Cycle
<1>3. StoredCount("some", Len(v) \div Len(f.kinds)) = <<>>
  BY DEF StoredCount
<1>4. CASE v = <<>>
  <2>1. all = <<>>
    BY <1>4
  <2>2. FlattenSeq(all) = <<>>
    BY <2>1, FlattenEmpty
  <2>3. <<>> \o <<>> = <<>> /\ <<>> \in Value /\ Len(<<>>) = 0
    BY DEF Value
  <2>. HIDE DEF all, f
  <2>4. QED BY <1>2, <1>3, <1>4, <2>2, <2>3 DEF f, Rest
<1>5. CASE v # <<>>
  <2>1. PICK x \in Value : x # <<>> /\ v = <<x>>
    BY <1>5 DEF SomeOK
  <2>2. all = <<x>>
    <3>1. Cycle(f.kinds, 1) = "chunk"
      <4>1. Cycle(<<"chunk">>, 1) = "chunk"
        BY DEF Cycle
      <4>2. QED BY <1>1, <4>1, Zenon
    <3>2. Stored("chunk", x) = x
      BY DEF Stored
    <3>. HIDE DEF f
    <3>3. DOMAIN v = {1} /\ v[1] = x
      BY <2>1
    <3>4. QED BY <3>1, <3>2, <3>3
  <2>3. FlattenSeq(all) = x
    BY <2>2, FlattenOne
  <2>4. <<>> \o x = x /\ Len(x) # 0
    BY <2>1 DEF Value
  <2>5. Rest(v) = x
    BY <2>1 DEF Rest
  <2>. HIDE DEF all, f, v
  <2>6. QED BY <1>2, <1>3, <1>5, <2>1, <2>3, <2>4, <2>5 DEF f, v
<1>6. QED BY <1>4, <1>5

\* A save whose fields can be stored.
Good(s) == (\A n \in PlainNames : FieldOK(FieldNamed(n), s[n])) /\ SomeOK(s["data4"])

\* What is stored for any field of a good save is octets.
LEMMA StoresTyped ==
  ASSUME NEW s, Good(s), NEW n \in AllNames
  PROVE  Store(s, FieldNamed(n)) \in Value
<1>1. CASE n = "data4"
  BY <1>1, ChunkStored, Zenon DEF Good
<1>2. CASE n # "data4"
  <2>1. n \in PlainNames
    BY <1>2 DEF AllNames
  <2>2. IsField(FieldNamed(n)) /\ FieldNamed(n).name = n
    BY <1>2, FieldNamedIs, Zenon
  <2>3. QED BY <2>1, <2>2, StoreTyped, Zenon DEF Good
<1>3. QED BY <1>1, <1>2

\* Storing one more field appends its octets.
LEMMA StoreAllMore ==
  ASSUME NEW s, Good(s), NEW ns \in Seq(AllNames), NEW n \in AllNames
  PROVE  /\ StoreAll(s, Append(ListOf(ns), FieldNamed(n)))
              = StoreAll(s, ListOf(ns)) \o Store(s, FieldNamed(n))
         /\ StoreAll(s, ListOf(ns)) \in Value
<1>. DEFINE l == ListOf(ns)
            f == FieldNamed(n)
            e == Append(l, f)
            k == Len(l)
            X == AllFieldsSet
            part == [i \in 1..(k + 1) |-> Store(s, e[i])]
            a == [i \in 1..k |-> Store(s, l[i])]
<1>1. l \in Seq(X) /\ f \in X
  BY ListTyped, Zenon DEF AllFieldsSet
<1>2. \A g \in X : Store(s, g) \in Value
  BY StoresTyped, Zenon DEF AllFieldsSet
<1>. HIDE DEF l, f, X
<1>3. /\ e \in Seq(X) /\ k \in Nat /\ Len(e) = k + 1 /\ e[k + 1] = f
      /\ (\A i \in 1..k : e[i] = l[i]) /\ DOMAIN e = 1..(k + 1) /\ DOMAIN l = 1..k
  BY <1>1
<1>. HIDE DEF e, k
<1>4. \A i \in 1..k : i \in 1..(k + 1) /\ l[i] \in X
  BY <1>1, <1>3 DEF k
<1>5. k + 1 \in 1..(k + 1)
  BY <1>3
<1>6. a \in [1..k -> Value]
  BY <1>2, <1>4
<1>7. a = [i \in 1..k |-> part[i]] /\ part[k + 1] = Store(s, f)
  BY <1>3, <1>4, <1>5
<1>. HIDE DEF part
<1>8. [i \in 1..(k + 1) |-> part[i]] = Append([i \in 1..k |-> part[i]], part[k + 1])
  BY <1>3, OneMore
<1>9. part = [i \in 1..(k + 1) |-> part[i]]
  BY DEF part
<1>10. part = Append(a, Store(s, f))
  BY <1>7, <1>8, <1>9, Zenon
<1>11. a \in Seq(Value) /\ Store(s, f) \in Value
  BY <1>1, <1>2, <1>3, <1>6, FunctionIsSeq, Zenon
<1>12. StoreAll(s, e) = FlattenSeq(part) /\ StoreAll(s, l) = FlattenSeq(a)
  BY <1>3 DEF StoreAll, part
<1>. HIDE DEF a
<1>13. FlattenSeq(Append(a, Store(s, f))) = FlattenSeq(a) \o Store(s, f) /\ FlattenSeq(a) \in Value
  BY <1>11, FlattenAppend, FlattenTyped, Zenon DEF Value
<1>14. StoreAll(s, e) = StoreAll(s, l) \o Store(s, f) /\ StoreAll(s, l) \in Value
  BY <1>10, <1>12, <1>13, Zenon
<1>15. QED BY <1>14 DEF e, l, f

\* Storing no fields stores nothing.
LEMMA StoreAllNone == \A s : StoreAll(s, <<>>) = <<>>
<1>1. \A s : [i \in DOMAIN <<>> |-> Store(s, <<>>[i])] = <<>>
  OBVIOUS
<1>2. QED BY <1>1, FlattenEmpty DEF StoreAll

\* Storing two lists of fields stores the one, then the other.
LEMMA StoreAllConcat ==
  ASSUME NEW s, Good(s), NEW ns \in Seq(AllNames), NEW ms \in Seq(AllNames)
  PROVE  StoreAll(s, ListOf(ns) \o ListOf(ms)) = StoreAll(s, ListOf(ns)) \o StoreAll(s, ListOf(ms))
<1>. DEFINE T == {xs \in Seq(AllNames) :
                    StoreAll(s, ListOf(ns) \o ListOf(xs))
                      = StoreAll(s, ListOf(ns)) \o StoreAll(s, ListOf(xs))}
            X == AllFieldsSet
<1>0. \A xs \in Seq(AllNames) : StoreAll(s, ListOf(xs)) \in Value
  BY StoreAllMore, Zenon DEF AllNames
<1>1. <<>> \in T
  <2>1. <<>> \in Seq(AllNames) /\ ListOf(<<>>) = <<>>
    BY DEF ListOf
  <2>2. \A z \in Seq(X) : z \o <<>> = z
    OBVIOUS
  <2>3. \A z \in Value : z \o <<>> = z
    BY DEF Value
  <2>4. ListOf(ns) \in Seq(X)
    BY ListTyped, Zenon
  <2>5. QED BY <1>0, <2>1, <2>2, <2>3, <2>4, StoreAllNone, Zenon
<1>2. ASSUME NEW xs \in Seq(AllNames), NEW x \in AllNames, xs \in T
      PROVE  Append(xs, x) \in T
  <2>. DEFINE l == ListOf(ns)
              m == ListOf(xs)
              f == FieldNamed(x)
  <2>1. /\ Append(xs, x) \in Seq(AllNames) /\ ns \o xs \in Seq(AllNames)
    OBVIOUS
  <2>2. ListOf(Append(xs, x)) = Append(m, f)
    BY ListAppend, Zenon
  <2>3. ListOf(ns \o xs) = l \o m
    BY ListConcat, Zenon
  <2>4. l \o Append(m, f) = Append(l \o m, f)
    <3>1. l \in Seq(X) /\ m \in Seq(X) /\ f \in X
      BY ListTyped, Zenon DEF AllFieldsSet
    <3>. HIDE DEF l, m, f, X
    <3>2. QED BY <3>1, ConcatAppend
  <2>5. /\ StoreAll(s, Append(ListOf(ns \o xs), f)) = StoreAll(s, ListOf(ns \o xs)) \o Store(s, f)
        /\ StoreAll(s, Append(m, f)) = StoreAll(s, m) \o Store(s, f)
    BY <2>1, StoreAllMore, Zenon
  <2>6. StoreAll(s, l \o m) = StoreAll(s, l) \o StoreAll(s, m)
    BY <1>2
  <2>7. Store(s, f) \in Value /\ StoreAll(s, l) \in Value /\ StoreAll(s, m) \in Value
    BY <1>0, StoresTyped, Zenon
  <2>. HIDE DEF l, m, f
  <2>8. (StoreAll(s, l) \o StoreAll(s, m)) \o Store(s, f)
          = StoreAll(s, l) \o (StoreAll(s, m) \o Store(s, f))
    <3>1. \A p, q, r \in Value : (p \o q) \o r = p \o (q \o r)
      BY SMTT(30), Associative DEF Value
    <3>2. QED BY <2>7, <3>1, Zenon
  <2>9. StoreAll(s, l \o Append(m, f)) = StoreAll(s, l) \o StoreAll(s, Append(m, f))
    BY <2>3, <2>4, <2>5, <2>6, <2>8, Zenon
  <2>10. QED BY <2>1, <2>2, <2>9, Zenon DEF l
<1>. HIDE DEF T
<1>3. \A z \in Seq(AllNames) : z \in T
  BY <1>1, <1>2, InductionOver
<1>4. QED BY <1>3 DEF T

\* A save that differs in one part.
SetTo(t, s, n, v) == IsSave(t) /\ \A m \in Names : t[m] = IF m = n THEN v ELSE s[m]

\* What setting a field of a save leaves as it was.
LEMMA SaveExcept ==
  ASSUME NEW s, IsSave(s), NEW n \in Names, NEW v
  PROVE  SetTo([s EXCEPT ![n] = v], s, n, v)
<1>. DEFINE t == [s EXCEPT ![n] = v]
            u == [m \in Names |-> IF m = n THEN v ELSE s[m]]
<1>1. s = [m \in Names |-> s[m]]
  BY DEF IsSave
<1>2. DOMAIN s = Names
  BY <1>1
<1>3. t = u
  BY <1>2
<1>4. u = [m \in Names |-> u[m]] /\ \A m \in Names : u[m] = IF m = n THEN v ELSE s[m]
  OBVIOUS
<1>. HIDE DEF u
<1>5. QED BY <1>3, <1>4 DEF IsSave, SetTo

\* What is read back for a part of a save.
New(s, n) == IF n \in PlainNames THEN NormF(FieldNamed(n), s[n]) ELSE s[n]

\* A save that has become what is read back of s, as far as the names in N go.
Gained(save1, save0, s, N) ==
  /\ IsSave(save1)
  /\ \A m \in Names : save1[m] = IF m \in N THEN New(s, m) ELSE save0[m]

CameTo(d, c, len) == IsCursor(d) /\ d.octets = c.octets /\ d.ok = c.ok /\ d.pos = c.pos + len

\* A save has gained nothing over itself.
LEMMA GainedNone ==
  ASSUME NEW s, NEW t, IsSave(t)
  PROVE  Gained(t, t, s, {})
BY DEF Gained

\* What was gained in two steps is gained in all.
LEMMA GainedMore ==
  ASSUME NEW s, NEW a, NEW b, NEW d, NEW N, NEW M, Gained(b, a, s, N), Gained(d, b, s, M)
  PROVE  Gained(d, a, s, N \cup M)
BY DEF Gained

\* One more element of a list is one more in its set.
LEMMA ToSetAppend ==
  ASSUME NEW X, NEW ns \in Seq(X), NEW n \in X
  PROVE  ToSet(Append(ns, n)) = ToSet(ns) \cup {n}
<1>. DEFINE e == Append(ns, n)
            k == Len(ns)
<1>1. /\ k \in Nat /\ DOMAIN e = 1..(k + 1) /\ DOMAIN ns = 1..k /\ e[k + 1] = n
      /\ \A i \in 1..k : e[i] = ns[i]
  OBVIOUS
<1>. HIDE DEF e, k
<1>2. \A i : i \in 1..(k + 1) <=> i \in 1..k \/ i = k + 1
  BY <1>1
<1>3. \A x : x \in ToSet(e) <=> x \in ToSet(ns) \/ x = n
  BY <1>1, <1>2, Zenon DEF ToSet
<1>4. QED BY <1>3 DEF e

\* Coming n and then m octets further is coming n + m further.
LEMMA CameMore ==
  ASSUME NEW c, NEW d, NEW e, NEW n \in Nat, NEW m \in Nat, CameTo(d, c, n), CameTo(e, d, m),
         IsCursor(c)
  PROVE  CameTo(e, c, n + m)
<1>1. c.pos \in Nat /\ e.pos = d.pos + m /\ d.pos = c.pos + n
  BY DEF CameTo, IsCursor
<1>2. e.pos = c.pos + (n + m)
  BY <1>1
<1>3. QED BY <1>2 DEF CameTo

\* One field, stored and loaded.
LEMMA OneLoaded ==
  ASSUME NEW c, IsCursor(c), IsSave(c.save), NEW s, NEW n \in PlainNames,
         FieldOK(FieldNamed(n), s[n]), At(c.octets, c.pos, Store(s, FieldNamed(n)))
  PROVE  /\ CameTo(Load(c, FieldNamed(n)), c, Len(Store(s, FieldNamed(n))))
         /\ Gained(Load(c, FieldNamed(n)).save, c.save, s, {n})
<1>. DEFINE f == FieldNamed(n)
            d == Filled(c, s, f)
            v == NormF(f, s[n])
<1>1. IsField(f) /\ f.name = n
  BY FieldNamedIs, NamesApart, Zenon
<1>2. /\ Load(c, f) = d /\ Store(s, f) \in Value /\ NormF(f, s[f.name]) \in Seq(Value)
      /\ c.pos + Len(Store(s, f)) <= Len(c.octets)
  BY <1>1, LoadAt, Zenon
<1>3. /\ IsCursor(d) /\ d.octets = c.octets /\ d.pos = c.pos + Len(Store(s, f)) /\ d.ok = c.ok
      /\ d.save = [c.save EXCEPT ![f.name] = NormF(f, s[f.name])]
  <2>. HIDE DEF f
  <2>1. IsFilled(Filled(c, s, f), c, s, f)
    BY <1>2, FilledIs, Zenon
  <2>2. QED BY <2>1, Zenon DEF IsFilled
<1>4. n \in Names
  BY Zenon DEF Names, AllNames
<1>5. d.save = [c.save EXCEPT ![n] = v]
  BY <1>1, <1>3, Zenon
<1>. HIDE DEF d, v, f
<1>6. IsSave(d.save) /\ \A m \in Names : d.save[m] = IF m = n THEN v ELSE c.save[m]
  <2>1. SetTo([c.save EXCEPT ![n] = v], c.save, n, v)
    BY <1>4, SaveExcept, Zenon
  <2>2. QED BY <1>5, <2>1, Zenon DEF SetTo
<1>7. v = New(s, n)
  BY DEF New, v, f
<1>8. Gained(d.save, c.save, s, {n})
  BY <1>6, <1>7 DEF Gained
<1>9. CameTo(d, c, Len(Store(s, f)))
  BY <1>3 DEF CameTo
<1>10. QED BY <1>2, <1>8, <1>9, Zenon DEF f

AreLoaded(c, s, ns) ==
  LET d == LoadAll(c, ListOf(ns))
  IN  /\ CameTo(d, c, Len(StoreAll(s, ListOf(ns))))
      /\ Gained(d.save, c.save, s, ToSet(ns))

\* What was stored of some fields is loaded.
THEOREM LoadAllAt ==
  ASSUME NEW c, IsCursor(c), IsSave(c.save), NEW s, Good(s), NEW ns \in Seq(PlainNames),
         At(c.octets, c.pos, StoreAll(s, ListOf(ns)))
  PROVE  AreLoaded(c, s, ns)
<1>. DEFINE Fits(ms) == At(c.octets, c.pos, StoreAll(s, ListOf(ms)))
            T == {ms \in Seq(PlainNames) : Fits(ms) => AreLoaded(c, s, ms)}
<1>1. <<>> \in T
  <2>1. <<>> \in Seq(PlainNames) /\ ListOf(<<>>) = <<>> /\ ToSet(<<>>) = {}
    BY DEF ListOf, ToSet
  <2>2. LoadAll(c, <<>>) = c /\ StoreAll(s, <<>>) = <<>> /\ Len(<<>>) = 0
    BY LoadAllNone, StoreAllNone
  <2>3. CameTo(c, c, 0)
    BY DEF CameTo, IsCursor
  <2>4. Gained(c.save, c.save, s, {})
    BY GainedNone, Zenon
  <2>5. AreLoaded(c, s, <<>>)
    BY <2>1, <2>2, <2>3, <2>4, Zenon DEF AreLoaded
  <2>6. QED BY <2>1, <2>5
<1>2. ASSUME NEW ms \in Seq(PlainNames), NEW n \in PlainNames, ms \in T
      PROVE  Append(ms, n) \in T
  <2>. DEFINE e == Append(ms, n)
              f == FieldNamed(n)
              a == StoreAll(s, ListOf(ms))
              b == Store(s, f)
              d == LoadAll(c, ListOf(ms))
  <2>1. e \in Seq(PlainNames)
    OBVIOUS
  <2>2. ms \in Seq(AllNames) /\ n \in AllNames
    BY PlainIsName, Zenon DEF AllNames
  <2>3. ListOf(e) = Append(ListOf(ms), f)
    BY <2>2, ListAppend, Zenon
  <2>4. StoreAll(s, ListOf(e)) = a \o b /\ a \in Value /\ b \in Value
    BY <2>2, <2>3, StoreAllMore, StoresTyped, Zenon
  <2>5. LoadAll(c, ListOf(e)) = Load(d, f)
    <3>1. ListOf(ms) \in Seq(AllFieldsSet) /\ f \in AllFieldsSet
      BY <2>2, ListTyped, Zenon DEF AllFieldsSet
    <3>2. QED BY <2>3, <3>1, LoadAllMore
  <2>6. ToSet(e) = ToSet(ms) \cup {n}
    BY ToSetAppend
  <2>. SUFFICES ASSUME Fits(e) PROVE AreLoaded(c, s, e)
    BY <2>1
  <2>7. At(c.octets, c.pos, a) /\ At(c.octets, c.pos + Len(a), b)
    <3>1. At(c.octets, c.pos, a \o b) /\ c.octets \in Value /\ c.pos \in Nat
      BY <2>4, Zenon DEF IsCursor
    <3>. HIDE DEF a, b
    <3>2. QED BY <2>4, <3>1, AtConcat, Zenon
  <2>8. AreLoaded(c, s, ms)
    BY <1>2, <2>7
  <2>9. CameTo(d, c, Len(a)) /\ Gained(d.save, c.save, s, ToSet(ms))
    BY <2>8, Zenon DEF AreLoaded
  <2>. DEFINE h == Load(d, f)
  <2>10. CameTo(h, d, Len(b)) /\ Gained(h.save, d.save, s, {n})
    <3>1. IsCursor(d) /\ IsSave(d.save) /\ d.octets = c.octets /\ d.pos = c.pos + Len(a)
      BY <2>9, Zenon DEF CameTo, Gained
    <3>2. At(d.octets, d.pos, b)
      BY <2>7, <3>1, Zenon
    <3>3. FieldOK(f, s[n])
      BY Zenon DEF Good
    <3>4. QED BY <3>1, <3>2, <3>3, OneLoaded, Zenon
  <2>11. Len(a) \in Nat /\ Len(b) \in Nat /\ Len(a \o b) = Len(a) + Len(b)
    BY <2>4, ConcatIs, Zenon
  <2>12. CameTo(h, c, Len(a) + Len(b))
    BY <2>9, <2>10, <2>11, CameMore, Zenon
  <2>13. Gained(h.save, c.save, s, ToSet(ms) \cup {n})
    BY <2>9, <2>10, GainedMore, Zenon
  <2>14. QED BY <2>4, <2>5, <2>6, <2>11, <2>12, <2>13, Zenon DEF AreLoaded
<1>. HIDE DEF T, Fits
<1>3. \A z \in Seq(PlainNames) : z \in T
  BY <1>1, <1>2, InductionOver
<1>4. QED BY <1>3 DEF T, Fits

\* What is loaded as some fields, from any octets, can be stored.
WereRead(d, c, ns) ==
  /\ IsCursor(d) /\ d.octets = c.octets
  /\ d.ok => /\ c.ok /\ IsSave(d.save)
             /\ \A m \in Names : IF m \in ToSet(ns) THEN FieldWasRead(FieldNamed(m), d.save[m])
                                 ELSE d.save[m] = c.save[m]

\* Loading a list of fields from any octets either refuses or sets them to what
\* can be stored again, and no other field.
LEMMA LoadAllTyped ==
  ASSUME NEW c, IsCursor(c), c.ok => IsSave(c.save), Len(c.octets) < TooMany,
         NEW ns \in Seq(PlainNames)
  PROVE  WereRead(LoadAll(c, ListOf(ns)), c, ns)
<1>. DEFINE T == {ms \in Seq(PlainNames) : WereRead(LoadAll(c, ListOf(ms)), c, ms)}
<1>1. <<>> \in T
  <2>1. <<>> \in Seq(PlainNames) /\ ListOf(<<>>) = <<>> /\ ToSet(<<>>) = {}
    BY DEF ListOf, ToSet
  <2>2. LoadAll(c, <<>>) = c
    BY LoadAllNone
  <2>3. QED BY <2>1, <2>2, Zenon DEF WereRead
<1>2. ASSUME NEW ms \in Seq(PlainNames), NEW n \in PlainNames, ms \in T
      PROVE  Append(ms, n) \in T
  <2>. DEFINE e == Append(ms, n)
              f == FieldNamed(n)
              d == LoadAll(c, ListOf(ms))
              h == Load(d, f)
  <2>1. e \in Seq(PlainNames)
    OBVIOUS
  <2>2. ms \in Seq(AllNames) /\ n \in AllNames /\ n \in Names
    BY PlainIsName, Zenon DEF AllNames, Names
  <2>3. ListOf(e) = Append(ListOf(ms), f)
    BY <2>2, ListAppend, Zenon
  <2>5. LoadAll(c, ListOf(e)) = h
    <3>1. ListOf(ms) \in Seq(AllFieldsSet) /\ f \in AllFieldsSet
      BY <2>2, ListTyped, Zenon DEF AllFieldsSet
    <3>2. QED BY <2>3, <3>1, LoadAllMore
  <2>6. ToSet(e) = ToSet(ms) \cup {n}
    BY ToSetAppend
  <2>7. IsField(f) /\ f.name = n
    BY FieldNamedIs, NamesApart, Zenon
  <2>8. WereRead(d, c, ms)
    BY <1>2
  <2>. HIDE DEF d, f, e
  <2>9. /\ IsCursor(h) /\ h.octets = d.octets
        /\ h.ok => /\ d.ok
                   /\ \E v : /\ FieldWasRead(f, v)
                             /\ h.save = [d.save EXCEPT ![f.name] = v]
    <3>1. IsCursor(d) /\ Len(d.octets) < TooMany
      BY <2>8 DEF WereRead
    <3>2. QED BY <2>7, <3>1, LoadTyped, Zenon
  <2>. HIDE DEF h
  <2>10. ASSUME h.ok
         PROVE  /\ c.ok /\ IsSave(h.save)
                /\ \A m \in Names :
                     IF m \in ToSet(e) THEN FieldWasRead(FieldNamed(m), h.save[m])
                     ELSE h.save[m] = c.save[m]
    <3>1. PICK v : FieldWasRead(f, v) /\ h.save = [d.save EXCEPT ![n] = v]
      BY <2>7, <2>9, <2>10, Zenon
    <3>2. d.ok /\ c.ok /\ IsSave(d.save)
      BY <2>8, <2>9, <2>10, Zenon DEF WereRead
    <3>3. IsSave(h.save) /\ \A m \in Names : h.save[m] = IF m = n THEN v ELSE d.save[m]
      <4>. DEFINE t == [d.save EXCEPT ![n] = v]
      <4>1. SetTo(t, d.save, n, v)
        BY <2>2, <3>2, SaveExcept, Zenon
      <4>. HIDE DEF t
      <4>2. h.save = t
        BY <3>1 DEF t
      <4>3. QED BY <4>1, <4>2, Zenon DEF SetTo
    <3>4. \A m \in Names : IF m \in ToSet(ms) THEN FieldWasRead(FieldNamed(m), d.save[m])
                           ELSE d.save[m] = c.save[m]
      BY <2>8, <3>2, Zenon DEF WereRead
    <3>5. \A m : m \in ToSet(e) <=> m \in ToSet(ms) \/ m = n
      BY <2>6
    <3>6. QED BY <3>1, <3>2, <3>3, <3>4, <3>5, Zenon DEF f
  <2>11. h.octets = c.octets
    BY <2>8, <2>9, Zenon DEF WereRead
  <2>12. WereRead(h, c, e)
    BY <2>9, <2>10, <2>11, Zenon DEF WereRead
  <2>13. QED BY <2>1, <2>5, <2>12 DEF e
<1>. HIDE DEF T
<1>3. \A z \in Seq(PlainNames) : z \in T
  BY <1>1, <1>2, InductionOver
<1>4. QED BY <1>3 DEF T

\* What is left of the octets.
LEMMA LeftIs ==
  ASSUME NEW c, IsCursor(c)
  PROVE  /\ Left(c) \in Nat /\ c.pos \in Nat /\ Len(c.octets) \in Nat
         /\ c.pos + Left(c) = Len(c.octets)
BY DEF IsCursor, Value, Left

\* The octets in front of a cursor are at its place.
LEMMA RestAt ==
  ASSUME NEW c, IsCursor(c)
  PROVE  /\ Piece(c, 0, Left(c)) \in Value /\ Len(Piece(c, 0, Left(c))) = Left(c)
         /\ At(c.octets, c.pos, Piece(c, 0, Left(c)))
<1>. DEFINE x == Piece(c, 0, Left(c))
            n == Left(c)
<1>1. n \in Nat /\ c.pos \in Nat /\ Len(c.octets) \in Nat /\ c.pos + n = Len(c.octets)
  BY LeftIs, Zenon
<1>2. x \in Value /\ Len(x) = n
  BY <1>1, PieceTyped, SMT
<1>3. \A i \in 1..n : x[i] = c.octets[c.pos + i]
  <2>1. \A i \in 1..n : x[i] = IF 0 + i <= n THEN c.octets[c.pos + 0 + i] ELSE 0
    BY DEF Piece
  <2>. HIDE DEF x, n
  <2>2. QED BY <1>1, <2>1
<1>. HIDE DEF x, n
<1>4. At(c.octets, c.pos, x)
  BY <1>1, <1>2, <1>3 DEF At
<1>5. QED BY <1>2, <1>4 DEF x, n

\* The rest of a block as the one element it is, or nothing.
ChunkTaken(d, c) ==
  IF Left(c) = 0 THEN d = c
  ELSE /\ IsCursor(d) /\ d.octets = c.octets /\ d.ok = c.ok /\ d.pos = Len(c.octets)
       /\ d.save = [c.save EXCEPT !["data4"] = <<Piece(c, 0, Left(c))>>]

\* Loading the rest takes every octet that is left, if there is one.
LEMMA ChunkLoaded ==
  ASSUME NEW c, IsCursor(c)
  PROVE  ChunkTaken(Load(c, FieldNamed("data4")), c)
<1>. DEFINE f == FieldNamed("data4")
            n == CountAhead(c, "some")
            ks == FlattenSeq([i \in 1..n |-> <<"chunk">>])
            d == [c EXCEPT !.pos = @ + 0, !.got = <<>>]
            e == FoldLeft(LoadOne, d, ks)
            x == Piece(c, 0, Left(c))
<1>1. f.name = "data4" /\ f.count = "some" /\ f.kinds = <<"chunk">>
  BY FieldNamedIs DEF CountOf, KindsNamed
<1>2. CountWidth(c, "some") = 0
  BY DEF CountWidth
<1>3. n = IF Left(c) > 0 THEN 1 ELSE 0
  BY DEF CountAhead
<1>4. Left(c) \in Nat /\ c.pos \in Nat /\ Len(c.octets) \in Nat /\ c.pos + Left(c) = Len(c.octets)
  BY LeftIs, Zenon
<1>5. Load(c, f) = IF n = 0 THEN c ELSE [e EXCEPT !.save["data4"] = e.got]
  <2>. HIDE DEF n, f
  <2>1. Load(c, f) = IF 0 > Left(c) \/ (0 > 0 /\ n > Left(c) - 0) THEN Refused(c)
                     ELSE IF f.count = "some" /\ n = 0 THEN c
                     ELSE [e EXCEPT !.save[f.name] = e.got]
    BY <1>1, <1>2 DEF Load, n
  <2>. HIDE DEF e
  <2>2. ~(0 > Left(c)) /\ ~(0 > 0)
    BY <1>4
  <2>3. QED BY <1>1, <2>1, <2>2, Zenon
<1>6. CASE Left(c) = 0
  <2>. HIDE DEF e, n, f
  <2>1. n = 0
    BY <1>3, <1>6
  <2>2. Load(c, f) = c
    BY <1>5, <2>1
  <2>3. QED BY <1>6, <2>2 DEF ChunkTaken, f
<1>7. CASE Left(c) # 0
  <2>1. n = 1
    <3>. HIDE DEF n
    <3>1. QED BY <1>3, <1>4, <1>7
  <2>2. ks = <<"chunk">>
    <3>. DEFINE k == <<"chunk">>
    <3>1. [i \in 1..1 |-> k] = <<k>>
      OBVIOUS
    <3>2. FlattenSeq(<<k>>) = k
      <4>1. k \in Seq({"chunk"}) /\ <<>> \in Seq(Seq({"chunk"})) /\ <<k>> = Append(<<>>, k)
            /\ <<>> \o k = k
        OBVIOUS
      <4>. HIDE DEF k
      <4>2. FlattenSeq(Append(<<>>, k)) = FlattenSeq(<<>>) \o k
        BY <4>1, FlattenAppend, Zenon
      <4>3. QED BY <4>1, <4>2, FlattenEmpty
    <3>3. QED BY <2>1, <3>1, <3>2
  <2>3. d = Further(c, 0, <<>>)
    BY Edited, Zenon DEF Further
  <2>. HIDE DEF d, n
  <2>4. IsCursor(d) /\ d.octets = c.octets /\ d.save = c.save /\ d.ok = c.ok /\ d.got = <<>>
        /\ d.pos = c.pos
    <3>. DEFINE g == <<>>
    <3>1. g \in Seq(Value) /\ c.pos + 0 = c.pos /\ c.pos <= Len(c.octets) /\ 0 \in Nat
      BY <1>4
    <3>. HIDE DEF g
    <3>2. d = Further(c, 0, g)
      BY <2>3 DEF g
    <3>3. IsCursor(d)
      BY <3>1, <3>2, FurtherCursor
    <3>4. QED BY <3>1, <3>2, <3>3, FurtherIs DEF g
  <2>5. x \in Value /\ Len(x) = Left(c) /\ At(c.octets, c.pos, x)
    BY RestAt, Zenon
  <2>. HIDE DEF x
  <2>6. Storable("chunk", x) /\ Stored("chunk", x) = x /\ Norm("chunk", x) = x
    BY <2>5 DEF Storable, Stored, Norm
  <2>7. e = LoadOne(d, "chunk")
    <3>1. <<>> \in Seq({"chunk"}) /\ <<"chunk">> = Append(<<>>, "chunk")
      OBVIOUS
    <3>2. FoldLeft(LoadOne, d, Append(<<>>, "chunk")) = LoadOne(FoldLeft(LoadOne, d, <<>>), "chunk")
      BY ZenonT(40), <3>1, FoldMore
    <3>3. QED BY <2>2, <3>1, <3>2, FoldNone
  <2>8. LoadOne(d, "chunk") = Moved(d, Len(x), x)
    <3>1. At(d.octets, d.pos, Stored("chunk", x)) /\ d.pos + Len(x) = Len(d.octets)
      BY <1>4, <2>4, <2>5, <2>6
    <3>2. "chunk" \in Kinds \cup {"chunk"}
      OBVIOUS
    <3>3. LoadOne(d, "chunk") = Moved(d, Len(Stored("chunk", x)), Norm("chunk", x))
      BY <2>4, <2>6, <3>1, <3>2, LoadOneAt
    <3>4. QED BY <2>6, <3>3
  <2>9. Moved(d, Len(x), x) = Further(d, Len(x), <<x>>)
    <3>1. Moved(d, Len(x), x) = Further(d, Len(x), Append(d.got, x))
      BY <2>4, Edited, Zenon DEF Moved, Further
    <3>2. Append(d.got, x) = <<x>>
      BY <2>4
    <3>3. QED BY <3>1, <3>2
  <2>. DEFINE g == <<x>>
              r == Further(d, Len(x), g)
  <2>10. /\ IsCursor(r) /\ r.octets = c.octets /\ r.pos = Len(c.octets) /\ r.ok = c.ok /\ r.got = g
         /\ r.save = c.save
    <3>1. g \in Seq(Value) /\ Len(x) \in Nat /\ d.pos + Len(x) = Len(d.octets)
      BY <1>4, <2>4, <2>5
    <3>. HIDE DEF g, r
    <3>2. d.pos + Len(x) <= Len(d.octets)
      BY <1>4, <2>4, <3>1
    <3>3. IsCursor(r)
      BY <2>4, <3>1, <3>2, FurtherCursor DEF r
    <3>4. /\ r.octets = d.octets /\ r.pos = d.pos + Len(x) /\ r.ok = d.ok /\ r.got = g
          /\ r.save = d.save
      BY <2>4, <3>1, FurtherIs DEF r
    <3>5. QED BY <2>4, <3>1, <3>3, <3>4
  <2>11. e = r
    <3>. HIDE DEF e
    <3>1. QED BY <2>7, <2>8, <2>9
  <2>. HIDE DEF e, r, g
  <2>12. Load(c, f) = [r EXCEPT !.save["data4"] = g]
    BY <1>5, <2>1, <2>10, <2>11
  <2>. DEFINE nm == "data4"
              h == [r EXCEPT !.save[nm] = g]
  <2>13. IsSet(h, r, nm, g)
    <3>. HIDE DEF nm
    <3>1. QED BY <2>10, SaveSet, Zenon
  <2>. HIDE DEF h, f
  <2>14. ChunkTaken(h, c)
    BY <1>7, <2>10, <2>13, Zenon DEF ChunkTaken, IsSet, g, x
  <2>15. QED BY <2>12, <2>14 DEF h, f
<1>8. QED BY <1>6, <1>7

\* The rest of the weather that was stored at the end of a block is loaded as it
\* was.
LEMMA ChunkAt ==
  ASSUME NEW c, IsCursor(c), IsSave(c.save), c.save["data4"] = <<>>, NEW s, SomeOK(s["data4"]),
         At(c.octets, c.pos, Store(s, FieldNamed("data4"))),
         c.pos + Len(Store(s, FieldNamed("data4"))) = Len(c.octets)
  PROVE  /\ CameTo(Load(c, FieldNamed("data4")), c, Len(Store(s, FieldNamed("data4"))))
         /\ Gained(Load(c, FieldNamed("data4")).save, c.save, s, {"data4"})
<1>. DEFINE d == Load(c, FieldNamed("data4"))
            o == Store(s, FieldNamed("data4"))
<1>1. o = Rest(s["data4"]) /\ o \in Value /\ (s["data4"] = <<>> <=> Len(o) = 0)
  BY ChunkStored, Zenon
<1>2. ChunkTaken(d, c)
  BY ChunkLoaded, Zenon
<1>. HIDE DEF d, o
<1>3. Left(c) \in Nat /\ c.pos \in Nat /\ Len(c.octets) \in Nat /\ c.pos + Left(c) = Len(c.octets)
  BY LeftIs, Zenon
<1>4. c.pos + Len(o) = Len(c.octets) /\ At(c.octets, c.pos, o)
  BY DEF o
<1>5. Left(c) = Len(o) /\ Len(o) \in Nat
  BY <1>1, <1>3, <1>4 DEF Value
<1>6. New(s, "data4") = s["data4"] /\ "data4" \in Names
  BY NamesApart, Zenon DEF New, Names, AllNames
<1>7. CASE Left(c) = 0
  <2>1. d = c /\ s["data4"] = <<>>
    BY <1>1, <1>2, <1>5, <1>7 DEF ChunkTaken
  <2>2. CameTo(d, c, Len(o))
    BY <1>3, <1>5, <1>7, <2>1 DEF CameTo
  <2>3. Gained(d.save, c.save, s, {"data4"})
    BY <1>6, <2>1 DEF Gained
  <2>4. QED BY <2>2, <2>3 DEF d, o
<1>8. CASE Left(c) # 0
  <2>1. /\ IsCursor(d) /\ d.octets = c.octets /\ d.ok = c.ok /\ d.pos = Len(c.octets)
        /\ d.save = [c.save EXCEPT !["data4"] = <<Piece(c, 0, Left(c))>>]
    BY <1>2, <1>8, Zenon DEF ChunkTaken
  <2>2. Piece(c, 0, Left(c)) = o
    <3>1. At(c.octets, c.pos + 0, o) /\ 0 \in Nat
      BY <1>3, <1>4
    <3>2. Piece(c, 0, Len(o)) = o
      BY <1>1, <3>1, PieceAt, Zenon
    <3>3. QED BY <1>5, <3>2
  <2>3. <<o>> = s["data4"]
    <3>1. s["data4"] # <<>>
      BY <1>1, <1>5, <1>8
    <3>2. PICK x \in Value : x # <<>> /\ s["data4"] = <<x>>
      BY <3>1 DEF SomeOK
    <3>3. QED BY <1>1, <3>2 DEF Rest
  <2>4. SetTo([c.save EXCEPT !["data4"] = <<o>>], c.save, "data4", <<o>>)
    BY <1>6, SaveExcept, Zenon
  <2>5. SetTo(d.save, c.save, "data4", s["data4"])
    BY <2>1, <2>2, <2>3, <2>4
  <2>6. Gained(d.save, c.save, s, {"data4"})
    BY <1>6, <2>5 DEF Gained, SetTo
  <2>7. CameTo(d, c, Len(o))
    BY <1>4, <2>1 DEF CameTo
  <2>8. QED BY <2>6, <2>7 DEF d, o
<1>9. QED BY <1>7, <1>8

\* From any octets the rest is loaded as something that can be stored again.
LEMMA ChunkTyped ==
  ASSUME NEW c, IsCursor(c), c.ok => IsSave(c.save) /\ SomeOK(c.save["data4"])
  PROVE  LET d == Load(c, FieldNamed("data4"))
         IN  /\ IsCursor(d) /\ d.octets = c.octets
             /\ d.ok => /\ c.ok /\ IsSave(d.save) /\ SomeOK(d.save["data4"])
                        /\ \A m \in Names : m # "data4" => d.save[m] = c.save[m]
<1>. DEFINE d == Load(c, FieldNamed("data4"))
<1>1. ChunkTaken(d, c)
  BY ChunkLoaded, Zenon
<1>. HIDE DEF d
<1>2. CASE Left(c) = 0
  BY <1>1, <1>2 DEF ChunkTaken, d
<1>3. CASE Left(c) # 0
  <2>. DEFINE x == Piece(c, 0, Left(c))
  <2>1. /\ IsCursor(d) /\ d.octets = c.octets /\ d.ok = c.ok
        /\ d.save = [c.save EXCEPT !["data4"] = <<x>>]
    BY <1>1, <1>3, Zenon DEF ChunkTaken
  <2>2. x \in Value /\ Len(x) = Left(c)
    BY RestAt, Zenon
  <2>. HIDE DEF x
  <2>3. SomeOK(<<x>>)
    BY <1>3, <2>2 DEF SomeOK
  <2>4. "data4" \in Names
    BY Zenon DEF Names, AllNames
  <2>5. ASSUME d.ok
        PROVE  /\ c.ok /\ IsSave(d.save) /\ SomeOK(d.save["data4"])
               /\ \A m \in Names : m # "data4" => d.save[m] = c.save[m]
    <3>1. c.ok /\ IsSave(c.save)
      BY <2>1, <2>5
    <3>2. SetTo([c.save EXCEPT !["data4"] = <<x>>], c.save, "data4", <<x>>)
      BY <2>4, <3>1, SaveExcept, Zenon
    <3>3. SetTo(d.save, c.save, "data4", <<x>>)
      BY <2>1, <3>2
    <3>4. QED BY <2>3, <2>4, <3>1, <3>3, Zenon DEF SetTo
  <2>6. QED BY <2>1, <2>5 DEF d
<1>4. QED BY <1>2, <1>3
-----------------------------------------------------------------------------
(* Saves that were read. *)

Games == {"SKYRIM", "FALLOUT4"}

GlobalsOK(g) ==
  /\ g = [t \in ObjectTypes |-> g[t]]
  /\ \A t \in ObjectTypes : g[t] = <<>> \/ (t \notin Structured /\ \E x \in Value : g[t] = <<x>>)

FormWidth(form) == 2^(form.type \div 64)

FormOK(form) ==
  /\ form = [form_id |-> form.form_id, flags |-> form.flags, type |-> form.type,
             version |-> form.version, length2 |-> form.length2, data |-> form.data]
  /\ Storable("be24", form.form_id)
  /\ form.flags \in Value /\ Len(form.flags) = 4
  /\ form.type \in Octet /\ form.type < 192 /\ form.version \in Octet
  /\ form.length2 \in Value /\ Len(form.length2) = FormWidth(form)
  /\ form.data \in Value /\ Len(form.data) < Numbers(FormWidth(form))

FormsOK(forms) ==
  /\ forms \in Seq({forms[i] : i \in DOMAIN forms})
  /\ \A i \in 1..Len(forms) : FormOK(forms[i])

Sane(s) ==
  /\ IsSave(s) /\ Good(s) /\ s["game"] \in Games
  /\ s["snapshot_data"] \in Seq(Value) /\ GlobalsOK(s["globals"])
  /\ FormsOK(s["change_forms"])

\* A cursor the reader may be at, and one it may come to from there: a load that
\* succeeds changes nothing but the parts in Ch.
Ready(c) == IsCursor(c) /\ Len(c.octets) < TooMany /\ (c.ok => Sane(c.save))

Stage(d, c, Ch) ==
  /\ IsCursor(d) /\ Len(d.octets) < TooMany
  /\ d.ok => /\ c.ok /\ Sane(d.save)
             /\ \A m \in Names : m \notin Ch => d.save[m] = c.save[m]

\* A cursor after a stage is ready for the next.
LEMMA StageReady ==
  ASSUME NEW d, NEW c, NEW Ch, Stage(d, c, Ch)
  PROVE  Ready(d)
BY Zenon DEF Stage, Ready

\* Two stages in a row are a stage that may change what either may.
LEMMA StageMore ==
  ASSUME NEW e, NEW d, NEW c, NEW A, NEW B, Stage(d, c, A), Stage(e, d, B)
  PROVE  Stage(e, c, A \cup B)
<1>1. \A m : m \notin A \cup B => m \notin A /\ m \notin B
  OBVIOUS
<1>2. QED BY <1>1, Zenon DEF Stage

\* A stage that changes less may be said to change more.
LEMMA StageWider ==
  ASSUME NEW d, NEW c, NEW A, NEW B, Stage(d, c, A), A \subseteq B
  PROVE  Stage(d, c, B)
BY Zenon DEF Stage

\* Refusing is a stage.
LEMMA StageRefused ==
  ASSUME NEW c, Ready(c), NEW Ch
  PROVE  Stage(Refused(c), c, Ch)
<1>1. IsCursor(Refused(c)) /\ Refused(c).octets = c.octets /\ ~Refused(c).ok
  <2>1. IsCursor(c)
    BY DEF Ready
  <2>2. QED BY <2>1, RefusedIs
<1>2. QED BY <1>1, Zenon DEF Stage, Ready

\* What was read for a field can be stored.
LEMMA WasReadOK ==
  ASSUME NEW f, NEW v, FieldWasRead(f, v)
  PROVE  FieldOK(f, v)
BY Zenon DEF FieldWasRead

\* Some fields are loaded.
LEMMA FieldsStage ==
  ASSUME NEW c, Ready(c), NEW ns \in Seq(PlainNames)
  PROVE  /\ Stage(LoadAll(c, ListOf(ns)), c, ToSet(ns))
         /\ LoadAll(c, ListOf(ns)).ok =>
              \A n \in ToSet(ns) : FieldWasRead(FieldNamed(n), LoadAll(c, ListOf(ns)).save[n])
<1>. DEFINE d == LoadAll(c, ListOf(ns))
<1>1. IsCursor(c) /\ (c.ok => IsSave(c.save)) /\ Len(c.octets) < TooMany
  BY Zenon DEF Ready, Sane
<1>2. WereRead(d, c, ns)
  BY <1>1, LoadAllTyped, Zenon
<1>. HIDE DEF d
<1>3. ToSet(ns) \subseteq PlainNames
  <2>1. \A i \in DOMAIN ns : ns[i] \in PlainNames
    OBVIOUS
  <2>2. QED BY <2>1, Zenon DEF ToSet
<1>4. PlainNames \subseteq Names /\ OtherNames \subseteq Names /\ "data4" \in Names
  BY Zenon DEF Names, AllNames
<1>5. \A n \in PlainNames : n # "data4" /\ n \notin OtherNames
  BY NamesApart, Zenon DEF OtherNames
<1>6. ASSUME d.ok
      PROVE  /\ c.ok /\ Sane(d.save)
             /\ \A m \in Names : m \notin ToSet(ns) => d.save[m] = c.save[m]
             /\ \A n \in ToSet(ns) : FieldWasRead(FieldNamed(n), d.save[n])
  <2>1. /\ c.ok /\ IsSave(d.save)
        /\ \A m \in Names : IF m \in ToSet(ns) THEN FieldWasRead(FieldNamed(m), d.save[m])
                            ELSE d.save[m] = c.save[m]
    BY <1>2, <1>6, Zenon DEF WereRead
  <2>2. Sane(c.save)
    BY <2>1 DEF Ready
  <2>3. \A m \in Names : m \notin ToSet(ns) => d.save[m] = c.save[m]
    BY <2>1, Zenon
  <2>4. \A n \in ToSet(ns) : FieldWasRead(FieldNamed(n), d.save[n])
    BY <1>3, <1>4, <2>1, Zenon
  <2>5. Good(d.save)
    <3>1. \A n \in PlainNames : FieldOK(FieldNamed(n), d.save[n])
      <4>1. \A n \in PlainNames : FieldOK(FieldNamed(n), c.save[n])
        BY <2>2, Zenon DEF Sane, Good
      <4>2. QED BY <1>4, <2>3, <2>4, <4>1, WasReadOK, Zenon
    <3>2. d.save["data4"] = c.save["data4"]
      BY <1>3, <1>4, <1>5, <2>3, Zenon
    <3>3. QED BY <2>2, <3>1, <3>2, Zenon DEF Sane, Good
  <2>6. \A m \in OtherNames : d.save[m] = c.save[m]
    BY <1>3, <1>4, <1>5, <2>3, Zenon
  <2>7. /\ d.save["game"] = c.save["game"] /\ d.save["snapshot_data"] = c.save["snapshot_data"]
        /\ d.save["globals"] = c.save["globals"] /\ d.save["change_forms"] = c.save["change_forms"]
    BY <2>6 DEF OtherNames
  <2>8. Sane(d.save)
    BY <2>1, <2>2, <2>5, <2>7, Zenon DEF Sane
  <2>9. QED BY <2>1, <2>3, <2>4, <2>8
<1>7. IsCursor(d) /\ d.octets = c.octets
  BY <1>2, Zenon DEF WereRead
<1>8. Stage(d, c, ToSet(ns))
  BY <1>1, <1>6, <1>7, Zenon DEF Stage
<1>9. QED BY <1>6, <1>8, Zenon DEF d
-----------------------------------------------------------------------------
(* Edits of a cursor. *)

\* What the edits of several fields of a cursor leave as they were.
LEMMA Edits ==
  ASSUME NEW c, IsCursor(c)
  PROVE  /\ \A x, n : [c EXCEPT !.octets = x, !.pos = n] =
                [octets |-> x, pos |-> n, ok |-> c.ok, got |-> c.got, save |-> c.save]
         /\ \A n, k, s : [c EXCEPT !.pos = n, !.ok = k, !.save = s] =
                [octets |-> c.octets, pos |-> n, ok |-> k, got |-> c.got, save |-> s]
         /\ \A x, n, k : [c EXCEPT !.octets = x, !.pos = n, !.ok = k] =
                [octets |-> x, pos |-> n, ok |-> k, got |-> c.got, save |-> c.save]
         /\ \A v : [c EXCEPT !.got = v] =
                [octets |-> c.octets, pos |-> c.pos, ok |-> c.ok, got |-> v, save |-> c.save]
<1>1. PICK o, p, j, g, t : c = [octets |-> o, pos |-> p, ok |-> j, got |-> g, save |-> t]
  BY Zenon DEF IsCursor
<1>2. c.octets = o /\ c.pos = p /\ c.ok = j /\ c.got = g /\ c.save = t
  BY <1>1
<1>3. ASSUME NEW x, NEW n
      PROVE  [c EXCEPT !.octets = x, !.pos = n] =
                [octets |-> x, pos |-> n, ok |-> c.ok, got |-> c.got, save |-> c.save]
  <2>. DEFINE r == [octets |-> o, pos |-> p, ok |-> j, got |-> g, save |-> t]
              q1 == [octets |-> x, pos |-> p, ok |-> j, got |-> g, save |-> t]
              q2 == [octets |-> x, pos |-> n, ok |-> j, got |-> g, save |-> t]
  <2>1. [r EXCEPT !.octets = x] = q1
    OBVIOUS
  <2>2. [q1 EXCEPT !.pos = n] = q2
    OBVIOUS
  <2>. HIDE DEF r, q1, q2
  <2>3. [r EXCEPT !.octets = x, !.pos = n] = [[r EXCEPT !.octets = x] EXCEPT !.pos = n]
    OBVIOUS
  <2>4. [r EXCEPT !.octets = x, !.pos = n] = q2
    BY <2>1, <2>2, <2>3, Zenon
  <2>5. QED BY <1>1, <1>2, <2>4, Zenon DEF r, q2
<1>4. ASSUME NEW n, NEW k, NEW s
      PROVE  [c EXCEPT !.pos = n, !.ok = k, !.save = s] =
                [octets |-> c.octets, pos |-> n, ok |-> k, got |-> c.got, save |-> s]
  <2>. DEFINE r == [octets |-> o, pos |-> p, ok |-> j, got |-> g, save |-> t]
              q1 == [octets |-> o, pos |-> n, ok |-> j, got |-> g, save |-> t]
              q2 == [octets |-> o, pos |-> n, ok |-> k, got |-> g, save |-> t]
              q3 == [octets |-> o, pos |-> n, ok |-> k, got |-> g, save |-> s]
  <2>1. [r EXCEPT !.pos = n] = q1
    OBVIOUS
  <2>2. [q1 EXCEPT !.ok = k] = q2
    OBVIOUS
  <2>3. [q2 EXCEPT !.save = s] = q3
    OBVIOUS
  <2>. HIDE DEF r, q1, q2, q3
  <2>4. [r EXCEPT !.pos = n, !.ok = k, !.save = s] = [[[r EXCEPT !.pos = n] EXCEPT !.ok = k] EXCEPT !.save = s]
    OBVIOUS
  <2>5. [r EXCEPT !.pos = n, !.ok = k, !.save = s] = q3
    BY <2>1, <2>2, <2>3, <2>4, Zenon
  <2>6. QED BY <1>1, <1>2, <2>5, Zenon DEF r, q3
<1>5. ASSUME NEW x, NEW n, NEW k
      PROVE  [c EXCEPT !.octets = x, !.pos = n, !.ok = k] =
                [octets |-> x, pos |-> n, ok |-> k, got |-> c.got, save |-> c.save]
  <2>. DEFINE r == [octets |-> o, pos |-> p, ok |-> j, got |-> g, save |-> t]
              q1 == [octets |-> x, pos |-> p, ok |-> j, got |-> g, save |-> t]
              q2 == [octets |-> x, pos |-> n, ok |-> j, got |-> g, save |-> t]
              q3 == [octets |-> x, pos |-> n, ok |-> k, got |-> g, save |-> t]
  <2>1. [r EXCEPT !.octets = x] = q1
    OBVIOUS
  <2>2. [q1 EXCEPT !.pos = n] = q2
    OBVIOUS
  <2>3. [q2 EXCEPT !.ok = k] = q3
    OBVIOUS
  <2>. HIDE DEF r, q1, q2, q3
  <2>4. [r EXCEPT !.octets = x, !.pos = n, !.ok = k] = [[[r EXCEPT !.octets = x] EXCEPT !.pos = n] EXCEPT !.ok = k]
    OBVIOUS
  <2>5. [r EXCEPT !.octets = x, !.pos = n, !.ok = k] = q3
    BY <2>1, <2>2, <2>3, <2>4, Zenon
  <2>6. QED BY <1>1, <1>2, <2>5, Zenon DEF r, q3
<1>6. ASSUME NEW v
      PROVE  [c EXCEPT !.got = v] =
                [octets |-> c.octets, pos |-> c.pos, ok |-> c.ok, got |-> v, save |-> c.save]
  BY <1>1
<1>7. QED BY <1>3, <1>4, <1>5, <1>6, Zenon
-----------------------------------------------------------------------------
(* Blocks. *)

BlockOf(c, header, size) == [c EXCEPT !.octets = Piece(c, header, size), !.pos = 0]

InsideOf(c, header, size, block) ==
  IF ~c.ok \/ header + size > Left(c) THEN Refused(c)
  ELSE [c EXCEPT !.pos = @ + header + size, !.ok = block.ok, !.save = block.save]

\* The cursor of a block: its octets and no others, from the start.
LEMMA BlockIs ==
  ASSUME NEW c, IsCursor(c), NEW header \in Nat, NEW size \in Nat
  PROVE  /\ IsCursor(BlockOf(c, header, size))
         /\ BlockOf(c, header, size).octets = Piece(c, header, size)
         /\ Len(BlockOf(c, header, size).octets) = size
         /\ BlockOf(c, header, size).pos = 0
         /\ BlockOf(c, header, size).ok = c.ok /\ BlockOf(c, header, size).save = c.save
<1>. DEFINE x == Piece(c, header, size)
            d == BlockOf(c, header, size)
<1>1. x \in Value /\ Len(x) = size
  BY PieceTyped, SMT
<1>2. d = [octets |-> x, pos |-> 0, ok |-> c.ok, got |-> c.got, save |-> c.save]
  <2>. HIDE DEF x
  <2>1. d = [c EXCEPT !.octets = x, !.pos = 0]
    BY Zenon DEF BlockOf, x
  <2>. HIDE DEF d
  <2>2. QED BY <2>1, Edits, Zenon
<1>. HIDE DEF x, d
<1>3. d.octets = x /\ d.pos = 0 /\ d.ok = c.ok /\ d.got = c.got /\ d.save = c.save
  BY <1>2
<1>4. 0 \in Nat /\ 0 <= Len(x)
  BY <1>1
<1>5. IsCursor(d)
  BY <1>1, <1>2, <1>3, <1>4, Zenon DEF IsCursor
<1>6. QED BY <1>1, <1>3, <1>5, Zenon DEF x, d

\* A cursor behind a block.
IsBehind(d, c, n, block) ==
  /\ IsCursor(d) /\ d.octets = c.octets /\ d.pos = c.pos + n
  /\ d.ok = block.ok /\ d.save = block.save

\* After a block the cursor is behind it, with the save the block's handler left.
LEMMA InsideIs ==
  ASSUME NEW c, IsCursor(c), c.ok, NEW header \in Nat, NEW size \in Nat, NEW block,
         IsCursor(block), header + size <= Left(c)
  PROVE  IsBehind(InsideOf(c, header, size, block), c, header + size, block)
<1>. DEFINE d == InsideOf(c, header, size, block)
            n == header + size
            to == c.pos + header + size
            k == block.ok
            s == block.save
<1>1. Left(c) \in Nat /\ c.pos \in Nat /\ Len(c.octets) \in Nat /\ c.pos + Left(c) = Len(c.octets)
  BY LeftIs, Zenon
<1>2. n \in Nat /\ to = c.pos + n /\ to \in Nat /\ to <= Len(c.octets) /\ ~(header + size > Left(c))
  BY <1>1
<1>3. d = [c EXCEPT !.pos = to, !.ok = k, !.save = s]
  BY <1>2 DEF InsideOf
<1>. HIDE DEF to, k, s, n
<1>4. d = [octets |-> c.octets, pos |-> to, ok |-> k, got |-> c.got, save |-> s]
  BY <1>3, Edits, ZenonT(40)
<1>. HIDE DEF d
<1>5. d.octets = c.octets /\ d.pos = to /\ d.ok = k /\ d.got = c.got /\ d.save = s
  BY <1>4
<1>6. k \in BOOLEAN /\ c.octets \in Value /\ c.got \in Seq(Value)
  BY Zenon DEF IsCursor, k
<1>7. IsCursor(d)
  BY <1>2, <1>4, <1>5, <1>6, Zenon DEF IsCursor
<1>8. QED BY <1>2, <1>5, <1>7, Zenon DEF IsBehind, d, k, s, n

\* Reading a block is a stage if its handler is one.
LEMMA InsideStage ==
  ASSUME NEW c, Ready(c), NEW header \in Nat, NEW size \in Nat, NEW block, NEW Ch,
         header + size <= Left(c) => Stage(block, BlockOf(c, header, size), Ch)
  PROVE  Stage(InsideOf(c, header, size, block), c, Ch)
<1>. DEFINE d == InsideOf(c, header, size, block)
<1>0. IsCursor(c) /\ Len(c.octets) < TooMany
  BY Zenon DEF Ready
<1>1. CASE ~c.ok \/ header + size > Left(c)
  <2>1. d = Refused(c)
    BY <1>1, Zenon DEF InsideOf
  <2>2. QED BY <2>1, StageRefused, Zenon
<1>2. CASE ~(~c.ok \/ header + size > Left(c))
  <2>0. c.ok /\ header + size <= Left(c)
    <3>1. Left(c) \in Nat
      BY <1>0, LeftIs, Zenon
    <3>2. QED BY <1>2, <3>1
  <2>1. Stage(block, BlockOf(c, header, size), Ch)
    BY <2>0
  <2>2. IsCursor(block)
    BY <2>1, Zenon DEF Stage
  <2>3. IsBehind(d, c, header + size, block)
    BY <1>0, <2>0, <2>2, InsideIs, Zenon
  <2>4. BlockOf(c, header, size).ok = c.ok /\ BlockOf(c, header, size).save = c.save
    BY <1>0, BlockIs, Zenon
  <2>. HIDE DEF d
  <2>5. QED BY <1>0, <2>1, <2>3, <2>4, Zenon DEF Stage, IsBehind, d
<1>3. QED BY <1>1, <1>2

\* The block is what was stored.
LEMMA BlockAt ==
  ASSUME NEW c, IsCursor(c), NEW header \in Nat, NEW o \in Value,
         At(c.octets, c.pos + header, o)
  PROVE  /\ header + Len(o) <= Left(c) /\ Len(o) \in Nat
         /\ IsCursor(BlockOf(c, header, Len(o)))
         /\ BlockOf(c, header, Len(o)).octets = o
         /\ BlockOf(c, header, Len(o)).pos = 0
         /\ BlockOf(c, header, Len(o)).ok = c.ok /\ BlockOf(c, header, Len(o)).save = c.save
<1>1. Piece(c, header, Len(o)) = o /\ header + Len(o) <= Left(c)
  BY PieceAt, Zenon
<1>2. Len(o) \in Nat
  BY DEF Value
<1>3. QED BY <1>1, <1>2, BlockIs
-----------------------------------------------------------------------------
(* The sets of the names in the lists. *)

\* The sets of short tuples.
LEMMA TupleSet ==
  /\ \A a : ToSet(<<a>>) = {a}
  /\ \A a, b : ToSet(<<a, b>>) = {a, b}
  /\ \A a, b, c : ToSet(<<a, b, c>>) = {a, b, c}
  /\ \A a, b, c, d : ToSet(<<a, b, c, d>>) = {a, b, c, d}
  /\ \A a, b, c, d, e : ToSet(<<a, b, c, d, e>>) = {a, b, c, d, e}
  /\ \A a, b, c, d, e, f : ToSet(<<a, b, c, d, e, f>>) = {a, b, c, d, e, f}
  /\ ToSet(<<>>) = {}
BY DEF ToSet

\* The sets of two and three lists in a row.
LEMMA JoinedSet ==
  ASSUME NEW a \in Seq(PlainNames), NEW b \in Seq(PlainNames), NEW d \in Seq(PlainNames)
  PROVE  /\ ToSet(a \o b) = ToSet(a) \cup ToSet(b)
         /\ ToSet((a \o b) \o d) = ToSet(a) \cup ToSet(b) \cup ToSet(d)
<1>1. \A x : x \in ToSet(a \o b) <=> x \in ToSet(a) \/ x \in ToSet(b)
  BY ToSetConcat, Zenon
<1>2. a \o b \in Seq(PlainNames)
  BY PlainConcat, Zenon
<1>3. \A x : x \in ToSet((a \o b) \o d) <=> x \in ToSet(a \o b) \/ x \in ToSet(d)
  BY <1>2, ToSetConcat, ZenonT(40)
<1>4. QED BY <1>1, <1>3

HeaderSet ==
  {"file_version", "save_num", "player_name", "level", "player_location_name", "game_time",
   "race_id", "sex", "current_xp", "target_xp", "filetime", "snapshot_width", "snapshot_height"}
LocationSet == {"next_object_id", "world_space1", "coord_x", "coord_y", "world_space2", "pos_x",
                "pos_y", "pos_z"}
WeatherSet ==
  {"climate", "weather", "prev_weather", "unk_weather1", "unk_weather2", "regn_weather",
   "current_time", "begin_time", "weather_pct", "data1", "data2", "data3", "flags"}
MoreOf(game, g, n) == IF game = g THEN {n} ELSE {}
TailSet == {"form_ids", "world_spaces", "unknown3"}

\* The names of the fields of the blocks that are structured.
BlockSet(game) ==
  LocationSet \cup MoreOf(game, "SKYRIM", "unknown") \cup WeatherSet
  \cup {"misc_stats", "global_vars", "favourites", "hotkeys"}

\* The names in the file header.
LEMMA HeaderSetIs == ToSet(HeaderNames) = HeaderSet
<1>. DEFINE a == <<"file_version", "save_num", "player_name", "level">>
            b == <<"player_location_name", "game_time", "race_id">>
            d == <<"sex", "current_xp", "target_xp", "filetime", "snapshot_width",
                   "snapshot_height">>
<1>1. a \in Seq(PlainNames) /\ b \in Seq(PlainNames) /\ d \in Seq(PlainNames)
  BY NamesTyped, Zenon
<1>2. HeaderNames = (a \o b) \o d
  BY Zenon DEF HeaderNames
<1>3. /\ ToSet(a) = {"file_version", "save_num", "player_name", "level"}
      /\ ToSet(b) = {"player_location_name", "game_time", "race_id"}
      /\ ToSet(d) = {"sex", "current_xp", "target_xp", "filetime", "snapshot_width",
                     "snapshot_height"}
  BY TupleSet
<1>. HIDE DEF a, b, d
<1>4. ToSet(HeaderNames) = ToSet(a) \cup ToSet(b) \cup ToSet(d)
  BY <1>1, <1>2, JoinedSet
<1>5. QED BY <1>3, <1>4 DEF HeaderSet

\* The names in the player location: unknown only for Skyrim.
LEMMA LocationSetIs ==
  ASSUME NEW game
  PROVE  ToSet(LocationNames(game)) = LocationSet \cup MoreOf(game, "SKYRIM", "unknown")
<1>. DEFINE a == <<"next_object_id", "world_space1", "coord_x", "coord_y", "world_space2">>
            b == <<"pos_x", "pos_y", "pos_z">>
            d == IF game = "SKYRIM" THEN <<"unknown">> ELSE <<>>
<1>1. a \in Seq(PlainNames) /\ b \in Seq(PlainNames) /\ d \in Seq(PlainNames)
  BY NamesTyped, Zenon
<1>2. LocationNames(game) = (a \o b) \o d
  BY Zenon DEF LocationNames
<1>3. /\ ToSet(a) = {"next_object_id", "world_space1", "coord_x", "coord_y", "world_space2"}
      /\ ToSet(b) = {"pos_x", "pos_y", "pos_z"}
      /\ ToSet(d) = MoreOf(game, "SKYRIM", "unknown")
  <2>1. ToSet(a) = {"next_object_id", "world_space1", "coord_x", "coord_y", "world_space2"}
    BY TupleSet
  <2>2. ToSet(b) = {"pos_x", "pos_y", "pos_z"}
    BY TupleSet
  <2>3. ToSet(<<"unknown">>) = {"unknown"} /\ ToSet(<<>>) = {}
    BY TupleSet
  <2>. HIDE DEF a, b
  <2>4. QED BY <2>1, <2>2, <2>3, Zenon DEF MoreOf
<1>. HIDE DEF a, b, d
<1>4. ToSet(LocationNames(game)) = ToSet(a) \cup ToSet(b) \cup ToSet(d)
  BY <1>1, <1>2, JoinedSet
<1>5. QED BY <1>3, <1>4 DEF LocationSet

\* The names in the weather.
LEMMA WeatherSetIs == ToSet(WeatherNames) = WeatherSet
<1>. DEFINE a == <<"climate", "weather", "prev_weather", "unk_weather1", "unk_weather2",
                   "regn_weather">>
            b == <<"current_time", "begin_time", "weather_pct">>
            d == <<"data1", "data2", "data3", "flags">>
<1>1. a \in Seq(PlainNames) /\ b \in Seq(PlainNames) /\ d \in Seq(PlainNames)
  BY NamesTyped, Zenon
<1>2. WeatherNames = (a \o b) \o d
  BY Zenon DEF WeatherNames
<1>3. /\ ToSet(a) = {"climate", "weather", "prev_weather", "unk_weather1", "unk_weather2",
                     "regn_weather"}
      /\ ToSet(b) = {"current_time", "begin_time", "weather_pct"}
      /\ ToSet(d) = {"data1", "data2", "data3", "flags"}
  BY TupleSet
<1>. HIDE DEF a, b, d
<1>4. ToSet(WeatherNames) = ToSet(a) \cup ToSet(b) \cup ToSet(d)
  BY <1>1, <1>2, JoinedSet
<1>5. QED BY <1>3, <1>4 DEF WeatherSet

\* The names in front of the plugins: game_version only for Fallout 4.
LEMMA VersionSetIs ==
  ASSUME NEW game
  PROVE  ToSet(VersionNames(game)) = {"form_version"} \cup MoreOf(game, "FALLOUT4", "game_version")
<1>. DEFINE a == <<"form_version">>
            b == IF game = "FALLOUT4" THEN <<"game_version">> ELSE <<>>
<1>1. a \in Seq(PlainNames) /\ b \in Seq(PlainNames)
  BY NamesTyped, Zenon
<1>2. VersionNames(game) = a \o b
  BY Zenon DEF VersionNames
<1>3. ToSet(a) = {"form_version"} /\ ToSet(b) = MoreOf(game, "FALLOUT4", "game_version")
  BY TupleSet DEF MoreOf
<1>. HIDE DEF a, b
<1>4. ToSet(VersionNames(game)) = ToSet(a) \cup ToSet(b)
  BY <1>1, <1>2, JoinedSet
<1>5. QED BY <1>3, <1>4

\* The names behind the change forms.
LEMMA TailSetIs == ToSet(TailNames) = TailSet
BY TupleSet DEF TailNames, TailSet

\* The names in a structured block are among those a body may set.
LEMMA GlobalSetIs ==
  ASSUME NEW game, NEW t \in Structured
  PROVE  ToSet(GlobalNames(t, game)) \subseteq BlockSet(game)
<1>1. CASE t = PLAYER_LOCATION
  <2>1. t # MISC_STATS
    BY <1>1 DEF PLAYER_LOCATION, MISC_STATS
  <2>2. GlobalNames(t, game) = LocationNames(game)
    BY <1>1, <2>1, Zenon DEF GlobalNames
  <2>3. QED BY <2>2, LocationSetIs DEF BlockSet
<1>2. CASE t = WEATHER
  <2>1. t # MISC_STATS /\ t # PLAYER_LOCATION /\ t # GLOBAL_VARIABLES
    BY <1>2 DEF PLAYER_LOCATION, MISC_STATS, GLOBAL_VARIABLES, WEATHER
  <2>2. GlobalNames(t, game) = WeatherNames
    BY <1>2, <2>1, Zenon DEF GlobalNames
  <2>3. QED BY <2>2, WeatherSetIs DEF BlockSet
<1>3. CASE t # PLAYER_LOCATION /\ t # WEATHER
  <2>1. GlobalNames(t, game) \in {<<"misc_stats">>, <<"global_vars">>, <<"favourites", "hotkeys">>}
    BY <1>3, Zenon DEF GlobalNames
  <2>2. ToSet(GlobalNames(t, game)) \in {{"misc_stats"}, {"global_vars"}, {"favourites", "hotkeys"}}
    BY <2>1, TupleSet
  <2>3. QED BY <2>2 DEF BlockSet
<1>4. QED BY <1>1, <1>2, <1>3
-----------------------------------------------------------------------------
(* Fields of one element. *)

\* A field without a count has one element.
LEMMA OneIs ==
  ASSUME NEW n \in PlainNames, CountOf(n) = "one", NEW kind, KindsNamed(n) = <<kind>>,
         NEW v, FieldOK(FieldNamed(n), v)
  PROVE  /\ v \in Seq(Value) /\ Len(v) = 1 /\ Storable(kind, v[1])
         /\ FieldWasRead(FieldNamed(n), v) => WasRead(kind, v[1])
<1>1. FieldNamed(n).count = "one" /\ FieldNamed(n).kinds = <<kind>>
  BY FieldNamedIs, Zenon
<1>2. PICK k \in Nat : /\ CountOK("one", k) /\ Len(v) = k * Len(<<kind>>) /\ v \in Seq(Value)
                       /\ \A i \in 1..Len(v) : Storable(Cycle(<<kind>>, i), v[i])
  BY <1>1, Zenon DEF FieldOK
<1>3. k = 1 /\ Len(<<kind>>) = 1
  BY <1>2 DEF CountOK
<1>4. Len(v) = 1 /\ 1 \in 1..Len(v)
  BY <1>2, <1>3
<1>5. Cycle(<<kind>>, 1) = kind
  BY DEF Cycle
<1>6. FieldWasRead(FieldNamed(n), v) => WasRead(kind, v[1])
  BY <1>1, <1>4, <1>5, Zenon DEF FieldWasRead
<1>7. QED BY <1>2, <1>4, <1>5, <1>6, Zenon

\* The fields without a count that decide the format, and their kinds.
LEMMA OnesAre ==
  /\ \A n \in {"file_version", "snapshot_width", "snapshot_height"} :
        n \in PlainNames /\ CountOf(n) = "one" /\ KindsNamed(n) = <<"le32">>
  /\ \A n \in {"player_name", "race_id"} :
        n \in PlainNames /\ CountOf(n) = "one" /\ KindsNamed(n) = <<"str">>
  /\ "compressor" \in PlainNames /\ CountOf("compressor") = "one"
  /\ KindsNamed("compressor") = <<"le16">>
  /\ "form_version" \in PlainNames /\ CountOf("form_version") = "one"
  /\ KindsNamed("form_version") = <<"u8">>
<1>1. \A n \in {"file_version", "snapshot_width", "snapshot_height", "player_name", "race_id",
               "compressor", "form_version"} : n \in PlainNames /\ CountOf(n) = "one"
  BY DEF PlainNames, CountOf
<1>2. \A n \in {"file_version", "snapshot_width", "snapshot_height"} : KindsNamed(n) = <<"le32">>
  BY DEF KindsNamed
<1>3. \A n \in {"player_name", "race_id"} : KindsNamed(n) = <<"str">>
  BY DEF KindsNamed
<1>4. KindsNamed("compressor") = <<"le16">> /\ KindsNamed("form_version") = <<"u8">>
  BY DEF KindsNamed
<1>5. QED BY <1>1, <1>2, <1>3, <1>4, Zenon

\* The numbers that decide what else there is.
LEMMA NumbersOf ==
  ASSUME NEW s, Good(s)
  PROVE  /\ \A n \in {"file_version", "snapshot_width", "snapshot_height", "compressor",
                      "form_version"} :
              /\ Len(s[n]) = 1 /\ s[n][1] \in Value
              /\ Number(s[n][1]) \in Nat /\ Number(s[n][1]) <= TooMany
         /\ Len(s["file_version"][1]) = 4 /\ Len(s["compressor"][1]) = 2
         /\ Len(s["snapshot_width"][1]) = 4 /\ Len(s["snapshot_height"][1]) = 4
         /\ Len(s["form_version"][1]) = 1
<1>1. \A n \in PlainNames : FieldOK(FieldNamed(n), s[n])
  BY Zenon DEF Good
<1>2. ASSUME NEW n \in {"file_version", "snapshot_width", "snapshot_height"}
      PROVE  /\ Len(s[n]) = 1 /\ s[n][1] \in Value /\ Len(s[n][1]) = 4
             /\ Number(s[n][1]) \in Nat /\ Number(s[n][1]) <= TooMany
  <2>1. n \in PlainNames /\ CountOf(n) = "one" /\ KindsNamed(n) = <<"le32">>
    BY OnesAre, Zenon
  <2>2. Len(s[n]) = 1 /\ Storable("le32", s[n][1])
    BY <1>1, <2>1, OneIs
  <2>3. s[n][1] \in Value /\ Len(s[n][1]) = 4
    BY <2>2, WidthIs DEF Storable
  <2>4. QED BY <2>2, <2>3, Range4, Zenon
<1>3. /\ Len(s["compressor"]) = 1 /\ s["compressor"][1] \in Value /\ Len(s["compressor"][1]) = 2
      /\ Number(s["compressor"][1]) \in Nat /\ Number(s["compressor"][1]) <= TooMany
  <2>. DEFINE n == "compressor"
  <2>1. n \in PlainNames /\ CountOf(n) = "one" /\ KindsNamed(n) = <<"le16">>
    BY OnesAre, Zenon
  <2>. HIDE DEF n
  <2>2. Len(s[n]) = 1 /\ Storable("le16", s[n][1])
    BY <1>1, <2>1, OneIs
  <2>3. s[n][1] \in Value /\ Len(s[n][1]) = 2
    BY <2>2, WidthIs DEF Storable
  <2>4. Number(s[n][1]) \in Nat /\ Number(s[n][1]) <= TooMany
    BY <2>3, Range2, Zenon
  <2>5. QED BY <2>2, <2>3, <2>4 DEF n
<1>4. /\ Len(s["form_version"]) = 1 /\ s["form_version"][1] \in Value
      /\ Len(s["form_version"][1]) = 1
      /\ Number(s["form_version"][1]) \in Nat /\ Number(s["form_version"][1]) <= TooMany
  <2>. DEFINE n == "form_version"
  <2>1. n \in PlainNames /\ CountOf(n) = "one" /\ KindsNamed(n) = <<"u8">>
    BY OnesAre, Zenon
  <2>. HIDE DEF n
  <2>2. Len(s[n]) = 1 /\ Storable("u8", s[n][1])
    BY <1>1, <2>1, OneIs
  <2>3. s[n][1] \in Value /\ Len(s[n][1]) = 1
    BY <2>2, WidthIs DEF Storable
  <2>4. Number(s[n][1]) \in Nat /\ Number(s[n][1]) <= TooMany
    BY <2>3, Range1, Zenon
  <2>5. QED BY <2>2, <2>3, <2>4 DEF n
<1>5. QED BY <1>2, <1>3, <1>4, Zenon
-----------------------------------------------------------------------------
(* What the parts of a file are read as, from any octets. *)

\* What is known of a save once its header has been read.
HeaderRead(s, compressor) ==
  /\ \A n \in HeaderSet : FieldWasRead(FieldNamed(n), s[n])
  /\ IF supports_save_file_compression(s) THEN Number(s["compressor"][1]) <= 2
     ELSE s["compressor"] = compressor

\* The file header is read, from any octets, as what can be stored again.
LEMMA HeaderStage ==
  ASSUME NEW c, Ready(c)
  PROVE  /\ Stage(file_header(c), c, HeaderSet \cup {"compressor"})
         /\ file_header(c).ok => HeaderRead(file_header(c).save, c.save["compressor"])
<1>. DEFINE fixed == LoadAll(c, FileHeaderLoads)
            full == LoadAll(fixed, CompressorLoads)
            d == file_header(c)
<1>0. /\ HeaderSet \subseteq Names /\ "compressor" \in Names /\ "file_version" \in Names
      /\ "game" \in Names /\ "file_version" # "compressor" /\ "game" # "compressor"
      /\ \A n \in HeaderSet : n # "compressor"
  BY ZenonT(40) DEF HeaderSet, Names, AllNames, PlainNames, OtherNames
<1>1. /\ Stage(fixed, c, HeaderSet)
      /\ fixed.ok => \A n \in HeaderSet : FieldWasRead(FieldNamed(n), fixed.save[n])
  <2>1. HeaderNames \in Seq(PlainNames) /\ fixed = LoadAll(c, ListOf(HeaderNames))
    BY HeaderList, Zenon
  <2>. HIDE DEF fixed
  <2>2. QED BY <2>1, FieldsStage, HeaderSetIs
<1>2. fixed.ok => fixed.save["compressor"] = c.save["compressor"]
  <2>. HIDE DEF fixed
  <2>1. QED BY <1>0, <1>1, Zenon DEF Stage
<1>3. Stage(full, fixed, {"compressor"})
  <2>1. <<"compressor">> \in Seq(PlainNames) /\ full = LoadAll(fixed, ListOf(<<"compressor">>))
    BY NamesTyped, OtherParts, Zenon
  <2>. HIDE DEF full, fixed
  <2>2. Ready(fixed)
    BY <1>1, StageReady, Zenon
  <2>3. Stage(full, fixed, ToSet(<<"compressor">>))
    BY <2>1, <2>2, FieldsStage
  <2>4. QED BY <2>3, TupleSet
<1>4. d = IF ~fixed.ok \/ ~supports_save_file_compression(fixed.save) THEN fixed
          ELSE IF Number(full.save["compressor"][1]) > 2 THEN Refused(full) ELSE full
  BY DEF file_header
<1>. HIDE DEF fixed, full, d
<1>5. CASE ~fixed.ok \/ ~supports_save_file_compression(fixed.save)
  <2>1. d = fixed
    BY <1>4, <1>5, Zenon
  <2>2. Stage(d, c, HeaderSet \cup {"compressor"})
    BY <1>1, <2>1, StageWider
  <2>3. d.ok => HeaderRead(d.save, c.save["compressor"])
    BY <1>1, <1>2, <1>5, <2>1, Zenon DEF HeaderRead
  <2>4. QED BY <2>2, <2>3, Zenon DEF d
<1>6. CASE ~(~fixed.ok \/ ~supports_save_file_compression(fixed.save))
           /\ Number(full.save["compressor"][1]) > 2
  <2>1. d = Refused(full)
    BY <1>4, <1>6, Zenon
  <2>2. Ready(full) /\ Stage(full, c, HeaderSet \cup {"compressor"})
    BY <1>1, <1>3, StageReady, StageMore
  <2>3. Stage(d, full, {})
    BY <2>1, <2>2, StageRefused
  <2>4. Stage(d, c, (HeaderSet \cup {"compressor"}) \cup {})
    BY <2>2, <2>3, StageMore
  <2>5. (HeaderSet \cup {"compressor"}) \cup {} = HeaderSet \cup {"compressor"}
    OBVIOUS
  <2>6. ~d.ok
    <3>1. IsCursor(full)
      BY <2>2, Zenon DEF Ready
    <3>2. QED BY <2>1, <3>1, RefusedIs
  <2>7. QED BY <2>4, <2>5, <2>6 DEF d
<1>7. CASE ~(~fixed.ok \/ ~supports_save_file_compression(fixed.save))
           /\ ~(Number(full.save["compressor"][1]) > 2)
  <2>1. d = full
    BY <1>4, <1>7, Zenon
  <2>2. Stage(d, c, HeaderSet \cup {"compressor"})
    BY <1>1, <1>3, <2>1, StageMore
  <2>3. ASSUME d.ok PROVE HeaderRead(d.save, c.save["compressor"])
    <3>1. \A m \in Names : m # "compressor" => d.save[m] = fixed.save[m]
      BY <1>3, <2>1, <2>3 DEF Stage
    <3>2. d.save["game"] = fixed.save["game"] /\ d.save["file_version"] = fixed.save["file_version"]
      BY <1>0, <3>1
    <3>3. supports_save_file_compression(d.save)
      BY <1>7, <3>2 DEF supports_save_file_compression
    <3>4. \A n \in HeaderSet : FieldWasRead(FieldNamed(n), d.save[n])
      BY <1>0, <1>1, <1>7, <3>1, Zenon
    <3>5. Number(d.save["compressor"][1]) <= 2
      <4>1. Sane(d.save)
        BY <2>2, <2>3, Zenon DEF Stage
      <4>2. Number(d.save["compressor"][1]) \in Nat
        BY <4>1, NumbersOf, Zenon DEF Sane
      <4>3. QED BY <1>7, <2>1, <4>2
    <3>6. QED BY <3>3, <3>4, <3>5, Zenon DEF HeaderRead
  <2>4. QED BY <2>2, <2>3, Zenon DEF d
<1>8. QED BY <1>5, <1>6, <1>7

\* A save stays sane when a part of it that is no plain field is replaced.
LEMMA SaneSet ==
  ASSUME NEW s, Sane(s), NEW m \in {"data4", "snapshot_data", "globals", "change_forms"}, NEW v,
         NEW t, SetTo(t, s, m, v),
         m = "data4" => SomeOK(v), m = "snapshot_data" => v \in Seq(Value),
         m = "globals" => GlobalsOK(v), m = "change_forms" => FormsOK(v)
  PROVE  Sane(t)
<1>1. /\ PlainNames \subseteq Names /\ "data4" \in Names /\ "game" \in Names
      /\ "snapshot_data" \in Names /\ "globals" \in Names /\ "change_forms" \in Names
  BY Zenon DEF Names, AllNames, OtherNames
<1>2. IsSave(t) /\ \A n \in Names : t[n] = IF n = m THEN v ELSE s[n]
  BY Zenon DEF SetTo
<1>3. \A n \in PlainNames : t[n] = s[n]
  BY <1>1, <1>2, NamesApart
<1>4. t["game"] = s["game"]
  BY <1>1, <1>2
<1>5. SomeOK(t["data4"])
  <2>1. SomeOK(s["data4"])
    BY Zenon DEF Sane, Good
  <2>2. CASE m = "data4"
    BY <1>1, <1>2, <2>2
  <2>3. CASE m # "data4"
    BY <1>1, <1>2, <2>1, <2>3
  <2>4. QED BY <2>2, <2>3
<1>6. t["snapshot_data"] \in Seq(Value)
  <2>1. s["snapshot_data"] \in Seq(Value)
    BY Zenon DEF Sane
  <2>2. CASE m = "snapshot_data"
    BY <1>1, <1>2, <2>2
  <2>3. CASE m # "snapshot_data"
    BY <1>1, <1>2, <2>1, <2>3
  <2>4. QED BY <2>2, <2>3
<1>7. GlobalsOK(t["globals"])
  <2>1. GlobalsOK(s["globals"])
    BY Zenon DEF Sane
  <2>2. CASE m = "globals"
    BY <1>1, <1>2, <2>2
  <2>3. CASE m # "globals"
    BY <1>1, <1>2, <2>1, <2>3
  <2>4. QED BY <2>2, <2>3
<1>8. FormsOK(t["change_forms"])
  <2>1. FormsOK(s["change_forms"])
    BY Zenon DEF Sane
  <2>2. CASE m = "change_forms"
    BY <1>1, <1>2, <2>2
  <2>3. CASE m # "change_forms"
    BY <1>1, <1>2, <2>1, <2>3
  <2>4. QED BY <2>2, <2>3
<1>9. Good(t) /\ t["game"] \in Games
  BY <1>3, <1>4, <1>5, Zenon DEF Sane, Good
<1>10. QED BY <1>2, <1>6, <1>7, <1>8, <1>9, Zenon DEF Sane

\* The cursor went on, and of its save one such part was replaced.
LEMMA SetStage ==
  ASSUME NEW c, Ready(c), NEW m \in {"data4", "snapshot_data", "globals", "change_forms"}, NEW v,
         NEW d, IsCursor(d), d.octets = c.octets, d.ok => c.ok /\ d.save = [c.save EXCEPT ![m] = v],
         d.ok => (m = "data4" => SomeOK(v)), d.ok => (m = "snapshot_data" => v \in Seq(Value)),
         d.ok => (m = "globals" => GlobalsOK(v)), d.ok => (m = "change_forms" => FormsOK(v))
  PROVE  Stage(d, c, {m})
<1>1. Len(d.octets) < TooMany
  BY DEF Ready
<1>2. ASSUME d.ok PROVE c.ok /\ Sane(d.save) /\ \A n \in Names : n \notin {m} => d.save[n] = c.save[n]
  <2>1. c.ok /\ Sane(c.save) /\ IsSave(c.save)
    BY <1>2, Zenon DEF Ready, Sane
  <2>2. m \in Names
    BY Zenon DEF Names, AllNames, OtherNames
  <2>3. SetTo(d.save, c.save, m, v)
    BY <1>2, <2>1, <2>2, SaveExcept
  <2>4. Sane(d.save)
    BY <1>2, <2>1, <2>3, SaneSet
  <2>5. QED BY <2>1, <2>3, <2>4, Zenon DEF SetTo
<1>3. QED BY <1>1, <1>2, Zenon DEF Stage
-----------------------------------------------------------------------------
(* Structures. *)

PluginSet(s) == {"plugins"} \cup IF supports_light_plugins(s) THEN {"light_plugins"} ELSE {}
PluginNames(s) == <<"plugins">> \o IF supports_light_plugins(s) THEN <<"light_plugins">> ELSE <<>>

\* The names in the plugin table, light plugins with the versions that have them.
LEMMA PluginList ==
  ASSUME NEW s
  PROVE  /\ PluginNames(s) \in Seq(PlainNames) /\ ToSet(PluginNames(s)) = PluginSet(s)
         /\ PluginLoads \o (IF supports_light_plugins(s) THEN LightPluginLoads ELSE <<>>)
              = ListOf(PluginNames(s))
<1>. DEFINE b == IF supports_light_plugins(s) THEN <<"light_plugins">> ELSE <<>>
            a == <<"plugins">>
<1>1. a \in Seq(PlainNames) /\ b \in Seq(PlainNames)
  BY NamesTyped, Zenon
<1>2. (IF supports_light_plugins(s) THEN LightPluginLoads ELSE <<>>) = ListOf(b)
  <2>1. ListOf(<<>>) = <<>>
    BY DEF ListOf
  <2>2. QED BY <2>1, OtherParts, Zenon
<1>3. PluginLoads = ListOf(a)
  BY OtherParts, Zenon
<1>4. ToSet(a) = {"plugins"}
  BY TupleSet
<1>5. ToSet(b) = IF supports_light_plugins(s) THEN {"light_plugins"} ELSE {}
  <2>1. ToSet(<<"light_plugins">>) = {"light_plugins"} /\ ToSet(<<>>) = {}
    BY TupleSet
  <2>2. QED BY <2>1, Zenon
<1>. HIDE DEF a, b
<1>6. a \o b \in Seq(PlainNames) /\ ListOf(a \o b) = ListOf(a) \o ListOf(b)
  BY <1>1, PlainConcat, Zenon
<1>7. ToSet(a \o b) = ToSet(a) \cup ToSet(b)
  BY <1>1, JoinedSet
<1>8. PluginNames(s) = a \o b
  BY Zenon DEF PluginNames, a, b
<1>9. ToSet(PluginNames(s)) = PluginSet(s)
  BY <1>4, <1>5, <1>7, <1>8, Zenon DEF PluginSet
<1>10. QED BY <1>2, <1>3, <1>6, <1>8, <1>9, Zenon

\* The plugin table is read as what can be stored again.
LEMMA PluginStage ==
  ASSUME NEW c, Ready(c)
  PROVE  Stage(plugin_info(c), c, PluginSet(c.save))
<1>1. /\ PluginNames(c.save) \in Seq(PlainNames)
      /\ plugin_info(c) = LoadAll(c, ListOf(PluginNames(c.save)))
      /\ ToSet(PluginNames(c.save)) = PluginSet(c.save)
  BY PluginList, Zenon DEF plugin_info
<1>. DEFINE ns == PluginNames(c.save)
<1>. HIDE DEF ns
<1>2. Stage(LoadAll(c, ListOf(ns)), c, ToSet(ns))
  BY <1>1, FieldsStage DEF ns
<1>3. QED BY <1>1, <1>2, Zenon DEF ns

VersionSet(game) == {"form_version"} \cup MoreOf(game, "FALLOUT4", "game_version")

\* The versions are read as what can be stored again.
LEMMA VersionStage ==
  ASSUME NEW c, Ready(c), NEW game
  PROVE  Stage(LoadAll(c, VersionLoads(game)), c, VersionSet(game))
<1>. DEFINE ns == VersionNames(game)
<1>1. ns \in Seq(PlainNames) /\ VersionLoads(game) = ListOf(ns) /\ ToSet(ns) = VersionSet(game)
  BY VersionList, VersionSetIs, Zenon DEF VersionSet
<1>. HIDE DEF ns
<1>2. Stage(LoadAll(c, ListOf(ns)), c, ToSet(ns))
  BY <1>1, FieldsStage
<1>3. QED BY <1>1, <1>2, Zenon

\* The tables behind the change forms are read as what can be stored again.
LEMMA TailStage ==
  ASSUME NEW c, Ready(c)
  PROVE  Stage(LoadAll(c, TailLoads), c, TailSet)
<1>. DEFINE ns == TailNames
<1>1. ns \in Seq(PlainNames) /\ TailLoads = ListOf(ns) /\ ToSet(ns) = TailSet
  BY NamesTyped, OtherParts, TailSetIs, Zenon
<1>. HIDE DEF ns
<1>2. Stage(LoadAll(c, ListOf(ns)), c, ToSet(ns))
  BY <1>1, FieldsStage
<1>3. QED BY <1>1, <1>2, Zenon
-----------------------------------------------------------------------------
(* Blocks of global data. *)

BodySet(game) == BlockSet(game) \cup {"data4", "globals"}

\* The rest of the weather is read as what can be stored again.
LEMMA ChunkStage ==
  ASSUME NEW c, Ready(c)
  PROVE  Stage(Load(c, FieldNamed("data4")), c, {"data4"})
<1>. DEFINE d == Load(c, FieldNamed("data4"))
<1>1. IsCursor(c) /\ (c.ok => IsSave(c.save) /\ SomeOK(c.save["data4"])) /\ Len(c.octets) < TooMany
  BY Zenon DEF Ready, Sane, Good
<1>2. /\ IsCursor(d) /\ d.octets = c.octets
      /\ d.ok => /\ c.ok /\ IsSave(d.save) /\ SomeOK(d.save["data4"])
                 /\ \A m \in Names : m # "data4" => d.save[m] = c.save[m]
  BY <1>1, ChunkTyped
<1>. HIDE DEF d
<1>3. ASSUME d.ok PROVE c.ok /\ Sane(d.save) /\ \A n \in Names : n \notin {"data4"} => d.save[n] = c.save[n]
  <2>1. /\ c.ok /\ Sane(c.save) /\ IsSave(d.save) /\ SomeOK(d.save["data4"])
        /\ \A m \in Names : m # "data4" => d.save[m] = c.save[m]
    BY <1>2, <1>3, Zenon DEF Ready
  <2>. DEFINE v == d.save["data4"]
              nm == "data4"
  <2>2. SetTo(d.save, c.save, nm, v)
    BY <2>1, Zenon DEF SetTo
  <2>3. nm \in {"data4", "snapshot_data", "globals", "change_forms"} /\ SomeOK(v)
    BY <2>1, Zenon
  <2>4. nm # "snapshot_data" /\ nm # "globals" /\ nm # "change_forms"
    OBVIOUS
  <2>. HIDE DEF v, nm
  <2>5. Sane(d.save)
    BY <2>1, <2>2, <2>3, <2>4, SaneSet
  <2>6. QED BY <2>1, <2>5
<1>4. Stage(d, c, {"data4"})
  BY <1>1, <1>2, <1>3, Zenon DEF Stage
<1>5. QED BY <1>4 DEF d

\* A cursor with one of its global blocks replaced.
LEMMA KeptIs ==
  ASSUME NEW c, IsCursor(c), NEW t, NEW v
  PROVE  IsSet([c EXCEPT !.save.globals[t] = v], c, "globals", [c.save["globals"] EXCEPT ![t] = v])
<1>. DEFINE g == [c.save["globals"] EXCEPT ![t] = v]
            d == [c EXCEPT !.save.globals[t] = v]
<1>1. d = [c EXCEPT !.save.globals = g]
  OBVIOUS
<1>2. IsSet([c EXCEPT !.save.globals = g], c, "globals", g)
  BY SaveSet
<1>. HIDE DEF d, g
<1>3. QED BY <1>1, <1>2 DEF d, g

\* A block of global data is read, from any octets, as what can be stored again.
LEMMA GlobalStage ==
  ASSUME NEW c, Ready(c), NEW game, c.ok => c.save["game"] = game, NEW t \in ObjectTypes
  PROVE  Stage(global_data(c, t), c, BodySet(game))
<1>. DEFINE d == global_data(c, t)
<1>0. IsCursor(c) /\ Len(c.octets) < TooMany
  BY Zenon DEF Ready
<1>1. CASE t \in Structured
  <2>. DEFINE g == c.save["game"]
  <2>1. d = LoadAll(c, GlobalLoads(t, g))
    BY <1>1, Zenon DEF global_data
  <2>. HIDE DEF d
  <2>2. /\ GlobalNames(t, g) \in Seq(PlainNames)
        /\ t # WEATHER => GlobalLoads(t, g) = ListOf(GlobalNames(t, g))
        /\ t = WEATHER => GlobalLoads(t, g) = Append(ListOf(GlobalNames(t, g)), FieldNamed("data4"))
    BY <1>1, GlobalList
  <2>. DEFINE ns == GlobalNames(t, g)
              e == LoadAll(c, ListOf(ns))
  <2>3. Stage(e, c, BodySet(g))
    <3>1. Stage(e, c, ToSet(ns))
      <4>1. ns \in Seq(PlainNames)
        BY <2>2
      <4>. HIDE DEF ns
      <4>2. QED BY <4>1, FieldsStage
    <3>2. ToSet(ns) \subseteq BodySet(g)
      BY <1>1, GlobalSetIs DEF BodySet
    <3>. HIDE DEF e, ns
    <3>3. QED BY <3>1, <3>2, StageWider
  <2>4. Stage(d, c, BodySet(g))
    <3>1. CASE t # WEATHER
      BY <2>1, <2>2, <2>3, <3>1, Zenon
    <3>2. CASE t = WEATHER
      <4>1. ListOf(ns) \in Seq(AllFieldsSet) /\ FieldNamed("data4") \in AllFieldsSet
        <5>1. ns \in Seq(AllNames)
          BY <2>2, PlainIsName
        <5>. HIDE DEF ns
        <5>2. QED BY <5>1, ListTyped, Zenon DEF AllFieldsSet, AllNames
      <4>2. d = Load(e, FieldNamed("data4"))
        <5>. DEFINE fs == ListOf(ns)
                    f == FieldNamed("data4")
                    X == AllFieldsSet
        <5>1. d = LoadAll(c, Append(fs, f))
          BY <2>1, <2>2, <3>2, Zenon
        <5>2. fs \in Seq(X) /\ f \in X
          BY <4>1
        <5>3. e = LoadAll(c, fs)
          OBVIOUS
        <5>. HIDE DEF fs, f, X, e
        <5>4. QED BY <5>1, <5>2, <5>3, LoadAllMore DEF f
      <4>. HIDE DEF e
      <4>3. Stage(d, e, {"data4"})
        BY <2>3, <4>2, StageReady, ChunkStage
      <4>4. Stage(d, c, BodySet(g) \cup {"data4"})
        BY <2>3, <4>3, StageMore
      <4>5. BodySet(g) \cup {"data4"} = BodySet(g)
        BY DEF BodySet
      <4>6. QED BY <4>4, <4>5
    <3>3. QED BY <3>1, <3>2
  <2>5. CASE c.ok
    <3>1. g = game
      BY <2>5
    <3>. HIDE DEF g
    <3>2. QED BY <2>4, <3>1 DEF d
  <2>6. CASE ~c.ok
    <3>. HIDE DEF g
    <3>1. QED BY <2>4, <2>6, Zenon DEF Stage, d
  <2>7. QED BY <2>5, <2>6
<1>2. CASE t \notin Structured /\ c.save["globals"][t] # <<>>
  <2>1. d = Refused(c)
    BY <1>2, Zenon DEF global_data
  <2>2. QED BY <2>1, StageRefused
<1>3. CASE t \notin Structured /\ ~(c.save["globals"][t] # <<>>)
  <2>. DEFINE v == [c.save["globals"] EXCEPT ![t] = <<c.octets>>]
  <2>1. d = [c EXCEPT !.save.globals[t] = <<c.octets>>]
    BY <1>3, Zenon DEF global_data
  <2>2. IsSet(d, c, "globals", v)
    <3>. DEFINE x == <<c.octets>>
    <3>1. d = [c EXCEPT !.save.globals[t] = x] /\ v = [c.save["globals"] EXCEPT ![t] = x]
      BY <2>1
    <3>. HIDE DEF x, d, v
    <3>2. IsSet([c EXCEPT !.save.globals[t] = x], c, "globals", [c.save["globals"] EXCEPT ![t] = x])
      BY <1>0, KeptIs
    <3>3. QED BY <3>1, <3>2, Zenon
  <2>3. ASSUME c.ok PROVE GlobalsOK(v)
    <3>1. GlobalsOK(c.save["globals"])
      BY <2>3, Zenon DEF Ready, Sane
    <3>. DEFINE a == c.save["globals"] x == c.octets
    <3>2. v = [u \in ObjectTypes |-> IF u = t THEN <<x>> ELSE a[u]]
      <4>1. a = [u \in ObjectTypes |-> a[u]]
        BY <3>1, Zenon DEF GlobalsOK
      <4>2. v = [a EXCEPT ![t] = <<x>>]
        OBVIOUS
      <4>. HIDE DEF a, x, v
      <4>3. QED BY <4>1, <4>2
    <3>3. \A u \in ObjectTypes : v[u] = IF u = t THEN <<x>> ELSE a[u]
      <4>. HIDE DEF v, a, x
      <4>1. QED BY <3>2, Zenon
    <3>4. v = [u \in ObjectTypes |-> v[u]]
      <4>. HIDE DEF v, a, x
      <4>1. QED BY <3>2
    <3>5. x \in Value
      BY <1>0, Zenon DEF IsCursor
    <3>6. \A u \in ObjectTypes : a[u] = <<>> \/ (u \notin Structured /\ \E y \in Value : a[u] = <<y>>)
      BY <3>1, Zenon DEF GlobalsOK
    <3>. HIDE DEF v, a, x
    <3>7. \A u \in ObjectTypes : v[u] = <<>> \/ (u \notin Structured /\ \E y \in Value : v[u] = <<y>>)
      <4>1. \A u \in ObjectTypes : u = t => v[u] = <<x>>
        BY <3>3, Zenon
      <4>2. \A u \in ObjectTypes : u # t => v[u] = a[u]
        BY <3>3, Zenon
      <4>3. QED BY <1>3, <3>5, <3>6, <4>1, <4>2, Zenon
    <3>8. QED BY <3>4, <3>7, Zenon DEF GlobalsOK
  <2>. HIDE DEF v, d
  <2>4. /\ IsCursor(d) /\ d.octets = c.octets
        /\ d.ok => c.ok /\ d.save = [c.save EXCEPT !["globals"] = v] /\ GlobalsOK(v)
    BY <2>2, <2>3, Zenon DEF IsSet
  <2>5. Stage(d, c, {"globals"})
    <3>. DEFINE m == "globals"
    <3>1. m \in {"data4", "snapshot_data", "globals", "change_forms"} /\ m # "data4"
          /\ m # "snapshot_data" /\ m # "change_forms"
      OBVIOUS
    <3>2. d.ok => c.ok /\ d.save = [c.save EXCEPT ![m] = v] /\ GlobalsOK(v)
      BY <2>4
    <3>. HIDE DEF m
    <3>3. Stage(d, c, {m})
      BY <2>4, <3>1, <3>2, SetStage
    <3>4. QED BY <3>3 DEF m
  <2>6. {"globals"} \subseteq BodySet(game)
    BY DEF BodySet
  <2>7. QED BY <2>5, <2>6, StageWider DEF d
<1>4. QED BY <1>1, <1>2, <1>3

\* A number in front of a cursor is in the range of its width.
LEMMA NumberAtTyped ==
  ASSUME NEW c, IsCursor(c), NEW skip \in Nat, NEW w \in {1, 2, 4}
  PROVE  /\ NumberAt(c, skip, w) \in Nat /\ NumberAt(c, skip, w) <= TooMany
         /\ w # 4 => NumberAt(c, skip, w) < Numbers(w)
<1>1. w \in Nat
  OBVIOUS
<1>2. Piece(c, skip, w) \in Value /\ Len(Piece(c, skip, w)) = w
  BY <1>1, PieceTyped, Zenon
<1>3. QED BY <1>2, NumberTyped, Zenon DEF NumberAt

\* The block in front of the cursor.
TypesOf(n) == {t \in ObjectTypes : glda_type_number(t) = n}

\* One round over the global data: its type decides, and an unknown one is
\* refused.
LEMMA ReadGlobalIs ==
  ASSUME NEW c, NEW round
  PROVE  ReadGlobal(c, round) =
           IF TypesOf(NumberAt(c, 0, 4)) = {} THEN Refused(c)
           ELSE InsideOf(c, 8, NumberAt(c, 4, 4),
                         global_data(BlockOf(c, 8, NumberAt(c, 4, 4)),
                                     CHOOSE t \in TypesOf(NumberAt(c, 0, 4)) : TRUE))
BY DEF ReadGlobal, Inside, InsideOf, BlockOf, TypesOf

\* A block of c, as a cursor of its own, is one the reader may be at.
LEMMA BlockReady ==
  ASSUME NEW c, Ready(c), NEW header \in Nat, NEW size \in Nat, header + size <= Left(c)
  PROVE  /\ Ready(BlockOf(c, header, size))
         /\ BlockOf(c, header, size).ok = c.ok /\ BlockOf(c, header, size).save = c.save
<1>. DEFINE b == BlockOf(c, header, size)
<1>0. IsCursor(c) /\ Len(c.octets) < TooMany /\ (c.ok => Sane(c.save))
  BY Zenon DEF Ready
<1>1. IsCursor(b) /\ Len(b.octets) = size /\ b.ok = c.ok /\ b.save = c.save
  BY <1>0, BlockIs
<1>. HIDE DEF b
<1>2. Len(b.octets) < TooMany
  <2>1. Left(c) \in Nat /\ c.pos \in Nat /\ Len(c.octets) \in Nat /\ c.pos + Left(c) = Len(c.octets)
    BY <1>0, LeftIs, Zenon
  <2>2. TooMany \in Nat
    BY TooManyIs
  <2>3. QED BY <1>0, <1>1, <2>1, <2>2
<1>3. QED BY <1>0, <1>1, <1>2, Zenon DEF Ready, b

\* One round over the global data is a stage.
LEMMA ReadGlobalStage ==
  ASSUME NEW c, Ready(c), NEW game, c.ok => c.save["game"] = game, NEW round
  PROVE  Stage(ReadGlobal(c, round), c, BodySet(game))
<1>. DEFINE known == TypesOf(NumberAt(c, 0, 4))
            size == NumberAt(c, 4, 4)
            t == CHOOSE t \in known : TRUE
            b == BlockOf(c, 8, size)
            d == ReadGlobal(c, round)
<1>1. d = IF known = {} THEN Refused(c) ELSE InsideOf(c, 8, size, global_data(b, t))
  BY ReadGlobalIs
<1>2. IsCursor(c) /\ size \in Nat /\ 8 \in Nat
  <2>1. IsCursor(c)
    BY Zenon DEF Ready
  <2>2. 4 \in Nat /\ 4 \in {1, 2, 4} /\ 8 \in Nat
    OBVIOUS
  <2>3. QED BY <2>1, <2>2, NumberAtTyped
<1>3. known # {} => t \in ObjectTypes
  BY DEF TypesOf
<1>. HIDE DEF d, size, known, t
<1>4. CASE known = {}
  <2>1. d = Refused(c)
    BY <1>1, <1>4, Zenon
  <2>2. QED BY <2>1, StageRefused DEF d
<1>5. CASE known # {}
  <2>1. d = InsideOf(c, 8, size, global_data(b, t))
    BY <1>1, <1>5, Zenon
  <2>2. ASSUME 8 + size <= Left(c) PROVE Stage(global_data(b, t), b, BodySet(game))
    <3>1. Ready(b) /\ b.ok = c.ok /\ b.save = c.save
      BY <1>2, <2>2, BlockReady
    <3>2. b.ok => b.save["game"] = game
      BY <3>1
    <3>. HIDE DEF b
    <3>3. QED BY <1>3, <1>5, <3>1, <3>2, GlobalStage
  <2>. DEFINE e == global_data(b, t) Ch == BodySet(game)
  <2>3. 8 + size <= Left(c) => Stage(e, BlockOf(c, 8, size), Ch)
    BY <2>2
  <2>. HIDE DEF e, Ch
  <2>4. Stage(InsideOf(c, 8, size, e), c, Ch)
    BY <1>2, <2>3, InsideStage
  <2>5. QED BY <2>1, <2>4 DEF e, Ch, d
<1>6. QED BY <1>4, <1>5
-----------------------------------------------------------------------------
(* Change forms. *)

IsAdded(d, c, n, form) ==
  /\ IsCursor(d) /\ d.octets = c.octets /\ d.pos = c.pos + n /\ d.ok = c.ok
  /\ d.save = [c.save EXCEPT !["change_forms"] = Append(c.save["change_forms"], form)]

\* The cursor behind a change form that was added.
LEMMA FormAdded ==
  ASSUME NEW c, IsCursor(c), NEW n \in Nat, NEW m \in Nat, n + m <= Left(c), NEW form
  PROVE  IsAdded([c EXCEPT !.pos = @ + n + m, !.save.change_forms = Append(@, form)], c, n + m, form)
<1>. DEFINE to == c.pos + n + m
            fs == Append(c.save["change_forms"], form)
            d == [c EXCEPT !.pos = to]
            e == [c EXCEPT !.pos = @ + n + m, !.save.change_forms = Append(@, form)]
<1>1. to \in Nat /\ to = c.pos + (n + m) /\ to <= Len(c.octets)
  <2>1. Left(c) \in Nat /\ c.pos \in Nat /\ Len(c.octets) \in Nat /\ c.pos + Left(c) = Len(c.octets)
    BY LeftIs, Zenon
  <2>2. QED BY <2>1
<1>2. e = [d EXCEPT !.save.change_forms = Append(c.save["change_forms"], form)]
  <2>1. d = [octets |-> c.octets, pos |-> to, ok |-> c.ok, got |-> c.got, save |-> c.save]
    BY Edited, Zenon
  <2>2. d.save = c.save
    BY <2>1
  <2>3. e = [[c EXCEPT !.pos = @ + n + m] EXCEPT !.save.change_forms = Append(@, form)]
    OBVIOUS
  <2>4. d = [c EXCEPT !.pos = @ + n + m]
    OBVIOUS
  <2>5. e = [d EXCEPT !.save.change_forms = Append(@, form)]
    <3>. HIDE DEF d, e
    <3>1. QED BY <2>3, <2>4, Zenon
  <2>6. [d EXCEPT !.save.change_forms = Append(@, form)]
          = [d EXCEPT !.save.change_forms = Append(d.save.change_forms, form)]
    <3>. HIDE DEF d
    <3>1. QED OBVIOUS
  <2>. HIDE DEF d, e
  <2>7. QED BY <2>2, <2>5, <2>6, Zenon
<1>3. /\ IsCursor(d) /\ d.octets = c.octets /\ d.pos = to /\ d.ok = c.ok /\ d.save = c.save
  <2>. HIDE DEF to
  <2>1. d = [octets |-> c.octets, pos |-> to, ok |-> c.ok, got |-> c.got, save |-> c.save]
    BY Edited, Zenon
  <2>2. d.octets = c.octets /\ d.pos = to /\ d.ok = c.ok /\ d.got = c.got /\ d.save = c.save
    BY <2>1
  <2>3. c.octets \in Value /\ c.ok \in BOOLEAN /\ c.got \in Seq(Value)
    BY Zenon DEF IsCursor
  <2>. HIDE DEF d
  <2>4. IsCursor(d)
    BY <1>1, <2>1, <2>2, <2>3, Zenon DEF IsCursor
  <2>5. QED BY <2>2, <2>4
<1>. HIDE DEF to, fs, d, e
<1>4. e = [d EXCEPT !.save.change_forms = fs]
  BY <1>2 DEF fs
<1>5. IsSet([d EXCEPT !.save.change_forms = fs], d, "change_forms", fs)
  BY <1>3, SaveSet
<1>6. IsAdded(e, c, n + m, form)
  BY <1>1, <1>3, <1>4, <1>5, Zenon DEF IsSet, IsAdded, fs
<1>7. QED BY <1>6 DEF e

FormType(c) == Piece(c, 7, 1)[1]
FormW(c) == 2^(FormType(c) \div 64)
FormSize(c) == NumberAt(c, 9, FormW(c))

FormRead(c) ==
  [form_id |-> Loaded("be24", Piece(c, 0, 3)), flags |-> Piece(c, 3, 4),
   type |-> FormType(c), version |-> Piece(c, 8, 1)[1],
   length2 |-> Piece(c, 9 + FormW(c), FormW(c)),
   data |-> Piece(c, 9 + 2 * FormW(c), FormSize(c))]

\* One round over the change forms: refused, or the form is added and passed.
LEMMA ReadFormIs ==
  ASSUME NEW c, NEW round
  PROVE  ReadChangeForm(c, round) =
           IF ~c.ok \/ FormType(c) \div 64 = 3 \/ (9 + 2 * FormW(c)) + FormSize(c) > Left(c)
           THEN Refused(c)
           ELSE [c EXCEPT !.pos = @ + (9 + 2 * FormW(c)) + FormSize(c),
                          !.save.change_forms = Append(@, FormRead(c))]
BY DEF ReadChangeForm, FormType, FormW, FormSize, FormRead

\* The two upper bits of a form's type decide the width of its sizes.
LEMMA FormTypes ==
  ASSUME NEW o \in Octet
  PROVE  /\ o \div 64 \in 0..3 /\ (o \div 64 = 3 <=> ~(o < 192))
         /\ o \div 64 # 3 => 2^(o \div 64) \in {1, 2, 4}
<1>1. o \in Int /\ 0 <= o /\ o <= 255
  BY OctetIs
<1>2. o \div 64 \in 0..3 /\ (o \div 64 = 3 <=> ~(o < 192))
  BY <1>1
<1>. DEFINE k == o \div 64
<1>3. k \in 0..3
  BY <1>2, Zenon
<1>. HIDE DEF k
<1>4. k # 3 => k = 0 \/ k = 1 \/ k = 2
  BY <1>3
<1>a. 2^0 = 1 /\ 2^1 = 2 /\ 2^2 = 4
  BY Powers
<1>5. k # 3 => 2^k = 1 \/ 2^k = 2 \/ 2^k = 4
  <2>1. CASE k = 0
    BY <1>a, <2>1, Zenon
  <2>2. CASE k = 1
    BY <1>a, <2>2, Zenon
  <2>3. CASE k = 2
    BY <1>a, <2>3, Zenon
  <2>4. QED BY <1>4, <2>1, <2>2, <2>3
<1>6. k # 3 => 2^k \in {1, 2, 4}
  BY <1>5, Zenon
<1>7. QED BY <1>2, <1>6 DEF k

\* One more good change form makes good change forms.
LEMMA FormsAppend ==
  ASSUME NEW fs, FormsOK(fs), NEW form, FormOK(form)
  PROVE  FormsOK(Append(fs, form))
<1>. DEFINE A == {fs[i] : i \in DOMAIN fs}
            g == Append(fs, form)
            B == {g[i] : i \in DOMAIN g}
            X == A \cup {form}
<1>1. fs \in Seq(A) /\ \A i \in 1..Len(fs) : FormOK(fs[i])
  BY DEF FormsOK
<1>2. Len(fs) \in Nat
  BY <1>1
<1>3. fs \in Seq(X) /\ form \in X
  <2>. HIDE DEF A
  <2>1. QED BY <1>1
<1>4. /\ g \in Seq(X) /\ Len(g) = Len(fs) + 1 /\ g[Len(fs) + 1] = form
      /\ \A i \in 1..Len(fs) : g[i] = fs[i]
  <2>. HIDE DEF X
  <2>1. QED BY <1>3
<1>5. g \in Seq(B)
  <2>. HIDE DEF g, X
  <2>1. DOMAIN g = 1..Len(g) /\ Len(g) \in Nat
    BY <1>4
  <2>2. \A i \in 1..Len(g) : g[i] \in B
    BY <2>1
  <2>3. g = [i \in 1..Len(g) |-> g[i]]
    BY <1>4
  <2>. HIDE DEF B
  <2>4. QED BY <2>1, <2>2, <2>3
<1>6. \A i \in 1..Len(g) : FormOK(g[i])
  <2>. SUFFICES ASSUME NEW i \in 1..Len(g) PROVE FormOK(g[i])
    OBVIOUS
  <2>. HIDE DEF g
  <2>1. CASE i \in 1..Len(fs)
    BY <1>1, <1>4, <2>1
  <2>2. CASE i = Len(fs) + 1
    BY <1>4, <2>2
  <2>3. QED BY <1>2, <1>4, <2>1, <2>2
<1>7. QED BY <1>5, <1>6, Zenon DEF FormsOK

\* A change form that was read can be stored again.
LEMMA FormReadOK ==
  ASSUME NEW c, IsCursor(c), Len(c.octets) < TooMany, FormType(c) \div 64 # 3,
         (9 + 2 * FormW(c)) + FormSize(c) <= Left(c)
  PROVE  FormOK(FormRead(c)) /\ FormW(c) \in {1, 2, 4} /\ FormSize(c) \in Nat
<1>. DEFINE w == FormW(c) size == FormSize(c) form == FormRead(c)
            a == Loaded("be24", Piece(c, 0, 3)) b == Piece(c, 3, 4) t == FormType(c)
            v == Piece(c, 8, 1)[1] l == Piece(c, 9 + w, w) x == Piece(c, 9 + 2 * w, size)
<1>1. t \in Octet /\ v \in Octet
  <2>1. /\ Piece(c, 7, 1) \in Value /\ Len(Piece(c, 7, 1)) = 1
        /\ Piece(c, 8, 1) \in Value /\ Len(Piece(c, 8, 1)) = 1
    BY PieceTyped
  <2>2. ASSUME NEW o \in Value, Len(o) = 1 PROVE o[1] \in Octet
    <3>1. 1 \in 1..Len(o)
      BY <2>2
    <3>2. QED BY <3>1, ElementIs, Zenon
  <2>3. QED BY <2>1, <2>2, Zenon DEF FormType
<1>2. w \in {1, 2, 4} /\ t < 192 /\ w \in Nat
  BY <1>1, FormTypes DEF FormW
<1>3. size \in Nat /\ (w # 4 => size < Numbers(w))
  <2>1. 9 \in Nat
    OBVIOUS
  <2>2. QED BY <1>2, <2>1, NumberAtTyped DEF FormSize
<1>4. size < Numbers(w)
  <2>1. Left(c) \in Nat /\ c.pos \in Nat /\ Len(c.octets) \in Nat /\ c.pos + Left(c) = Len(c.octets)
    BY LeftIs, Zenon
  <2>2. TooMany \in Nat
    BY TooManyIs
  <2>3. size < TooMany
    BY SMTT(30), <1>2, <1>3, <2>1, <2>2
  <2>4. Numbers(4) = TooMany
    BY NumbersIs
  <2>5. QED BY <1>3, <2>3, <2>4
<1>5. Storable("be24", a)
  <2>. DEFINE o == Piece(c, 0, 3)
  <2>1. o \in Value /\ Len(o) = 3
    BY PieceTyped
  <2>. HIDE DEF o
  <2>2. o[1] \in Octet /\ o[2] \in Octet /\ o[3] \in Octet
    <3>1. 1 \in 1..Len(o) /\ 2 \in 1..Len(o) /\ 3 \in 1..Len(o)
      BY <2>1
    <3>2. QED BY <2>1, <3>1, ElementIs, Zenon
  <2>3. Loaded("be24", o) = <<o[3], o[2], o[1], 0>>
    BY DEF Loaded
  <2>4. 0 \in Octet
    BY DEF Octet
  <2>5. <<o[3], o[2], o[1], 0>> \in Seq(Octet)
    <3>. HIDE DEF Octet
    <3>1. QED BY <2>2, <2>4
  <2>. DEFINE y == <<o[3], o[2], o[1], 0>>
  <2>6. y[4] = 0 /\ Len(y) = 4
    OBVIOUS
  <2>. HIDE DEF y
  <2>7. Storable("be24", y)
    BY <2>5, <2>6 DEF Storable, Value, y
  <2>8. QED BY <2>3, <2>7 DEF o, y
<1>6. b \in Value /\ Len(b) = 4
  BY PieceTyped
<1>7. l \in Value /\ Len(l) = w
  <2>. HIDE DEF w
  <2>1. 9 + w \in Nat
    BY <1>2
  <2>2. QED BY <1>2, <2>1, PieceTyped
<1>8. x \in Value /\ Len(x) = size
  <2>. HIDE DEF w, size
  <2>1. 9 + 2 * w \in Nat
    BY <1>2
  <2>2. QED BY <1>3, <2>1, PieceTyped
<1>9. form = [form_id |-> a, flags |-> b, type |-> t, version |-> v, length2 |-> l, data |-> x]
  BY Zenon DEF FormRead
<1>10. w = 2^(t \div 64)
  BY Zenon DEF FormW
<1>. HIDE DEF a, b, t, v, l, x, form, w, size
<1>11. /\ form.form_id = a /\ form.flags = b /\ form.type = t /\ form.version = v
       /\ form.length2 = l /\ form.data = x
  BY <1>9
<1>12. FormWidth(form) = w
  BY <1>10, <1>11, Zenon DEF FormWidth
<1>13. form = [form_id |-> form.form_id, flags |-> form.flags, type |-> form.type,
             version |-> form.version, length2 |-> form.length2, data |-> form.data]
  BY <1>9, <1>11, Zenon
<1>14. FormOK(form)
  BY <1>1, <1>2, <1>4, <1>5, <1>6, <1>7, <1>8, <1>11, <1>12, <1>13, Zenon DEF FormOK
<1>15. QED BY <1>2, <1>3, <1>14, Zenon DEF form, w, size

\* One round over the change forms is a stage.
LEMMA ReadFormStage ==
  ASSUME NEW c, Ready(c), NEW round
  PROVE  Stage(ReadChangeForm(c, round), c, {"change_forms"})
<1>. DEFINE h == 9 + 2 * FormW(c)
            size == FormSize(c)
            form == FormRead(c)
            d == ReadChangeForm(c, round)
<1>0. IsCursor(c) /\ Len(c.octets) < TooMany
  BY Zenon DEF Ready
<1>1. d = IF ~c.ok \/ FormType(c) \div 64 = 3 \/ h + size > Left(c) THEN Refused(c)
          ELSE [c EXCEPT !.pos = @ + h + size, !.save.change_forms = Append(@, form)]
  BY ReadFormIs
<1>2. CASE ~c.ok \/ FormType(c) \div 64 = 3 \/ h + size > Left(c)
  <2>1. d = Refused(c)
    BY <1>1, <1>2, Zenon
  <2>2. QED BY <2>1, StageRefused
<1>3. CASE ~(~c.ok \/ FormType(c) \div 64 = 3 \/ h + size > Left(c))
  <2>1. d = [c EXCEPT !.pos = @ + h + size, !.save.change_forms = Append(@, form)]
    BY <1>1, <1>3, Zenon
  <2>2. h \in Nat /\ size \in Nat /\ h + size <= Left(c) /\ FormOK(form)
    <3>1. FormType(c) \in Octet
      <4>1. Piece(c, 7, 1) \in Value /\ Len(Piece(c, 7, 1)) = 1
        BY <1>0, PieceTyped
      <4>2. 1 \in 1..Len(Piece(c, 7, 1))
        BY <4>1
      <4>3. QED BY <4>1, <4>2, ElementIs, Zenon DEF FormType
    <3>2. FormW(c) \in {1, 2, 4}
      BY <1>3, <3>1, FormTypes DEF FormW
    <3>3. size \in Nat
      BY <1>0, <3>2, NumberAtTyped DEF FormSize
    <3>4. h \in Nat
      BY <3>2
    <3>5. Left(c) \in Nat
      BY <1>0, LeftIs, Zenon
    <3>. HIDE DEF size
    <3>6. h + size <= Left(c)
      BY <1>3, <3>3, <3>4, <3>5
    <3>7. QED BY <1>0, <1>3, <3>3, <3>4, <3>6, FormReadOK DEF size
  <2>. HIDE DEF h, size, form, d
  <2>3. IsAdded(d, c, h + size, form)
    BY <1>0, <2>1, <2>2, FormAdded
  <2>. DEFINE fs == Append(c.save["change_forms"], form)
              m == "change_forms"
  <2>4. c.ok => FormsOK(fs)
    BY <2>2, FormsAppend DEF Ready, Sane
  <2>5. m \in {"data4", "snapshot_data", "globals", "change_forms"} /\ m # "data4"
        /\ m # "snapshot_data" /\ m # "globals"
    OBVIOUS
  <2>6. IsCursor(d) /\ d.octets = c.octets /\ d.ok = c.ok /\ d.save = [c.save EXCEPT ![m] = fs]
    BY <2>3, Zenon DEF IsAdded
  <2>. HIDE DEF fs, m
  <2>7. Stage(d, c, {m})
    BY <2>4, <2>5, <2>6, SetStage
  <2>8. QED BY <2>7 DEF m, d
<1>4. QED BY <1>2, <1>3

FG == INSTANCE FoldFacts WITH Op <- ReadGlobal
FC == INSTANCE FoldFacts WITH Op <- ReadChangeForm
-----------------------------------------------------------------------------
(* One block after the other. *)

Upto(n) == [i \in 1..n |-> i]

\* The rounds to n + 1 are those to n and one more.
LEMMA UptoMore ==
  ASSUME NEW n \in Nat
  PROVE  /\ Upto(n + 1) = Append(Upto(n), n + 1) /\ Upto(n) \in Seq(Nat) /\ n + 1 \in Nat
<1>. DEFINE f == [i \in Nat |-> i]
<1>1. Upto(n) = [i \in 1..n |-> f[i]] /\ Upto(n + 1) = [i \in 1..(n + 1) |-> f[i]] /\ f[n + 1] = n + 1
  BY DEF Upto
<1>2. Upto(n) \in [1..n -> Nat]
  BY DEF Upto
<1>3. Upto(n) \in Seq(Nat)
  <2>. DEFINE X == Nat u == Upto(n)
  <2>1. u \in [1..n -> X]
    BY <1>2
  <2>. HIDE DEF X, u
  <2>2. u \in Seq(X)
    BY <2>1, FunctionIsSeq
  <2>3. QED BY <2>2 DEF X, u
<1>. HIDE DEF f
<1>4. [i \in 1..(n + 1) |-> f[i]] = Append([i \in 1..n |-> f[i]], f[n + 1])
  BY OneMore
<1>5. QED BY <1>1, <1>3, <1>4

\* No rounds.
LEMMA UptoNone == Upto(0) = <<>>
BY DEF Upto

GlobalRounds(c, n) == FoldLeft(ReadGlobal, c, Upto(n))
FormRounds(c, n) == FoldLeft(ReadChangeForm, c, Upto(n))

\* The rounds over the global data, one by one.
LEMMA GlobalRoundsAre ==
  /\ \A c : GlobalRounds(c, 0) = c
  /\ \A c : \A n \in Nat : GlobalRounds(c, n + 1) = ReadGlobal(GlobalRounds(c, n), n + 1)
<1>1. \A c, s : FoldLeft(ReadGlobal, c, s) = FG!Fold(c, s)
  BY DEF FoldLeft, MapThenFoldSet, Max, FG!Fold, FG!Folds, FG!Top
<1>2. \A c : FG!Fold(c, <<>>) = c
  BY FG!FoldEmpty
<1>3. ASSUME NEW c, NEW n \in Nat
      PROVE  FG!Fold(c, Upto(n + 1)) = ReadGlobal(FG!Fold(c, Upto(n)), n + 1)
  <2>. DEFINE X == Nat u == Upto(n) m == n + 1
  <2>1. Upto(n + 1) = Append(u, m) /\ u \in Seq(X) /\ m \in X
    BY UptoMore, Zenon
  <2>. HIDE DEF X, u
  <2>2. FG!Fold(c, Append(u, m)) = ReadGlobal(FG!Fold(c, u), m)
    <3>. HIDE DEF m
    <3>1. QED BY <2>1, FG!FoldAppend
  <2>3. QED BY <2>1, <2>2, Zenon DEF u
<1>4. \A c : GlobalRounds(c, 0) = c
  BY <1>1, <1>2, UptoNone, Zenon DEF GlobalRounds
<1>5. \A c : \A n \in Nat : GlobalRounds(c, n + 1) = ReadGlobal(GlobalRounds(c, n), n + 1)
  BY <1>1, <1>3, Zenon DEF GlobalRounds
<1>6. QED BY <1>4, <1>5, Zenon

\* The rounds over the change forms, one by one.
LEMMA FormRoundsAre ==
  /\ \A c : FormRounds(c, 0) = c
  /\ \A c : \A n \in Nat : FormRounds(c, n + 1) = ReadChangeForm(FormRounds(c, n), n + 1)
<1>1. \A c, s : FoldLeft(ReadChangeForm, c, s) = FC!Fold(c, s)
  BY DEF FoldLeft, MapThenFoldSet, Max, FC!Fold, FC!Folds, FC!Top
<1>2. \A c : FC!Fold(c, <<>>) = c
  BY FC!FoldEmpty
<1>3. ASSUME NEW c, NEW n \in Nat
      PROVE  FC!Fold(c, Upto(n + 1)) = ReadChangeForm(FC!Fold(c, Upto(n)), n + 1)
  <2>. DEFINE X == Nat u == Upto(n) m == n + 1
  <2>1. Upto(n + 1) = Append(u, m) /\ u \in Seq(X) /\ m \in X
    BY UptoMore, Zenon
  <2>. HIDE DEF X, u
  <2>2. FC!Fold(c, Append(u, m)) = ReadChangeForm(FC!Fold(c, u), m)
    <3>. HIDE DEF m
    <3>1. QED BY <2>1, FC!FoldAppend
  <2>3. QED BY <2>1, <2>2, Zenon DEF u
<1>4. \A c : FormRounds(c, 0) = c
  BY <1>1, <1>2, UptoNone, Zenon DEF FormRounds
<1>5. \A c : \A n \in Nat : FormRounds(c, n + 1) = ReadChangeForm(FormRounds(c, n), n + 1)
  BY <1>1, <1>3, Zenon DEF FormRounds
<1>6. QED BY <1>4, <1>5, Zenon

\* Rounds refuses a count there is no room for, and else makes every round.
LEMMA RoundsAre ==
  ASSUME NEW c, NEW n
  PROVE  /\ Rounds(ReadGlobal, c, n)
              = IF ~c.ok \/ n > Left(c) THEN Refused(c) ELSE GlobalRounds(c, n)
         /\ Rounds(ReadChangeForm, c, n)
              = IF ~c.ok \/ n > Left(c) THEN Refused(c) ELSE FormRounds(c, n)
BY DEF Rounds, GlobalRounds, FormRounds, Upto

\* Staying is a stage.
LEMMA StageNone ==
  ASSUME NEW c, Ready(c), NEW Ch
  PROVE  Stage(c, c, Ch)
BY Zenon DEF Ready, Stage

\* A stage after a stage, with the same parts.
LEMMA StageThen ==
  ASSUME NEW c, NEW d, NEW e, NEW Ch, Stage(d, c, Ch), Stage(e, d, Ch)
  PROVE  Stage(e, c, Ch)
<1>1. Stage(e, c, Ch \cup Ch)
  BY StageMore
<1>2. Ch \cup Ch = Ch
  OBVIOUS
<1>3. QED BY <1>1, <1>2

\* The stages that may not change the game keep it.
LEMMA GameKept ==
  ASSUME NEW c, NEW d, NEW Ch, Stage(d, c, Ch), "game" \notin Ch, NEW game,
         c.ok => c.save["game"] = game
  PROVE  d.ok => d.save["game"] = game
<1>1. "game" \in Names
  BY Zenon DEF Names, OtherNames
<1>2. QED BY <1>1, Zenon DEF Stage

\* What the blocks of a body never change.
LEMMA NotTouched ==
  ASSUME NEW game
  PROVE  /\ "game" \notin BodySet(game)
         /\ HeaderSet \cap BodySet(game) = {}
         /\ "snapshot_data" \notin BodySet(game) /\ "compressor" \notin BodySet(game)
         /\ "plugins" \notin BodySet(game) /\ "light_plugins" \notin BodySet(game)
         /\ "form_version" \notin BodySet(game) /\ "game_version" \notin BodySet(game)
         /\ TailSet \cap BodySet(game) = {}
         /\ game # "SKYRIM" => "unknown" \notin BodySet(game)
BY DEF BodySet, BlockSet, LocationSet, WeatherSet, MoreOf, HeaderSet, TailSet

\* All rounds over the global data are a stage.
LEMMA GlobalRoundsStage ==
  ASSUME NEW c, Ready(c), NEW game, c.ok => c.save["game"] = game, NEW n \in Nat
  PROVE  Stage(Rounds(ReadGlobal, c, n), c, BodySet(game))
<1>. DEFINE T == {k \in Nat : Stage(GlobalRounds(c, k), c, BodySet(game))}
<1>1. 0 \in T
  <2>1. Stage(c, c, BodySet(game))
    BY StageNone
  <2>2. QED BY <2>1, GlobalRoundsAre
<1>2. ASSUME NEW k \in Nat, k \in T PROVE k + 1 \in T
  <2>. DEFINE d == GlobalRounds(c, k)
  <2>1. Stage(d, c, BodySet(game))
    BY <1>2
  <2>2. GlobalRounds(c, k + 1) = ReadGlobal(d, k + 1)
    BY GlobalRoundsAre
  <2>. HIDE DEF d
  <2>3. d.ok => d.save["game"] = game
    BY <2>1, NotTouched, GameKept
  <2>4. Stage(ReadGlobal(d, k + 1), d, BodySet(game))
    BY <2>1, <2>3, StageReady, ReadGlobalStage
  <2>5. QED BY <2>1, <2>2, <2>4, StageThen
<1>. HIDE DEF T
<1>3. Nat \subseteq T
  BY <1>1, <1>2, FG!Induction
<1>4. Stage(GlobalRounds(c, n), c, BodySet(game))
  BY <1>3 DEF T
<1>5. CASE ~c.ok \/ n > Left(c)
  <2>1. Rounds(ReadGlobal, c, n) = Refused(c)
    BY <1>5, RoundsAre
  <2>2. QED BY <2>1, StageRefused
<1>6. CASE ~(~c.ok \/ n > Left(c))
  <2>1. Rounds(ReadGlobal, c, n) = GlobalRounds(c, n)
    BY <1>6, RoundsAre
  <2>2. QED BY <1>4, <2>1
<1>7. QED BY <1>5, <1>6

\* All rounds over the change forms are a stage.
LEMMA FormRoundsStage ==
  ASSUME NEW c, Ready(c), NEW n \in Nat
  PROVE  Stage(Rounds(ReadChangeForm, c, n), c, {"change_forms"})
<1>. DEFINE Ch == {"change_forms"}
            T == {k \in Nat : Stage(FormRounds(c, k), c, Ch)}
<1>1. 0 \in T
  <2>. HIDE DEF Ch
  <2>1. Stage(c, c, Ch)
    BY StageNone
  <2>2. QED BY <2>1, FormRoundsAre
<1>2. ASSUME NEW k \in Nat, k \in T PROVE k + 1 \in T
  <2>. DEFINE d == FormRounds(c, k)
  <2>1. Stage(d, c, Ch)
    BY <1>2
  <2>2. FormRounds(c, k + 1) = ReadChangeForm(d, k + 1)
    BY FormRoundsAre
  <2>. HIDE DEF d
  <2>3. Stage(ReadChangeForm(d, k + 1), d, Ch)
    BY <2>1, StageReady, ReadFormStage
  <2>. HIDE DEF Ch
  <2>4. QED BY <2>1, <2>2, <2>3, StageThen
<1>. HIDE DEF T
<1>3. Nat \subseteq T
  BY <1>1, <1>2, FC!Induction
<1>4. Stage(FormRounds(c, n), c, Ch)
  BY <1>3 DEF T
<1>. HIDE DEF Ch
<1>5. CASE ~c.ok \/ n > Left(c)
  <2>1. Rounds(ReadChangeForm, c, n) = Refused(c)
    BY <1>5, RoundsAre
  <2>2. QED BY <2>1, StageRefused
<1>6. CASE ~(~c.ok \/ n > Left(c))
  <2>1. Rounds(ReadChangeForm, c, n) = FormRounds(c, n)
    BY <1>6, RoundsAre
  <2>2. QED BY <1>4, <2>1 DEF Ch
<1>7. QED BY <1>5, <1>6

\* Passing w octets.
LEMMA AdvanceIs ==
  ASSUME NEW c, IsCursor(c), NEW w \in Nat
  PROVE  LET d == Advance(c, w)
         IN  /\ IsCursor(d) /\ d.octets = c.octets /\ d.save = c.save
             /\ w <= Left(c) => d.ok = c.ok /\ d.pos = c.pos + w
             /\ ~(w <= Left(c)) => ~d.ok
<1>. DEFINE d == Advance(c, w)
            to == c.pos + w
<1>0. Left(c) \in Nat /\ c.pos \in Nat /\ Len(c.octets) \in Nat /\ c.pos + Left(c) = Len(c.octets)
  BY LeftIs, Zenon
<1>1. CASE w > Left(c)
  <2>1. d = Refused(c)
    BY <1>1, Zenon DEF Advance
  <2>. HIDE DEF d
  <2>2. IsCursor(d) /\ d.octets = c.octets /\ d.save = c.save /\ ~d.ok
    BY <2>1, RefusedIs
  <2>3. ~(w <= Left(c))
    BY <1>0, <1>1
  <2>4. QED BY <2>2, <2>3 DEF d
<1>2. CASE ~(w > Left(c))
  <2>1. d = [c EXCEPT !.pos = to]
    BY <1>2 DEF Advance
  <2>2. w <= Left(c) /\ to \in Nat /\ to <= Len(c.octets) /\ to = c.pos + w
    BY <1>0, <1>2
  <2>. HIDE DEF d, to
  <2>3. d = [octets |-> c.octets, pos |-> to, ok |-> c.ok, got |-> c.got, save |-> c.save]
    BY <2>1, Edited, Zenon
  <2>4. d.octets = c.octets /\ d.pos = to /\ d.ok = c.ok /\ d.got = c.got /\ d.save = c.save
    BY <2>3
  <2>5. c.octets \in Value /\ c.ok \in BOOLEAN /\ c.got \in Seq(Value)
    BY Zenon DEF IsCursor
  <2>6. IsCursor(d)
    BY <2>2, <2>3, <2>4, <2>5, Zenon DEF IsCursor
  <2>7. QED BY <2>2, <2>4, <2>6 DEF d
<1>3. QED BY <1>1, <1>2

\* Passing octets is a stage.
LEMMA AdvanceStage ==
  ASSUME NEW c, Ready(c), NEW w \in Nat, NEW Ch
  PROVE  Stage(Advance(c, w), c, Ch)
<1>. DEFINE d == Advance(c, w)
<1>1. IsCursor(c) /\ Len(c.octets) < TooMany /\ (c.ok => Sane(c.save))
  BY Zenon DEF Ready
<1>2. /\ IsCursor(d) /\ d.octets = c.octets /\ d.save = c.save
      /\ w <= Left(c) => d.ok = c.ok /\ d.pos = c.pos + w
      /\ ~(w <= Left(c)) => ~d.ok
  BY <1>1, AdvanceIs
<1>. HIDE DEF d
<1>3. d.ok => c.ok
  BY <1>2, Zenon
<1>4. QED BY <1>1, <1>2, <1>3, Zenon DEF Stage, d
-----------------------------------------------------------------------------
(* The body. *)

\* Reading the plugin table's block.
LEMMA InsideIsOf ==
  ASSUME NEW c, NEW header, NEW size
  PROVE  Inside(c, header, size, plugin_info)
           = InsideOf(c, header, size, plugin_info(BlockOf(c, header, size)))
BY DEF Inside, InsideOf, BlockOf

\* The plugin table's block is a stage.
LEMMA TableStage ==
  ASSUME NEW c, Ready(c)
  PROVE  Stage(Inside(c, 4, NumberAt(c, 0, 4), plugin_info), c, PluginSet(c.save))
<1>. DEFINE size == NumberAt(c, 0, 4)
            b == BlockOf(c, 4, size)
            e == plugin_info(b)
            Ch == PluginSet(c.save)
<1>1. IsCursor(c) /\ size \in Nat /\ 4 \in Nat
  <2>1. IsCursor(c)
    BY Zenon DEF Ready
  <2>2. 0 \in Nat /\ 4 \in {1, 2, 4} /\ 4 \in Nat
    OBVIOUS
  <2>3. QED BY <2>1, <2>2, NumberAtTyped
<1>. HIDE DEF size
<1>2. ASSUME 4 + size <= Left(c) PROVE Stage(e, b, Ch)
  <2>1. Ready(b) /\ b.save = c.save
    BY <1>1, <1>2, BlockReady
  <2>2. QED BY <2>1, PluginStage, Zenon
<1>. HIDE DEF e, Ch
<1>3. Stage(InsideOf(c, 4, size, e), c, Ch)
  BY <1>1, <1>2, InsideStage
<1>4. QED BY <1>3, InsideIsOf DEF e, Ch, size

AfterSet(game, P) == P \cup BodySet(game) \cup {"change_forms"} \cup TailSet

\* The plugin table changes no other fields.
LEMMA PluginSetIs == \A s : PluginSet(s) \subseteq {"plugins", "light_plugins"}
BY DEF PluginSet

\* What a body is read as: version is what is behind the version fields.
LEMMA BodyStage ==
  ASSUME NEW c, Ready(c), NEW game, c.ok => c.save["game"] = game
  PROVE  \E v : /\ Stage(v, c, VersionSet(game))
                /\ Stage(read_body(c), v, AfterSet(game, PluginSet(v.save)))
<1>. DEFINE g == c.save["game"]
            v == LoadAll(c, VersionLoads(g))
            P == PluginSet(v.save)
            A == AfterSet(game, P)
            table == Inside(v, 4, NumberAt(v, 0, 4), plugin_info)
            adv == Advance(table, LocationTableSize)
            n1 == Number(Plus(Piece(table, 24, 4), Piece(table, 28, 4)))
            early == Rounds(ReadGlobal, adv, n1)
            n2 == NumberAt(table, 36, 4)
            forms == Rounds(ReadChangeForm, early, n2)
            n3 == num_globals3(table)
            late == Rounds(ReadGlobal, forms, n3)
            d == read_body(c)
<1>1. d = IF late.ok THEN LoadAll(late, TailLoads) ELSE late
  BY DEF read_body, read_tables, read_tail
<1>2. Stage(v, c, VersionSet(game)) /\ (v.ok => v.save["game"] = game)
  <2>1. Stage(v, c, VersionSet(g))
    BY VersionStage
  <2>. HIDE DEF v
  <2>2. Stage(v, c, VersionSet(game))
    <3>1. CASE c.ok
      <4>1. g = game
        BY <3>1
      <4>. HIDE DEF g
      <4>2. QED BY <2>1, <4>1
    <3>2. CASE ~c.ok
      <4>. HIDE DEF g
      <4>1. QED BY <2>1, <3>2, Zenon DEF Stage
    <3>3. QED BY <3>1, <3>2
  <2>3. "game" \notin VersionSet(game)
    BY DEF VersionSet, MoreOf
  <2>4. v.ok => v.save["game"] = game
    BY <2>2, <2>3, GameKept
  <2>5. QED BY <2>2, <2>4
<1>. HIDE DEF v
<1>3. Stage(table, v, A) /\ (table.ok => table.save["game"] = game)
  <2>1. Stage(table, v, P)
    BY <1>2, StageReady, TableStage
  <2>2. P \subseteq A /\ "game" \notin P
    BY PluginSetIs DEF AfterSet
  <2>. HIDE DEF table, P, A
  <2>3. table.ok => table.save["game"] = game
    BY <1>2, <2>1, <2>2, GameKept
  <2>4. QED BY <2>1, <2>2, <2>3, StageWider
<1>4. n1 \in Nat /\ n2 \in Nat /\ n3 \in Nat
  <2>1. IsCursor(table)
    BY <1>3, Zenon DEF Stage
  <2>. HIDE DEF table
  <2>2. NumberAt(table, 36, 4) \in Nat /\ NumberAt(table, 32, 4) \in Nat
    <3>1. 32 \in Nat /\ 36 \in Nat /\ 4 \in {1, 2, 4}
      OBVIOUS
    <3>2. QED BY <2>1, <3>1, NumberAtTyped
  <2>3. n3 \in Nat
    BY <2>2 DEF num_globals3
  <2>. DEFINE x == Piece(table, 24, 4) y == Piece(table, 28, 4)
  <2>4. x \in Value /\ Len(x) = 4 /\ y \in Value /\ Len(y) = 4
    <3>1. 24 \in Nat /\ 28 \in Nat /\ 4 \in Nat
      OBVIOUS
    <3>2. QED BY <2>1, <3>1, PieceTyped
  <2>. HIDE DEF x, y
  <2>5. Number(Plus(x, y)) \in Nat
    BY <2>4, SumAndProduct, Range4, Zenon
  <2>6. QED BY <2>2, <2>3, <2>5 DEF x, y
<1>. HIDE DEF table, n1, n2, n3
<1>5. Stage(adv, v, A) /\ (adv.ok => adv.save["game"] = game)
  <2>1. LocationTableSize \in Nat
    BY DEF LocationTableSize
  <2>2. Stage(adv, table, A) /\ Stage(adv, table, {})
    BY <1>3, <2>1, StageReady, AdvanceStage
  <2>. HIDE DEF adv, A
  <2>3. "game" \notin {}
    OBVIOUS
  <2>4. adv.ok => adv.save["game"] = game
    BY <1>3, <2>2, <2>3, GameKept
  <2>5. QED BY <1>3, <2>2, <2>4, StageThen
<1>. HIDE DEF adv
<1>6. Stage(early, v, A) /\ (early.ok => early.save["game"] = game)
  <2>1. Stage(early, adv, BodySet(game))
    BY <1>4, <1>5, StageReady, GlobalRoundsStage
  <2>2. BodySet(game) \subseteq A /\ "game" \notin BodySet(game)
    BY NotTouched DEF AfterSet
  <2>. HIDE DEF early, A
  <2>3. early.ok => early.save["game"] = game
    BY <1>5, <2>1, <2>2, GameKept
  <2>4. Stage(early, adv, A)
    BY <2>1, <2>2, StageWider
  <2>5. QED BY <1>5, <2>3, <2>4, StageThen
<1>. HIDE DEF early
<1>7. Stage(forms, v, A) /\ (forms.ok => forms.save["game"] = game)
  <2>. DEFINE Ch == {"change_forms"}
  <2>1. Stage(forms, early, Ch)
    BY <1>4, <1>6, StageReady, FormRoundsStage
  <2>2. Ch \subseteq A /\ "game" \notin Ch
    BY DEF AfterSet
  <2>. HIDE DEF forms, A, Ch
  <2>3. forms.ok => forms.save["game"] = game
    BY <1>6, <2>1, <2>2, GameKept
  <2>4. Stage(forms, early, A)
    BY <2>1, <2>2, StageWider
  <2>5. QED BY <1>6, <2>3, <2>4, StageThen
<1>. HIDE DEF forms
<1>8. Stage(late, v, A)
  <2>1. Stage(late, forms, BodySet(game))
    BY <1>4, <1>7, StageReady, GlobalRoundsStage
  <2>2. BodySet(game) \subseteq A
    BY DEF AfterSet
  <2>. HIDE DEF late, A
  <2>3. Stage(late, forms, A)
    BY <2>1, <2>2, StageWider
  <2>4. QED BY <1>7, <2>3, StageThen
<1>. HIDE DEF late
<1>9. Stage(d, v, A)
  <2>1. CASE ~late.ok
    <3>1. d = late
      BY <1>1, <2>1, Zenon
    <3>2. QED BY <1>8, <3>1
  <2>2. CASE late.ok
    <3>1. d = LoadAll(late, TailLoads)
      BY <1>1, <2>2, Zenon
    <3>2. Stage(d, late, TailSet)
      BY <1>8, <3>1, StageReady, TailStage
    <3>3. TailSet \subseteq A
      BY DEF AfterSet
    <3>. HIDE DEF d, A
    <3>4. Stage(d, late, A)
      BY <3>2, <3>3, StageWider
    <3>5. QED BY <1>8, <3>4, StageThen
  <2>3. QED BY <2>1, <2>2
<1>10. QED BY <1>2, <1>9
-----------------------------------------------------------------------------
(* The snapshot. *)

\* The size of a snapshot is a number.
LEMMA SnapshotSize ==
  ASSUME NEW s, Good(s)
  PROVE  snapshot_size(s) \in Nat
<1>. DEFINE w == s["snapshot_width"][1] h == s["snapshot_height"][1]
            k == snapshot_pixel_width(s) p == LE(k, 4)
<1>1. w \in Value /\ Len(w) = 4 /\ h \in Value /\ Len(h) = 4
  BY NumbersOf, Zenon
<1>2. k \in Int
  BY DEF snapshot_pixel_width
<1>3. snapshot_size(s) = Number(Times(Times(w, h), p))
  BY DEF snapshot_size
<1>. HIDE DEF w, h, k
<1>4. p \in Value /\ Len(p) = 4
  <2>1. 4 \in {1, 2, 4}
    OBVIOUS
  <2>2. QED BY <1>2, <2>1, LEIs, Zenon
<1>. HIDE DEF p
<1>5. Times(w, h) \in Value /\ Len(Times(w, h)) = 4
  BY <1>1, SumAndProduct, Zenon
<1>6. Times(Times(w, h), p) \in Value /\ Len(Times(Times(w, h), p)) = 4
  BY <1>4, <1>5, SumAndProduct, Zenon
<1>7. QED BY <1>3, <1>6, Range4, Zenon

HasSnapshot(s, n) == \E x \in Value : Len(x) = n /\ s["snapshot_data"] = <<x>>

\* The snapshot is read with the size its width and height say.
LEMMA SnapshotStage ==
  ASSUME NEW c, Ready(c), c.ok
  PROVE  /\ Stage(read_snapshot(c), c, {"snapshot_data"})
         /\ read_snapshot(c).ok => HasSnapshot(read_snapshot(c).save, snapshot_size(c.save))
<1>. DEFINE n == snapshot_size(c.save)
            b == [c EXCEPT !.got = <<>>]
            e == Take(b, 0, n, "chunk")
            x == Piece(b, 0, n)
            v == e.got
            d == read_snapshot(c)
<1>0. IsCursor(c) /\ Len(c.octets) < TooMany /\ Sane(c.save) /\ IsSave(c.save)
  BY Zenon DEF Ready, Sane
<1>1. n \in Nat /\ 0 \in Nat
  BY <1>0, SnapshotSize DEF Sane
<1>2. d = [e EXCEPT !.save.snapshot_data = v]
  BY DEF read_snapshot
<1>. HIDE DEF n
<1>3. IsCursor(b) /\ b.octets = c.octets /\ b.ok = c.ok /\ b.save = c.save /\ b.got = <<>>
  <2>. DEFINE z == <<>>
  <2>0. z \in Seq(Value)
    OBVIOUS
  <2>1. b = [c EXCEPT !.got = z]
    OBVIOUS
  <2>. HIDE DEF z, b
  <2>2. b = [octets |-> c.octets, pos |-> c.pos, ok |-> c.ok, got |-> z, save |-> c.save]
    BY <1>0, <2>1, Edits, Zenon
  <2>3. b.octets = c.octets /\ b.pos = c.pos /\ b.ok = c.ok /\ b.got = z /\ b.save = c.save
    BY <2>2
  <2>4. c.octets \in Value /\ c.pos \in Nat /\ c.pos <= Len(c.octets) /\ c.ok \in BOOLEAN
    BY <1>0, Zenon DEF IsCursor
  <2>5. IsCursor(b)
    BY <2>0, <2>2, <2>3, <2>4, Zenon DEF IsCursor
  <2>6. QED BY <2>3, <2>5 DEF z
<1>. HIDE DEF b
<1>4. /\ IsCursor(e) /\ e.octets = b.octets /\ e.save = b.save
      /\ e.ok => b.ok /\ x \in Value /\ Len(x) = n /\ e.got = Append(b.got, Loaded("chunk", x))
  <2>1. \A o \in Value : Len(o) = n => Loaded("chunk", o) \in Value
    BY DEF Loaded
  <2>2. QED BY <1>1, <1>3, <2>1, TakeTyped
<1>. HIDE DEF e
<1>5. e.ok => v = <<x>>
  <2>1. Loaded("chunk", x) = x
    BY DEF Loaded
  <2>. HIDE DEF x
  <2>2. Append(<<>>, x) = <<x>>
    OBVIOUS
  <2>3. QED BY <1>3, <1>4, <2>1, <2>2
<1>. HIDE DEF x, v, d
<1>6. IsSet(d, e, "snapshot_data", v)
  BY <1>2, <1>4, SaveSet
<1>7. /\ IsCursor(d) /\ d.octets = c.octets /\ (d.ok => c.ok) /\ (d.ok => e.ok)
      /\ d.save = [c.save EXCEPT !["snapshot_data"] = v]
  BY <1>3, <1>4, <1>6, Zenon DEF IsSet
<1>8. d.ok => v \in Seq(Value)
  <2>1. ASSUME NEW X, NEW y \in X PROVE <<y>> \in Seq(X)
    OBVIOUS
  <2>2. QED BY <1>4, <1>5, <1>7, <2>1, Zenon
<1>9. Stage(d, c, {"snapshot_data"})
  <2>. DEFINE m == "snapshot_data"
  <2>1. m \in {"data4", "snapshot_data", "globals", "change_forms"} /\ m # "data4"
        /\ m # "change_forms" /\ m # "globals"
    OBVIOUS
  <2>2. d.ok => c.ok /\ d.save = [c.save EXCEPT ![m] = v]
    BY <1>7
  <2>. HIDE DEF m
  <2>3. Stage(d, c, {m})
    BY <1>7, <1>8, <2>1, <2>2, SetStage
  <2>4. QED BY <2>3 DEF m
<1>10. d.save["snapshot_data"] = v
  <2>. DEFINE m == "snapshot_data"
  <2>1. m \in Names
    BY Zenon DEF Names, OtherNames
  <2>2. d.save = [c.save EXCEPT ![m] = v]
    BY <1>7
  <2>. HIDE DEF m
  <2>3. SetTo(d.save, c.save, m, v)
    BY <1>0, <2>1, <2>2, SaveExcept
  <2>4. d.save[m] = v
    BY <2>1, <2>3, Zenon DEF SetTo
  <2>5. QED BY <2>4 DEF m
<1>11. d.ok => HasSnapshot(d.save, n)
  BY <1>4, <1>5, <1>7, <1>10, Zenon DEF HasSnapshot
<1>12. QED BY <1>9, <1>11 DEF d, n
-----------------------------------------------------------------------------
(* Where the body is. *)

\* Decompression gives octets, fewer than TooMany.
LEMMA DecompressedIs ==
  ASSUME DecompressorIsSafe, NEW o \in Value, NEW room \in Nat
  PROVE  /\ Decompressed(o, room).octets \in Value
         /\ Len(Decompressed(o, room).octets) < TooMany
         /\ Decompressed(o, room).ok \in BOOLEAN
<1>. DEFINE r == Decompressed(o, room)
<1>1. r \in [ok : BOOLEAN, octets : Seq(Octet)] /\ Len(r.octets) < TooMany
  BY Zenon DEF DecompressorIsSafe, Value
<1>. HIDE DEF r
<1>2. QED BY <1>1 DEF r, Value

\* What moving a cursor into a decompressed body leaves as it was.
LEMMA EditedBody ==
  ASSUME NEW c, IsCursor(c), NEW x, NEW n, NEW k
  PROVE  [c EXCEPT !.octets = x, !.pos = n, !.ok = k] =
                [octets |-> x, pos |-> n, ok |-> k, got |-> c.got, save |-> c.save]
<1>1. \A y, m, j : [c EXCEPT !.octets = y, !.pos = m, !.ok = j] =
                [octets |-> y, pos |-> m, ok |-> j, got |-> c.got, save |-> c.save]
  BY Edits, Zenon
<1>2. QED BY <1>1, Zenon

\* Finding the body, packed or not, is a stage that changes no field.
LEMMA FindBodyStage ==
  ASSUME DecompressorIsSafe, NEW c, Ready(c), c.ok
  PROVE  Stage(find_body(c), c, {})
<1>. DEFINE room == NumberAt(c, 0, 4)
            size == NumberAt(c, 4, 4)
            o == Piece(c, 8, size)
            r == Decompressed(o, room)
            d == find_body(c)
<1>0. IsCursor(c) /\ Len(c.octets) < TooMany /\ Sane(c.save)
  BY Zenon DEF Ready
<1>1. d = IF ~supports_save_file_compression(c.save) THEN c
          ELSE IF Number(c.save["compressor"][1]) = 0 THEN Advance(c, 16)
          ELSE IF 8 + size > Left(c) THEN Refused(c)
          ELSE [c EXCEPT !.octets = r.octets, !.pos = 0, !.ok = r.ok]
  BY DEF find_body
<1>2. size \in Nat /\ room \in Nat
  <2>1. 4 \in Nat /\ 0 \in Nat /\ 4 \in {1, 2, 4}
    OBVIOUS
  <2>2. QED BY <1>0, <2>1, NumberAtTyped
<1>. HIDE DEF room, size
<1>3. o \in Value /\ Len(o) = size
  BY <1>0, <1>2, PieceTyped
<1>. HIDE DEF o
<1>4. r.octets \in Value /\ Len(r.octets) < TooMany /\ r.ok \in BOOLEAN
  BY <1>2, <1>3, DecompressedIs
<1>. HIDE DEF r
<1>5. CASE d = c
  BY <1>5, StageNone
<1>6. CASE d = Advance(c, 16)
  <2>1. 16 \in Nat
    OBVIOUS
  <2>2. QED BY <1>6, <2>1, AdvanceStage
<1>7. CASE d = Refused(c)
  BY <1>7, StageRefused
<1>8. CASE 8 + size <= Left(c) /\ d = [c EXCEPT !.octets = r.octets, !.pos = 0, !.ok = r.ok]
  <2>. DEFINE x == r.octets k == r.ok z == 0
  <2>1. d = [c EXCEPT !.octets = x, !.pos = z, !.ok = k] /\ z \in Nat /\ z <= Len(x)
    BY <1>4, <1>8 DEF Value
  <2>. HIDE DEF x, k, z, d
  <2>2. d = [octets |-> x, pos |-> z, ok |-> k, got |-> c.got, save |-> c.save]
    <3>1. [c EXCEPT !.octets = x, !.pos = z, !.ok = k]
            = [octets |-> x, pos |-> z, ok |-> k, got |-> c.got, save |-> c.save]
      BY <1>0, EditedBody
    <3>2. QED BY <2>1, <3>1, Zenon
  <2>3. d.octets = x /\ d.pos = z /\ d.ok = k /\ d.got = c.got /\ d.save = c.save
    BY <2>2
  <2>4. c.got \in Seq(Value) /\ x \in Value /\ k \in BOOLEAN
    BY <1>0, <1>4, Zenon DEF IsCursor, x, k
  <2>5. IsCursor(d)
    BY <2>1, <2>2, <2>3, <2>4, Zenon DEF IsCursor
  <2>6. Len(d.octets) < TooMany
    BY <1>4, <2>3 DEF x
  <2>7. QED BY <1>0, <2>3, <2>5, <2>6, Zenon DEF Stage, d
<1>9. 8 + size > Left(c) \/ 8 + size <= Left(c)
  <2>1. Left(c) \in Nat
    BY <1>0, LeftIs, Zenon
  <2>2. QED BY <1>2, <2>1
<1>10. QED BY <1>1, <1>5, <1>6, <1>7, <1>8, <1>9
-----------------------------------------------------------------------------
(* What file_reader makes of a file. *)

\* The fields the format of a save has no place for.
Unused(s) ==
  {n \in {"compressor", "light_plugins", "game_version", "unknown"} :
     \/ n = "compressor" /\ ~supports_save_file_compression(s)
     \/ n = "light_plugins" /\ ~supports_light_plugins(s)
     \/ n = "game_version" /\ s["game"] # "FALLOUT4"
     \/ n = "unknown" /\ s["game"] # "SKYRIM"}

\* The invariant of a save that was read: all of it can be stored, its format is one the
\* reader knows, it has a snapshot of the size the header says, and what its format has no
\* place for is as savegame_alloc left it.
WellFormed(s) ==
  /\ Sane(s)
  /\ Number(s["file_version"][1]) <= 15
  /\ \A n \in HeaderSet : FieldWasRead(FieldNamed(n), s[n])
  /\ supports_save_file_compression(s) => Number(s["compressor"][1]) <= 2
  /\ HasSnapshot(s, snapshot_size(s))
  /\ \A n \in Unused(s) : s[n] = savegame_alloc[n]

EmptySave(g) == [savegame_alloc EXCEPT !["game"] = g]

\* The save of a game before anything was read.
LEMMA EmptyIs ==
  ASSUME NEW g \in Games
  PROVE  /\ IsSave(EmptySave(g)) /\ EmptySave(g)["game"] = g
         /\ \A n \in Names : n # "game" => EmptySave(g)[n] = savegame_alloc[n]
<1>. DEFINE m == "game"
<1>1. IsSave(savegame_alloc) /\ m \in Names
  BY AllocIs, Zenon DEF Names, OtherNames
<1>2. EmptySave(g) = [savegame_alloc EXCEPT ![m] = g]
  BY DEF EmptySave
<1>. HIDE DEF m
<1>3. SetTo(EmptySave(g), savegame_alloc, m, g)
  BY ZenonT(40), <1>1, <1>2, SaveExcept
<1>4. IsSave(EmptySave(g)) /\ EmptySave(g)[m] = g
      /\ \A n \in Names : n # m => EmptySave(g)[n] = savegame_alloc[n]
  BY <1>1, <1>3, Zenon DEF SetTo
<1>5. QED BY <1>4 DEF m

\* What savegame_alloc leaves can be stored.
LEMMA SaneStart ==
  /\ \A n \in PlainNames : FieldOK(FieldNamed(n), savegame_alloc[n])
  /\ SomeOK(savegame_alloc["data4"])
  /\ savegame_alloc["snapshot_data"] \in Seq(Value)
  /\ GlobalsOK(savegame_alloc["globals"])
  /\ FormsOK(savegame_alloc["change_forms"])
<1>1. \A n \in PlainNames : FieldOK(FieldNamed(n), savegame_alloc[n])
  <2>1. PlainNames \subseteq AllNames
    BY Zenon DEF AllNames
  <2>2. QED BY <2>1, AllocIs, StartTyped, Zenon
<1>2. SomeOK(savegame_alloc["data4"])
  <2>1. "data4" \in AllNames
    BY Zenon DEF AllNames
  <2>2. savegame_alloc["data4"] = StartOf("data4")
    BY <2>1, AllocIs, Zenon
  <2>3. StartOf("data4") = <<>>
    BY DEF StartOf, CountOf
  <2>4. QED BY <2>2, <2>3, Zenon DEF SomeOK
<1>3. savegame_alloc["snapshot_data"] \in Seq(Value)
  <2>1. savegame_alloc["snapshot_data"] = <<>>
    BY AllocIs, Zenon
  <2>2. QED BY <2>1
<1>4. GlobalsOK(savegame_alloc["globals"])
  <2>. DEFINE e == savegame_alloc["globals"]
  <2>1. e = [t \in ObjectTypes |-> <<>>]
    BY AllocIs, Zenon
  <2>. HIDE DEF e
  <2>2. \A t \in ObjectTypes : e[t] = <<>>
    BY <2>1
  <2>3. e = [t \in ObjectTypes |-> e[t]]
    BY <2>1
  <2>4. QED BY <2>2, <2>3, Zenon DEF GlobalsOK, e
<1>5. FormsOK(savegame_alloc["change_forms"])
  <2>1. savegame_alloc["change_forms"] = <<>>
    BY AllocIs, Zenon
  <2>2. FormsOK(<<>>)
    BY DEF FormsOK
  <2>3. QED BY <2>1, <2>2, Zenon
<1>6. QED BY <1>1, <1>2, <1>3, <1>4, <1>5, Zenon

\* The save of a game before anything was read can be stored.
LEMMA EmptySane ==
  ASSUME NEW g \in Games
  PROVE  Sane(EmptySave(g))
<1>. DEFINE s == EmptySave(g)
<1>1. IsSave(s) /\ s["game"] = g /\ \A n \in Names : n # "game" => s[n] = savegame_alloc[n]
  BY EmptyIs, Zenon
<1>. HIDE DEF s
<1>2. /\ PlainNames \subseteq Names /\ "data4" \in Names /\ "snapshot_data" \in Names
      /\ "globals" \in Names /\ "change_forms" \in Names
  BY Zenon DEF Names, AllNames, OtherNames
<1>3. /\ "data4" # "game" /\ "snapshot_data" # "game" /\ "globals" # "game"
      /\ "change_forms" # "game" /\ \A n \in PlainNames : n # "game"
  BY NamesApart
<1>4. Good(s)
  BY <1>1, <1>2, <1>3, SaneStart, Zenon DEF Good
<1>5. /\ s["snapshot_data"] \in Seq(Value) /\ GlobalsOK(s["globals"])
      /\ FormsOK(s["change_forms"])
  BY <1>1, <1>2, <1>3, SaneStart, Zenon
<1>6. QED BY <1>1, <1>4, <1>5, Zenon DEF Sane, s

\* The steps of file_reader.
Opened(octs, g) ==
  [octets |-> octs, pos |-> Len(Signature[g]), ok |-> TRUE, got |-> <<>>, save |-> EmptySave(g)]
HeaderOf(c) == Inside(c, 4, NumberAt(c, 0, 4), file_header)
FoundOf(h) == If(If(h, read_snapshot), find_body)
DoneOf(h) == If(FoundOf(h), read_body)
GamesOf(octs) == {g \in DOMAIN Signature : IsPrefix(Signature[g], octs)}

\* file_reader as a whole: what it refuses, and the save it gives else.
LEMMA ReaderIs ==
  ASSUME NEW octs
  PROVE  LET h == HeaderOf(Opened(octs, CHOOSE g \in GamesOf(octs) : TRUE))
             d == DoneOf(h)
         IN  file_reader(octs) =
               IF \/ Len(octs) < MinFileSize \/ GamesOf(octs) = {}
                  \/ ~(h.ok /\ Number(h.save["file_version"][1]) <= 15) \/ ~d.ok
               THEN [ok |-> FALSE, save |-> savegame_alloc]
               ELSE [ok |-> TRUE, save |-> d.save]
<1>. DEFINE h == HeaderOf(Opened(octs, CHOOSE g \in GamesOf(octs) : TRUE))
            d == DoneOf(h)
            u == Len(octs) < MinFileSize \/ GamesOf(octs) = {}
                 \/ ~(h.ok /\ Number(h.save["file_version"][1]) <= 15)
<1>1. file_reader(octs) = Outcome(d, u)
  BY DEF file_reader, HeaderOf, FoundOf, DoneOf, GamesOf, Opened, EmptySave
<1>. HIDE DEF h, d
<1>2. QED BY <1>1, Zenon DEF Outcome, h, d

\* The two signatures.
LEMMA SignatureIs ==
  /\ DOMAIN Signature = Games
  /\ Signature["SKYRIM"] = <<84, 69, 83, 86, 95, 83, 65, 86, 69, 71, 65, 77, 69>>
  /\ Signature["FALLOUT4"] = <<70, 79, 52, 95, 83, 65, 86, 69, 71, 65, 77, 69>>
BY DEF Signature, Games

\* Reading the file header's block.
LEMMA HeaderIsOf ==
  ASSUME NEW c
  PROVE  HeaderOf(c) = InsideOf(c, 4, NumberAt(c, 0, 4), file_header(BlockOf(c, 4, NumberAt(c, 0, 4))))
BY DEF HeaderOf, Inside, InsideOf, BlockOf

\* The file header's block is a stage.
LEMMA HeaderOfStage ==
  ASSUME NEW c, Ready(c)
  PROVE  /\ Stage(HeaderOf(c), c, HeaderSet \cup {"compressor"})
         /\ HeaderOf(c).ok => HeaderRead(HeaderOf(c).save, c.save["compressor"])
<1>. DEFINE size == NumberAt(c, 0, 4)
            b == BlockOf(c, 4, size)
            e == file_header(b)
            d == HeaderOf(c)
            Ch == HeaderSet \cup {"compressor"}
<1>1. IsCursor(c) /\ size \in Nat /\ 4 \in Nat
  <2>1. IsCursor(c)
    BY Zenon DEF Ready
  <2>2. 0 \in Nat /\ 4 \in {1, 2, 4} /\ 4 \in Nat
    OBVIOUS
  <2>3. QED BY <2>1, <2>2, NumberAtTyped
<1>2. d = InsideOf(c, 4, size, e)
  BY HeaderIsOf
<1>. HIDE DEF size
<1>3. ASSUME 4 + size <= Left(c)
      PROVE  Stage(e, b, Ch) /\ (e.ok => HeaderRead(e.save, c.save["compressor"]))
  <2>1. Ready(b) /\ b.save = c.save
    BY <1>1, <1>3, BlockReady
  <2>2. QED BY <2>1, HeaderStage
<1>. HIDE DEF e, Ch, d
<1>4. Stage(d, c, Ch)
  BY <1>1, <1>2, <1>3, InsideStage
<1>5. ASSUME d.ok PROVE HeaderRead(d.save, c.save["compressor"])
  <2>1. CASE ~c.ok \/ 4 + size > Left(c)
    <3>1. d = Refused(c)
      BY <1>2, <2>1, Zenon DEF InsideOf
    <3>2. QED BY <1>1, <1>5, <3>1, RefusedIs
  <2>2. CASE ~(~c.ok \/ 4 + size > Left(c))
    <3>1. 4 + size <= Left(c) /\ c.ok
      <4>1. Left(c) \in Nat
        BY <1>1, LeftIs, Zenon
      <4>2. QED BY <1>1, <2>2, <4>1
    <3>2. IsCursor(e)
      BY <1>3, <3>1, Zenon DEF Stage
    <3>3. IsBehind(d, c, 4 + size, e)
      BY <1>1, <1>2, <3>1, <3>2, InsideIs
    <3>4. e.ok /\ d.save = e.save
      BY <1>5, <3>3, Zenon DEF IsBehind
    <3>5. QED BY <1>3, <3>1, <3>4
  <2>3. QED BY <2>1, <2>2
<1>6. QED BY <1>4, <1>5 DEF d, Ch

\* What stays as it is from some point on.
LEMMA KeptAfter ==
  ASSUME NEW game, NEW P, P \subseteq {"plugins", "light_plugins"}
  PROVE  /\ \A n \in HeaderSet \cup {"compressor", "game", "snapshot_data", "form_version",
                                     "game_version"} : n \notin AfterSet(game, P)
         /\ "light_plugins" \notin P => "light_plugins" \notin AfterSet(game, P)
         /\ game # "SKYRIM" => "unknown" \notin AfterSet(game, P)
<1>1. /\ \A n \in HeaderSet \cup {"compressor", "game", "snapshot_data", "form_version",
                                     "game_version"} :
            n \notin {"plugins", "light_plugins"} /\ n # "change_forms" /\ n \notin TailSet
      /\ "light_plugins" # "change_forms" /\ "light_plugins" \notin TailSet
      /\ "unknown" # "change_forms" /\ "unknown" \notin TailSet
      /\ "unknown" \notin {"plugins", "light_plugins"}
  BY DEF HeaderSet, TailSet
<1>2. /\ \A n \in HeaderSet \cup {"compressor", "game", "snapshot_data", "form_version",
                                     "game_version"} : n \notin BodySet(game)
      /\ "light_plugins" \notin BodySet(game)
      /\ game # "SKYRIM" => "unknown" \notin BodySet(game)
  BY NotTouched
<1>3. QED BY <1>1, <1>2 DEF AfterSet

\* The versions in front of the plugins change none of these fields.
LEMMA KeptVersion ==
  ASSUME NEW game
  PROVE  /\ \A n \in HeaderSet \cup {"compressor", "game", "snapshot_data", "light_plugins",
                                     "unknown"} : n \notin VersionSet(game)
         /\ game # "FALLOUT4" => "game_version" \notin VersionSet(game)
BY DEF VersionSet, HeaderSet, MoreOf

\* The names of these fields are names of a save's fields.
LEMMA NamesHere ==
  \A n \in HeaderSet \cup {"compressor", "game", "snapshot_data", "light_plugins", "unknown",
                           "form_version", "game_version"} : n \in Names
BY DEF Names, AllNames, PlainNames, OtherNames, HeaderSet

\* Saves that agree in what decides the format.
LEMMA SameFormat ==
  ASSUME NEW s, NEW t, s["game"] = t["game"], s["file_version"] = t["file_version"]
  PROVE  /\ supports_save_file_compression(s) <=> supports_save_file_compression(t)
         /\ s["form_version"] = t["form_version"] =>
              (supports_light_plugins(s) <=> supports_light_plugins(t))
         /\ s["snapshot_width"] = t["snapshot_width"] /\ s["snapshot_height"] = t["snapshot_height"]
              => snapshot_size(s) = snapshot_size(t)
BY DEF supports_save_file_compression, supports_light_plugins, snapshot_size, snapshot_pixel_width

\* A file whose signature was found is ready to be read.
LEMMA OpenedReady ==
  ASSUME NEW octs \in Value, Len(octs) < TooMany, NEW g \in GamesOf(octs)
  PROVE  /\ Ready(Opened(octs, g)) /\ Opened(octs, g).ok /\ g \in Games
         /\ Opened(octs, g).save = EmptySave(g)
<1>. DEFINE o == Opened(octs, g)
            p == Len(Signature[g])
            s == EmptySave(g)
            z == <<>>
<1>1. g \in Games
  BY SignatureIs DEF GamesOf
<1>2. p \in Nat /\ p <= Len(octs)
  <2>1. IsPrefix(Signature[g], octs)
    BY DEF GamesOf
  <2>2. p <= Len(octs)
    BY <2>1 DEF IsPrefix
  <2>3. p \in Nat
    BY <1>1, SignatureIs DEF Games
  <2>4. QED BY <2>2, <2>3
<1>3. o = [octets |-> octs, pos |-> p, ok |-> TRUE, got |-> z, save |-> s]
  BY Zenon DEF Opened
<1>4. z \in Seq(Value)
  OBVIOUS
<1>. HIDE DEF o, p, s, z
<1>5. o.octets = octs /\ o.pos = p /\ o.ok = TRUE /\ o.got = z /\ o.save = s
  BY <1>3
<1>6. IsCursor(o)
  BY <1>2, <1>3, <1>4, <1>5, Zenon DEF IsCursor
<1>7. Sane(s)
  BY <1>1, EmptySane DEF s
<1>8. QED BY <1>1, <1>5, <1>6, <1>7, Zenon DEF Ready, o, s

\* From the header to the body only the snapshot is set.
LEMMA FoundStage ==
  ASSUME DecompressorIsSafe, NEW h, Ready(h)
  PROVE  /\ Stage(FoundOf(h), h, {"snapshot_data"})
         /\ FoundOf(h).ok => HasSnapshot(FoundOf(h).save, snapshot_size(h.save))
<1>. DEFINE snap == If(h, read_snapshot)
            d == FoundOf(h)
            Ch == {"snapshot_data"}
<1>1. snap = (IF h.ok THEN read_snapshot(h) ELSE h) /\ d = IF snap.ok THEN find_body(snap) ELSE snap
  BY DEF FoundOf, If
<1>2. Stage(snap, h, Ch) /\ (snap.ok => HasSnapshot(snap.save, snapshot_size(h.save)))
  <2>1. CASE h.ok
    <3>1. snap = read_snapshot(h)
      BY <1>1, <2>1, Zenon
    <3>2. QED BY <2>1, <3>1, SnapshotStage
  <2>2. CASE ~h.ok
    <3>1. snap = h
      BY <1>1, <2>2, Zenon
    <3>2. QED BY <2>2, <3>1, StageNone
  <2>3. QED BY <2>1, <2>2
<1>. HIDE DEF snap, d
<1>3. CASE ~snap.ok
  <2>1. d = snap
    BY <1>1, <1>3, Zenon
  <2>2. QED BY <1>2, <1>3, <2>1 DEF d
<1>4. CASE snap.ok
  <2>1. d = find_body(snap)
    BY <1>1, <1>4, Zenon
  <2>2. Stage(d, snap, {})
    BY <1>2, <1>4, <2>1, StageReady, FindBodyStage
  <2>3. {} \subseteq Ch
    OBVIOUS
  <2>. HIDE DEF Ch
  <2>4. Stage(d, h, Ch)
    BY <1>2, <2>2, <2>3, StageWider, StageThen
  <2>5. d.ok => d.save["snapshot_data"] = snap.save["snapshot_data"]
    <3>1. "snapshot_data" \in Names /\ "snapshot_data" \notin {}
      BY NamesHere
    <3>2. QED BY <2>2, <3>1, Zenon DEF Stage
  <2>6. d.ok => HasSnapshot(d.save, snapshot_size(h.save))
    BY <1>2, <1>4, <2>5, Zenon DEF HasSnapshot
  <2>7. QED BY <2>4, <2>6 DEF d, Ch
<1>5. QED BY <1>3, <1>4

\* What a file is read as is well-formed, whatever the decompressor makes of its body.
THEOREM AcceptedIsWellFormed ==
  ASSUME DecompressorIsSafe, NEW octs \in Value, Len(octs) < TooMany
  PROVE  /\ file_reader(octs).ok \in BOOLEAN
         /\ file_reader(octs).ok => WellFormed(file_reader(octs).save)
         /\ ~file_reader(octs).ok => file_reader(octs).save = savegame_alloc
<1>. DEFINE g == CHOOSE g \in GamesOf(octs) : TRUE
            o == Opened(octs, g)
            h == HeaderOf(o)
            f == FoundOf(h)
            d == DoneOf(h)
            r == file_reader(octs)
            refused == \/ Len(octs) < MinFileSize \/ GamesOf(octs) = {}
                       \/ ~(h.ok /\ Number(h.save["file_version"][1]) <= 15) \/ ~d.ok
<1>1. r = IF refused THEN [ok |-> FALSE, save |-> savegame_alloc] ELSE [ok |-> TRUE, save |-> d.save]
  BY ReaderIs
<1>2. d = IF f.ok THEN read_body(f) ELSE f
  BY DEF DoneOf, If
<1>. HIDE DEF r, h, f, d
<1>3. CASE refused
  <2>1. r = [ok |-> FALSE, save |-> savegame_alloc]
    BY <1>1, <1>3, Zenon
  <2>2. r.ok = FALSE /\ r.save = savegame_alloc
    BY <2>1
  <2>3. QED BY <2>2 DEF r
<1>4. CASE ~refused
  <2>1. r.ok = TRUE /\ r.save = d.save
    <3>1. r = [ok |-> TRUE, save |-> d.save]
      BY <1>1, <1>4, Zenon
    <3>2. QED BY <3>1
  <2>2. GamesOf(octs) # {} /\ h.ok /\ Number(h.save["file_version"][1]) <= 15 /\ d.ok
    BY <1>4, Zenon
  <2>. HIDE DEF refused
  <2>3. g \in GamesOf(octs)
    BY <2>2
  <2>. HIDE DEF g
  <2>4. Ready(o) /\ o.ok /\ g \in Games /\ o.save = EmptySave(g)
    BY <2>3, OpenedReady
  <2>. HIDE DEF o
  <2>5. /\ Stage(h, o, HeaderSet \cup {"compressor"})
        /\ HeaderRead(h.save, o.save["compressor"])
    BY <2>2, <2>4, HeaderOfStage DEF h
  <2>6. /\ Stage(f, h, {"snapshot_data"})
        /\ f.ok => HasSnapshot(f.save, snapshot_size(h.save))
    BY <2>5, StageReady, FoundStage DEF f
  <2>7. f.ok /\ d = read_body(f)
    BY <1>2, <2>2
  <2>8. h.save["game"] = g /\ f.save["game"] = g
    <3>1. "game" \in Names /\ "game" \notin HeaderSet \cup {"compressor"} /\ "game" \notin {"snapshot_data"}
      BY NamesHere DEF HeaderSet
    <3>2. o.save["game"] = g
      BY <2>4, EmptyIs, Zenon
    <3>. DEFINE m == "game"
    <3>3. h.save[m] = o.save[m] /\ f.save[m] = h.save[m]
      <4>. DEFINE A == HeaderSet \cup {"compressor"} B == {"snapshot_data"}
      <4>1. m \in Names /\ m \notin A /\ m \notin B /\ Stage(h, o, A) /\ Stage(f, h, B)
        BY <2>5, <2>6, <3>1
      <4>. HIDE DEF A, B, m
      <4>2. QED BY <2>2, <2>7, <4>1, Zenon DEF Stage
    <3>4. QED BY <3>2, <3>3
  <2>9. PICK v : Stage(v, f, VersionSet(g)) /\ Stage(d, v, AfterSet(g, PluginSet(v.save)))
    <3>1. Ready(f)
      BY <2>6, StageReady
    <3>2. QED BY <2>7, <2>8, <3>1, BodyStage
  <2>. DEFINE P == PluginSet(v.save)
              s == d.save
  <2>10. P \subseteq {"plugins", "light_plugins"}
    BY PluginSetIs
  <2>. HIDE DEF P
  <2>11. v.ok /\ Sane(s) /\ \A n \in Names : n \notin AfterSet(g, P) => s[n] = v.save[n]
    <3>1. Stage(d, v, AfterSet(g, P))
      BY <2>9 DEF P
    <3>2. QED BY <2>2, <3>1, Zenon DEF Stage
  <2>12. \A n \in Names : n \notin VersionSet(g) => v.save[n] = f.save[n]
    BY <2>9, <2>11, Zenon DEF Stage
  <2>13. \A n \in Names : n # "snapshot_data" => f.save[n] = h.save[n]
    BY <2>6, <2>7 DEF Stage
  <2>14. \A n \in Names : n # "game" /\ n # "compressor" /\ n \notin HeaderSet =>
              h.save[n] = savegame_alloc[n]
    <3>1. \A n \in Names : n \notin HeaderSet \cup {"compressor"} => h.save[n] = o.save[n]
      BY <2>2, <2>5, Zenon DEF Stage
    <3>2. \A n \in Names : n # "game" => o.save[n] = savegame_alloc[n]
      BY <2>4, EmptyIs
    <3>3. QED BY <3>1, <3>2
  <2>15. \A n \in HeaderSet \cup {"compressor", "game", "snapshot_data"} : s[n] = f.save[n]
    BY <2>10, <2>11, <2>12, KeptAfter, KeptVersion, NamesHere
  <2>16. \A n \in HeaderSet \cup {"compressor", "game"} : s[n] = h.save[n]
    <3>1. \A n \in HeaderSet \cup {"compressor", "game"} : n # "snapshot_data"
      BY DEF HeaderSet
    <3>2. QED BY <2>13, <2>15, <3>1, NamesHere
  <2>17. /\ "file_version" \in HeaderSet /\ "snapshot_width" \in HeaderSet
         /\ "snapshot_height" \in HeaderSet
    BY DEF HeaderSet
  <2>18. s["game"] = g /\ s["game"] = h.save["game"] /\ s["file_version"] = h.save["file_version"]
         /\ s["snapshot_width"] = h.save["snapshot_width"]
         /\ s["snapshot_height"] = h.save["snapshot_height"]
    BY <2>8, <2>16, <2>17
  <2>19. /\ supports_save_file_compression(s) <=> supports_save_file_compression(h.save)
         /\ snapshot_size(s) = snapshot_size(h.save)
    BY <2>18, SameFormat
  <2>20. s["snapshot_data"] = f.save["snapshot_data"]
    BY <2>15
  <2>21. HasSnapshot(s, snapshot_size(s))
    BY <2>6, <2>7, <2>19, <2>20 DEF HasSnapshot
  <2>22. \A n \in HeaderSet : FieldWasRead(FieldNamed(n), s[n])
    BY <2>5, <2>16 DEF HeaderRead
  <2>23. /\ supports_save_file_compression(s) => Number(s["compressor"][1]) <= 2
         /\ ~supports_save_file_compression(s) => s["compressor"] = savegame_alloc["compressor"]
    <3>1. o.save["compressor"] = savegame_alloc["compressor"]
      BY <2>4, EmptyIs, NamesHere
    <3>2. s["compressor"] = h.save["compressor"]
      BY <2>16
    <3>3. QED BY <2>5, <2>19, <3>1, <3>2 DEF HeaderRead
  <2>24. ASSUME ~supports_light_plugins(s) PROVE s["light_plugins"] = savegame_alloc["light_plugins"]
    <3>1. /\ s["form_version"] = v.save["form_version"]
          /\ s["game"] = v.save["game"] /\ s["file_version"] = v.save["file_version"]
      BY <2>10, <2>11, <2>17, KeptAfter, NamesHere
    <3>2. ~supports_light_plugins(v.save)
      BY <2>24, <3>1, SameFormat
    <3>3. "light_plugins" \notin P
      BY <3>2 DEF P, PluginSet
    <3>4. s["light_plugins"] = v.save["light_plugins"]
      BY <2>10, <2>11, <3>3, KeptAfter, NamesHere
    <3>5. v.save["light_plugins"] = f.save["light_plugins"]
      BY <2>12, KeptVersion, NamesHere
    <3>6. f.save["light_plugins"] = h.save["light_plugins"]
      BY <2>13, NamesHere
    <3>7. h.save["light_plugins"] = savegame_alloc["light_plugins"]
      BY <2>14, NamesHere DEF HeaderSet
    <3>8. QED BY <3>4, <3>5, <3>6, <3>7
  <2>25. ASSUME g # "FALLOUT4" PROVE s["game_version"] = savegame_alloc["game_version"]
    <3>1. s["game_version"] = v.save["game_version"]
      BY <2>10, <2>11, KeptAfter, NamesHere
    <3>2. v.save["game_version"] = f.save["game_version"]
      BY <2>12, <2>25, KeptVersion, NamesHere
    <3>3. f.save["game_version"] = h.save["game_version"]
      BY <2>13, NamesHere
    <3>4. h.save["game_version"] = savegame_alloc["game_version"]
      BY <2>14, NamesHere DEF HeaderSet
    <3>5. QED BY <3>1, <3>2, <3>3, <3>4
  <2>26. ASSUME g # "SKYRIM" PROVE s["unknown"] = savegame_alloc["unknown"]
    <3>1. s["unknown"] = v.save["unknown"]
      BY <2>10, <2>11, <2>26, KeptAfter, NamesHere
    <3>2. v.save["unknown"] = f.save["unknown"]
      BY <2>12, KeptVersion, NamesHere
    <3>3. f.save["unknown"] = h.save["unknown"]
      BY <2>13, NamesHere
    <3>4. h.save["unknown"] = savegame_alloc["unknown"]
      BY <2>14, NamesHere DEF HeaderSet
    <3>5. QED BY <3>1, <3>2, <3>3, <3>4
  <2>27. \A n \in Unused(s) : s[n] = savegame_alloc[n]
    BY <2>18, <2>23, <2>24, <2>25, <2>26 DEF Unused
  <2>28. Number(s["file_version"][1]) <= 15
    BY <2>2, <2>18
  <2>. HIDE DEF s
  <2>29. WellFormed(s)
    BY <2>11, <2>21, <2>22, <2>23, <2>27, <2>28, Zenon DEF WellFormed
  <2>30. QED BY <2>1, <2>29 DEF r, s
<1>5. QED BY <1>3, <1>4

Over == INSTANCE FoldFacts WITH Op <- OverStore

StoreOfOctets == [at : Nat, octets : Seq(Octet)]
-----------------------------------------------------------------------------
(* Stores over a file. *)

\* A file of zeroes.
LEMMA ZeroesTyped ==
  ASSUME NEW n \in Nat
  PROVE  [i \in 1..n |-> 0] \in Seq(Octet) /\ Len([i \in 1..n |-> 0]) = n
<1>1. 0 \in Octet
  BY SMT DEF Octet
<1>2. QED BY <1>1

\* The octets of two sequences in a row.
LEMMA Joined ==
  ASSUME NEW s \in Seq(Octet), NEW t \in Seq(Octet)
  PROVE  /\ s \o t \in Seq(Octet) /\ Len(s \o t) = Len(s) + Len(t)
         /\ \A i \in 1..(Len(s) + Len(t)) :
              (s \o t)[i] = IF i <= Len(s) THEN s[i] ELSE t[i - Len(s)]
<1>1. s \o t \in Seq(Octet) /\ Len(s \o t) = Len(s) + Len(t)
  OBVIOUS
<1>2. \A i \in 1..(Len(s) + Len(t)) :
        (s \o t)[i] = IF i <= Len(s) THEN s[i] ELSE t[i - Len(s)]
  OBVIOUS
<1>3. QED BY <1>1, <1>2

\* A store changes the octets it has and no others.
LEMMA OverStoreIs ==
  ASSUME NEW f \in Seq(Octet), NEW x \in StoreOfOctets, x.at + Len(x.octets) <= Len(f)
  PROVE  /\ OverStore(f, x) \in Seq(Octet)
         /\ Len(OverStore(f, x)) = Len(f)
         /\ \A i \in 1..Len(f) :
              OverStore(f, x)[i] = IF i <= x.at THEN f[i]
                                   ELSE IF i <= x.at + Len(x.octets) THEN x.octets[i - x.at]
                                   ELSE f[i]
<1>. DEFINE a == x.at  o == x.octets  to == a + Len(o)
            front == SubSeq(f, 1, a)  back == SubSeq(f, to + 1, Len(f))
<1>1. a \in Nat /\ o \in Seq(Octet) /\ Len(o) \in Nat /\ Len(f) \in Nat /\ to \in Nat
      /\ a <= to /\ to <= Len(f) /\ to = a + Len(o)
  BY DEF StoreOfOctets
<1>2. OverStore(f, x) = (front \o o) \o back
  BY DEF OverStore
<1>. HIDE DEF a, o, to
<1>3. front \in Seq(Octet) /\ Len(front) = a /\ \A i \in 1..a : front[i] = f[i]
  <2>1. \A i \in 1..a : f[i] \in Octet
    BY <1>1
  <2>2. QED BY <1>1, <2>1, SubSeqProperties
<1>4. back \in Seq(Octet) /\ Len(back) = Len(f) - to
      /\ \A i \in 1..(Len(f) - to) : back[i] = f[to + i]
  <2>1. \A i \in (to + 1)..Len(f) : f[i] \in Octet
    BY <1>1
  <2>2. /\ back \in Seq(Octet)
        /\ Len(back) = IF to + 1 <= Len(f) THEN Len(f) - (to + 1) + 1 ELSE 0
        /\ \A i \in 1..(Len(f) - (to + 1) + 1) : back[i] = f[(to + 1) + i - 1]
    BY <1>1, <2>1, SubSeqProperties
  <2>3. Len(back) = Len(f) - to
    BY <1>1, <2>2
  <2>4. \A i \in 1..(Len(f) - to) : back[i] = f[to + i]
    <3>1. Len(f) - (to + 1) + 1 = Len(f) - to
      BY <1>1
    <3>2. ASSUME NEW i \in 1..(Len(f) - to) PROVE back[i] = f[to + i]
      <4>1. (to + 1) + i - 1 = to + i /\ i \in 1..(Len(f) - (to + 1) + 1)
        BY <1>1, <3>1
      <4>2. back[i] = f[(to + 1) + i - 1]
        BY <2>2, <4>1
      <4>3. QED BY <4>1, <4>2
    <3>3. QED BY <3>2
  <2>5. QED BY <2>2, <2>3, <2>4
<1>. HIDE DEF front, back
<1>5. front \o o \in Seq(Octet) /\ Len(front \o o) = to
      /\ \A i \in 1..to : (front \o o)[i] = IF i <= a THEN f[i] ELSE o[i - a]
  <2>1. /\ front \o o \in Seq(Octet) /\ Len(front \o o) = Len(front) + Len(o)
        /\ \A i \in 1..(Len(front) + Len(o)) :
             (front \o o)[i] = IF i <= Len(front) THEN front[i] ELSE o[i - Len(front)]
    BY <1>1, <1>3, Joined
  <2>2. QED BY <1>1, <1>3, <2>1
<1>. DEFINE both == front \o o
<1>6. both \in Seq(Octet) /\ Len(both) = to
      /\ \A i \in 1..to : both[i] = IF i <= a THEN f[i] ELSE o[i - a]
  BY <1>5
<1>. HIDE DEF both
<1>7. /\ both \o back \in Seq(Octet) /\ Len(both \o back) = Len(f)
      /\ \A i \in 1..Len(f) : (both \o back)[i] = IF i <= to THEN both[i] ELSE f[i]
  <2>1. /\ both \o back \in Seq(Octet) /\ Len(both \o back) = Len(both) + Len(back)
        /\ \A i \in 1..(Len(both) + Len(back)) :
             (both \o back)[i] = IF i <= Len(both) THEN both[i] ELSE back[i - Len(both)]
    BY <1>4, <1>6, Joined
  <2>2. Len(both) + Len(back) = Len(f)
    BY <1>1, <1>4, <1>6
  <2>3. ASSUME NEW i \in 1..Len(f), i > to PROVE back[i - to] = f[i]
    <3>1. i - to \in 1..(Len(f) - to) /\ to + (i - to) = i
      BY <1>1, <2>3
    <3>2. QED BY <1>4, <3>1
  <2>4. QED BY <1>1, <1>6, <2>1, <2>2, <2>3
<1>8. OverStore(f, x) = both \o back
  BY <1>2 DEF both
<1>9. \A i \in 1..Len(f) :
        (both \o back)[i] = IF i <= a THEN f[i] ELSE IF i <= to THEN o[i - a] ELSE f[i]
  BY <1>1, <1>6, <1>7
<1>10. QED BY <1>7, <1>8, <1>9 DEF a, o, to

\* A file is the fold of its stores: zeroes at first, and one store after the other.
LEMMA ContentsIsFold == \A list, n : Contents(list, n) = Over!Fold([i \in 1..n |-> 0], list)
BY DEF Contents, FoldLeft, MapThenFoldSet, Max, Over!Fold, Over!Folds, Over!Top

\* No stores leave the zeroes.
LEMMA ContentsEmpty == \A n : Contents(<<>>, n) = [i \in 1..n |-> 0]
BY ContentsIsFold, Over!FoldEmpty

\* One store more goes over what is there.
LEMMA ContentsAppend ==
  ASSUME NEW list \in Seq(StoreOfOctets), NEW x \in StoreOfOctets, NEW n
  PROVE  Contents(Append(list, x), n) = OverStore(Contents(list, n), x)
BY ZenonT(40), ContentsIsFold, Over!FoldAppend

-----------------------------------------------------------------------------
(* What a cursor that stores holds. *)

\* The octets x, and zeroes up to n.
IsPadded(f, x, n) ==
  f \in Value /\ Len(f) = n /\ \A i \in 1..n : f[i] = IF i <= Len(x) THEN x[i] ELSE 0

\* A cursor behind the octets x, which its stores put into a file of any size.
Holds(c, x) ==
  /\ c = [pos |-> c.pos, stores |-> c.stores]
  /\ x \in Value /\ c.pos = Len(x) /\ c.stores \in Seq(StoreOfOctets)
  /\ \A n \in Nat : n >= Len(x) => IsPadded(Contents(c.stores, n), x, n)

\* The file of a cursor's stores is what the cursor holds.
LEMMA HoldsAll ==
  ASSUME NEW c, NEW x, Holds(c, x)
  PROVE  Contents(c.stores, c.pos) = x
<1>1. x \in Value /\ c.pos = Len(x) /\ Len(x) \in Nat /\ Len(x) >= Len(x)
  BY DEF Holds, Value
<1>2. IsPadded(Contents(c.stores, Len(x)), x, Len(x))
  BY <1>1, Zenon DEF Holds
<1>. DEFINE f == Contents(c.stores, Len(x)) n == Len(x)
<1>3. f \in Value /\ Len(f) = n /\ \A i \in 1..n : f[i] = IF i <= n THEN x[i] ELSE 0
  BY <1>2, Zenon DEF IsPadded
<1>. HIDE DEF f
<1>4. \A i \in 1..n : f[i] = x[i]
  BY <1>3
<1>5. f = x
  <2>1. f = [i \in 1..n |-> f[i]] /\ x = [i \in 1..n |-> x[i]]
    BY <1>1, <1>3 DEF Value
  <2>. HIDE DEF n
  <2>2. QED BY <1>4, <2>1
<1>6. QED BY <1>1, <1>5 DEF f

\* The file is octets, as many as were asked for.
LEMMA HoldsTyped ==
  ASSUME NEW c, NEW x, Holds(c, x), NEW n \in Nat, n >= Len(x)
  PROVE  Contents(c.stores, n) \in Value /\ Len(Contents(c.stores, n)) = n
BY Zenon DEF Holds, IsPadded

\* A cursor without stores holds nothing.
LEMMA HoldsNone == Holds([pos |-> 0, stores |-> <<>>], <<>>)
<1>. DEFINE z == <<>> c == [pos |-> 0, stores |-> z]
<1>1. c.pos = 0 /\ c.stores = z /\ z \in Value /\ Len(z) = 0 /\ z \in Seq(StoreOfOctets)
  BY DEF Value
<1>2. \A n \in Nat : IsPadded(Contents(z, n), z, n)
  <2>. SUFFICES ASSUME NEW n \in Nat PROVE IsPadded(Contents(z, n), z, n)
    OBVIOUS
  <2>. DEFINE f == [i \in 1..n |-> 0]
  <2>1. f \in Seq(Octet) /\ Len(f) = n
    BY ZeroesTyped
  <2>2. \A i \in 1..n : f[i] = 0 /\ ~(i <= 0)
    OBVIOUS
  <2>3. Contents(z, n) = f
    BY ContentsEmpty
  <2>. HIDE DEF f, z
  <2>4. \A i \in 1..n : f[i] = IF i <= Len(z) THEN z[i] ELSE 0
    BY <1>1, <2>2
  <2>5. QED BY <2>1, <2>3, <2>4, Zenon DEF IsPadded, Value
<1>. HIDE DEF z
<1>3. c = [pos |-> c.pos, stores |-> c.stores]
  BY <1>1
<1>. HIDE DEF c
<1>4. Holds(c, z)
  BY <1>1, <1>2, <1>3, Zenon DEF Holds
<1>5. QED BY <1>4 DEF c, z

\* One store more, somewhere over or behind the octets held: y is what is there then.
IsOver(y, x, at, o) ==
  /\ y \in Value /\ Len(y) >= Len(x) /\ at + Len(o) <= Len(y)
  /\ \A i \in 1..Len(y) : y[i] = IF i > at /\ i <= at + Len(o) THEN o[i - at]
                                 ELSE IF i <= Len(x) THEN x[i] ELSE 0

\* One store more changes what the cursor holds by the octets it stores.
LEMMA HoldsOver ==
  ASSUME NEW c, NEW x, Holds(c, x), NEW at \in Nat, NEW o \in Value, NEW y, IsOver(y, x, at, o)
  PROVE  Holds([pos |-> Len(y), stores |-> Append(c.stores, [at |-> at, octets |-> o])], y)
<1>. DEFINE st == [at |-> at, octets |-> o]
            list == Append(c.stores, st)
            d == [pos |-> Len(y), stores |-> list]
<1>1. /\ x \in Value /\ c.stores \in Seq(StoreOfOctets)
      /\ \A n \in Nat : n >= Len(x) => IsPadded(Contents(c.stores, n), x, n)
  BY Zenon DEF Holds
<1>2. st \in StoreOfOctets /\ st.at = at /\ st.octets = o
  BY DEF StoreOfOctets, Value
<1>3. y \in Value /\ Len(y) \in Nat /\ Len(y) >= Len(x) /\ Len(x) \in Nat /\ Len(o) \in Nat
      /\ at + Len(o) <= Len(y)
  BY <1>1 DEF IsOver, Value
<1>. HIDE DEF st
<1>4. list \in Seq(StoreOfOctets)
  BY <1>1, <1>2
<1>5. ASSUME NEW n \in Nat, n >= Len(y) PROVE IsPadded(Contents(list, n), y, n)
  <2>. DEFINE f == Contents(c.stores, n)
              g == Contents(list, n)
  <2>1. IsPadded(f, x, n)
    BY <1>1, <1>3, <1>5
  <2>2. g = OverStore(f, st)
    BY <1>1, <1>2, ContentsAppend
  <2>. HIDE DEF f, g
  <2>3. f \in Seq(Octet) /\ Len(f) = n /\ \A i \in 1..n : f[i] = IF i <= Len(x) THEN x[i] ELSE 0
    BY <2>1, Zenon DEF IsPadded, Value
  <2>4. st.at + Len(st.octets) <= Len(f)
    BY <1>2, <1>3, <1>5, <2>3
  <2>5. /\ g \in Seq(Octet) /\ Len(g) = n
        /\ \A i \in 1..n : g[i] = IF i <= at THEN f[i] ELSE IF i <= at + Len(o) THEN o[i - at] ELSE f[i]
    <3>1. /\ OverStore(f, st) \in Seq(Octet)
          /\ Len(OverStore(f, st)) = Len(f)
          /\ \A i \in 1..Len(f) :
              OverStore(f, st)[i] = IF i <= st.at THEN f[i]
                                   ELSE IF i <= st.at + Len(st.octets) THEN st.octets[i - st.at]
                                   ELSE f[i]
      BY <1>2, <2>3, <2>4, OverStoreIs
    <3>2. QED BY <1>2, <2>2, <2>3, <3>1
  <2>6. \A i \in 1..Len(y) : y[i] = IF i > at /\ i <= at + Len(o) THEN o[i - at]
                                    ELSE IF i <= Len(x) THEN x[i] ELSE 0
    BY Zenon DEF IsOver
  <2>7. ASSUME NEW i \in 1..n PROVE g[i] = IF i <= Len(y) THEN y[i] ELSE 0
    <3>1. CASE i <= Len(y)
      <4>1. i \in 1..Len(y)
        BY <1>3, <3>1
      <4>2. QED BY SMTT(30), <1>3, <2>3, <2>5, <2>6, <4>1
    <3>2. CASE ~(i <= Len(y))
      <4>1. ~(i <= at) /\ ~(i <= at + Len(o)) /\ ~(i <= Len(x))
        BY <1>3, <3>2
      <4>2. g[i] = f[i] /\ f[i] = 0
        BY <2>3, <2>5, <4>1
      <4>3. QED BY <3>2, <4>2
    <3>3. QED BY <3>1, <3>2
  <2>8. QED BY <2>5, <2>7, Zenon DEF IsPadded, Value, g
<1>6. d.pos = Len(y) /\ d.stores = list /\ d = [pos |-> d.pos, stores |-> d.stores]
  OBVIOUS
<1>. HIDE DEF d, list
<1>7. Holds(d, y)
  BY <1>3, <1>4, <1>5, <1>6, Zenon DEF Holds
<1>8. QED BY <1>7 DEF d, list, st

\* The octets o over or behind those of x, with zeroes in between.
Paste(x, at, o) ==
  [i \in 1..(IF at + Len(o) > Len(x) THEN at + Len(o) ELSE Len(x)) |->
     IF i > at /\ i <= at + Len(o) THEN o[i - at] ELSE IF i <= Len(x) THEN x[i] ELSE 0]

\* Octets stored over others replace those, and make them longer where they reach
\* past the end.
LEMMA PasteIs ==
  ASSUME NEW x \in Value, NEW at \in Nat, NEW o \in Value
  PROVE  /\ IsOver(Paste(x, at, o), x, at, o)
         /\ Len(Paste(x, at, o)) = IF at + Len(o) > Len(x) THEN at + Len(o) ELSE Len(x)
<1>. DEFINE n == IF at + Len(o) > Len(x) THEN at + Len(o) ELSE Len(x)
            E(i) == IF i > at /\ i <= at + Len(o) THEN o[i - at] ELSE IF i <= Len(x) THEN x[i] ELSE 0
            y == [i \in 1..n |-> E(i)]
<1>1. Len(x) \in Nat /\ Len(o) \in Nat /\ n \in Nat /\ n >= Len(x) /\ at + Len(o) <= n
  BY DEF Value
<1>2. ASSUME NEW i \in 1..n PROVE E(i) \in Octet
  <2>1. CASE i > at /\ i <= at + Len(o)
    <3>1. i - at \in 1..Len(o)
      BY <1>1, <2>1
    <3>2. QED BY <2>1, <3>1, ElementIs
  <2>2. CASE ~(i > at /\ i <= at + Len(o)) /\ i <= Len(x)
    <3>1. i \in 1..Len(x)
      BY <1>1, <2>2
    <3>2. QED BY <2>2, <3>1, ElementIs
  <2>3. CASE ~(i > at /\ i <= at + Len(o)) /\ ~(i <= Len(x))
    <3>1. 0 \in Octet
      BY SMT DEF Octet
    <3>2. QED BY <2>3, <3>1
  <2>4. QED BY <2>1, <2>2, <2>3
<1>3. Paste(x, at, o) = y
  BY DEF Paste
<1>. HIDE DEF n
<1>4. y \in [1..n -> Octet] /\ \A i \in 1..n : y[i] = E(i)
  BY <1>2
<1>. HIDE DEF y, E
<1>5. y \in Seq(Octet) /\ Len(y) = n
  BY <1>1, <1>4, FunctionIsSeq
<1>6. \A i \in 1..Len(y) : y[i] = IF i > at /\ i <= at + Len(o) THEN o[i - at]
                                  ELSE IF i <= Len(x) THEN x[i] ELSE 0
  BY <1>4, <1>5 DEF E
<1>7. IsOver(y, x, at, o)
  BY <1>1, <1>5, <1>6 DEF IsOver, Value
<1>8. QED BY <1>3, <1>5, <1>7 DEF n

Stored1(c, pos, at, o) == [pos |-> pos, stores |-> Append(c.stores, [at |-> at, octets |-> o])]

\* A store at any place, with the cursor moved behind what is held.
LEMMA HoldsPaste ==
  ASSUME NEW c, NEW x, Holds(c, x), NEW at \in Nat, NEW o \in Value
  PROVE  /\ x \in Value /\ Paste(x, at, o) \in Value
         /\ Len(Paste(x, at, o)) = IF at + Len(o) > Len(x) THEN at + Len(o) ELSE Len(x)
         /\ Holds(Stored1(c, Len(Paste(x, at, o)), at, o), Paste(x, at, o))
<1>1. x \in Value
  BY Zenon DEF Holds
<1>2. IsOver(Paste(x, at, o), x, at, o)
  BY <1>1, PasteIs
<1>3. Holds(Stored1(c, Len(Paste(x, at, o)), at, o), Paste(x, at, o))
  BY <1>1, <1>2, HoldsOver DEF Stored1
<1>4. Paste(x, at, o) \in Value
  BY <1>2, Zenon DEF IsOver
<1>5. QED BY <1>1, <1>3, <1>4, PasteIs

\* Two values with the same octets are the same.
LEMMA SameOctets ==
  ASSUME NEW x \in Value, NEW y \in Value, Len(x) = Len(y), \A i \in 1..Len(x) : x[i] = y[i]
  PROVE  x = y
<1>. DEFINE n == Len(x)
<1>1. x = [i \in 1..n |-> x[i]] /\ y = [i \in 1..n |-> y[i]]
  BY DEF Value
<1>2. \A i \in 1..n : x[i] = y[i]
  OBVIOUS
<1>. HIDE DEF n
<1>3. QED BY <1>1, <1>2

\* The octets of two values in a row.
LEMMA ConcatOctets ==
  ASSUME NEW a \in Value, NEW b \in Value
  PROVE  /\ a \o b \in Value /\ Len(a \o b) = Len(a) + Len(b)
         /\ Len(a) \in Nat /\ Len(b) \in Nat
         /\ \A i \in 1..(Len(a) + Len(b)) : (a \o b)[i] = IF i <= Len(a) THEN a[i] ELSE b[i - Len(a)]
<1>1. a \in Seq(Octet) /\ b \in Seq(Octet)
  BY DEF Value
<1>2. QED BY <1>1, Joined, ConcatIs

\* Pasted behind, it is the concatenation.
LEMMA PasteBehind ==
  ASSUME NEW x \in Value, NEW o \in Value
  PROVE  Paste(x, Len(x), o) = x \o o
<1>. DEFINE y == Paste(x, Len(x), o) z == x \o o n == Len(x)
<1>1. n \in Nat /\ Len(o) \in Nat /\ z \in Value /\ Len(z) = n + Len(o)
      /\ \A i \in 1..(n + Len(o)) : z[i] = IF i <= n THEN x[i] ELSE o[i - n]
  BY ConcatOctets
<1>2. IsOver(y, x, n, o) /\ Len(y) = IF n + Len(o) > Len(x) THEN n + Len(o) ELSE Len(x)
  BY <1>1, PasteIs
<1>. HIDE DEF y, z, n
<1>3. /\ y \in Value
      /\ \A i \in 1..Len(y) : y[i] = IF i > n /\ i <= n + Len(o) THEN o[i - n]
                                  ELSE IF i <= Len(x) THEN x[i] ELSE 0
  BY <1>2, Zenon DEF IsOver
<1>4. Len(y) = n + Len(o)
  BY <1>1, <1>2 DEF n
<1>5. \A i \in 1..Len(y) : y[i] = z[i]
  BY <1>1, <1>3, <1>4 DEF n
<1>6. QED BY <1>1, <1>3, <1>4, <1>5, SameOctets DEF y, z, n

\* Pasted twice, first behind a gap of the size of what comes second.
LEMMA PasteFront ==
  ASSUME NEW x \in Value, NEW h \in Value, NEW d \in Value
  PROVE  Paste(Paste(x, Len(x) + Len(h), d), Len(x), h) = x \o (h \o d)
<1>. DEFINE n == Len(x) k == Len(h) m == Len(d)
            y == Paste(x, n + k, d) z == Paste(y, n, h) hd == h \o d w == x \o hd
<1>1. n \in Nat /\ k \in Nat /\ m \in Nat /\ hd \in Value /\ Len(hd) = k + m
      /\ \A i \in 1..(k + m) : hd[i] = IF i <= k THEN h[i] ELSE d[i - k]
  BY ConcatOctets
<1>2. w \in Value /\ Len(w) = n + Len(hd)
      /\ \A i \in 1..(n + Len(hd)) : w[i] = IF i <= n THEN x[i] ELSE hd[i - n]
  BY <1>1, ConcatOctets
<1>3. IsOver(y, x, n + k, d) /\ Len(y) = IF n + k + m > n THEN n + k + m ELSE n
  <2>1. n + k \in Nat
    BY <1>1
  <2>. DEFINE at == n + k
  <2>. HIDE DEF at
  <2>2. at \in Nat
    BY <2>1 DEF at
  <2>3. IsOver(Paste(x, at, d), x, at, d)
        /\ Len(Paste(x, at, d)) = IF at + Len(d) > Len(x) THEN at + Len(d) ELSE Len(x)
    BY <2>2, PasteIs
  <2>4. QED BY <2>3 DEF at
<1>4. y \in Value
  BY <1>3, Zenon DEF IsOver
<1>5. IsOver(z, y, n, h) /\ Len(z) = IF n + k > Len(y) THEN n + k ELSE Len(y)
  BY <1>1, <1>4, PasteIs
<1>. HIDE DEF z, y, w, hd
<1>6. Len(y) = n + k + m /\ Len(z) = n + k + m /\ Len(w) = n + k + m
  <2>. HIDE DEF n, k, m
  <2>1. QED BY <1>1, <1>2, <1>3, <1>5
<1>7. \A i \in 1..Len(y) : y[i] = IF i > n + k /\ i <= n + k + m THEN d[i - (n + k)]
                                  ELSE IF i <= n THEN x[i] ELSE 0
  BY <1>3, Zenon DEF IsOver
<1>8. z \in Value /\ \A i \in 1..Len(z) : z[i] = IF i > n /\ i <= n + k THEN h[i - n]
                                  ELSE IF i <= Len(y) THEN y[i] ELSE 0
  BY <1>5, Zenon DEF IsOver
<1>. HIDE DEF n, k, m
<1>9. ASSUME NEW i \in 1..Len(z) PROVE z[i] = w[i]
  <2>1. i \in Int /\ 1 <= i /\ i <= n + k + m /\ i \in 1..(n + k + m) /\ i \in 1..Len(y)
    BY <1>6
  <2>2. w[i] = IF i <= n THEN x[i] ELSE hd[i - n]
    BY <1>1, <1>2, <2>1
  <2>3. CASE i <= n
    BY <1>1, <1>6, <1>7, <1>8, <2>1, <2>2, <2>3
  <2>4. CASE i > n /\ i <= n + k
    <3>1. i - n \in 1..(k + m) /\ i - n <= k
      BY <1>1, <2>1, <2>4
    <3>2. w[i] = h[i - n]
      BY <1>1, <2>1, <2>2, <2>4, <3>1
    <3>3. QED BY <1>8, <2>4, <3>2
  <2>5. CASE i > n + k
    <3>1. i - n \in 1..(k + m) /\ ~(i - n <= k) /\ ~(i <= n) /\ (i - n) - k = i - (n + k)
      BY <1>1, <2>1, <2>5
    <3>2. w[i] = d[i - (n + k)]
      BY <1>1, <2>2, <3>1
    <3>3. z[i] = y[i]
      BY <1>1, <1>6, <1>8, <2>1, <2>5
    <3>4. y[i] = d[i - (n + k)]
      BY <1>7, <2>1, <2>5
    <3>5. QED BY <3>2, <3>3, <3>4
  <2>6. QED BY <1>1, <2>1, <2>3, <2>4, <2>5
<1>10. z = w
  BY <1>2, <1>6, <1>8, <1>9, SameOctets
<1>11. QED BY <1>10 DEF z, w, y, hd, n, k, m
-----------------------------------------------------------------------------
(* The writer's steps. *)

\* A cursor that holds octets, field by field.
LEMMA HoldsIs ==
  ASSUME NEW c, NEW x, Holds(c, x)
  PROVE  /\ x \in Value /\ c.pos = Len(x) /\ Len(x) \in Nat /\ c.stores \in Seq(StoreOfOctets)
         /\ c = [pos |-> c.pos, stores |-> c.stores]
BY DEF Holds, Value

\* Putting octets at the cursor appends them.
LEMMA HoldsPut ==
  ASSUME NEW c, NEW x, Holds(c, x), NEW o \in Value
  PROVE  Holds(Put(c, o), x \o o)
<1>1. x \in Value /\ c.pos = Len(x) /\ Len(x) \in Nat
  BY HoldsIs
<1>2. Paste(x, Len(x), o) = x \o o
  BY <1>1, PasteBehind
<1>3. Holds(Stored1(c, Len(x \o o), Len(x), o), x \o o)
  <2>. DEFINE n == Len(x)
  <2>1. n \in Nat
    BY <1>1
  <2>. HIDE DEF n
  <2>2. Holds(Stored1(c, Len(Paste(x, n, o)), n, o), Paste(x, n, o))
    BY <2>1, HoldsPaste
  <2>3. Paste(x, n, o) = x \o o
    BY <1>2 DEF n
  <2>4. QED BY <2>2, <2>3, Zenon DEF n
<1>4. Len(x \o o) = Len(x) + Len(o)
  BY <1>1, ConcatIs
<1>5. Put(c, o) = Stored1(c, Len(x \o o), Len(x), o)
  BY <1>1, <1>4 DEF Put, Stored1
<1>6. QED BY <1>3, <1>5

\* Two elements appended at once.
LEMMA Append2 ==
  ASSUME NEW X, NEW s \in Seq(X), NEW a \in X, NEW b \in X
  PROVE  s \o <<a, b>> = Append(Append(s, a), b)
OBVIOUS

\* A block appends its header and its data.
LEMMA HoldsBlock ==
  ASSUME NEW c, NEW x, Holds(c, x), NEW block, block.header \in Value, block.data \in Value
  PROVE  Holds(PutBlock(c, block), x \o (block.header \o block.data))
<1>. DEFINE h == block.header d == block.data n == Len(x)
            y == Paste(x, n + Len(h), d)
            e == Stored1(c, Len(y), n + Len(h), d)
            z == Paste(y, n, h)
            f == Stored1(e, Len(z), n, h)
            A == [at |-> n + Len(h), octets |-> d]
            B == [at |-> n, octets |-> h]
<1>1. x \in Value /\ c.pos = n /\ n \in Nat /\ c.stores \in Seq(StoreOfOctets)
  BY HoldsIs
<1>2. h \in Value /\ d \in Value /\ Len(h) \in Nat /\ Len(d) \in Nat /\ n + Len(h) \in Nat
  BY <1>1 DEF Value
<1>3. Holds(e, y) /\ y \in Value
  BY <1>1, <1>2, HoldsPaste
<1>4. Holds(f, z)
  <2>. HIDE DEF y, e, n
  <2>1. QED BY <1>1, <1>2, <1>3, HoldsPaste
<1>5. z = x \o (h \o d)
  BY <1>1, <1>2, PasteFront
<1>6. Len(z) = n + (Len(h) + Len(d))
  <2>. DEFINE hd == h \o d
  <2>1. hd \in Value /\ Len(hd) = Len(h) + Len(d)
    BY <1>2, ConcatIs
  <2>2. z = x \o hd
    BY <1>5
  <2>. HIDE DEF z, hd
  <2>3. Len(x \o hd) = Len(x) + Len(hd)
    BY <1>1, <2>1, ConcatIs
  <2>4. QED BY <2>1, <2>2, <2>3, Zenon
<1>7. c.stores \o <<A, B>> = Append(Append(c.stores, A), B)
  <2>1. A \in StoreOfOctets /\ B \in StoreOfOctets
    BY <1>1, <1>2 DEF StoreOfOctets, Value
  <2>. HIDE DEF A, B
  <2>2. QED BY <1>1, <2>1, Append2
<1>8. f = [pos |-> Len(z), stores |-> Append(Append(c.stores, A), B)]
  BY DEF Stored1
<1>9. PutBlock(c, block) = [pos |-> n + Len(h) + Len(d), stores |-> c.stores \o <<A, B>>]
  BY <1>1 DEF PutBlock
<1>10. Len(z) = n + Len(h) + Len(d)
  <2>. DEFINE k == Len(h) m == Len(d) l == Len(z)
  <2>1. l = n + (k + m) /\ n \in Nat /\ k \in Nat /\ m \in Nat
    BY <1>1, <1>2, <1>6
  <2>. HIDE DEF l, k, m, n
  <2>2. l = n + k + m
    BY <2>1
  <2>3. QED BY <2>2 DEF l, k, m, n
<1>11. PutBlock(c, block) = f
  <2>. HIDE DEF z, A, B, f
  <2>1. QED BY <1>7, <1>8, <1>9, <1>10
<1>12. QED BY <1>4, <1>5, <1>11

FB == INSTANCE FoldFacts WITH Op <- PutBlock
-----------------------------------------------------------------------------
(* Several blocks. *)

BlockType == [header : {h \in Value : Len(h) >= 8}, data : Value]
Whole(block) == block.header \o block.data
Blocks(bs) == FlattenSeq([i \in 1..Len(bs) |-> Whole(bs[i])])

\* Putting several blocks is a fold, so that it can be reasoned about block by
\* block.
LEMMA PutBlocksAre == \A c, bs : PutBlocks(c, bs) = FB!Fold(c, bs)
BY DEF PutBlocks, FoldLeft, MapThenFoldSet, Max, FB!Fold, FB!Folds, FB!Top

\* Putting no blocks changes nothing.
LEMMA PutBlocksNone == \A c : PutBlocks(c, <<>>) = c
BY PutBlocksAre, FB!FoldEmpty

\* Putting one more block puts it after the others.
LEMMA PutBlocksMore ==
  ASSUME NEW c, NEW X, NEW bs \in Seq(X), NEW b \in X
  PROVE  PutBlocks(c, Append(bs, b)) = PutBlock(PutBlocks(c, bs), b)
BY PutBlocksAre, FB!FoldAppend

\* A block has at least eight octets.
LEMMA WholeTyped ==
  ASSUME NEW b \in BlockType
  PROVE  /\ b.header \in Value /\ b.data \in Value /\ Whole(b) \in Value
         /\ Len(Whole(b)) = Len(b.header) + Len(b.data) /\ Len(Whole(b)) >= 8
<1>1. b.header \in Value /\ b.data \in Value /\ Len(b.header) >= 8
  BY DEF BlockType
<1>. DEFINE h == b.header d == b.data
<1>2. h \o d \in Value /\ Len(h \o d) = Len(h) + Len(d) /\ Len(h) \in Nat /\ Len(d) \in Nat
  BY <1>1, ConcatIs
<1>3. Whole(b) = h \o d
  BY DEF Whole
<1>. HIDE DEF h, d
<1>4. Whole(b) \in Value /\ Len(Whole(b)) = Len(h) + Len(d)
  BY <1>2, <1>3
<1>5. Len(h) >= 8
  BY <1>1 DEF h
<1>6. Len(Whole(b)) >= 8
  BY <1>2, <1>4, <1>5
<1>7. QED BY <1>1, <1>4, <1>6 DEF h, d

\* The octets of several blocks are octets.
LEMMA WholesTyped ==
  ASSUME NEW bs \in Seq(BlockType)
  PROVE  [i \in 1..Len(bs) |-> Whole(bs[i])] \in Seq(Value) /\ Blocks(bs) \in Value
<1>. DEFINE n == Len(bs) f == [i \in 1..n |-> Whole(bs[i])]
<1>1. n \in Nat /\ \A i \in 1..n : bs[i] \in BlockType
  OBVIOUS
<1>2. \A i \in 1..n : Whole(bs[i]) \in Value
  BY <1>1, WholeTyped
<1>. HIDE DEF n
<1>3. f \in [1..n -> Value]
  BY <1>2
<1>. HIDE DEF f
<1>4. f \in Seq(Value)
  BY <1>1, <1>3, FunctionIsSeq
<1>5. FlattenSeq(f) \in Value
  BY <1>4, FlattenTyped DEF Value
<1>6. QED BY <1>4, <1>5 DEF Blocks, f, n

\* No blocks have no octets.
LEMMA BlocksNone == Blocks(<<>>) = <<>>
<1>1. [i \in 1..Len(<<>>) |-> Whole(<<>>[i])] = <<>>
  OBVIOUS
<1>2. QED BY <1>1, FlattenEmpty DEF Blocks

\* One more block appends its octets.
LEMMA BlocksMore ==
  ASSUME NEW bs \in Seq(BlockType), NEW b \in BlockType
  PROVE  Blocks(Append(bs, b)) = Blocks(bs) \o Whole(b)
<1>. DEFINE n == Len(bs)
            F(ls) == [i \in 1..Len(ls) |-> Whole(ls[i])]
            cs == Append(bs, b)
            w == [i \in 1..(n + 1) |-> Whole(cs[i])]
<1>1. n \in Nat /\ Len(cs) = n + 1 /\ cs[n + 1] = b /\ \A i \in 1..n : cs[i] = bs[i]
  OBVIOUS
<1>2. F(cs) = w /\ w = [i \in 1..(n + 1) |-> w[i]]
  BY <1>1
<1>3. \A i \in 1..n : w[i] = Whole(bs[i])
  <2>1. \A i \in 1..n : i \in 1..(n + 1)
    BY <1>1
  <2>2. QED BY <1>1, <2>1
<1>4. w[n + 1] = Whole(b)
  <2>1. n + 1 \in 1..(n + 1)
    BY <1>1
  <2>2. QED BY <1>1, <2>1
<1>. HIDE DEF w, cs, n
<1>5. w = Append([i \in 1..n |-> w[i]], w[n + 1])
  BY <1>1, <1>2, OneMore
<1>6. [i \in 1..n |-> w[i]] = F(bs)
  BY <1>3 DEF n
<1>7. F(bs) \in Seq(Value) /\ Whole(b) \in Value
  BY WholesTyped, WholeTyped
<1>8. F(cs) = Append(F(bs), Whole(b))
  BY <1>2, <1>4, <1>5, <1>6
<1>. HIDE DEF F
<1>9. FlattenSeq(F(cs)) = FlattenSeq(F(bs)) \o Whole(b)
  BY <1>7, <1>8, FlattenAppend DEF Value
<1>10. QED BY <1>9 DEF Blocks, F, cs

\* Every block has octets.
LEMMA BlocksLong ==
  ASSUME NEW bs \in Seq(BlockType)
  PROVE  Blocks(bs) \in Value /\ Len(Blocks(bs)) \in Nat /\ Len(Blocks(bs)) >= Len(bs)
<1>. DEFINE T == {ls \in Seq(BlockType) : Len(Blocks(ls)) >= Len(ls)}
<1>1. <<>> \in T
  BY BlocksNone
<1>2. ASSUME NEW ls \in Seq(BlockType), NEW b \in BlockType, ls \in T
      PROVE  Append(ls, b) \in T
  <2>. DEFINE u == Blocks(ls) w == Whole(b)
  <2>1. u \in Value /\ w \in Value /\ Len(w) >= 8 /\ Len(u) >= Len(ls)
    BY <1>2, WholesTyped, WholeTyped
  <2>2. Blocks(Append(ls, b)) = u \o w
    BY BlocksMore
  <2>. HIDE DEF u, w
  <2>3. Len(u \o w) = Len(u) + Len(w) /\ Len(u) \in Nat /\ Len(w) \in Nat
    BY <2>1, ConcatIs
  <2>4. Append(ls, b) \in Seq(BlockType) /\ Len(Append(ls, b)) = Len(ls) + 1 /\ Len(ls) \in Nat
    OBVIOUS
  <2>5. Len(Blocks(Append(ls, b))) >= Len(Append(ls, b))
    BY <2>1, <2>2, <2>3, <2>4
  <2>6. QED BY <2>4, <2>5
<1>3. bs \in T
  <2>. HIDE DEF T
  <2>1. QED BY <1>1, <1>2, InductionOver
<1>4. QED BY <1>3, WholesTyped DEF Value

\* The blocks are behind each other.
LEMMA HoldsBlocks ==
  ASSUME NEW c, NEW x, Holds(c, x), NEW bs \in Seq(BlockType)
  PROVE  Holds(PutBlocks(c, bs), x \o Blocks(bs))
<1>. DEFINE T == {ls \in Seq(BlockType) : Holds(PutBlocks(c, ls), x \o Blocks(ls))}
<1>0. x \in Value
  BY HoldsIs
<1>1. <<>> \in T
  <2>1. x \o <<>> = x
    BY <1>0 DEF Value
  <2>2. Holds(PutBlocks(c, <<>>), x \o Blocks(<<>>))
    BY <2>1, BlocksNone, PutBlocksNone
  <2>3. QED BY <2>2
<1>2. ASSUME NEW ls \in Seq(BlockType), NEW b \in BlockType, ls \in T
      PROVE  Append(ls, b) \in T
  <2>. DEFINE u == Blocks(ls) w == Whole(b) d == PutBlocks(c, ls)
  <2>1. u \in Value /\ w \in Value /\ b.header \in Value /\ b.data \in Value
    BY <1>2, WholesTyped, WholeTyped
  <2>2. Holds(d, x \o u)
    BY <1>2
  <2>3. PutBlocks(c, Append(ls, b)) = PutBlock(d, b)
    BY PutBlocksMore
  <2>4. Blocks(Append(ls, b)) = u \o w
    BY BlocksMore
  <2>. HIDE DEF u, d
  <2>5. Holds(PutBlock(d, b), (x \o u) \o w)
    BY <2>1, <2>2, HoldsBlock DEF Whole
  <2>. HIDE DEF w
  <2>6. (x \o u) \o w = x \o (u \o w)
    BY SMTT(30), <1>0, <2>1, Associative DEF Value
  <2>7. Holds(PutBlocks(c, Append(ls, b)), x \o Blocks(Append(ls, b)))
    BY <2>3, <2>4, <2>5, <2>6
  <2>8. QED BY <2>7
<1>3. bs \in T
  <2>. HIDE DEF T
  <2>1. QED BY <1>1, <1>2, InductionOver
<1>4. QED BY <1>3
-----------------------------------------------------------------------------
(* The location table. *)

Entry(tp, e, i) == [at |-> tp + 4 * (i - 1), octets |-> LE(e[i], 4)]

\* y is x with k entries of the table in it.
Table(y, x, tp, e, k) ==
  /\ y \in Value /\ Len(y) = Len(x)
  /\ \A i \in 1..Len(x) : i <= tp \/ i > tp + 4 * k => y[i] = x[i]
  /\ \A j \in 1..k : At(y, tp + 4 * (j - 1), LE(e[j], 4))

TableStep(z, y, x, tp, e, k) == Table(z, x, tp, e, k + 1) /\ Len(z) = Len(y)

\* One more entry of the location table is stored over its place, and no other
\* octet changes.
LEMMA TableMore ==
  ASSUME NEW x \in Value, NEW tp \in Nat, NEW e, NEW k \in Nat, NEW n \in Nat, k < n,
         tp + 4 * n <= Len(x), \A i \in 1..n : e[i] \in Int, NEW y, Table(y, x, tp, e, k)
  PROVE  TableStep(Paste(y, tp + 4 * k, LE(e[k + 1], 4)), y, x, tp, e, k)
<1>. DEFINE o == LE(e[k + 1], 4) at == tp + 4 * k z == Paste(y, at, o) m == Len(x)
<1>1. o \in Value /\ Len(o) = 4
  <2>1. k + 1 \in 1..n
    OBVIOUS
  <2>2. QED BY <2>1, LEIs
<1>2. at \in Nat /\ m \in Nat /\ at + 4 <= m
  BY DEF Value
<1>3. y \in Value /\ Len(y) = m
      /\ (\A i \in 1..m : i <= tp \/ i > tp + 4 * k => y[i] = x[i])
      /\ \A j \in 1..k : At(y, tp + 4 * (j - 1), LE(e[j], 4))
  BY Zenon DEF Table
<1>. HIDE DEF o, at, m
<1>4. IsOver(z, y, at, o) /\ Len(z) = IF at + Len(o) > Len(y) THEN at + Len(o) ELSE Len(y)
  BY <1>1, <1>2, <1>3, PasteIs
<1>5. Len(z) = m
  BY <1>1, <1>2, <1>3, <1>4
<1>. HIDE DEF z
<1>6. z \in Value /\ \A i \in 1..Len(z) : z[i] = IF i > at /\ i <= at + Len(o) THEN o[i - at]
                                  ELSE IF i <= Len(y) THEN y[i] ELSE 0
  BY <1>4, Zenon DEF IsOver
<1>7. \A i \in 1..m : z[i] = IF i > at /\ i <= at + 4 THEN o[i - at] ELSE y[i]
  BY <1>1, <1>2, <1>3, <1>5, <1>6
<1>8. ASSUME NEW i \in 1..m, i <= tp \/ i > tp + 4 * (k + 1) PROVE z[i] = x[i]
  <2>1. ~(i > at /\ i <= at + 4) /\ (i <= tp \/ i > tp + 4 * k)
    BY <1>2, <1>8 DEF at
  <2>2. QED BY <1>3, <1>7, <2>1
<1>9. ASSUME NEW j \in 1..(k + 1) PROVE At(z, tp + 4 * (j - 1), LE(e[j], 4))
  <2>. DEFINE p == tp + 4 * (j - 1) w == LE(e[j], 4)
  <2>1. w \in Value /\ Len(w) = 4 /\ p \in Nat /\ p + 4 <= m
    <3>1. j \in 1..n
      OBVIOUS
    <3>2. p \in Nat /\ p + 4 <= tp + 4 * n
      BY <3>1
    <3>3. QED BY SMTT(30), <3>1, <3>2, LEIs DEF Value, m
  <2>2. CASE j \in 1..k
    <3>1. At(y, p, w)
      BY <1>3, <2>2
    <3>2. p + 4 <= at
      BY <2>2 DEF at
    <3>. HIDE DEF p, w
    <3>3. \A i \in 1..4 : y[p + i] = w[i]
      BY <2>1, <3>1 DEF At
    <3>4. \A i \in 1..4 : z[p + i] = y[p + i]
      BY <1>2, <1>7, <2>1, <3>2
    <3>5. At(z, p, w)
      BY <1>5, <2>1, <3>3, <3>4 DEF At
    <3>6. QED BY <3>5 DEF p, w
  <2>3. CASE j = k + 1
    <3>1. p = at /\ w = o
      BY <2>3 DEF at, o
    <3>. HIDE DEF p, w
    <3>2. \A i \in 1..4 : z[at + i] = o[i]
      BY <1>2, <1>7
    <3>3. At(z, at, o)
      BY <1>1, <1>2, <1>5, <3>2 DEF At
    <3>4. QED BY <3>1, <3>3 DEF p, w
  <2>4. QED BY <2>2, <2>3
<1>10. Table(z, x, tp, e, k + 1)
  BY <1>5, <1>6, <1>8, <1>9, Zenon DEF Table, m
<1>11. QED BY <1>3, <1>5, <1>10 DEF z, at, o, TableStep

\* What setting the stores of a cursor leaves as it was.
LEMMA StoresSet ==
  ASSUME NEW c, c = [pos |-> c.pos, stores |-> c.stores], NEW v
  PROVE  [c EXCEPT !.stores = v] = [pos |-> c.pos, stores |-> v]
<1>. DEFINE p == c.pos s == c.stores
<1>1. c = [pos |-> p, stores |-> s]
  OBVIOUS
<1>. HIDE DEF p, s
<1>2. [c EXCEPT !.stores = v] = [pos |-> p, stores |-> v]
  BY <1>1
<1>3. QED BY <1>2 DEF p

\* Storing all entries of the location table replaces its octets and no others.
LEMMA HoldsTable ==
  ASSUME NEW c, NEW x, Holds(c, x), NEW tp \in Nat, NEW n \in Nat, tp + 4 * n <= Len(x), NEW e,
         \A i \in 1..n : e[i] \in Int
  PROVE  \E y : /\ Holds([c EXCEPT !.stores = @ \o [i \in 1..n |-> Entry(tp, e, i)]], y)
                /\ Table(y, x, tp, e, n)
<1>. DEFINE E(k) == [i \in 1..k |-> Entry(tp, e, i)]
            C(k) == [pos |-> c.pos, stores |-> c.stores \o E(k)]
            Ok(k) == \E y : Holds(C(k), y) /\ Table(y, x, tp, e, k)
            T == {k \in Nat : k <= n => Ok(k)}
<1>1. /\ x \in Value /\ c.pos = Len(x) /\ Len(x) \in Nat /\ c.stores \in Seq(StoreOfOctets)
      /\ c = [pos |-> c.pos, stores |-> c.stores]
  BY HoldsIs
<1>2. 0 \in T
  <2>1. E(0) = <<>>
    OBVIOUS
  <2>2. c.stores \o <<>> = c.stores
    BY <1>1
  <2>3. C(0) = c
    BY <1>1, <2>1, <2>2
  <2>4. Table(x, x, tp, e, 0)
    BY <1>1 DEF Table
  <2>5. QED BY <2>3, <2>4
<1>3. ASSUME NEW k \in Nat, k \in T PROVE k + 1 \in T
  <2>1. ASSUME k + 1 <= n PROVE Ok(k + 1)
    <3>0. Ok(k)
      <4>. HIDE DEF Ok
      <4>1. k <= n
        BY <2>1
      <4>2. QED BY <1>3, <4>1
    <3>1. PICK y : Holds(C(k), y) /\ Table(y, x, tp, e, k)
      BY <3>0
    <3>. DEFINE at == tp + 4 * k o == LE(e[k + 1], 4) z == Paste(y, at, o)
    <3>2. Table(z, x, tp, e, k + 1) /\ Len(z) = Len(y)
      <4>1. k < n /\ x \in Value
        BY <1>1, <2>1
      <4>2. Table(y, x, tp, e, k)
        BY <3>1
      <4>3. \A i \in 1..n : e[i] \in Int
        OBVIOUS
      <4>4. tp + 4 * n <= Len(x)
        OBVIOUS
      <4>. HIDE DEF T, Ok, C, E
      <4>5. TableStep(Paste(y, tp + 4 * k, LE(e[k + 1], 4)), y, x, tp, e, k)
        BY <4>1, <4>2, <4>3, <4>4, TableMore
      <4>6. QED BY <4>5 DEF TableStep
    <3>3. at \in Nat /\ o \in Value
      <4>1. k + 1 \in 1..n
        BY <2>1
      <4>2. QED BY <4>1, LEIs
    <3>. HIDE DEF at, o
    <3>4. Holds(Stored1(C(k), Len(z), at, o), z)
      BY <3>1, <3>3, HoldsPaste
    <3>5. Len(z) = c.pos
      <4>1. Len(y) = Len(x)
        BY <3>1, Zenon DEF Table
      <4>2. QED BY <1>1, <3>2, <4>1
    <3>6. Append(c.stores \o E(k), [at |-> at, octets |-> o]) = c.stores \o E(k + 1)
      <4>. DEFINE f == [i \in Nat |-> Entry(tp, e, i)]
                  a == [at |-> at, octets |-> o]
      <4>1. E(k) = [i \in 1..k |-> f[i]] /\ E(k + 1) = [i \in 1..(k + 1) |-> f[i]]
        OBVIOUS
      <4>2. f[k + 1] = a
        BY DEF Entry, at, o
      <4>. HIDE DEF f
      <4>3. E(k + 1) = Append(E(k), a)
        BY <4>1, <4>2, OneMore
      <4>4. E(k) \in Seq(StoreOfOctets) /\ a \in StoreOfOctets
        <5>1. a \in StoreOfOctets
          BY <3>3 DEF StoreOfOctets, Value
        <5>2. ASSUME NEW i \in 1..k PROVE Entry(tp, e, i) \in StoreOfOctets
          <6>1. tp + 4 * (i - 1) \in Nat /\ i \in 1..n
            BY <2>1
          <6>2. LE(e[i], 4) \in Seq(Octet)
            BY <6>1, LEIs DEF Value
          <6>3. QED BY <6>1, <6>2 DEF Entry, StoreOfOctets
        <5>3. E(k) \in [1..k -> StoreOfOctets]
          BY <5>2
        <5>. HIDE DEF E
        <5>4. QED BY <5>1, <5>3, FunctionIsSeq
      <4>. HIDE DEF E, a
      <4>5. c.stores \o Append(E(k), a) = Append(c.stores \o E(k), a)
        BY SMTT(30), <1>1, <4>4, ConcatAppend
      <4>6. QED BY <4>3, <4>5 DEF a
    <3>7. Stored1(C(k), Len(z), at, o) = C(k + 1)
      <4>1. C(k).stores = c.stores \o E(k)
        OBVIOUS
      <4>. HIDE DEF E, z
      <4>2. QED BY <3>5, <3>6, <4>1 DEF Stored1
    <3>8. Holds(C(k + 1), z)
      <4>. HIDE DEF C, z
      <4>1. QED BY <3>4, <3>7, Zenon
    <3>9. QED BY <3>2, <3>8
  <2>. HIDE DEF Ok
  <2>2. QED BY <2>1
<1>. HIDE DEF T
<1>4. Nat \subseteq T
  BY <1>2, <1>3, FB!Induction
<1>5. Ok(n)
  <2>1. n \in T
    BY <1>4
  <2>. HIDE DEF Ok
  <2>2. QED BY <2>1 DEF T
<1>6. [c EXCEPT !.stores = @ \o E(n)] = C(n)
  <2>. HIDE DEF E
  <2>1. QED BY <1>1, StoresSet
<1>7. QED BY <1>5, <1>6
-----------------------------------------------------------------------------
(* Compressed bodies. *)

\* A body that is compressed to octets and that the decompressor gets back.
Packable(data) ==
  /\ data \in Value /\ Len(data) < TooMany /\ Compressed(data) \in Value
  /\ Decompressed(Compressed(data), Len(data)) = [ok |-> TRUE, octets |-> data]

\* What liblz4 promises of bodies of up to most octets.
LEMMA CompressedIs ==
  ASSUME NEW most \in Nat, most < TooMany, CompressorIsUndone(most),
         NEW o \in Value, Len(o) <= most
  PROVE  Packable(o)
<1>1. Compressed(o) \in Seq(Octet)
      /\ Decompressed(Compressed(o), Len(o)) = [ok |-> TRUE, octets |-> o]
  BY Zenon DEF CompressorIsUndone, Value
<1>2. Len(o) < TooMany
  BY TooManyIs DEF Value
<1>3. QED BY <1>1, <1>2, Zenon DEF Packable, Value

Packs(x, a, b, d) ==
  LET k == Len(x)
      u == Paste(x, k + 8, d)
      v == Paste(u, k, a)
      w == Paste(v, k + 4, b)
  IN  /\ Len(u) = k + 8 + Len(d) /\ Len(v) = k + 8 + Len(d)
      /\ Len(w) = k + 8 + Len(d)
      /\ w = x \o (a \o (b \o d))

\* Three pastes behind x, in the order of lz4_compress.
LEMMA PasteThree ==
  ASSUME NEW x \in Value, NEW a \in Value, NEW b \in Value, NEW d \in Value,
         Len(a) = 4, Len(b) = 4
  PROVE  Packs(x, a, b, d)
<1>. DEFINE n == Len(x) m == Len(d) one == Paste(x, n + 8, d) two == Paste(one, n, a)
            three == Paste(two, n + 4, b)
            bd == b \o d abd == a \o bd w == x \o abd
<1>1. n \in Nat /\ m \in Nat /\ n + 8 \in Nat /\ n + 4 \in Nat
  BY DEF Value
<1>2. bd \in Value /\ Len(bd) = 4 + m
      /\ \A i \in 1..(4 + m) : bd[i] = IF i <= 4 THEN b[i] ELSE d[i - 4]
  <2>1. bd \in Value /\ Len(bd) = Len(b) + Len(d)
        /\ \A i \in 1..(Len(b) + Len(d)) : bd[i] = IF i <= Len(b) THEN b[i] ELSE d[i - Len(b)]
    BY ConcatOctets
  <2>. HIDE DEF bd
  <2>2. Len(b) = 4
    OBVIOUS
  <2>3. QED BY <2>1, <2>2
<1>3. abd \in Value /\ Len(abd) = 4 + Len(bd)
      /\ \A i \in 1..(4 + Len(bd)) : abd[i] = IF i <= 4 THEN a[i] ELSE bd[i - 4]
  <2>1. bd \in Value
    BY <1>2
  <2>. HIDE DEF bd
  <2>2. abd \in Value /\ Len(abd) = Len(a) + Len(bd)
        /\ \A i \in 1..(Len(a) + Len(bd)) : abd[i] = IF i <= Len(a) THEN a[i] ELSE bd[i - Len(a)]
    BY <2>1, ConcatOctets
  <2>. HIDE DEF abd
  <2>3. Len(a) = 4
    OBVIOUS
  <2>4. QED BY <2>2, <2>3
<1>4. w \in Value /\ Len(w) = n + Len(abd)
      /\ \A i \in 1..(n + Len(abd)) : w[i] = IF i <= n THEN x[i] ELSE abd[i - n]
  BY <1>3, ConcatOctets
<1>. HIDE DEF n, bd, abd, w
<1>5. IsOver(one, x, n + 8, d) /\ Len(one) = IF n + 8 + m > Len(x) THEN n + 8 + m ELSE Len(x)
  <2>. DEFINE at == n + 8
  <2>1. at \in Nat
    BY <1>1
  <2>. HIDE DEF at
  <2>2. IsOver(Paste(x, at, d), x, at, d)
        /\ Len(Paste(x, at, d)) = IF at + Len(d) > Len(x) THEN at + Len(d) ELSE Len(x)
    BY <2>1, PasteIs
  <2>3. QED BY <2>2 DEF at
<1>. HIDE DEF one
<1>6. Len(one) = n + 8 + m
  <2>. HIDE DEF m
  <2>1. QED BY <1>1, <1>5 DEF n
<1>7. one \in Value /\ \A i \in 1..Len(one) :
         one[i] = IF i > n + 8 /\ i <= n + 8 + m THEN d[i - (n + 8)]
                  ELSE IF i <= Len(x) THEN x[i] ELSE 0
  BY <1>5, Zenon DEF IsOver, m
<1>8. IsOver(two, one, n, a) /\ Len(two) = IF n + Len(a) > Len(one) THEN n + Len(a) ELSE Len(one)
  BY <1>1, <1>7, PasteIs
<1>. HIDE DEF two
<1>9. Len(two) = n + 8 + m
  <2>. HIDE DEF m
  <2>1. QED BY <1>1, <1>6, <1>8
<1>10. two \in Value /\ \A i \in 1..Len(two) :
         two[i] = IF i > n /\ i <= n + Len(a) THEN a[i - n]
                  ELSE IF i <= Len(one) THEN one[i] ELSE 0
  BY <1>8, Zenon DEF IsOver
<1>11. IsOver(three, two, n + 4, b)
       /\ Len(three) = IF n + 4 + Len(b) > Len(two) THEN n + 4 + Len(b) ELSE Len(two)
  <2>. DEFINE at == n + 4
  <2>1. at \in Nat
    BY <1>1
  <2>. HIDE DEF at
  <2>2. IsOver(Paste(two, at, b), two, at, b)
        /\ Len(Paste(two, at, b)) = IF at + Len(b) > Len(two) THEN at + Len(b) ELSE Len(two)
    BY <1>10, <2>1, PasteIs
  <2>3. QED BY <2>2 DEF at
<1>. HIDE DEF three
<1>12. Len(three) = n + 8 + m
  <2>. HIDE DEF m
  <2>1. QED BY <1>1, <1>9, <1>11
<1>13. three \in Value /\ \A i \in 1..Len(three) :
         three[i] = IF i > n + 4 /\ i <= n + 4 + Len(b) THEN b[i - (n + 4)]
                  ELSE IF i <= Len(two) THEN two[i] ELSE 0
  BY <1>11, Zenon DEF IsOver
<1>14. Len(w) = n + 8 + m
  BY <1>1, <1>2, <1>3, <1>4
<1>. HIDE DEF m
<1>15. ASSUME NEW i \in 1..Len(three) PROVE three[i] = w[i]
  <2>1. i \in Int /\ 1 <= i /\ i <= n + 8 + m /\ i \in 1..Len(two) /\ i \in 1..Len(one)
        /\ i \in 1..(n + Len(abd))
    <3>1. i \in Int /\ 1 <= i /\ i <= n + 8 + m
      BY <1>1, <1>12
    <3>2. n + Len(abd) = n + 8 + m
      BY <1>1, <1>2, <1>3 DEF m
    <3>3. QED BY <1>1, <1>6, <1>9, <3>1, <3>2
  <2>2. w[i] = IF i <= n THEN x[i] ELSE abd[i - n]
    BY <1>4, <2>1
  <2>3. three[i] = IF i > n + 4 /\ i <= n + 8 THEN b[i - (n + 4)] ELSE two[i]
    BY <1>1, <1>9, <1>13, <2>1
  <2>4. two[i] = IF i > n /\ i <= n + 4 THEN a[i - n] ELSE one[i]
    BY <1>1, <1>6, <1>10, <2>1
  <2>5. one[i] = IF i > n + 8 THEN d[i - (n + 8)] ELSE IF i <= n THEN x[i] ELSE 0
    BY <1>1, <1>7, <2>1 DEF n
  <2>6. CASE i <= n
    BY <1>1, <2>1, <2>2, <2>3, <2>4, <2>5, <2>6
  <2>7. CASE i > n /\ i <= n + 4
    <3>1. i - n \in 1..(4 + Len(bd)) /\ i - n <= 4
      BY <1>1, <1>2, <2>1, <2>7
    <3>2. abd[i - n] = a[i - n]
      BY <1>3, <3>1
    <3>3. QED BY <1>1, <2>1, <2>2, <2>3, <2>4, <2>7, <3>2
  <2>8. CASE i > n + 4 /\ i <= n + 8
    <3>1. i - n \in 1..(4 + Len(bd)) /\ ~(i - n <= 4) /\ (i - n) - 4 = i - (n + 4)
          /\ i - (n + 4) \in 1..(4 + m) /\ i - (n + 4) <= 4 /\ ~(i <= n)
      BY <1>1, <1>2, <2>1, <2>8
    <3>2. abd[i - n] = bd[i - (n + 4)]
      BY <1>3, <3>1
    <3>3. bd[i - (n + 4)] = b[i - (n + 4)]
      BY <1>2, <3>1 DEF m
    <3>4. QED BY <2>2, <2>3, <2>8, <3>1, <3>2, <3>3
  <2>9. CASE i > n + 8
    <3>1. i - n \in 1..(4 + Len(bd)) /\ ~(i - n <= 4) /\ (i - n) - 4 = i - (n + 4)
          /\ i - (n + 4) \in 1..(4 + m) /\ ~(i - (n + 4) <= 4) /\ ~(i <= n)
          /\ (i - (n + 4)) - 4 = i - (n + 8) /\ ~(i <= n + 4)
      BY <1>1, <1>2, <2>1, <2>9 DEF m
    <3>2. abd[i - n] = bd[i - (n + 4)]
      BY <1>3, <3>1
    <3>3. bd[i - (n + 4)] = d[i - (n + 8)]
      BY <1>2, <3>1 DEF m
    <3>4. two[i] = one[i] /\ three[i] = two[i]
      BY <1>1, <2>1, <2>3, <2>4, <2>9
    <3>5. QED BY <2>2, <2>5, <2>9, <3>1, <3>2, <3>3, <3>4
  <2>10. QED BY SMTT(30), <1>1, <2>1, <2>6, <2>7, <2>8, <2>9
<1>16. Len(three) = Len(w)
  BY <1>12, <1>14
<1>17. three = w
  <2>. HIDE DEF three, w
  <2>1. QED BY <1>4, <1>13, <1>15, <1>16, SameOctets
<1>18. QED BY <1>6, <1>9, <1>12, <1>17 DEF one, two, three, w, abd, bd, n, m, Packs

\* Three elements appended at once.
LEMMA Append3 ==
  ASSUME NEW X, NEW s \in Seq(X), NEW a \in X, NEW b \in X, NEW d \in X
  PROVE  s \o <<a, b, d>> = Append(Append(Append(s, a), b), d)
OBVIOUS

\* The octets of a compressed body: the two sizes and what the compressor made.
Packed(data) == LE(Len(data), 4) \o (LE(Len(Compressed(data)), 4) \o Compressed(data))

\* A packed body appends its two sizes and its octets.
LEMMA HoldsPacked ==
  ASSUME NEW c, NEW x, Holds(c, x), NEW data, Packable(data)
  PROVE  Holds(PutCompressed(c, data), x \o Packed(data))
<1>. DEFINE n == Len(x) d == Compressed(data) a == LE(Len(data), 4) b == LE(Len(d), 4)
            one == Paste(x, n + 8, d) two == Paste(one, n, a) three == Paste(two, n + 4, b)
            e == Stored1(c, Len(one), n + 8, d)
            f == Stored1(e, Len(two), n, a)
            g == Stored1(f, Len(three), n + 4, b)
            A == [at |-> n + 8, octets |-> d]
            B == [at |-> n, octets |-> a]
            C == [at |-> n + 4, octets |-> b]
<1>1. x \in Value /\ c.pos = n /\ n \in Nat /\ n + 8 \in Nat /\ n + 4 \in Nat
      /\ c.stores \in Seq(StoreOfOctets)
  BY HoldsIs
<1>2. d \in Value /\ Len(d) \in Nat
  BY DEF Packable, Value
<1>3. a \in Value /\ b \in Value /\ Len(a) = 4 /\ Len(b) = 4
  <2>1. Len(data) \in Int /\ Len(d) \in Int
    BY <1>2 DEF Packable, Value
  <2>. HIDE DEF d
  <2>2. QED BY <2>1, LEIs
<1>. HIDE DEF d, a, b, n
<1>4. /\ Len(one) = n + 8 + Len(d) /\ Len(two) = n + 8 + Len(d) /\ Len(three) = n + 8 + Len(d)
      /\ three = x \o (a \o (b \o d))
  <2>1. Packs(x, a, b, d)
    BY <1>1, <1>2, <1>3, PasteThree
  <2>2. QED BY <2>1 DEF n, Packs
<1>5. Holds(e, one)
  <2>. DEFINE at == n + 8
  <2>. HIDE DEF at
  <2>1. at \in Nat
    BY <1>1 DEF at
  <2>2. Holds(Stored1(c, Len(Paste(x, at, d)), at, d), Paste(x, at, d))
    BY <1>2, <2>1, HoldsPaste
  <2>3. QED BY <2>2 DEF at
<1>. HIDE DEF one, e
<1>6. Holds(f, two)
  BY <1>1, <1>3, <1>5, HoldsPaste
<1>. HIDE DEF two, f
<1>7. Holds(g, three)
  <2>. DEFINE at == n + 4
  <2>. HIDE DEF at
  <2>1. at \in Nat
    BY <1>1 DEF at
  <2>2. Holds(Stored1(f, Len(Paste(two, at, b)), at, b), Paste(two, at, b))
    BY <1>3, <1>6, <2>1, HoldsPaste
  <2>3. QED BY <2>2 DEF at
<1>8. c.stores \o <<A, B, C>> = Append(Append(Append(c.stores, A), B), C)
  <2>1. A \in StoreOfOctets /\ B \in StoreOfOctets /\ C \in StoreOfOctets
    BY <1>1, <1>2, <1>3 DEF StoreOfOctets, Value
  <2>. HIDE DEF A, B, C
  <2>2. QED BY <1>1, <2>1, Append3
<1>9. g = [pos |-> Len(three), stores |-> Append(Append(Append(c.stores, A), B), C)]
  BY DEF Stored1, e, f
<1>10. PutCompressed(c, data) = [pos |-> n + 8 + Len(d), stores |-> c.stores \o <<A, B, C>>]
  BY <1>1 DEF PutCompressed, d, a, b
<1>11. PutCompressed(c, data) = g
  <2>. HIDE DEF three, A, B, C, g
  <2>1. QED BY <1>4, <1>8, <1>9, <1>10
<1>12. x \o Packed(data) = three
  BY <1>4 DEF Packed, a, b, d
<1>13. QED BY <1>7, <1>11, <1>12
-----------------------------------------------------------------------------
(* The blocks of a save. *)

\* What is stored of the fields of a block is octets.
LEMMA ListStored ==
  ASSUME NEW s, Good(s), NEW ns \in Seq(PlainNames)
  PROVE  StoreAll(s, ListOf(ns)) \in Value
<1>1. ns \in Seq(AllNames)
  BY PlainIsName
<1>2. "data4" \in AllNames
  BY DEF AllNames
<1>. DEFINE m == "data4"
<1>. HIDE DEF m
<1>3. m \in AllNames
  BY <1>2 DEF m
<1>4. QED BY <1>1, <1>3, StoreAllMore

\* What a structured block stores: its fields, and of the weather also the rest.
LEMMA GlobalStored ==
  ASSUME NEW s, Good(s), NEW t \in Structured
  PROVE  LET names == StoreAll(s, ListOf(GlobalNames(t, "SKYRIM")))
         IN  /\ names \in Value /\ StoreAll(s, GlobalStores(t)) \in Value
             /\ StoreAll(s, GlobalStores(t))
                  = IF t = WEATHER THEN names \o Store(s, FieldNamed("data4")) ELSE names
<1>. DEFINE g == "SKYRIM" ns == GlobalNames(t, g) names == StoreAll(s, ListOf(ns)) m == "data4"
<1>1. /\ ns \in Seq(PlainNames)
      /\ t # WEATHER => GlobalLoads(t, g) = ListOf(ns)
      /\ t = WEATHER => GlobalLoads(t, g) = Append(ListOf(ns), FieldNamed(m))
  <2>. HIDE DEF g
  <2>1. QED BY GlobalList
<1>2. GlobalStores(t) = GlobalLoads(t, g)
  BY StoresAreLoads
<1>3. m \in AllNames
  BY DEF AllNames
<1>. HIDE DEF ns, m, g
<1>4. names \in Value
  BY <1>1, ListStored
<1>5. StoreAll(s, Append(ListOf(ns), FieldNamed(m))) = names \o Store(s, FieldNamed(m))
  <2>1. ns \in Seq(AllNames)
    BY <1>1, PlainIsName
  <2>2. QED BY <1>3, <2>1, StoreAllMore
<1>6. Store(s, FieldNamed(m)) \in Value
  BY <1>3, StoresTyped
<1>7. StoreAll(s, GlobalStores(t))
        = IF t = WEATHER THEN names \o Store(s, FieldNamed(m)) ELSE names
  <2>. HIDE DEF names
  <2>1. CASE t = WEATHER
    BY <1>1, <1>2, <1>5, <2>1
  <2>2. CASE t # WEATHER
    BY <1>1, <1>2, <2>2 DEF names
  <2>3. QED BY <2>1, <2>2
<1>8. StoreAll(s, GlobalStores(t)) \in Value
  <2>. HIDE DEF names
  <2>1. names \o Store(s, FieldNamed(m)) \in Value
    BY <1>4, <1>6, ConcatIs
  <2>2. QED BY <1>4, <1>7, <2>1
<1>9. QED BY <1>4, <1>7, <1>8 DEF ns, m, g

\* What makes a save sane, part by part.
LEMMA SaneParts ==
  ASSUME NEW s, Sane(s)
  PROVE  IsSave(s) /\ Good(s) /\ s["game"] \in Games /\ GlobalsOK(s["globals"])
         /\ s["snapshot_data"] \in Seq(Value) /\ FormsOK(s["change_forms"])
BY DEF Sane

\* A block that is kept as it is.
LEMMA ChunkIs ==
  ASSUME NEW s, Sane(s), NEW t \in ObjectTypes
  PROVE  /\ t \in Structured => s.globals[t] = <<>>
         /\ s.globals[t] # <<>> =>
              \E x \in Value : s.globals[t] = <<x>> /\ s.globals[t][1] = x
<1>1. s.globals[t] = <<>> \/ (t \notin Structured /\ \E x \in Value : s.globals[t] = <<x>>)
  BY SaneParts DEF GlobalsOK
<1>2. QED BY <1>1

\* The octets of a block of global data are octets.
LEMMA GlobalOctetsTyped ==
  ASSUME NEW s, Sane(s), NEW t \in ObjectTypes, Present(s, t)
  PROVE  global_data_octets(s, t) \in Value
<1>1. CASE t \in Structured
  <2>1. StoreAll(s, GlobalStores(t)) \in Value
    BY <1>1, GlobalStored, SaneParts
  <2>2. QED BY <1>1, <2>1 DEF global_data_octets
<1>2. CASE t \notin Structured
  <2>1. s.globals[t] # <<>>
    BY <1>2 DEF Present
  <2>2. PICK x \in Value : s.globals[t] = <<x>> /\ s.globals[t][1] = x
    BY <2>1, ChunkIs
  <2>3. QED BY <1>2, <2>2 DEF global_data_octets
<1>3. QED BY <1>1, <1>2

GlobalHeader(s, t) == LE(glda_type_number(t), 4) \o LE(Len(global_data_octets(s, t)), 4)

\* The number glda_type_number gives a type is the number the reader knows the
\* type by.
LEMMA TypeNumbers ==
  ASSUME NEW t \in ObjectTypes
  PROVE  /\ glda_type_number(t) \in Nat /\ glda_type_number(t) < 1008
         /\ TypesOf(glda_type_number(t)) = {t}
<1>1. t \in Int /\ 0 <= t /\ t <= 37
  BY DEF ObjectTypes
<1>2. ASSUME NEW u \in ObjectTypes, glda_type_number(u) = glda_type_number(t) PROVE u = t
  <2>1. u \in Int /\ 0 <= u /\ u <= 37
    BY DEF ObjectTypes
  <2>2. QED BY <1>1, <1>2, <2>1 DEF glda_type_number
<1>3. TypesOf(glda_type_number(t)) = {t}
  BY <1>2 DEF TypesOf
<1>4. QED BY <1>1, <1>3 DEF glda_type_number

\* A block of global data: its type, its length and its octets.
LEMMA GlobalBlockTyped ==
  ASSUME NEW s, Sane(s), NEW t \in ObjectTypes, Present(s, t)
  PROVE  /\ GlobalBlock(s, t) \in BlockType
         /\ GlobalBlock(s, t).header = GlobalHeader(s, t)
         /\ GlobalBlock(s, t).data = global_data_octets(s, t)
         /\ LE(glda_type_number(t), 4) \in Value /\ Len(LE(glda_type_number(t), 4)) = 4
         /\ LE(Len(global_data_octets(s, t)), 4) \in Value
         /\ Len(LE(Len(global_data_octets(s, t)), 4)) = 4
         /\ GlobalHeader(s, t) \in Value /\ Len(GlobalHeader(s, t)) = 8
<1>. DEFINE d == global_data_octets(s, t) a == LE(glda_type_number(t), 4) b == LE(Len(d), 4)
            h == a \o b
<1>1. d \in Value /\ Len(d) \in Int
  <2>1. d \in Value
    BY GlobalOctetsTyped
  <2>. HIDE DEF d
  <2>2. QED BY <2>1 DEF Value
<1>. HIDE DEF d
<1>2. a \in Value /\ Len(a) = 4 /\ b \in Value /\ Len(b) = 4
  <2>1. glda_type_number(t) \in Int
    BY TypeNumbers
  <2>2. QED BY <1>1, <2>1, LEIs
<1>3. GlobalBlock(s, t) = [header |-> h, data |-> d]
  BY DEF GlobalBlock, d
<1>. HIDE DEF a, b
<1>4. h \in Value /\ Len(h) = 8
  <2>1. h \in Value /\ Len(h) = Len(a) + Len(b)
    BY <1>2, ConcatIs
  <2>. HIDE DEF h
  <2>2. QED BY <1>2, <2>1
<1>. HIDE DEF h
<1>5. GlobalBlock(s, t) \in BlockType
  <2>1. Len(h) >= 8
    BY <1>4
  <2>2. h \in {v \in Value : Len(v) >= 8}
    BY <1>4, <2>1
  <2>3. QED BY <1>1, <1>3, <2>2 DEF BlockType
<1>6. QED BY <1>1, <1>2, <1>3, <1>4, <1>5 DEF GlobalHeader, h, a, b, d
-----------------------------------------------------------------------------
(* The blocks of a table. *)

Run(b, k) == [i \in 1..k |-> b + i - 1]
OneBlock(s, t) == IF Present(s, t) THEN <<GlobalBlock(s, t)>> ELSE <<>>
RunBlocks(s, b, k) == FlattenSeq([i \in 1..k |-> OneBlock(s, b + i - 1)])

\* The three tables are runs of the types 0 to 11, 12 to 29 and 30 to 37.
LEMMA TablesAre ==
  ASSUME NEW s
  PROVE  /\ GlobalBlocks(s, Table1) = RunBlocks(s, 0, 12)
         /\ GlobalBlocks(s, Table2) = RunBlocks(s, 12, 18)
         /\ GlobalBlocks(s, Table3) = RunBlocks(s, 30, 8)
<1>1. ASSUME NEW b \in Int, NEW k \in Int, NEW types, types = Run(b, k)
      PROVE  GlobalBlocks(s, types) = RunBlocks(s, b, k)
  <2>. DEFINE f == [i \in DOMAIN types |->
                      IF Present(s, types[i]) THEN <<GlobalBlock(s, types[i])>> ELSE <<>>]
              g == [i \in 1..k |-> OneBlock(s, b + i - 1)]
  <2>1. DOMAIN types = 1..k /\ \A i \in 1..k : types[i] = b + i - 1
    BY <1>1 DEF Run
  <2>2. f = g
    BY <2>1 DEF OneBlock
  <2>. HIDE DEF f, g
  <2>3. GlobalBlocks(s, types) = FlattenSeq(f) /\ RunBlocks(s, b, k) = FlattenSeq(g)
    BY DEF GlobalBlocks, RunBlocks, f, g
  <2>4. QED BY <2>2, <2>3
<1>2. Table1 = Run(0, 12) /\ Table2 = Run(12, 18) /\ Table3 = Run(30, 8)
  BY DEF Table1, Table2, Table3, Run
<1>3. QED BY <1>1, <1>2

\* A type has at most one block.
LEMMA OneBlockTyped ==
  ASSUME NEW s, Sane(s), NEW t \in ObjectTypes
  PROVE  OneBlock(s, t) \in Seq(BlockType) /\ Len(OneBlock(s, t)) <= 1
<1>1. CASE Present(s, t)
  <2>. DEFINE b == GlobalBlock(s, t)
  <2>1. b \in BlockType
    BY <1>1, GlobalBlockTyped
  <2>. HIDE DEF b
  <2>2. <<b>> \in Seq(BlockType) /\ Len(<<b>>) = 1
    BY <2>1
  <2>3. QED BY <1>1, <2>2 DEF OneBlock, b
<1>2. CASE ~Present(s, t)
  <2>1. OneBlock(s, t) = <<>>
    BY <1>2 DEF OneBlock
  <2>2. QED BY <2>1
<1>3. QED BY <1>1, <1>2

\* The types in a run are types.
LEMMA RunTypes ==
  ASSUME NEW b \in Nat, NEW k \in Nat, b + k <= 38
  PROVE  \A i \in 1..k : b + i - 1 \in ObjectTypes
BY DEF ObjectTypes

\* The blocks of a run, type by type.
LEMMA RunIsSeq ==
  ASSUME NEW s, Sane(s), NEW b \in Nat, NEW k \in Nat, b + k <= 38
  PROVE  [i \in 1..k |-> OneBlock(s, b + i - 1)] \in Seq(Seq(BlockType))
<1>. DEFINE f == [i \in 1..k |-> OneBlock(s, b + i - 1)]
<1>1. ASSUME NEW i \in 1..k PROVE OneBlock(s, b + i - 1) \in Seq(BlockType)
  <2>1. b + i - 1 \in ObjectTypes
    BY RunTypes
  <2>2. QED BY <2>1, OneBlockTyped
<1>2. f \in [1..k -> Seq(BlockType)]
  BY <1>1
<1>. HIDE DEF f
<1>3. f \in Seq(Seq(BlockType))
  BY <1>2, FunctionIsSeq
<1>4. QED BY <1>3 DEF f

\* One type more in a run appends its block, if it has one.
LEMMA RunBlocksAre ==
  ASSUME NEW s, Sane(s), NEW b \in Nat, NEW k \in Nat, b + k <= 37
  PROVE  /\ RunBlocks(s, b, k) \in Seq(BlockType)
         /\ RunBlocks(s, b, k + 1) = RunBlocks(s, b, k) \o OneBlock(s, b + k)
<1>. DEFINE f == [i \in 1..k |-> OneBlock(s, b + i - 1)]
            g == [i \in 1..(k + 1) |-> OneBlock(s, b + i - 1)]
            h == [i \in Nat |-> OneBlock(s, b + i - 1)]
            x == OneBlock(s, b + k)
<1>1. f \in Seq(Seq(BlockType))
  <2>1. b + k <= 38
    OBVIOUS
  <2>2. QED BY <2>1, RunIsSeq
<1>2. x \in Seq(BlockType)
  <2>1. b + k \in ObjectTypes
    BY DEF ObjectTypes
  <2>2. QED BY <2>1, OneBlockTyped
<1>3. g = [i \in 1..(k + 1) |-> h[i]] /\ f = [i \in 1..k |-> h[i]]
  OBVIOUS
<1>4. h[k + 1] = x
  <2>1. b + (k + 1) - 1 = b + k /\ k + 1 \in Nat
    OBVIOUS
  <2>2. QED BY <2>1
<1>. HIDE DEF h, x
<1>5. g = Append(f, x)
  <2>1. [i \in 1..(k + 1) |-> h[i]] = Append([i \in 1..k |-> h[i]], h[k + 1])
    BY OneMore
  <2>. HIDE DEF f, g
  <2>2. QED BY <1>3, <1>4, <2>1
<1>. HIDE DEF f, g
<1>6. FlattenSeq(g) = FlattenSeq(f) \o x /\ FlattenSeq(f) \in Seq(BlockType)
  BY <1>1, <1>2, <1>5, FlattenAppend, FlattenTyped
<1>7. RunBlocks(s, b, k) = FlattenSeq(f) /\ RunBlocks(s, b, k + 1) = FlattenSeq(g)
  BY DEF RunBlocks, f, g
<1>8. QED BY <1>6, <1>7 DEF x

\* An empty run has no blocks.
LEMMA RunBlocksNone == \A s, b : RunBlocks(s, b, 0) = <<>>
<1>1. \A s, b : [i \in 1..0 |-> OneBlock(s, b + i - 1)] = <<>>
  OBVIOUS
<1>2. QED BY <1>1, FlattenEmpty DEF RunBlocks

\* How many blocks a table has.
LEMMA RunBlocksTyped ==
  ASSUME NEW s, Sane(s), NEW b \in Nat, NEW k \in Nat, b + k <= 38
  PROVE  /\ RunBlocks(s, b, k) \in Seq(BlockType)
         /\ Len(RunBlocks(s, b, k)) \in Nat /\ Len(RunBlocks(s, b, k)) <= k
<1>. DEFINE Ok(j) == RunBlocks(s, b, j) \in Seq(BlockType) /\ Len(RunBlocks(s, b, j)) <= j
            T == {j \in Nat : b + j <= 38 => Ok(j)}
<1>1. 0 \in T
  <2>1. RunBlocks(s, b, 0) = <<>>
    BY RunBlocksNone
  <2>2. <<>> \in Seq(BlockType) /\ Len(<<>>) <= 0
    OBVIOUS
  <2>3. Ok(0)
    BY <2>1, <2>2
  <2>. HIDE DEF Ok
  <2>4. QED BY <2>3
<1>2. ASSUME NEW j \in Nat, j \in T PROVE j + 1 \in T
  <2>1. ASSUME b + (j + 1) <= 38 PROVE Ok(j + 1)
    <3>1. b + j <= 37 /\ b + j <= 38 /\ b + j \in ObjectTypes
      BY <2>1 DEF ObjectTypes
    <3>2. Ok(j)
      <4>. HIDE DEF Ok
      <4>1. QED BY <1>2, <3>1
    <3>. DEFINE u == RunBlocks(s, b, j) w == OneBlock(s, b + j)
    <3>3. RunBlocks(s, b, j + 1) = u \o w /\ u \in Seq(BlockType)
      BY <3>1, RunBlocksAre
    <3>4. w \in Seq(BlockType) /\ Len(w) <= 1
      BY <3>1, OneBlockTyped
    <3>5. Len(u) <= j
      BY <3>2
    <3>. HIDE DEF u, w
    <3>6. u \o w \in Seq(BlockType) /\ Len(u \o w) = Len(u) + Len(w) /\ Len(u) \in Nat /\ Len(w) \in Nat
      BY <3>3, <3>4
    <3>7. QED BY SMTT(30), <3>3, <3>4, <3>5, <3>6
  <2>. HIDE DEF Ok
  <2>2. QED BY <2>1
<1>. HIDE DEF T
<1>3. Nat \subseteq T
  BY <1>1, <1>2, FB!Induction
<1>4. k \in T
  BY <1>3
<1>5. Ok(k)
  <2>. HIDE DEF Ok
  <2>1. QED BY <1>4 DEF T
<1>6. QED BY <1>5
-----------------------------------------------------------------------------
(* The blocks of the change forms. *)

FormHeader(form) ==
  Stored("be24", form.form_id) \o form.flags \o <<form.type, form.version>>
  \o LE(Len(form.data), FormWidth(form)) \o form.length2

\* The header of a change form, piece by piece.
FormParts(form) ==
  LET a == Stored("be24", form.form_id)
      d == <<form.type, form.version>>
      e == LE(Len(form.data), FormWidth(form))
      w == FormWidth(form)
  IN  /\ a \in Value /\ Len(a) = 3 /\ form.flags \in Value /\ Len(form.flags) = 4
      /\ d \in Value /\ Len(d) = 2 /\ e \in Value /\ Len(e) = w
      /\ form.length2 \in Value /\ Len(form.length2) = w
      /\ a \o form.flags \in Value /\ Len(a \o form.flags) = 7
      /\ (a \o form.flags) \o d \in Value /\ Len((a \o form.flags) \o d) = 9
      /\ ((a \o form.flags) \o d) \o e \in Value
      /\ Len(((a \o form.flags) \o d) \o e) = 9 + w
      /\ FormHeader(form) = (((a \o form.flags) \o d) \o e) \o form.length2
      /\ FormHeader(form) \in Value /\ Len(FormHeader(form)) = 9 + 2 * w
      /\ w \in {1, 2, 4}

\* The parts of a stored change form are octets of their widths.
LEMMA FormPartsAre ==
  ASSUME NEW form, FormOK(form)
  PROVE  FormParts(form)
<1>. DEFINE a == Stored("be24", form.form_id) b == form.flags
            d == <<form.type, form.version>> w == FormWidth(form)
            e == LE(Len(form.data), w) f == form.length2
            ab == a \o b abd == ab \o d abde == abd \o e h == abde \o f
<1>1. /\ Storable("be24", form.form_id) /\ b \in Value /\ Len(b) = 4
      /\ form.type \in Octet /\ form.type < 192 /\ form.version \in Octet
      /\ f \in Value /\ Len(f) = w /\ form.data \in Value
  BY Zenon DEF FormOK
<1>2. a \in Value /\ Len(a) = 3
  BY <1>1, Be24Stored
<1>3. d \in Value /\ Len(d) = 2
  <2>. DEFINE p == form.type q == form.version
  <2>1. p \in Octet /\ q \in Octet
    BY <1>1
  <2>. HIDE DEF p, q
  <2>2. <<p, q>> \in Seq(Octet) /\ Len(<<p, q>>) = 2
    BY <2>1
  <2>3. QED BY <2>2 DEF Value, p, q
<1>4. w \in {1, 2, 4}
  BY <1>1, FormTypes DEF FormWidth
<1>5. Len(form.data) \in Int
  BY <1>1 DEF Value
<1>6. e \in Value /\ Len(e) = w
  <2>. HIDE DEF w
  <2>1. QED BY <1>4, <1>5, LEIs
<1>7. FormHeader(form) = h
  BY DEF FormHeader
<1>. HIDE DEF a, b, d, e, f, w
<1>8. ab \in Value /\ Len(ab) = 7
  <2>1. ab \in Value /\ Len(ab) = Len(a) + Len(b)
    BY <1>1, <1>2, ConcatIs
  <2>. HIDE DEF ab
  <2>2. QED BY <1>1, <1>2, <2>1
<1>. HIDE DEF ab
<1>9. abd \in Value /\ Len(abd) = 9
  <2>1. abd \in Value /\ Len(abd) = Len(ab) + Len(d)
    BY <1>3, <1>8, ConcatIs
  <2>. HIDE DEF abd
  <2>2. QED BY <1>3, <1>8, <2>1
<1>. HIDE DEF abd
<1>10. w \in Nat
  BY <1>4
<1>11. abde \in Value /\ Len(abde) = 9 + w
  BY <1>6, <1>9, <1>10, ConcatIs
<1>. HIDE DEF abde
<1>12. h \in Value /\ Len(h) = 9 + 2 * w
  <2>1. h \in Value /\ Len(h) = Len(abde) + Len(f)
    BY <1>1, <1>11, ConcatIs
  <2>. HIDE DEF h
  <2>2. QED BY <1>1, <1>10, <1>11, <2>1
<1>. HIDE DEF h
<1>13. FormParts(form)
  <2>1. h = abde \o f
    BY DEF h
  <2>2. QED BY <1>1, <1>2, <1>3, <1>4, <1>6, <1>7, <1>8, <1>9, <1>11, <1>12, <2>1
            DEF FormParts, a, b, d, e, f, w, ab, abd, abde
<1>14. QED BY <1>13

\* A change form's block: its header and its data.
LEMMA FormBlockTyped ==
  ASSUME NEW form, FormOK(form)
  PROVE  /\ FormBlock(form) \in BlockType
         /\ FormBlock(form).header = FormHeader(form) /\ FormBlock(form).data = form.data
<1>1. FormBlock(form) = [header |-> FormHeader(form), data |-> form.data]
  BY DEF FormBlock, FormHeader, FormWidth
<1>2. FormHeader(form) \in Value /\ Len(FormHeader(form)) >= 8
  <2>. DEFINE w == FormWidth(form) n == Len(FormHeader(form))
  <2>1. FormHeader(form) \in Value /\ n = 9 + 2 * w /\ w \in {1, 2, 4}
    BY FormPartsAre DEF FormParts
  <2>. HIDE DEF w, n
  <2>2. n >= 8
    BY <2>1
  <2>3. QED BY <2>1, <2>2 DEF n
<1>3. form.data \in Value
  BY Zenon DEF FormOK
<1>4. QED BY <1>1, <1>2, <1>3 DEF BlockType

\* The blocks of the change forms, one for each.
LEMMA FormBlocksTyped ==
  ASSUME NEW s, Sane(s)
  PROVE  /\ FormBlocks(s) \in Seq(BlockType) /\ Len(FormBlocks(s)) = Len(s.change_forms)
         /\ Len(s.change_forms) \in Nat
         /\ \A i \in 1..Len(s.change_forms) : FormBlocks(s)[i] = FormBlock(s.change_forms[i])
<1>. DEFINE fs == s.change_forms n == Len(fs) f == [i \in 1..n |-> FormBlock(fs[i])]
<1>1. FormsOK(fs)
  BY SaneParts
<1>. HIDE DEF fs
<1>2. n \in Nat /\ DOMAIN fs = 1..n /\ \A i \in 1..n : FormOK(fs[i])
  BY <1>1 DEF FormsOK
<1>3. FormBlocks(s) = f
  BY <1>2 DEF FormBlocks, fs
<1>. HIDE DEF n
<1>4. f \in [1..n -> BlockType] /\ \A i \in 1..n : f[i] = FormBlock(fs[i])
  BY <1>2, FormBlockTyped
<1>. HIDE DEF f
<1>5. f \in Seq(BlockType) /\ Len(f) = n
  BY <1>2, <1>4, FunctionIsSeq
<1>6. QED BY <1>2, <1>3, <1>4, <1>5 DEF n, fs
-----------------------------------------------------------------------------
(* The octets of a body. *)

VersionPart(s) == StoreAll(s, VersionStores(s.game))
PluginPart(s) == Whole(SimpleBlock(plugin_info_octets(s)))
GlobalPart(s, b, k) == Blocks(RunBlocks(s, b, k))
FormPart(s) == Blocks(FormBlocks(s))
TailPart(s) == StoreAll(s, TailLoads)

\* y has the body of s from p on, and nothing behind it.
BodyIs(y, p, s) ==
  LET v == VersionPart(s)
      b == PluginPart(s)
      t == p + Len(v) + Len(b)
      g1 == GlobalPart(s, 0, 12)
      g2 == GlobalPart(s, 12, 18)
      f == FormPart(s)
      g3 == GlobalPart(s, 30, 8)
      r == TailPart(s)
      q1 == t + 100
      q2 == q1 + Len(g1)
      q3 == q2 + Len(g2)
      q4 == q3 + Len(f)
      q5 == q4 + Len(g3)
  IN  /\ y \in Value /\ At(y, p, v) /\ At(y, p + Len(v), b)
      /\ At(y, t + 24, LE(Len(RunBlocks(s, 0, 12)), 4))
      /\ At(y, t + 28, LE(Len(RunBlocks(s, 12, 18)), 4))
      /\ At(y, t + 32, LE(Len(RunBlocks(s, 30, 8)) - 1, 4))
      /\ At(y, t + 36, LE(Len(s.change_forms), 4))
      /\ At(y, q1, g1) /\ At(y, q2, g2) /\ At(y, q3, f) /\ At(y, q4, g3) /\ At(y, q5, r)
      /\ Len(y) = q5 + Len(r)

\* The versions in front of the plugins are stored field by field.
LEMMA VersionTyped ==
  ASSUME NEW s, Good(s)
  PROVE  VersionPart(s) \in Value /\ VersionPart(s) = StoreAll(s, ListOf(VersionNames(s.game)))
<1>. DEFINE g == s.game
<1>. HIDE DEF g
<1>1. VersionNames(g) \in Seq(PlainNames) /\ VersionLoads(g) = ListOf(VersionNames(g))
  BY VersionList
<1>2. VersionStores(g) = VersionLoads(g)
  BY StoresAreLoads
<1>3. StoreAll(s, ListOf(VersionNames(g))) \in Value
  BY <1>1, ListStored
<1>4. QED BY <1>1, <1>2, <1>3 DEF VersionPart, g

\* The plugin table is stored as a block: its length and its octets.
LEMMA PluginTyped ==
  ASSUME NEW s, Good(s)
  PROVE  LET d == StoreAll(s, ListOf(PluginNames(s)))
         IN  /\ plugin_info_octets(s) = d /\ d \in Value
             /\ SimpleBlock(plugin_info_octets(s)).header = LE(Len(d), 4)
             /\ SimpleBlock(plugin_info_octets(s)).data = d
             /\ LE(Len(d), 4) \in Value /\ Len(LE(Len(d), 4)) = 4
             /\ PluginPart(s) = LE(Len(d), 4) \o d /\ PluginPart(s) \in Value
             /\ Len(PluginPart(s)) = 4 + Len(d)
<1>. DEFINE d == StoreAll(s, ListOf(PluginNames(s))) h == LE(Len(d), 4)
<1>1. PluginNames(s) \in Seq(PlainNames)
      /\ PluginLoads \o (IF supports_light_plugins(s) THEN LightPluginLoads ELSE <<>>)
           = ListOf(PluginNames(s))
  BY PluginList
<1>2. d \in Value
  BY <1>1, ListStored
<1>3. plugin_info_octets(s) = d
  <2>1. PluginStores \o (IF supports_light_plugins(s) THEN LightPluginStores ELSE <<>>)
          = ListOf(PluginNames(s))
    BY <1>1, StoresAreLoads
  <2>2. QED BY <2>1 DEF plugin_info_octets
<1>. HIDE DEF d
<1>4. SimpleBlock(d) = [header |-> h, data |-> d]
  BY DEF SimpleBlock
<1>5. h \in Value /\ Len(h) = 4
  <2>1. Len(d) \in Int
    BY <1>2 DEF Value
  <2>2. QED BY <2>1, LEIs
<1>. HIDE DEF h
<1>6. PluginPart(s) = h \o d
  BY <1>3, <1>4 DEF PluginPart, Whole
<1>7. h \o d \in Value /\ Len(h \o d) = Len(h) + Len(d)
  BY <1>2, <1>5, ConcatIs
<1>8. PluginPart(s) \in Value /\ Len(PluginPart(s)) = 4 + Len(d)
  BY <1>5, <1>6, <1>7
<1>9. SimpleBlock(plugin_info_octets(s)).header = h /\ SimpleBlock(plugin_info_octets(s)).data = d
  BY <1>3, <1>4
<1>10. QED BY <1>2, <1>3, <1>5, <1>6, <1>8, <1>9, Zenon DEF h, d

\* The tables behind the change forms.
LEMMA TailFieldsAre ==
  /\ FieldNamed("form_ids") = Field("form_ids", "le32", <<"le32">>)
  /\ FieldNamed("world_spaces") = Field("world_spaces", "le32", <<"le32">>)
  /\ FieldNamed("unknown3") = Field("unknown3", "le32", <<"u8">>)
  /\ "form_ids" \in PlainNames /\ "world_spaces" \in PlainNames /\ "unknown3" \in PlainNames
BY DEF FieldNamed, CountOf, KindsNamed, PlainNames

\* Appending to one and two elements.
LEMMA AppendTuple ==
  /\ \A a, b : Append(<<a>>, b) = <<a, b>>
  /\ \A a, b, c : Append(<<a, b>>, c) = <<a, b, c>>
<1>1. ASSUME NEW a, NEW b PROVE Append(<<a>>, b) = <<a, b>>
  <2>. DEFINE X == {a, b} p == <<a>> q == <<a, b>> r == Append(p, b)
  <2>1. p \in Seq(X) /\ Len(p) = 1 /\ p[1] = a /\ b \in X
    OBVIOUS
  <2>2. q \in Seq(X) /\ Len(q) = 2 /\ q[1] = a /\ q[2] = b
    OBVIOUS
  <2>. HIDE DEF p, q, X
  <2>3. r \in Seq(X) /\ Len(r) = 2 /\ r[1] = a /\ r[2] = b
    <3>1. /\ r \in Seq(X) /\ Len(r) = Len(p) + 1 /\ r[Len(p) + 1] = b
          /\ \A i \in 1..Len(p) : r[i] = p[i]
      BY SMTT(30), <2>1
    <3>. HIDE DEF r
    <3>2. r[1] = p[1]
      BY <2>1, <3>1
    <3>3. Len(p) + 1 = 2
      BY <2>1
    <3>4. QED BY <2>1, <3>1, <3>2, <3>3
  <2>. HIDE DEF r
  <2>4. r = q
    BY <2>2, <2>3
  <2>5. QED BY <2>4 DEF r, p, q
<1>2. ASSUME NEW a, NEW b, NEW c PROVE Append(<<a, b>>, c) = <<a, b, c>>
  <2>. DEFINE X == {a, b, c} p == <<a, b>> q == <<a, b, c>> r == Append(p, c)
  <2>1. p \in Seq(X) /\ Len(p) = 2 /\ p[1] = a /\ p[2] = b /\ c \in X
    OBVIOUS
  <2>2. q \in Seq(X) /\ Len(q) = 3 /\ q[1] = a /\ q[2] = b /\ q[3] = c
    OBVIOUS
  <2>. HIDE DEF p, q, X
  <2>3. r \in Seq(X) /\ Len(r) = 3 /\ r[1] = a /\ r[2] = b /\ r[3] = c
    BY SMTT(30), <2>1
  <2>. HIDE DEF r
  <2>4. r = q
    BY <2>2, <2>3
  <2>5. QED BY <2>4 DEF r, p, q
<1>3. QED BY <1>1, <1>2

\* The three fields behind the last table.
LEMMA TailTyped ==
  ASSUME NEW s, Good(s)
  PROVE  LET a == Store(s, Field("form_ids", "le32", <<"le32">>))
             b == Store(s, Field("world_spaces", "le32", <<"le32">>))
             d == Store(s, Field("unknown3", "le32", <<"u8">>))
         IN  /\ a \in Value /\ b \in Value /\ d \in Value
             /\ TailPart(s) = (a \o b) \o d /\ TailPart(s) \in Value
<1>. DEFINE l == "form_ids" m == "world_spaces" n == "unknown3"
            a == Store(s, FieldNamed(l)) b == Store(s, FieldNamed(m)) d == Store(s, FieldNamed(n))
<1>1. /\ FieldNamed(l) = Field("form_ids", "le32", <<"le32">>)
      /\ FieldNamed(m) = Field("world_spaces", "le32", <<"le32">>)
      /\ FieldNamed(n) = Field("unknown3", "le32", <<"u8">>)
      /\ l \in PlainNames /\ m \in PlainNames /\ n \in PlainNames
  BY TailFieldsAre
<1>2. TailLoads = ListOf(<<l, m, n>>)
  BY OtherParts DEF TailNames
<1>. HIDE DEF l, m, n
<1>3. l \in AllNames /\ m \in AllNames /\ n \in AllNames
  BY <1>1 DEF AllNames
<1>4. a \in Value /\ b \in Value /\ d \in Value
  BY <1>3, StoresTyped
<1>5. <<>> \in Seq(AllNames) /\ <<l>> \in Seq(AllNames) /\ <<l, m>> \in Seq(AllNames)
      /\ Append(<<>>, l) = <<l>> /\ Append(<<l>>, m) = <<l, m>> /\ Append(<<l, m>>, n) = <<l, m, n>>
  <2>1. <<>> \in Seq(AllNames)
    OBVIOUS
  <2>2. <<l>> \in Seq(AllNames)
    BY <1>3
  <2>3. <<l, m>> \in Seq(AllNames)
    BY <1>3
  <2>4. Append(<<>>, l) = <<l>>
    OBVIOUS
  <2>5. Append(<<l>>, m) = <<l, m>>
    BY AppendTuple
  <2>6. Append(<<l, m>>, n) = <<l, m, n>>
    BY AppendTuple
  <2>7. QED BY <2>1, <2>2, <2>3, <2>4, <2>5, <2>6
<1>6. /\ ListOf(<<l>>) = Append(ListOf(<<>>), FieldNamed(l))
      /\ ListOf(<<l, m>>) = Append(ListOf(<<l>>), FieldNamed(m))
      /\ ListOf(<<l, m, n>>) = Append(ListOf(<<l, m>>), FieldNamed(n))
  <2>. DEFINE e == <<>> f == <<l>> g == <<l, m>> h == <<l, m, n>>
  <2>1. e \in Seq(AllNames) /\ f \in Seq(AllNames) /\ g \in Seq(AllNames)
        /\ Append(e, l) = f /\ Append(f, m) = g /\ Append(g, n) = h
    BY <1>5
  <2>. HIDE DEF e, f, g, h
  <2>2. ListOf(f) = Append(ListOf(e), FieldNamed(l))
    BY <1>3, <2>1, ListAppend
  <2>3. ListOf(g) = Append(ListOf(f), FieldNamed(m))
    BY <1>3, <2>1, ListAppend
  <2>4. ListOf(h) = Append(ListOf(g), FieldNamed(n))
    BY <1>3, <2>1, ListAppend
  <2>5. QED BY <2>2, <2>3, <2>4 DEF e, f, g, h
<1>7. ListOf(<<>>) = <<>>
  BY DEF ListOf
<1>8. StoreAll(s, ListOf(<<l>>)) = a
  <2>. DEFINE e == <<>>
  <2>1. e \in Seq(AllNames)
    BY <1>5
  <2>2. StoreAll(s, ListOf(e)) = <<>>
    BY <1>7, StoreAllNone
  <2>. HIDE DEF e
  <2>3. StoreAll(s, Append(ListOf(e), FieldNamed(l))) = StoreAll(s, ListOf(e)) \o a
    BY <1>3, <2>1, StoreAllMore
  <2>4. <<>> \o a = a
    BY <1>4 DEF Value
  <2>5. QED BY <1>6, <2>2, <2>3, <2>4 DEF e
<1>9. StoreAll(s, ListOf(<<l, m>>)) = a \o b
  <2>. DEFINE e == <<l>>
  <2>1. e \in Seq(AllNames)
    BY <1>5
  <2>. HIDE DEF e
  <2>2. StoreAll(s, Append(ListOf(e), FieldNamed(m))) = StoreAll(s, ListOf(e)) \o b
    BY <1>3, <2>1, StoreAllMore
  <2>3. QED BY <1>6, <1>8, <2>2 DEF e
<1>10. StoreAll(s, ListOf(<<l, m, n>>)) = (a \o b) \o d
  <2>. DEFINE e == <<l, m>>
  <2>1. e \in Seq(AllNames)
    BY <1>5
  <2>. HIDE DEF e
  <2>2. StoreAll(s, Append(ListOf(e), FieldNamed(n))) = StoreAll(s, ListOf(e)) \o d
    BY <1>3, <2>1, StoreAllMore
  <2>3. QED BY <1>6, <1>9, <2>2 DEF e
<1>11. (a \o b) \o d \in Value
  <2>1. a \o b \in Value
    BY <1>4, ConcatIs
  <2>2. QED BY <1>4, <2>1, ConcatIs
<1>12. QED BY <1>1, <1>2, <1>4, <1>10, <1>11 DEF TailPart
-----------------------------------------------------------------------------
(* What is in front of what is stored later. *)

IsFront(x, y) == Len(x) <= Len(y) /\ \A i \in 1..Len(x) : y[i] = x[i]

\* A value is the front of itself with more behind it.
LEMMA FrontConcat ==
  ASSUME NEW x \in Value, NEW o \in Value
  PROVE  x \o o \in Value /\ Len(x \o o) = Len(x) + Len(o) /\ IsFront(x, x \o o) /\ At(x \o o, Len(x), o)
<1>. DEFINE y == x \o o n == Len(x) m == Len(o)
<1>1. y \in Value /\ Len(y) = n + m /\ n \in Nat /\ m \in Nat
      /\ \A i \in 1..(n + m) : y[i] = IF i <= n THEN x[i] ELSE o[i - n]
  BY ConcatOctets
<1>. HIDE DEF y, n, m
<1>2. \A i \in 1..n : y[i] = x[i]
  BY <1>1
<1>3. \A i \in 1..m : y[n + i] = o[i]
  <2>1. ASSUME NEW i \in 1..m PROVE y[n + i] = o[i]
    <3>1. n + i \in 1..(n + m) /\ ~(n + i <= n) /\ (n + i) - n = i
      BY <1>1
    <3>2. QED BY <1>1, <3>1
  <2>2. QED BY <2>1
<1>4. n <= Len(y) /\ n + m <= Len(y)
  BY <1>1
<1>5. QED BY <1>1, <1>2, <1>3, <1>4 DEF IsFront, At, y, n, m

\* The front of a front is a front.
LEMMA FrontMore ==
  ASSUME NEW x \in Value, NEW y \in Value, NEW z \in Value, IsFront(x, y), IsFront(y, z)
  PROVE  IsFront(x, z)
<1>1. Len(x) \in Nat /\ Len(y) \in Nat /\ Len(z) \in Nat
  BY DEF Value
<1>2. QED BY <1>1 DEF IsFront

\* What is at a place of the front is at that place of the whole.
LEMMA FrontAt ==
  ASSUME NEW x \in Value, NEW y \in Value, IsFront(x, y), NEW p \in Nat, NEW o \in Value, At(x, p, o)
  PROVE  At(y, p, o)
<1>1. Len(x) \in Nat /\ Len(y) \in Nat /\ Len(o) \in Nat
  BY DEF Value
<1>2. QED BY <1>1 DEF IsFront, At

\* One part more, in the file z.
LEMMA PartAt ==
  ASSUME NEW x \in Value, NEW o \in Value, NEW z \in Value, IsFront(x \o o, z)
  PROVE  IsFront(x, z) /\ At(z, Len(x), o)
<1>. DEFINE y == x \o o
<1>1. y \in Value /\ IsFront(x, y) /\ At(y, Len(x), o) /\ IsFront(y, z) /\ Len(x) \in Nat
  BY FrontConcat DEF Value
<1>. HIDE DEF y
<1>2. QED BY <1>1, FrontMore, FrontAt

\* The location table leaves alone what is in front of it and behind it.
LEMMA TableKeeps ==
  ASSUME NEW x \in Value, NEW y, NEW tp \in Nat, NEW e, Table(y, x, tp, e, 10), tp + 40 <= Len(x),
         NEW p \in Nat, NEW o \in Value, At(x, p, o), p + Len(o) <= tp \/ p >= tp + 40
  PROVE  At(y, p, o)
<1>1. Len(x) \in Nat /\ Len(o) \in Nat
  BY DEF Value
<1>2. Len(y) = Len(x) /\ \A i \in 1..Len(x) : i <= tp \/ i > tp + 4 * 10 => y[i] = x[i]
  BY DEF Table
<1>3. p + Len(o) <= Len(x) /\ \A i \in 1..Len(o) : x[p + i] = o[i]
  BY DEF At
<1>4. ASSUME NEW i \in 1..Len(o) PROVE y[p + i] = o[i]
  <2>1. p + i \in 1..Len(x) /\ (p + i <= tp \/ p + i > tp + 4 * 10)
    BY <1>1, <1>3
  <2>2. QED BY <1>2, <1>3, <2>1
<1>5. QED BY <1>2, <1>3, <1>4 DEF At

\* Two sequences in a row, place by place.
LEMMA JoinedSeq ==
  ASSUME NEW X, NEW s \in Seq(X), NEW t \in Seq(X)
  PROVE  \A i \in 1..(Len(s) + Len(t)) : (s \o t)[i] = IF i <= Len(s) THEN s[i] ELSE t[i - Len(s)]
OBVIOUS

\* The ten entries.
LEMMA EntriesAre ==
  ASSUME NEW f, \A i \in 1..6 : f[i] \in Int, NEW a \in Int, NEW b \in Int, NEW c \in Int,
         NEW d \in Int
  PROVE  LET e == [i \in 1..6 |-> f[i]] \o <<a, b, c, d>>
         IN  /\ \A i \in 1..10 : e[i] \in Int
             /\ e[7] = a /\ e[8] = b /\ e[9] = c /\ e[10] = d
<1>. DEFINE g == [i \in 1..6 |-> f[i]] h == <<a, b, c, d>> e == g \o h
<1>1. g \in [1..6 -> Int]
  OBVIOUS
<1>. HIDE DEF g
<1>2. g \in Seq(Int) /\ Len(g) = 6
  BY ZenonT(40), <1>1, FunctionIsSeq
<1>3. h \in Seq(Int) /\ Len(h) = 4 /\ h[1] = a /\ h[2] = b /\ h[3] = c /\ h[4] = d
  OBVIOUS
<1>. HIDE DEF h
<1>4. \A i \in 1..10 : e[i] = IF i <= 6 THEN g[i] ELSE h[i - 6]
  <2>1. \A i \in 1..(Len(g) + Len(h)) : e[i] = IF i <= Len(g) THEN g[i] ELSE h[i - Len(g)]
    BY <1>2, <1>3, JoinedSeq
  <2>. HIDE DEF e
  <2>2. Len(g) = 6 /\ Len(g) + Len(h) = 10
    BY <1>2, <1>3
  <2>3. QED BY <2>1, <2>2
<1>. HIDE DEF e
<1>5. \A i \in 1..10 : e[i] \in Int
  <2>1. ASSUME NEW i \in 1..10 PROVE e[i] \in Int
    <3>1. CASE i <= 6
      <4>1. i \in 1..6
        BY <3>1
      <4>2. QED BY <1>1, <1>4, <3>1, <4>1
    <3>2. CASE ~(i <= 6)
      <4>1. i - 6 \in 1..4
        BY <3>2
      <4>2. h[i - 6] \in Int
        BY <1>3, <4>1
      <4>3. QED BY <1>4, <3>2, <4>2
    <3>3. QED BY <3>1, <3>2
  <2>2. QED BY <2>1
<1>6. QED BY <1>3, <1>4, <1>5 DEF e, g, h

Space == [i \in 1..LocationTableSize |-> 0]

\* The space for the location table is 100 octets.
LEMMA SpaceTyped == Space \in Value /\ Len(Space) = 100
<1>1. 100 \in Nat
  OBVIOUS
<1>. DEFINE n == 100
<1>. HIDE DEF n
<1>2. [i \in 1..n |-> 0] \in Seq(Octet) /\ Len([i \in 1..n |-> 0]) = n
  BY <1>1, ZeroesTyped DEF n
<1>3. QED BY <1>2 DEF Space, LocationTableSize, Value, n

\* All parts of a body are octets.
BodyTyped(s) ==
  /\ VersionPart(s) \in Value /\ PluginPart(s) \in Value
  /\ RunBlocks(s, 0, 12) \in Seq(BlockType) /\ RunBlocks(s, 12, 18) \in Seq(BlockType)
  /\ RunBlocks(s, 30, 8) \in Seq(BlockType) /\ FormBlocks(s) \in Seq(BlockType)
  /\ GlobalPart(s, 0, 12) \in Value /\ GlobalPart(s, 12, 18) \in Value
  /\ GlobalPart(s, 30, 8) \in Value /\ FormPart(s) \in Value /\ TailPart(s) \in Value
  /\ Len(RunBlocks(s, 0, 12)) \in Nat /\ Len(RunBlocks(s, 12, 18)) \in Nat
  /\ Len(RunBlocks(s, 30, 8)) \in Nat /\ Len(s.change_forms) \in Nat
  /\ Len(RunBlocks(s, 0, 12)) <= 12 /\ Len(RunBlocks(s, 12, 18)) <= 18
  /\ Len(RunBlocks(s, 30, 8)) <= 8 /\ Len(FormBlocks(s)) = Len(s.change_forms)
  /\ plugin_info_octets(s) \in Value
  /\ SimpleBlock(plugin_info_octets(s)).header \in Value
  /\ SimpleBlock(plugin_info_octets(s)).data \in Value

\* Every part of a body is octets.
LEMMA BodyIsTyped ==
  ASSUME NEW s, Sane(s)
  PROVE  BodyTyped(s)
<1>1. Good(s)
  BY SaneParts
<1>2. /\ RunBlocks(s, 0, 12) \in Seq(BlockType) /\ Len(RunBlocks(s, 0, 12)) \in Nat
      /\ Len(RunBlocks(s, 0, 12)) <= 12
  BY RunBlocksTyped
<1>3. /\ RunBlocks(s, 12, 18) \in Seq(BlockType) /\ Len(RunBlocks(s, 12, 18)) \in Nat
      /\ Len(RunBlocks(s, 12, 18)) <= 18
  BY RunBlocksTyped
<1>4. /\ RunBlocks(s, 30, 8) \in Seq(BlockType) /\ Len(RunBlocks(s, 30, 8)) \in Nat
      /\ Len(RunBlocks(s, 30, 8)) <= 8
  BY RunBlocksTyped
<1>5. FormBlocks(s) \in Seq(BlockType) /\ Len(FormBlocks(s)) = Len(s.change_forms)
      /\ Len(s.change_forms) \in Nat
  BY FormBlocksTyped
<1>6. /\ GlobalPart(s, 0, 12) \in Value /\ GlobalPart(s, 12, 18) \in Value
      /\ GlobalPart(s, 30, 8) \in Value /\ FormPart(s) \in Value
  BY <1>2, <1>3, <1>4, <1>5, WholesTyped DEF GlobalPart, FormPart
<1>7. VersionPart(s) \in Value
  BY <1>1, VersionTyped
<1>8. TailPart(s) \in Value
  BY <1>1, TailTyped
<1>. DEFINE d == StoreAll(s, ListOf(PluginNames(s)))
<1>9. /\ plugin_info_octets(s) = d /\ d \in Value
      /\ SimpleBlock(plugin_info_octets(s)).header = LE(Len(d), 4)
      /\ SimpleBlock(plugin_info_octets(s)).data = d
      /\ LE(Len(d), 4) \in Value /\ PluginPart(s) \in Value
  BY <1>1, PluginTyped
<1>. HIDE DEF d
<1>10. /\ PluginPart(s) \in Value /\ plugin_info_octets(s) \in Value
       /\ SimpleBlock(plugin_info_octets(s)).header \in Value
       /\ SimpleBlock(plugin_info_octets(s)).data \in Value
  BY <1>9
<1>11. QED BY <1>2, <1>3, <1>4, <1>5, <1>6, <1>7, <1>8, <1>10 DEF BodyTyped

\* The body as it was put, before the location table is filled in.
BodyBefore(x, s) ==
  ((((((((x \o VersionPart(s)) \o PluginPart(s)) \o Space) \o GlobalPart(s, 0, 12))
      \o GlobalPart(s, 12, 18)) \o FormPart(s)) \o GlobalPart(s, 30, 8)) \o TailPart(s))

\* The places of the parts, as lengths of what is in front.
LEMMA BeforeIs ==
  ASSUME NEW s, Sane(s), NEW x \in Value
  PROVE  LET v == VersionPart(s)
             b == PluginPart(s)
             t == Len(x) + Len(v) + Len(b)
             g1 == GlobalPart(s, 0, 12)
             g2 == GlobalPart(s, 12, 18)
             f == FormPart(s)
             g3 == GlobalPart(s, 30, 8)
             r == TailPart(s)
             q1 == t + 100
             q2 == q1 + Len(g1)
             q3 == q2 + Len(g2)
             q4 == q3 + Len(f)
             q5 == q4 + Len(g3)
             z == BodyBefore(x, s)
         IN  /\ z \in Value /\ IsFront(x, z) /\ At(z, Len(x), v) /\ At(z, Len(x) + Len(v), b)
             /\ At(z, q1, g1) /\ At(z, q2, g2) /\ At(z, q3, f) /\ At(z, q4, g3) /\ At(z, q5, r)
             /\ Len(z) = q5 + Len(r)
             /\ Len(x) \in Nat /\ Len(v) \in Nat /\ Len(b) \in Nat /\ Len(g1) \in Nat
             /\ Len(g2) \in Nat /\ Len(f) \in Nat /\ Len(g3) \in Nat /\ Len(r) \in Nat
             /\ t = Len((x \o v) \o b)
<1>. DEFINE v == VersionPart(s) b == PluginPart(s) t == Len(x) + Len(v) + Len(b)
            g1 == GlobalPart(s, 0, 12) g2 == GlobalPart(s, 12, 18) f == FormPart(s)
            g3 == GlobalPart(s, 30, 8) r == TailPart(s)
            q1 == t + 100 q2 == q1 + Len(g1) q3 == q2 + Len(g2) q4 == q3 + Len(f)
            q5 == q4 + Len(g3)
            x1 == x \o v x2 == x1 \o b x3 == x2 \o Space x4 == x3 \o g1 x5 == x4 \o g2
            x6 == x5 \o f x7 == x6 \o g3 z == x7 \o r
<1>1. v \in Value /\ b \in Value /\ g1 \in Value /\ g2 \in Value /\ f \in Value /\ g3 \in Value
      /\ r \in Value
  BY BodyIsTyped DEF BodyTyped
<1>2. z = BodyBefore(x, s)
  BY DEF BodyBefore
<1>3. Space \in Value /\ Len(Space) = 100
  BY SpaceTyped
<1>4. Len(x) \in Nat /\ Len(v) \in Nat /\ Len(b) \in Nat /\ Len(g1) \in Nat
      /\ Len(g2) \in Nat /\ Len(f) \in Nat /\ Len(g3) \in Nat /\ Len(r) \in Nat
  BY <1>1 DEF Value
<1>. HIDE DEF v, b, g1, g2, f, g3, r
<1>5. x1 \in Value /\ Len(x1) = Len(x) + Len(v)
  BY <1>1, ConcatIs
<1>. HIDE DEF x1
<1>6. x2 \in Value /\ Len(x2) = Len(x1) + Len(b)
  BY <1>1, <1>5, ConcatIs
<1>. HIDE DEF x2
<1>7. x3 \in Value /\ Len(x3) = Len(x2) + Len(Space)
  BY <1>3, <1>6, ConcatIs
<1>. HIDE DEF x3
<1>8. x4 \in Value /\ Len(x4) = Len(x3) + Len(g1)
  BY <1>1, <1>7, ConcatIs
<1>. HIDE DEF x4
<1>9. x5 \in Value /\ Len(x5) = Len(x4) + Len(g2)
  BY <1>1, <1>8, ConcatIs
<1>. HIDE DEF x5
<1>10. x6 \in Value /\ Len(x6) = Len(x5) + Len(f)
  BY <1>1, <1>9, ConcatIs
<1>. HIDE DEF x6
<1>11. x7 \in Value /\ Len(x7) = Len(x6) + Len(g3)
  BY <1>1, <1>10, ConcatIs
<1>. HIDE DEF x7
<1>12. z \in Value /\ Len(z) = Len(x7) + Len(r) /\ IsFront(x7, z) /\ At(z, Len(x7), r)
  BY <1>1, <1>11, FrontConcat
<1>. HIDE DEF z
<1>13. IsFront(x6, z) /\ At(z, Len(x6), g3)
  BY <1>1, <1>10, <1>12, PartAt DEF x7
<1>14. IsFront(x5, z) /\ At(z, Len(x5), f)
  BY <1>1, <1>9, <1>12, <1>13, PartAt DEF x6
<1>15. IsFront(x4, z) /\ At(z, Len(x4), g2)
  BY <1>1, <1>8, <1>12, <1>14, PartAt DEF x5
<1>16. IsFront(x3, z) /\ At(z, Len(x3), g1)
  BY <1>1, <1>7, <1>12, <1>15, PartAt DEF x4
<1>17. IsFront(x2, z)
  BY <1>3, <1>6, <1>12, <1>16, PartAt DEF x3
<1>18. IsFront(x1, z) /\ At(z, Len(x1), b)
  BY <1>1, <1>5, <1>12, <1>17, PartAt DEF x2
<1>19. IsFront(x, z) /\ At(z, Len(x), v)
  BY <1>1, <1>12, <1>18, PartAt DEF x1
<1>20. Len(x1) = Len(x) + Len(v) /\ Len(x2) = t /\ Len(x3) = q1 /\ Len(x4) = q2 /\ Len(x5) = q3
       /\ Len(x6) = q4 /\ Len(x7) = q5
  BY <1>3, <1>4, <1>5, <1>6, <1>7, <1>8, <1>9, <1>10, <1>11
<1>21. t = Len((x \o v) \o b)
  BY <1>20 DEF x2, x1
<1>. HIDE DEF t, q1, q2, q3, q4, q5
<1>22. /\ z \in Value /\ IsFront(x, z) /\ At(z, Len(x), v) /\ At(z, Len(x) + Len(v), b)
       /\ At(z, q1, g1) /\ At(z, q2, g2) /\ At(z, q3, f) /\ At(z, q4, g3) /\ At(z, q5, r)
       /\ Len(z) = q5 + Len(r)
  BY <1>12, <1>13, <1>14, <1>15, <1>16, <1>18, <1>19, <1>20
<1>23. QED BY <1>2, <1>4, <1>21, <1>22 DEF v, b, g1, g2, f, g3, r, t, q1, q2, q3, q4, q5

\* What is at a place of the body before its location table is filled in is there after.
LEMMA HoldsBody ==
  ASSUME NEW c, NEW x, Holds(c, x), NEW s, Sane(s), NEW base \in Int
  PROVE  \E y : Holds(PutBody(c, s, base), y) /\ BodyIs(y, Len(x), s) /\ IsFront(x, y)
<1>. DEFINE sf1 == Store(s, Field("form_ids", "le32", <<"le32">>))
            sf2 == Store(s, Field("world_spaces", "le32", <<"le32">>))
            sf3 == Store(s, Field("unknown3", "le32", <<"u8">>))
            version  == Put(c, VersionPart(s))
            table    == PutBlock(version, SimpleBlock(plugin_info_octets(s)))
            globals1 == Put(table, Space)
            globals2 == PutBlocks(globals1, RunBlocks(s, 0, 12))
            forms    == PutBlocks(globals2, RunBlocks(s, 12, 18))
            globals3 == PutBlocks(forms, FormBlocks(s))
            form_ids == PutBlocks(globals3, RunBlocks(s, 30, 8))
            spaces   == Put(form_ids, sf1)
            unknown3 == Put(spaces, sf2)
            end      == Put(unknown3, sf3)
            n1 == Len(RunBlocks(s, 0, 12)) n2 == Len(RunBlocks(s, 12, 18))
            n3 == Len(RunBlocks(s, 30, 8)) - 1 n4 == Len(s.change_forms)
            places   == [i \in 1..6 |-> <<form_ids, unknown3, globals1, globals2, forms,
                                          globals3>>[i].pos - base]
            entries  == places \o <<n1, n2, n3, n4>>
<1>1. PutBody(c, s, base) =
        [end EXCEPT !.stores = @ \o
            [i \in 1..10 |-> [at |-> table.pos + 4 * (i - 1), octets |-> LE(entries[i], 4)]]]
  <2>1. /\ GlobalBlocks(s, Table1) = RunBlocks(s, 0, 12)
        /\ GlobalBlocks(s, Table2) = RunBlocks(s, 12, 18)
        /\ GlobalBlocks(s, Table3) = RunBlocks(s, 30, 8)
    BY TablesAre
  <2>2. QED BY <2>1 DEF PutBody, VersionPart, Space
<1>2. BodyTyped(s) /\ Good(s)
  BY BodyIsTyped, SaneParts
<1>3. /\ sf1 \in Value /\ sf2 \in Value /\ sf3 \in Value
      /\ TailPart(s) = (sf1 \o sf2) \o sf3
  BY <1>2, TailTyped
<1>. HIDE DEF sf1, sf2, sf3
<1>. DEFINE x1 == x \o VersionPart(s) x2 == x1 \o PluginPart(s) x3 == x2 \o Space
            x4 == x3 \o GlobalPart(s, 0, 12) x5 == x4 \o GlobalPart(s, 12, 18)
            x6 == x5 \o FormPart(s) x7 == x6 \o GlobalPart(s, 30, 8)
            x8 == x7 \o sf1 x9 == x8 \o sf2 z == x9 \o sf3
<1>4. Holds(version, x1)
  BY <1>2, HoldsPut DEF BodyTyped
<1>. HIDE DEF version, x1
<1>5. Holds(table, x2)
  BY <1>2, <1>4, HoldsBlock DEF BodyTyped, PluginPart, Whole
<1>. HIDE DEF table, x2
<1>6. Holds(globals1, x3)
  BY <1>5, SpaceTyped, HoldsPut
<1>. HIDE DEF globals1, x3
<1>7. Holds(globals2, x4)
  BY <1>2, <1>6, HoldsBlocks DEF BodyTyped, GlobalPart
<1>. HIDE DEF globals2, x4
<1>8. Holds(forms, x5)
  BY <1>2, <1>7, HoldsBlocks DEF BodyTyped, GlobalPart
<1>. HIDE DEF forms, x5
<1>9. Holds(globals3, x6)
  BY <1>2, <1>8, HoldsBlocks DEF BodyTyped, FormPart
<1>. HIDE DEF globals3, x6
<1>10. Holds(form_ids, x7)
  BY <1>2, <1>9, HoldsBlocks DEF BodyTyped, GlobalPart
<1>. HIDE DEF form_ids, x7
<1>11. Holds(spaces, x8)
  BY <1>3, <1>10, HoldsPut
<1>. HIDE DEF spaces, x8
<1>12. Holds(unknown3, x9)
  BY <1>3, <1>11, HoldsPut
<1>. HIDE DEF unknown3, x9
<1>13. Holds(end, z)
  BY <1>3, <1>12, HoldsPut
<1>. HIDE DEF end
<1>14. z = BodyBefore(x, s)
  <2>1. x7 \in Value /\ sf1 \in Seq(Octet) /\ sf2 \in Seq(Octet) /\ sf3 \in Seq(Octet)
    BY <1>3, <1>10, HoldsIs DEF Value
  <2>2. x7 \in Seq(Octet)
    BY <2>1 DEF Value
  <2>3. sf1 \o sf2 \in Seq(Octet)
    BY <2>1
  <2>4. (x7 \o sf1) \o sf2 = x7 \o (sf1 \o sf2)
    BY SMTT(30), <2>1, <2>2, Associative
  <2>. DEFINE m == sf1 \o sf2
  <2>. HIDE DEF m
  <2>5. (x7 \o m) \o sf3 = x7 \o (m \o sf3)
    <3>1. m \in Seq(Octet)
      BY <2>3 DEF m
    <3>2. \A u, v, w \in Seq(Octet) : (u \o v) \o w = u \o (v \o w)
      BY SMTT(30), Associative
    <3>3. sf3 \in Seq(Octet)
      BY <2>1
    <3>4. QED BY ONLY <2>2, <3>1, <3>2, <3>3, Zenon
  <2>6. z = x7 \o TailPart(s)
    BY <1>3, <2>4, <2>5 DEF x8, x9, m
  <2>7. x7 \o TailPart(s) = BodyBefore(x, s)
    BY DEF BodyBefore, x7, x6, x5, x4, x3, x2, x1
  <2>8. QED BY <2>6, <2>7
<1>. HIDE DEF z
<1>15. /\ form_ids.pos \in Nat /\ unknown3.pos \in Nat /\ globals1.pos \in Nat
       /\ globals2.pos \in Nat /\ forms.pos \in Nat /\ globals3.pos \in Nat
       /\ table.pos = Len(x2) /\ end.pos = Len(z) /\ x2 \in Value /\ Len(x2) \in Nat
  BY <1>5, <1>6, <1>7, <1>8, <1>9, <1>10, <1>12, <1>13, HoldsIs
<1>16. n1 \in Nat /\ n2 \in Nat /\ n3 \in Int /\ n4 \in Nat
  BY <1>2 DEF BodyTyped
<1>. HIDE DEF n1, n2, n3, n4
<1>17. /\ \A i \in 1..10 : entries[i] \in Int
       /\ entries[7] = n1 /\ entries[8] = n2 /\ entries[9] = n3 /\ entries[10] = n4
  <2>. DEFINE f == [i \in 1..6 |-> <<form_ids, unknown3, globals1, globals2, forms,
                                     globals3>>[i].pos - base]
  <2>1. \A i \in 1..6 : f[i] \in Int
    <3>1. \A i \in 1..6 : <<form_ids, unknown3, globals1, globals2, forms, globals3>>[i].pos \in Nat
      BY SMTT(30), <1>15
    <3>2. ASSUME NEW i \in 1..6 PROVE f[i] \in Int
      BY <3>1
    <3>3. QED BY <3>2
  <2>2. [i \in 1..6 |-> f[i]] = places
    OBVIOUS
  <2>. HIDE DEF f, places
  <2>3. LET e == [i \in 1..6 |-> f[i]] \o <<n1, n2, n3, n4>>
         IN  /\ \A i \in 1..10 : e[i] \in Int
             /\ e[7] = n1 /\ e[8] = n2 /\ e[9] = n3 /\ e[10] = n4
    BY <1>16, <2>1, EntriesAre
  <2>4. QED BY <2>2, <2>3
<1>. HIDE DEF entries
<1>. DEFINE tp == table.pos
            v == VersionPart(s) b == PluginPart(s) t == Len(x) + Len(v) + Len(b)
            g1 == GlobalPart(s, 0, 12) g2 == GlobalPart(s, 12, 18) f == FormPart(s)
            g3 == GlobalPart(s, 30, 8) r == TailPart(s)
            q1 == t + 100 q2 == q1 + Len(g1) q3 == q2 + Len(g2) q4 == q3 + Len(f)
            q5 == q4 + Len(g3)
<1>18. x \in Value
  BY HoldsIs
<1>19. /\ z \in Value /\ IsFront(x, z) /\ At(z, Len(x), v) /\ At(z, Len(x) + Len(v), b)
       /\ At(z, q1, g1) /\ At(z, q2, g2) /\ At(z, q3, f) /\ At(z, q4, g3) /\ At(z, q5, r)
       /\ Len(z) = q5 + Len(r)
       /\ Len(x) \in Nat /\ Len(v) \in Nat /\ Len(b) \in Nat /\ Len(g1) \in Nat
       /\ Len(g2) \in Nat /\ Len(f) \in Nat /\ Len(g3) \in Nat /\ Len(r) \in Nat
       /\ t = Len((x \o v) \o b)
  BY <1>14, <1>18, BeforeIs
<1>20. v \in Value /\ b \in Value /\ g1 \in Value /\ g2 \in Value /\ f \in Value /\ g3 \in Value
       /\ r \in Value
  BY <1>2 DEF BodyTyped
<1>21. tp = t /\ tp \in Nat
  BY <1>15, <1>19 DEF x2, x1
<1>. HIDE DEF v, b, g1, g2, f, g3, r
<1>22. tp + 4 * 10 <= Len(z)
  BY <1>19, <1>21
<1>. HIDE DEF tp
<1>23. PICK y : /\ Holds([end EXCEPT !.stores = @ \o [i \in 1..10 |-> Entry(tp, entries, i)]], y)
                /\ Table(y, z, tp, entries, 10)
  BY <1>13, <1>17, <1>21, <1>22, HoldsTable
<1>24. Holds(PutBody(c, s, base), y)
  <2>1. [i \in 1..10 |-> Entry(tp, entries, i)]
          = [i \in 1..10 |-> [at |-> table.pos + 4 * (i - 1), octets |-> LE(entries[i], 4)]]
    BY DEF Entry, tp
  <2>2. PutBody(c, s, base) = [end EXCEPT !.stores = @ \o [i \in 1..10 |-> Entry(tp, entries, i)]]
    BY <1>1, <2>1 DEF entries
  <2>3. QED BY <1>23, <2>2
<1>25. y \in Value /\ Len(y) = Len(z)
  BY <1>23 DEF Table
<1>26. \A j \in 1..10 : At(y, tp + 4 * (j - 1), LE(entries[j], 4))
  BY <1>23, Zenon DEF Table
<1>27. /\ At(y, t + 24, LE(n1, 4)) /\ At(y, t + 28, LE(n2, 4))
       /\ At(y, t + 32, LE(n3, 4)) /\ At(y, t + 36, LE(n4, 4))
  <2>. HIDE DEF t
  <2>1. t \in Nat /\ 7 \in 1..10 /\ 8 \in 1..10 /\ 9 \in 1..10 /\ 10 \in 1..10
    BY <1>21
  <2>2. tp + 4 * (7 - 1) = t + 24 /\ tp + 4 * (8 - 1) = t + 28 /\ tp + 4 * (9 - 1) = t + 32
        /\ tp + 4 * (10 - 1) = t + 36
    BY <1>21
  <2>3. QED BY <1>17, <1>26, <2>1, <2>2
<1>28. At(y, Len(x), v) /\ At(y, Len(x) + Len(v), b)
  <2>1. Len(x) + Len(v) \in Nat /\ Len(x) + Len(v) <= tp /\ Len(x) + Len(v) + Len(b) <= tp
        /\ tp + 40 <= Len(z)
    BY SMTT(30), <1>19, <1>21, <1>22
  <2>. DEFINE p == Len(x) + Len(v)
  <2>2. At(y, Len(x), v)
    BY <1>19, <1>20, <1>21, <1>23, <2>1, TableKeeps
  <2>3. p \in Nat /\ p + Len(b) <= tp /\ At(z, p, b)
    BY <1>19, <2>1
  <2>. HIDE DEF p
  <2>4. At(y, p, b)
    BY <1>19, <1>20, <1>21, <1>23, <2>1, <2>3, TableKeeps
  <2>5. QED BY <2>2, <2>4 DEF p
<1>29. q1 \in Nat /\ q2 \in Nat /\ q3 \in Nat /\ q4 \in Nat /\ q5 \in Nat
       /\ q1 >= tp + 40 /\ q2 >= tp + 40 /\ q3 >= tp + 40 /\ q4 >= tp + 40 /\ q5 >= tp + 40
       /\ tp + 40 <= Len(z)
  BY SMTT(30), <1>19, <1>21, <1>22
<1>30. At(y, q1, g1) /\ At(y, q2, g2) /\ At(y, q3, f) /\ At(y, q4, g3) /\ At(y, q5, r)
  <2>. HIDE DEF q1, q2, q3, q4, q5
  <2>1. At(z, q1, g1) /\ At(z, q2, g2) /\ At(z, q3, f) /\ At(z, q4, g3) /\ At(z, q5, r)
    BY <1>19 DEF q1, q2, q3, q4, q5
  <2>2. At(y, q1, g1)
    BY ZenonT(40), <1>19, <1>20, <1>21, <1>23, <1>29, <2>1, TableKeeps
  <2>3. At(y, q2, g2)
    BY ZenonT(40), <1>19, <1>20, <1>21, <1>23, <1>29, <2>1, TableKeeps
  <2>4. At(y, q3, f)
    BY ZenonT(40), <1>19, <1>20, <1>21, <1>23, <1>29, <2>1, TableKeeps
  <2>5. At(y, q4, g3)
    BY ZenonT(40), <1>19, <1>20, <1>21, <1>23, <1>29, <2>1, TableKeeps
  <2>6. At(y, q5, r)
    BY ZenonT(40), <1>19, <1>20, <1>21, <1>23, <1>29, <2>1, TableKeeps
  <2>7. QED BY <2>2, <2>3, <2>4, <2>5, <2>6
<1>31. IsFront(x, y)
  <2>1. Len(x) <= Len(z) /\ \A i \in 1..Len(x) : z[i] = x[i]
    BY <1>19 DEF IsFront
  <2>2. \A i \in 1..Len(z) : i <= tp => y[i] = z[i]
    BY <1>23 DEF Table
  <2>3. Len(x) <= tp
    BY SMTT(30), <1>19, <1>21
  <2>4. ASSUME NEW i \in 1..Len(x) PROVE y[i] = x[i]
    <3>1. i \in 1..Len(z) /\ i <= tp
      BY SMTT(30), <1>19, <1>21, <1>25, <2>1, <2>3
    <3>2. QED BY <2>1, <2>2, <3>1
  <2>5. QED BY <1>25, <2>1, <2>4 DEF IsFront
<1>32. Len(y) = q5 + Len(r)
  BY <1>19, <1>25
<1>. HIDE DEF t, q1, q2, q3, q4, q5
<1>33. BodyIs(y, Len(x), s)
  BY <1>25, <1>27, <1>28, <1>30, <1>32 DEF BodyIs, v, b, g1, g2, f, g3, r, t, q1, q2, q3, q4, q5,
     n1, n2, n3, n4
<1>34. QED BY <1>24, <1>31, <1>33
-----------------------------------------------------------------------------
(* The file. *)

\* The octets that are not stored are zeroes.
LEMMA HoldsPad ==
  ASSUME NEW c, NEW x, Holds(c, x), NEW k \in Nat
  PROVE  \E y : Holds([c EXCEPT !.pos = @ + k], y)
<1>. DEFINE z == [i \in 1..k |-> 0] y == x \o z d == [pos |-> Len(y), stores |-> c.stores]
<1>1. /\ x \in Value /\ c.stores \in Seq(StoreOfOctets) /\ c.pos = Len(x)
      /\ c = [pos |-> c.pos, stores |-> c.stores]
      /\ \A n \in Nat : n >= Len(x) => IsPadded(Contents(c.stores, n), x, n)
  BY Zenon DEF Holds
<1>2. z \in Value /\ Len(z) = k /\ \A i \in 1..k : z[i] = 0
  BY ZeroesTyped DEF Value
<1>3. Len(x) \in Nat
  BY HoldsIs
<1>. HIDE DEF z
<1>4. /\ y \in Value /\ Len(y) = Len(x) + Len(z)
      /\ \A i \in 1..(Len(x) + Len(z)) : y[i] = IF i <= Len(x) THEN x[i] ELSE z[i - Len(x)]
  BY <1>1, <1>2, ConcatOctets
<1>. HIDE DEF y
<1>5. \A i \in 1..Len(y) : y[i] = IF i <= Len(x) THEN x[i] ELSE 0
  BY <1>2, <1>3, <1>4
<1>6. ASSUME NEW n \in Nat, n >= Len(y) PROVE IsPadded(Contents(c.stores, n), y, n)
  <2>. DEFINE f == Contents(c.stores, n)
  <2>1. IsPadded(f, x, n)
    BY <1>1, <1>2, <1>3, <1>4, <1>6
  <2>. HIDE DEF f
  <2>2. f \in Value /\ Len(f) = n /\ \A i \in 1..n : f[i] = IF i <= Len(x) THEN x[i] ELSE 0
    BY <2>1 DEF IsPadded
  <2>3. \A i \in 1..n : f[i] = IF i <= Len(y) THEN y[i] ELSE 0
    BY <1>2, <1>3, <1>4, <1>5, <2>2
  <2>4. IsPadded(f, y, n)
    BY <2>2, <2>3 DEF IsPadded
  <2>5. QED BY <2>4 DEF f
<1>7. d.pos = Len(y) /\ d.stores = c.stores /\ d = [pos |-> d.pos, stores |-> d.stores]
  OBVIOUS
<1>8. [c EXCEPT !.pos = @ + k] = d
  BY <1>1, <1>2, <1>4
<1>. HIDE DEF d
<1>9. Holds(d, y)
  BY <1>1, <1>4, <1>6, <1>7, Zenon DEF Holds
<1>10. QED BY <1>8, <1>9

Begin == [pos |-> 0, stores |-> <<>>]
FileHeaderNames(s) ==
  HeaderNames \o IF supports_save_file_compression(s) THEN <<"compressor">> ELSE <<>>
HeaderPart(s) == Whole(SimpleBlock(file_header_octets(s)))
SnapshotPart(s) == FlattenSeq(s.snapshot_data)
\* What is in front of a body.
FrontPart(s) == (Signature[s.game] \o HeaderPart(s)) \o SnapshotPart(s)

\* The stores of the file header are the fields of its names, the compressor with
\* the versions that have it.
LEMMA FileHeaderList ==
  ASSUME NEW s
  PROVE  /\ FileHeaderNames(s) \in Seq(PlainNames)
         /\ ListOf(FileHeaderNames(s))
              = FileHeaderStores \o IF supports_save_file_compression(s) THEN CompressorStores ELSE <<>>
<1>. DEFINE b == IF supports_save_file_compression(s) THEN <<"compressor">> ELSE <<>>
<1>1. HeaderNames \in Seq(PlainNames) /\ FileHeaderLoads = ListOf(HeaderNames)
  BY HeaderList
<1>2. b \in Seq(PlainNames)
  BY NamesTyped, Zenon
<1>3. (IF supports_save_file_compression(s) THEN CompressorStores ELSE <<>>) = ListOf(b)
  <2>1. ListOf(<<>>) = <<>>
    BY DEF ListOf
  <2>2. CompressorStores = ListOf(<<"compressor">>)
    BY OtherParts, StoresAreLoads
  <2>3. QED BY <2>1, <2>2, Zenon
<1>4. FileHeaderStores = FileHeaderLoads
  BY StoresAreLoads
<1>. HIDE DEF b
<1>5. HeaderNames \o b \in Seq(PlainNames)
      /\ ListOf(HeaderNames \o b) = ListOf(HeaderNames) \o ListOf(b)
  BY <1>1, <1>2, PlainConcat, Zenon
<1>6. FileHeaderNames(s) = HeaderNames \o b
  BY Zenon DEF FileHeaderNames, b
<1>7. QED BY <1>1, <1>3, <1>4, <1>5, <1>6, Zenon

\* The file header is stored as a block: its length and its octets.
LEMMA HeaderTyped ==
  ASSUME NEW s, Good(s)
  PROVE  LET d == StoreAll(s, ListOf(FileHeaderNames(s)))
         IN  /\ file_header_octets(s) = d /\ d \in Value
             /\ SimpleBlock(file_header_octets(s)).header = LE(Len(d), 4)
             /\ SimpleBlock(file_header_octets(s)).data = d
             /\ LE(Len(d), 4) \in Value /\ Len(LE(Len(d), 4)) = 4
             /\ HeaderPart(s) = LE(Len(d), 4) \o d /\ HeaderPart(s) \in Value
             /\ Len(HeaderPart(s)) = 4 + Len(d)
<1>. DEFINE d == StoreAll(s, ListOf(FileHeaderNames(s))) h == LE(Len(d), 4)
<1>1. FileHeaderNames(s) \in Seq(PlainNames)
      /\ ListOf(FileHeaderNames(s))
           = FileHeaderStores \o IF supports_save_file_compression(s) THEN CompressorStores ELSE <<>>
  BY FileHeaderList
<1>2. d \in Value
  BY <1>1, ListStored
<1>3. file_header_octets(s) = d
  BY <1>1 DEF file_header_octets
<1>. HIDE DEF d
<1>4. SimpleBlock(d) = [header |-> h, data |-> d]
  BY DEF SimpleBlock
<1>5. h \in Value /\ Len(h) = 4
  <2>1. Len(d) \in Int
    BY <1>2 DEF Value
  <2>2. QED BY <2>1, LEIs
<1>. HIDE DEF h
<1>6. HeaderPart(s) = h \o d
  BY <1>3, <1>4 DEF HeaderPart, Whole
<1>7. h \o d \in Value /\ Len(h \o d) = Len(h) + Len(d)
  BY <1>2, <1>5, ConcatIs
<1>8. HeaderPart(s) \in Value /\ Len(HeaderPart(s)) = 4 + Len(d)
  BY <1>5, <1>6, <1>7
<1>9. SimpleBlock(file_header_octets(s)).header = h /\ SimpleBlock(file_header_octets(s)).data = d
  BY <1>3, <1>4
<1>10. QED BY <1>2, <1>3, <1>5, <1>6, <1>8, <1>9, Zenon DEF h, d

\* The signatures are octets, 13 and 12 of them.
LEMMA SignatureTyped ==
  ASSUME NEW g \in Games
  PROVE  /\ Signature[g] \in Value /\ Signature[g] \in Seq(Octet)
         /\ Len(Signature[g]) = IF g = "SKYRIM" THEN 13 ELSE 12
<1>1. CASE g = "SKYRIM"
  BY <1>1, SignatureIs DEF Value, Octet
<1>2. CASE g = "FALLOUT4"
  BY <1>2, SignatureIs DEF Value, Octet
<1>3. QED BY <1>1, <1>2 DEF Games

\* The file in front of the body.
LEMMA HoldsFront ==
  ASSUME NEW s, Sane(s)
  PROVE  Holds(Put(PutBlock(Put(Begin, Signature[s.game]), SimpleBlock(file_header_octets(s))),
                   FlattenSeq(s.snapshot_data)), FrontPart(s))
<1>1. s["game"] \in Games /\ Good(s) /\ s["snapshot_data"] \in Seq(Value)
  BY SaneParts
<1>2. Signature[s.game] \in Value
  BY <1>1, SignatureTyped
<1>3. SnapshotPart(s) \in Value
  BY <1>1, FlattenTyped DEF SnapshotPart, Value
<1>4. /\ SimpleBlock(file_header_octets(s)).header \in Value
      /\ SimpleBlock(file_header_octets(s)).data \in Value
  BY <1>1, HeaderTyped
<1>. DEFINE sig == Signature[s.game] c1 == Put(Begin, sig)
            b == SimpleBlock(file_header_octets(s)) c2 == PutBlock(c1, b)
            x2 == sig \o HeaderPart(s)
<1>5. Holds(Begin, <<>>)
  BY HoldsNone DEF Begin
<1>6. <<>> \o sig = sig
  BY <1>2 DEF Value
<1>7. Holds(c1, sig)
  BY <1>2, <1>5, <1>6, HoldsPut
<1>. HIDE DEF c1, sig
<1>8. Holds(c2, x2)
  <2>. HIDE DEF b
  <2>1. b.header \in Value /\ b.data \in Value
    BY <1>4 DEF b
  <2>2. Holds(c2, sig \o (b.header \o b.data))
    BY <1>7, <2>1, HoldsBlock
  <2>3. QED BY <2>2 DEF b, HeaderPart, Whole
<1>. HIDE DEF c2, x2
<1>9. Holds(Put(c2, SnapshotPart(s)), x2 \o SnapshotPart(s))
  BY <1>3, <1>8, HoldsPut
<1>10. QED BY <1>9 DEF c2, c1, sig, x2, FrontPart, SnapshotPart

\* The octets of the file that is written of s, when the writer ends with success.
FileIs(y, s) ==
  /\ y \in Value /\ IsFront(FrontPart(s), y)
  /\ IF ~supports_save_file_compression(s) THEN BodyIs(y, Len(FrontPart(s)), s)
     ELSE /\ Number(s.compressor[1]) = 2
          /\ \E data : BodyIs(data, 0, s) /\ Packable(data) /\ y = FrontPart(s) \o Packed(data)
WrittenAs(r, y, s) ==
  /\ r.end \in {"CG_OK", "CG_COMPRESS", "killed"} /\ y \in Value
  /\ r.size = Len(y) /\ Contents(r.stores, r.size) = y
  /\ r.end = "CG_OK" => FileIs(y, s)

\* However file_writer ends, its file is a list of octets; and if it succeeds, it is the
\* signature, the header, the snapshot and the body, as it is or compressed.  The promise
\* of liblz4 is used for bodies as large as this one.
THEOREM WriterIs ==
  ASSUME NEW s, Sane(s), supports_save_file_compression(s) => Number(s["compressor"][1]) <= 2,
         NEW most \in Nat, most < TooMany, CompressorIsUndone(most),
         file_writer(s).buffered <= most
  PROVE  \E y : WrittenAs(file_writer(s), y, s)
<1>. DEFINE front == Put(Begin, Signature[s.game])
            header == PutBlock(front, SimpleBlock(file_header_octets(s)))
            body == Put(header, FlattenSeq(s.snapshot_data))
            compressor == Number(s.compressor[1])
            buffer == PutBody(Begin, s, 0 - body.pos)
            data == Contents(buffer.stores, buffer.pos)
            Result(end, c, n) ==
              [end |-> end, stores |-> c.stores, size |-> c.pos, buffered |-> n]
            fp == FrontPart(s)
<1>1. file_writer(s) =
        IF ~supports_save_file_compression(s) THEN Result("CG_OK", PutBody(body, s, 0), 0)
        ELSE CASE compressor = 0 ->
                    Result("killed", PutBody([body EXCEPT !.pos = @ + 8], s, 8), 0)
               [] compressor = 1 -> Result("CG_COMPRESS", body, buffer.pos)
               [] compressor = 2 -> Result("CG_OK", PutCompressed(body, data), buffer.pos)
  BY DEF file_writer, Begin
<1>2. Holds(body, fp)
  BY HoldsFront
<1>3. compressor \in Nat
  BY SaneParts, NumbersOf
<1>. HIDE DEF body, compressor, buffer
<1>4. ASSUME NEW c, NEW y, Holds(c, y), NEW n, NEW end \in {"CG_OK", "CG_COMPRESS", "killed"},
             file_writer(s) = Result(end, c, n), end = "CG_OK" => FileIs(y, s)
      PROVE  WrittenAs(file_writer(s), y, s)
  <2>1. y \in Value /\ c.pos = Len(y)
    BY <1>4, HoldsIs
  <2>2. Contents(c.stores, c.pos) = y
    BY <1>4, HoldsAll
  <2>3. /\ file_writer(s).end = end /\ file_writer(s).size = c.pos
        /\ file_writer(s).stores = c.stores
    BY <1>4
  <2>4. QED BY <1>4, <2>1, <2>2, <2>3 DEF WrittenAs
<1>5. CASE ~supports_save_file_compression(s)
  <2>1. PICK y : Holds(PutBody(body, s, 0), y) /\ BodyIs(y, Len(fp), s) /\ IsFront(fp, y)
    BY <1>2, HoldsBody
  <2>2. y \in Value
    BY <2>1, HoldsIs
  <2>3. FileIs(y, s)
    BY <1>5, <2>1, <2>2 DEF FileIs
  <2>4. file_writer(s) = Result("CG_OK", PutBody(body, s, 0), 0)
    BY <1>1, <1>5
  <2>5. QED BY <1>4, <2>1, <2>3, <2>4
<1>6. CASE supports_save_file_compression(s) /\ compressor = 0
  <2>. DEFINE c == [body EXCEPT !.pos = @ + 8]
  <2>1. PICK x : Holds(c, x)
    BY <1>2, HoldsPad
  <2>. HIDE DEF c
  <2>2. PICK y : Holds(PutBody(c, s, 8), y)
    <3>. DEFINE n == 8
    <3>1. n \in Int
      OBVIOUS
    <3>. HIDE DEF n
    <3>2. \E y : Holds(PutBody(c, s, n), y)
      BY <2>1, <3>1, HoldsBody
    <3>3. QED BY <3>2 DEF n
  <2>3. file_writer(s) = Result("killed", PutBody(c, s, 8), 0)
    BY <1>1, <1>6 DEF c
  <2>4. QED BY <1>4, <2>2, <2>3
<1>7. CASE supports_save_file_compression(s) /\ compressor = 1
  <2>1. file_writer(s) = Result("CG_COMPRESS", body, buffer.pos)
    BY <1>1, <1>7
  <2>2. QED BY <1>2, <1>4, <2>1
<1>8. CASE supports_save_file_compression(s) /\ compressor = 2
  <2>1. Holds(Begin, <<>>)
    BY HoldsNone DEF Begin
  <2>2. 0 - body.pos \in Int
    BY <1>2, HoldsIs
  <2>3. PICK x : Holds(buffer, x) /\ BodyIs(x, Len(<<>>), s)
    <3>. DEFINE n == 0 - body.pos
    <3>1. n \in Int
      BY <2>2
    <3>. HIDE DEF n
    <3>2. \E x : Holds(PutBody(Begin, s, n), x) /\ BodyIs(x, Len(<<>>), s)
      BY <2>1, <3>1, HoldsBody
    <3>3. QED BY <3>2 DEF n, buffer
  <2>4. data = x
    BY <2>3, HoldsAll
  <2>. HIDE DEF data
  <2>5. x \in Value
    BY <2>3, HoldsIs
  <2>14. Packable(x)
    <3>1. file_writer(s).buffered = buffer.pos
      BY <1>1, <1>8
    <3>2. buffer.pos = Len(x)
      BY <2>3, HoldsIs
    <3>3. Len(x) <= most
      BY <3>1, <3>2
    <3>4. QED BY <2>5, <3>3, CompressedIs
  <2>6. Holds(PutCompressed(body, x), fp \o Packed(x))
    BY <1>2, <2>14, HoldsPacked
  <2>7. file_writer(s) = Result("CG_OK", PutCompressed(body, x), buffer.pos)
    BY <1>1, <1>8, <2>4
  <2>8. fp \o Packed(x) \in Value
    BY <2>6, HoldsIs
  <2>9. fp \in Value /\ Packed(x) \in Value
    <3>1. fp \in Value
      BY <1>2, HoldsIs
    <3>2. Packed(x) \in Value
      <4>1. Compressed(x) \in Value
        BY <2>14 DEF Packable
      <4>2. Len(x) \in Int /\ Len(Compressed(x)) \in Int
        BY <2>5, <4>1 DEF Value
      <4>3. LE(Len(x), 4) \in Value /\ LE(Len(Compressed(x)), 4) \in Value
        BY <4>2, LEIs
      <4>. DEFINE a == LE(Len(x), 4) b == LE(Len(Compressed(x)), 4) d == Compressed(x)
      <4>. HIDE DEF a, b, d
      <4>4. a \in Value /\ b \in Value /\ d \in Value
        BY <4>1, <4>3 DEF a, b, d
      <4>5. b \o d \in Value
        BY <4>4, ConcatIs
      <4>6. a \o (b \o d) \in Value
        BY <4>4, <4>5, ConcatIs
      <4>7. QED BY <4>6 DEF Packed, a, b, d
    <3>3. QED BY <3>1, <3>2
  <2>10. IsFront(fp, fp \o Packed(x))
    BY <2>9, FrontConcat
  <2>11. BodyIs(x, 0, s)
    <3>1. Len(<<>>) = 0
      OBVIOUS
    <3>2. QED BY <2>3, <3>1
  <2>12. FileIs(fp \o Packed(x), s)
    BY <1>8, <2>8, <2>10, <2>11, <2>14 DEF FileIs, compressor
  <2>13. QED BY <1>4, <2>6, <2>7, <2>12
<1>9. QED BY <1>3, <1>5, <1>6, <1>7, <1>8 DEF compressor
=============================================================================

--------------------------- MODULE VsvalStreamProofs ---------------------------
(***************************************************************************)
(* Streams of variable size values, for any values, any room, any number   *)
(* of calls, any place where the stream is cut, and any foreign octets.    *)
(***************************************************************************)
EXTENDS Vsval, FormatProofs

\* One more value has the octets of one more.
WithOctetsOf(acc, v) == acc + Len(Encoded(v))

Sums == INSTANCE FoldFacts WITH Op <- WithOctetsOf
-----------------------------------------------------------------------------
(* The number of octets. *)

\* Sum is a fold: nothing for no values, and the octets of one more for one more.
LEMMA SumIsFold == \A s : Sum(s) = Sums!Fold(0, s)
BY DEF Sum, FoldLeft, MapThenFoldSet, Max, WithOctetsOf, Sums!Fold, Sums!Folds, Sums!Top

\* No values have no octets.
LEMMA SumEmpty == Sum(<<>>) = 0
BY SumIsFold, Sums!FoldEmpty

\* One more value adds its octets.
LEMMA SumAppend ==
  ASSUME NEW S, NEW s \in Seq(S), NEW v \in S
  PROVE  Sum(Append(s, v)) = Sum(s) + Len(Encoded(v))
BY SumIsFold, Sums!FoldAppend DEF WithOctetsOf

\* A value has one to three octets.
LEMMA OctetsTyped ==
  ASSUME NEW v \in Nat
  PROVE  /\ Len(Encoded(v)) = OctetCount(Shifted(v)) /\ Len(Encoded(v)) \in 1..3
         /\ Encoded(v) \in Seq(Octet)
         /\ DOMAIN Encoded(v) = 1..Len(Encoded(v))
<1>. DEFINE n == OctetCount(Shifted(v))  w == Word(v)
<1>1. Shifted(v) \in Nat
  BY SMT DEF Shifted
<1>2. n \in 1..3
  BY SMT DEF OctetCount
<1>3. w \in Nat
  BY SMT, <1>1, <1>2 DEF Word
<1>4. \A x \in Nat : x % 256 \in 0..255 /\ x \div 256 \in Nat /\ x \div 65536 \in Nat
  BY SMT
<1>5. w % 256 \in Octet /\ (w \div 256) % 256 \in Octet /\ (w \div 65536) % 256 \in Octet
  BY <1>3, <1>4 DEF Octet
<1>6. \A k \in 1..3 : Octets(w)[k] \in Octet
  <2>1. /\ Octets(w)[1] = w % 256 /\ Octets(w)[2] = (w \div 256) % 256
        /\ Octets(w)[3] = (w \div 65536) % 256
    BY DEF Octets
  <2>2. \A k \in 1..3 : k = 1 \/ k = 2 \/ k = 3
    OBVIOUS
  <2>3. QED BY <1>5, <2>1, <2>2
<1>7. Encoded(v) = [k \in 1..n |-> Octets(w)[k]]
  BY DEF Encoded
<1>. HIDE DEF n, w
<1>8. \A k \in 1..n : k \in 1..3
  BY <1>2
<1>9. Encoded(v) \in Seq(Octet) /\ Len(Encoded(v)) = n /\ DOMAIN Encoded(v) = 1..n
  BY <1>2, <1>6, <1>7, <1>8
<1>10. QED BY <1>2, <1>9 DEF n

\* A sum of octets is a number.
LEMMA SumNat == \A s \in Seq(Nat) : Sum(s) \in Nat
<1>. DEFINE T == {s \in Seq(Nat) : Sum(s) \in Nat}
<1>1. <<>> \in T
  BY SumEmpty
<1>2. ASSUME NEW s \in Seq(Nat), NEW v \in Nat, s \in T PROVE Append(s, v) \in T
  <2>1. Append(s, v) \in Seq(Nat)
    OBVIOUS
  <2>2. Sum(s) \in Nat /\ Sum(Append(s, v)) = Sum(s) + Len(Encoded(v))
    BY <1>2, SumAppend
  <2>3. Len(Encoded(v)) \in Nat
    BY OctetsTyped
  <2>4. QED BY <2>1, <2>2, <2>3
<1>. HIDE DEF T
<1>3. Seq(Nat) \subseteq T
  BY <1>1, <1>2, Sums!SeqInduction
<1>4. QED BY <1>3 DEF T

\* Octets that are not there are zero; a value made of few octets needs no more.
LEMMA AssembledSmall ==
  ASSUME NEW c \in [1..3 -> Octet], NEW n \in 1..3, \A k \in 1..3 : k > n => c[k] = 0
  PROVE  Assembled(c) \in 0..VsvalMax /\ Len(Encoded(Assembled(c))) <= n
<1>. DEFINE x == c[1]  y == c[2]  z == c[3]
            w == z * 65536 + y * 256 + x  v == w \div 4
<1>1. x \in 0..255 /\ y \in 0..255 /\ z \in 0..255
  BY SMT DEF Octet
<1>2. (n < 3 => z = 0) /\ (n < 2 => y = 0)
  BY SMT
<1>3. Assembled(c) = v
  BY SMT DEF Assembled
<1>. HIDE DEF x, y, z
<1>4. w \in Nat /\ w < 16777216 /\ (n < 3 => w < 65536) /\ (n < 2 => w < 256)
  BY SMT, <1>1, <1>2
<1>. HIDE DEF w
<1>5. v \in Nat /\ v <= 4194303 /\ 4 * v <= w
  BY SMT, <1>4
<1>. HIDE DEF v
<1>6. v \in 0..VsvalMax /\ v <= VsvalMax
  <2>1. VsvalMax \in Nat /\ v <= VsvalMax
    BY SMT, <1>5 DEF VsvalMax
  <2>2. QED BY SMT, <1>5, <2>1
<1>7. Shifted(v) = 4 * v
  BY SMT, <1>5, <1>6, ShiftKeeps
<1>8. OctetCount(4 * v) <= n
  BY SMT, <1>4, <1>5 DEF OctetCount
<1>9. Len(Encoded(v)) = OctetCount(4 * v)
  BY SMT, <1>5, <1>7, OctetsTyped
<1>10. QED BY SMT, <1>3, <1>6, <1>8, <1>9
-----------------------------------------------------------------------------
(* The invariants. *)

\* The first octet of value n of wrote is behind the octets of those before it.
Before(n) == Sum(SubSeq(wrote, 1, n - 1))

\* The octets of each value of wrote are in the stream, behind those of the others.
Laid ==
    /\ Len(stream) = Sum(wrote)
    /\ \A n \in 1..Len(wrote) :
         /\ wrote[n] <= VsvalMax
         /\ Before(n) + Len(Encoded(wrote[n])) <= Len(stream)
         /\ \A k \in 1..Len(Encoded(wrote[n])) :
              stream[Before(n) + k] = Encoded(wrote[n])[k]

\* The locals of decode_vsval are fresh before the reading, and what its loop
\* has not read is zero.
LocalsInv ==
    /\ \A k \in 1..3 : k > i => b[k] = 0
    /\ phase = "encode" => i = 0 /\ got = <<>> /\ took = 0 /\ err \in {"CG_OK", "CG_INVAL"}
    /\ Sum(got) <= took

\* As long as there is room, all values are in the stream.
RoomInv ==
    phase = "encode" \/ wrote # <<>> =>
      /\ room + Sum(wrote) \in Rooms
      /\ room >= 0 => Laid

\* The reader's cursor is behind the values it returned and the octets it loaded.
Place ==
    /\ took + i + Len(left) <= Len(stream)
    /\ \A k \in 1..Len(left) : left[k] = stream[took + i + k]
    /\ \A k \in 1..i : b[k] = stream[took + k]

\* The values returned are the first that were written; of the next one only its
\* own octets are loaded, and the reading ends when they are cut off.
ReadInv ==
    OursRead =>
      /\ Len(got) <= Len(wrote)
      /\ \A k \in 1..Len(got) : got[k] = wrote[k]
      /\ took = Sum(got)
      /\ err \in {"CG_OK", "CG_EOF"}
      /\ Place
      /\ Len(got) < Len(wrote) =>
           /\ i <= Len(Encoded(wrote[Len(got) + 1]))
           /\ phase = "ended" => Len(Encoded(wrote[Len(got) + 1])) > i + Len(left)

Inv == TypeOK /\ LocalsInv /\ RoomInv /\ ReadInv
-----------------------------------------------------------------------------
(* Types. *)

\* The parts of TypeOK that are needed over and over.
LEMMA TypesHold ==
  ASSUME TypeOK
  PROVE  /\ stream \in Seq(Octet) /\ Len(stream) \in Nat
         /\ left \in Seq(Octet) /\ Len(left) \in Nat /\ DOMAIN left = 1..Len(left)
         /\ wrote \in Seq(Nat) /\ Len(wrote) \in Nat /\ wrote \in Seq(Values)
         /\ \A n \in 1..Len(wrote) : wrote[n] \in Nat
         /\ got \in Seq(Nat) /\ Len(got) \in Nat /\ got \in Seq(0..VsvalMax)
         /\ room \in Int /\ i \in 0..3 /\ i \in Nat /\ took \in Nat /\ b \in [1..3 -> Octet]
         /\ Sum(wrote) \in Nat /\ Sum(got) \in Nat
<1>1. stream \in Seq(Octet) /\ left \in Seq(Octet) /\ wrote \in Seq(Values)
      /\ got \in Seq(0..VsvalMax)
  BY DEF TypeOK
<1>2. \A S, T, s : S \subseteq T /\ s \in Seq(S) => s \in Seq(T)
  OBVIOUS
<1>3. wrote \in Seq(Nat)
  BY <1>1, <1>2, VsvalAssumption DEF VsvalAssumption
<1>4. 0..VsvalMax \subseteq Nat
  OBVIOUS
<1>5. got \in Seq(Nat)
  BY <1>1, <1>2, <1>4
<1>6. Sum(wrote) \in Nat /\ Sum(got) \in Nat
  BY <1>3, <1>5, SumNat
<1>7. \A n \in 1..Len(wrote) : wrote[n] \in Nat
  BY <1>3
<1>8. QED BY <1>1, <1>3, <1>5, <1>6, <1>7 DEF TypeOK

\* The octets are few enough for the loop.
LEMMA LoopBoundTyped ==
  ASSUME NEW c \in Octet
  PROVE  LoopBound(c) \in 0..3
BY SMT DEF LoopBound, Octet

\* Writing begins with values of the right types.
LEMMA InitTypeOK == Init => TypeOK
<1>. SUFFICES ASSUME Init PROVE TypeOK
  OBVIOUS
<1>1. room \in Int /\ stream \in Seq(Octet)
  <2>1. Rooms \subseteq Nat
    BY VsvalAssumption DEF VsvalAssumption
  <2>3. Foreign \subseteq Seq(Octet)
    BY VsvalAssumption DEF VsvalAssumption
  <2>2. (room \in Rooms /\ stream = <<>>) \/ (room = 0 /\ stream \in Foreign)
    BY DEF Init
  <2>4. room \in Int
    <3>1. room \in Nat
      <4>1. 0 \in Nat
        OBVIOUS
      <4>2. QED BY <2>1, <2>2, <4>1, Zenon
    <3>2. QED BY <3>1
  <2>5. \A S : <<>> \in Seq(S)
    OBVIOUS
  <2>6. stream \in Seq(Octet)
    BY <2>2, <2>3, <2>5, Zenon
  <2>7. QED BY <2>4, <2>6
<1>2. b \in [1..3 -> Octet]
  <2>1. \A k \in 1..3 : k = 1 \/ k = 2 \/ k = 3
    OBVIOUS
  <2>2. QED BY <2>1 DEF Init, NoOctets, Octet
<1>3. QED BY <1>1, <1>2 DEF Init, TypeOK

\* The octets that LoadOctet and Encode handle stay octets.
LEMMA NextTypeOK ==
  ASSUME TypeOK, LocalsInv, [Next]_vars
  PROVE  TypeOK'
<1>1. ASSUME NEW v \in Values, Reject(v) PROVE TypeOK'
  BY <1>1 DEF Reject, TypeOK, writer, reader
<1>2. ASSUME NEW v \in Values, Encode(v) PROVE TypeOK'
  <2>1. v \in Nat
    BY VsvalAssumption DEF VsvalAssumption
  <2>2. Encoded(v) \in Seq(Octet) /\ Len(Encoded(v)) \in Nat
    BY <2>1, OctetsTyped
  <2>. HIDE DEF Encoded
  <2>3. room' = room - Len(Encoded(v))
        /\ (stream' = stream \o Encoded(v) \/ stream' = stream) /\ wrote' = Append(wrote, v)
        /\ err' = "CG_OK" /\ UNCHANGED <<phase, left, b, i, got, took>>
    BY <1>2 DEF Encode, reader
  <2>4. room' \in Int
    BY <2>2, <2>3, TypesHold
  <2>5. stream' \in Seq(Octet)
    <3>1. stream \o Encoded(v) \in Seq(Octet)
      BY <2>2, TypesHold, ConcatProperties
    <3>2. QED BY <2>3, <3>1, TypesHold
  <2>6. wrote' \in Seq(Values)
    BY <2>3, TypesHold
  <2>7. QED BY <2>3, <2>4, <2>5, <2>6 DEF TypeOK
<1>3. CASE EndWriting
  <2>1. /\ phase' \in {"decode", "ended"} /\ err' \in {"CG_OK", "CG_EOF"}
        /\ UNCHANGED <<b, i, got, took, room, stream, wrote>>
        /\ left' = left \/ \E kept \in 0..Len(stream) : left' = SubSeq(stream, 1, kept)
    BY <1>3 DEF EndWriting, writer
  <2>2. left' \in Seq(Octet)
    <3>1. ASSUME NEW kept \in 0..Len(stream) PROVE SubSeq(stream, 1, kept) \in Seq(Octet)
      <4>1. \A k \in 1..kept : stream[k] \in Octet
        BY TypesHold
      <4>2. QED BY <4>1, SubSeqProperties
    <3>2. QED BY <2>1, <3>1, TypesHold
  <2>3. QED BY <2>1, <2>2 DEF TypeOK
<1>4. CASE LoadOctet
  <2>1. CASE left = <<>>
    BY <1>4, <2>1 DEF LoadOctet, TypeOK, writer, reader
  <2>2. CASE left # <<>>
    <3>1. /\ i < LoopBound(b[1]) /\ b' = [b EXCEPT ![i + 1] = Head(left)] /\ i' = i + 1
          /\ left' = Tail(left) /\ UNCHANGED <<phase, err, got, took, room, stream, wrote>>
      BY <1>4, <2>2 DEF LoadOctet, writer
    <3>2. Head(left) \in Octet /\ Tail(left) \in Seq(Octet)
      BY <2>2, TypesHold, HeadTailProperties
    <3>3. LoopBound(b[1]) \in 0..3
      BY TypesHold, LoopBoundTyped
    <3>4. i' \in 0..3
      BY SMTT(30), <3>1, <3>3, TypesHold
    <3>5. b' \in [1..3 -> Octet]
      BY <3>1, <3>2, TypesHold
    <3>6. QED BY <3>1, <3>2, <3>4, <3>5 DEF TypeOK
  <2>3. QED BY <2>1, <2>2
<1>5. CASE Assemble
  <2>1. CASE b[1] % 4 = 3
    BY <1>5, <2>1 DEF Assemble, TypeOK, writer
  <2>2. CASE b[1] % 4 # 3
    <3>1. /\ got' = Append(got, Assembled(b)) /\ took' = took + i /\ b' = NoOctets /\ i' = 0
          /\ UNCHANGED <<phase, err, left, room, stream, wrote>>
      BY <1>5, <2>2 DEF Assemble, writer
    <3>2. Assembled(b) \in 0..VsvalMax
      BY TypesHold, AssembledSmall
    <3>3. b' \in [1..3 -> Octet]
      <4>1. \A k \in 1..3 : k = 1 \/ k = 2 \/ k = 3
        OBVIOUS
      <4>2. QED BY <3>1, <4>1 DEF NoOctets, Octet
    <3>4. got' \in Seq(0..VsvalMax) /\ took' \in Nat
      BY SMTT(30), <3>1, <3>2, TypesHold
    <3>5. QED BY <3>1, <3>3, <3>4 DEF TypeOK
  <2>3. QED BY <2>1, <2>2
<1>6. CASE UNCHANGED vars
  BY <1>6 DEF TypeOK, vars
<1>7. QED BY <1>1, <1>2, <1>3, <1>4, <1>5, <1>6 DEF Next, Ended
-----------------------------------------------------------------------------
(* The writer. *)

\* At first nothing was read.
LEMMA InitLocalsInv == Init => LocalsInv
<1>1. \A k \in 1..3 : NoOctets[k] = 0
  <2>1. \A k \in 1..3 : k = 1 \/ k = 2 \/ k = 3
    OBVIOUS
  <2>2. QED BY <2>1 DEF NoOctets
<1>2. QED BY <1>1, SumEmpty DEF Init, LocalsInv

\* A value that decode_vsval returns takes no more octets than were loaded.
LEMMA NextLocalsInv ==
  ASSUME TypeOK, LocalsInv, [Next]_vars
  PROVE  LocalsInv'
<1>1. ASSUME NEW v \in Values, Reject(v) PROVE LocalsInv'
  BY <1>1 DEF Reject, LocalsInv, writer, reader
<1>2. ASSUME NEW v \in Values, Encode(v) PROVE LocalsInv'
  <2>1. err' = "CG_OK" /\ UNCHANGED <<phase, left, b, i, got, took>>
    BY <1>2 DEF Encode, reader
  <2>2. QED BY <2>1 DEF LocalsInv
<1>3. CASE EndWriting
  <2>1. phase' # "encode" /\ UNCHANGED <<b, i, got, took>>
    BY <1>3 DEF EndWriting
  <2>2. QED BY <2>1 DEF LocalsInv
<1>4. CASE LoadOctet
  <2>1. phase = "decode" /\ phase' # "encode" /\ UNCHANGED <<got, took>>
    BY <1>4 DEF LoadOctet, reader
  <2>2. CASE left = <<>>
    <3>1. UNCHANGED <<b, i>>
      BY <1>4, <2>2 DEF LoadOctet, reader
    <3>2. QED BY <2>1, <3>1 DEF LocalsInv
  <2>3. CASE left # <<>>
    <3>1. b' = [b EXCEPT ![i + 1] = Head(left)] /\ i' = i + 1
      BY <1>4, <2>3 DEF LoadOctet
    <3>2. \A k \in 1..3 : k > i' => b'[k] = 0
      BY <3>1, TypesHold DEF LocalsInv
    <3>3. QED BY <2>1, <3>2 DEF LocalsInv
  <2>4. QED BY <2>2, <2>3
<1>5. CASE Assemble
  <2>1. phase = "decode" /\ phase' # "encode" /\ i >= LoopBound(b[1])
    BY <1>5 DEF Assemble
  <2>2. CASE b[1] % 4 = 3
    <3>1. UNCHANGED <<got, took, b, i>>
      BY <1>5, <2>2 DEF Assemble
    <3>2. QED BY <2>1, <3>1 DEF LocalsInv
  <2>3. CASE b[1] % 4 # 3
    <3>1. got' = Append(got, Assembled(b)) /\ took' = took + i /\ b' = NoOctets /\ i' = 0
      BY <1>5, <2>3 DEF Assemble
    <3>2. i \in 1..3
      <4>1. b[1] \in 0..255 /\ i \in 0..3
        BY TypesHold DEF Octet
      <4>2. i # 0
        BY SMT, <2>1, <4>1 DEF LocalsInv, LoopBound
      <4>3. QED BY <4>1, <4>2
    <3>3. \A k \in 1..3 : k > i => b[k] = 0
      BY DEF LocalsInv
    <3>4. Assembled(b) \in 0..VsvalMax /\ Len(Encoded(Assembled(b))) <= i
      BY <3>2, <3>3, TypesHold, AssembledSmall
    <3>. DEFINE v == Assembled(b)
    <3>. HIDE DEF v
    <3>5. v \in Nat /\ Len(Encoded(v)) <= i /\ Len(Encoded(v)) \in Nat
      BY <3>4, OctetsTyped DEF v
    <3>6. Sum(Append(got, v)) = Sum(got) + Len(Encoded(v))
      BY <3>5, TypesHold, SumAppend
    <3>7. Sum(got) <= took /\ Sum(got) \in Nat /\ took \in Nat /\ i \in Nat
      BY TypesHold DEF LocalsInv
    <3>8. Sum(Append(got, v)) <= took + i
      BY <3>5, <3>6, <3>7
    <3>9. Sum(got)' = Sum(Append(got, v))
      BY <3>1 DEF v
    <3>10. \A k \in 1..3 : NoOctets[k] = 0
      <4>1. \A k \in 1..3 : k = 1 \/ k = 2 \/ k = 3
        OBVIOUS
      <4>2. QED BY <4>1 DEF NoOctets
    <3>11. QED BY <2>1, <3>1, <3>8, <3>9, <3>10 DEF LocalsInv
  <2>4. QED BY <2>2, <2>3
<1>6. CASE UNCHANGED vars
  BY <1>6 DEF LocalsInv, vars
<1>7. QED BY <1>1, <1>2, <1>3, <1>4, <1>5, <1>6 DEF Next, Ended

\* An empty stream holds no values.
LEMMA InitRoomInv == Init => RoomInv
<1>. SUFFICES ASSUME Init, phase = "encode" \/ wrote # <<>>
              PROVE  room + Sum(wrote) \in Rooms /\ Laid
  BY DEF RoomInv
<1>1. room \in Rooms /\ stream = <<>> /\ wrote = <<>>
  BY DEF Init
<1>2. Sum(wrote) = 0 /\ Len(stream) = 0 /\ Len(wrote) = 0
  BY <1>1, SumEmpty
<1>3. room \in Int
  BY <1>1, VsvalAssumption DEF VsvalAssumption
<1>4. QED BY <1>1, <1>2, <1>3 DEF Laid

\* The values before value n stay the same when one more is written.
LEMMA BeforeStays ==
  ASSUME NEW w \in Seq(Nat), NEW v \in Nat, NEW n \in 1..(Len(w) + 1)
  PROVE  SubSeq(Append(w, v), 1, n - 1) = SubSeq(w, 1, n - 1)
<1>1. \A k \in 1..(n - 1) : Append(w, v)[k] = w[k]
  OBVIOUS
<1>2. QED BY <1>1

\* The values before one more are all that were written.
LEMMA BeforeLast ==
  ASSUME NEW w \in Seq(Nat)
  PROVE  SubSeq(w, 1, Len(w)) = w
OBVIOUS

\* One more value behind the others.
LEMMA LaidNext ==
  ASSUME TypeOK, Laid, NEW v \in Nat, v <= VsvalMax,
         wrote' = Append(wrote, v) /\ stream' = stream \o Encoded(v)
  PROVE  Laid'
<1>. DEFINE e == Encoded(v)  m == Len(wrote)
<1>1. /\ stream \in Seq(Octet) /\ wrote \in Seq(Nat) /\ m \in Nat /\ Len(stream) \in Nat
      /\ \A n \in 1..m : wrote[n] \in Nat
  BY TypesHold
<1>2. e \in Seq(Octet) /\ Len(e) \in Nat
  BY OctetsTyped
<1>3. Sum(wrote') = Sum(wrote) + Len(e)
  BY <1>1, SumAppend
<1>4. Len(stream) = Sum(wrote)
  BY DEF Laid
<1>. HIDE DEF e
<1>5. /\ Len(stream') = Len(stream) + Len(e)
      /\ \A k \in 1..Len(stream) : stream'[k] = stream[k]
      /\ \A k \in 1..Len(e) : stream'[Len(stream) + k] = e[k]
  <2>1. /\ Len(stream \o e) = Len(stream) + Len(e)
        /\ \A k \in 1..(Len(stream) + Len(e)) :
             (stream \o e)[k] = IF k <= Len(stream) THEN stream[k] ELSE e[k - Len(stream)]
    BY <1>1, <1>2, ConcatProperties
  <2>2. stream' = stream \o e
    BY DEF e
  <2>3. QED BY <1>1, <1>2, <2>1, <2>2
<1>6. /\ Len(wrote') = m + 1 /\ wrote'[m + 1] = v /\ \A n \in 1..m : wrote'[n] = wrote[n]
  BY <1>1
<1>7. ASSUME NEW n \in 1..m
      PROVE  /\ wrote'[n] <= VsvalMax
             /\ Before(n)' + Len(Encoded(wrote'[n])) <= Len(stream')
             /\ \A k \in 1..Len(Encoded(wrote'[n])) :
                  stream'[Before(n)' + k] = Encoded(wrote'[n])[k]
  <2>. DEFINE f == Encoded(wrote[n])  s == Before(n)
  <2>1. s + Len(f) <= Len(stream) /\ \A k \in 1..Len(f) : stream[s + k] = f[k]
    BY DEF Laid
  <2>2. Before(n)' = s
    <3>1. n \in 1..(m + 1)
      BY <1>1
    <3>2. SubSeq(wrote', 1, n - 1) = SubSeq(wrote, 1, n - 1)
      BY <1>1, <3>1, BeforeStays
    <3>3. Before(n)' = Sum(SubSeq(wrote', 1, n - 1))
      BY DEF Before
    <3>4. QED BY <3>2, <3>3 DEF Before
  <2>3. s \in Nat
    <3>1. SubSeq(wrote, 1, n - 1) \in Seq(Nat)
      BY <1>1, SubSeqProperties
    <3>2. QED BY <3>1, SumNat DEF Before
  <2>4. Len(f) \in Nat /\ wrote'[n] = wrote[n]
    BY <1>1, <1>6, OctetsTyped
  <2>. HIDE DEF s, f
  <2>5. s + Len(f) <= Len(stream')
    BY <1>1, <1>2, <1>5, <2>1, <2>3, <2>4
  <2>6. \A k \in 1..Len(f) : stream'[s + k] = f[k]
    BY <1>1, <1>5, <2>1, <2>3, <2>4
  <2>7. wrote[n] <= VsvalMax
    BY DEF Laid
  <2>8. QED BY <2>2, <2>4, <2>5, <2>6, <2>7 DEF f
<1>8. ASSUME NEW n, n = m + 1
      PROVE  /\ wrote'[n] <= VsvalMax
             /\ Before(n)' + Len(Encoded(wrote'[n])) <= Len(stream')
             /\ \A k \in 1..Len(Encoded(wrote'[n])) :
                  stream'[Before(n)' + k] = Encoded(wrote'[n])[k]
  <2>1. Before(n)' = Len(stream)
    <3>1. n - 1 = m /\ n \in 1..(m + 1)
      BY <1>1, <1>8
    <3>2. SubSeq(wrote', 1, n - 1) = wrote
      BY <1>1, <3>1, BeforeStays, BeforeLast
    <3>3. Before(n)' = Sum(SubSeq(wrote', 1, n - 1))
      BY DEF Before
    <3>4. QED BY <1>4, <3>2, <3>3
  <2>2. wrote'[n] = v
    BY <1>6, <1>8
  <2>3. QED BY <1>1, <1>2, <1>5, <2>1, <2>2 DEF e
<1>. HIDE DEF m
<1>9. \A n \in 1..(m + 1) : n \in 1..m \/ n = m + 1
  BY <1>1
<1>10. Len(stream') = Sum(wrote')
  BY <1>3, <1>4, <1>5
<1>11. Sum(wrote)' = Sum(wrote')
  OBVIOUS
<1>12. \A n \in 1..Len(wrote') : n \in 1..m \/ n = m + 1
  BY <1>6, <1>9
<1>13. QED BY ZenonT(40), <1>7, <1>8, <1>10, <1>11, <1>12 DEF Laid

\* The room is counted off for each value, stored or not.
LEMMA NextRoomInv ==
  ASSUME TypeOK, RoomInv, [Next]_vars
  PROVE  RoomInv'
<1>1. ASSUME UNCHANGED <<room, stream, wrote>>, phase' = "encode" => phase = "encode"
      PROVE  RoomInv'
  <2>1. Laid => Laid'
    BY <1>1 DEF Laid, Before
  <2>2. QED BY <1>1, <2>1 DEF RoomInv
<1>2. ASSUME NEW v \in Values, Encode(v) PROVE RoomInv'
  <2>1. v \in Nat /\ v <= VsvalMax
    BY <1>2, VsvalAssumption DEF VsvalAssumption, Encode
  <2>. DEFINE l == Len(Encoded(v))  s == Sum(wrote)
  <2>2. l \in Nat /\ s \in Nat /\ room \in Int
    BY <2>1, OctetsTyped, TypesHold
  <2>3. /\ phase = "encode" /\ wrote' = Append(wrote, v) /\ room' = room - l
        /\ room - l >= 0 => stream' = stream \o Encoded(v)
    BY <1>2 DEF Encode
  <2>4. Sum(wrote') = s + l
    BY <2>1, <2>3, SumAppend, TypesHold
  <2>5. room + s \in Rooms /\ (room >= 0 => Laid)
    BY <2>3 DEF RoomInv
  <2>6. room' >= 0 => Laid'
    <3>1. SUFFICES ASSUME room' >= 0 PROVE Laid'
      OBVIOUS
    <3>. HIDE DEF l
    <3>2. room >= 0 /\ room - l >= 0
      BY <2>2, <2>3, <3>1
    <3>3. QED BY <2>1, <2>3, <2>5, <3>2, LaidNext
  <2>7. room' + Sum(wrote)' \in Rooms
    <3>1. Sum(wrote)' = Sum(wrote')
      OBVIOUS
    <3>. HIDE DEF l, s
    <3>2. room' + (s + l) = room + s
      BY <2>2, <2>3
    <3>3. QED BY <2>4, <2>5, <3>1, <3>2
  <2>8. QED BY <2>6, <2>7 DEF RoomInv
<1>3. ASSUME NEW v \in Values, Reject(v) PROVE RoomInv'
  BY <1>1, <1>3 DEF Reject, writer
<1>4. CASE EndWriting
  BY <1>1, <1>4 DEF EndWriting, writer
<1>5. CASE LoadOctet
  BY <1>1, <1>5 DEF LoadOctet, writer
<1>6. CASE Assemble
  BY <1>1, <1>6 DEF Assemble, writer
<1>7. CASE UNCHANGED vars
  BY <1>1, <1>7 DEF vars
<1>8. QED BY <1>2, <1>3, <1>4, <1>5, <1>6, <1>7 DEF Next, Ended
-----------------------------------------------------------------------------
(* The reader. *)

\* Nothing of what was written has been read at first.
LEMMA InitReadInv == Init => ReadInv
BY DEF Init, ReadInv, OursRead

\* The values that were read are those before the next one.
LEMMA GotIsBefore ==
  ASSUME TypeOK, ReadInv, OursRead
  PROVE  got = SubSeq(wrote, 1, Len(got))
<1>1. /\ got \in Seq(Nat) /\ wrote \in Seq(Nat) /\ Len(got) \in Nat /\ Len(wrote) \in Nat
      /\ Len(got) <= Len(wrote) /\ \A k \in 1..Len(got) : got[k] = wrote[k]
  BY TypesHold DEF ReadInv
<1>. DEFINE s == SubSeq(wrote, 1, Len(got))
<1>2. s \in Seq(Nat) /\ Len(s) = Len(got) /\ \A k \in 1..Len(got) : s[k] = wrote[k]
  BY <1>1
<1>. HIDE DEF s
<1>3. \A k \in 1..Len(got) : got[k] = s[k]
  BY <1>1, <1>2
<1>4. got = s
  BY <1>1, <1>2, <1>3, SeqEqual
<1>5. QED BY <1>4 DEF s

\* When all values were read the stream is at its end.
LEMMA AllRead ==
  ASSUME TypeOK, LocalsInv, RoomInv, ReadInv, OursRead, Len(got) = Len(wrote)
  PROVE  i = 0 /\ b[1] = 0
<1>1. got = wrote
  BY GotIsBefore, BeforeLast, TypesHold
<1>2. took = Sum(wrote) /\ Place
  BY <1>1 DEF ReadInv
<1>3. Len(stream) = Sum(wrote)
  BY DEF OursRead, RoomInv, Laid
<1>4. i = 0
  BY <1>2, <1>3, TypesHold DEF Place
<1>5. QED BY <1>4 DEF LocalsInv

\* The loop's bound is 1 before the first octet and the number of the value's
\* octets after it; octets that are loaded are those of the value.
LEMMA NextValue ==
  ASSUME TypeOK, LocalsInv, RoomInv, ReadInv, OursRead, Len(got) < Len(wrote),
         NEW v, v = wrote[Len(got) + 1]
  PROVE  /\ v \in Nat /\ v <= VsvalMax
         /\ Len(Encoded(v)) \in 1..3 /\ i <= Len(Encoded(v))
         /\ \A k \in 1..i : b[k] = Encoded(v)[k]
         /\ i = 0 => LoopBound(b[1]) = 1
         /\ i > 0 => LoopBound(b[1]) = Len(Encoded(v)) /\ b[1] % 4 # 3
<1>. DEFINE n == Len(got) + 1  e == Encoded(v)
<1>1. /\ Len(got) \in Nat /\ Len(wrote) \in Nat /\ n \in 1..Len(wrote) /\ n - 1 = Len(got)
      /\ i \in 0..3
  BY SMTT(30), TypesHold
<1>2. v \in Nat
  BY <1>1, TypesHold
<1>3. Laid
  BY DEF OursRead, RoomInv
<1>4. v <= VsvalMax
  BY <1>1, <1>3 DEF Laid
<1>5. Len(e) \in 1..3
  BY <1>2, OctetsTyped
<1>6. Before(n) = took
  <2>1. Before(n) = Sum(SubSeq(wrote, 1, Len(got)))
    BY <1>1 DEF Before
  <2>2. took = Sum(got)
    BY DEF ReadInv
  <2>3. got = SubSeq(wrote, 1, Len(got))
    BY GotIsBefore
  <2>4. QED BY <2>1, <2>2, <2>3
<1>7. \A k \in 1..Len(e) : stream[took + k] = e[k]
  BY <1>1, <1>3, <1>6 DEF Laid
<1>8. i <= Len(e) /\ \A k \in 1..i : b[k] = stream[took + k]
  BY DEF ReadInv, Place
<1>. HIDE DEF e
<1>9. \A k \in 1..i : b[k] = e[k]
  BY <1>1, <1>5, <1>7, <1>8
<1>10. i = 0 => LoopBound(b[1]) = 1
  <2>1. i = 0 => b[1] = 0
    BY DEF LocalsInv
  <2>2. LoopBound(0) = 1
    BY SMT DEF LoopBound
  <2>3. QED BY <2>1, <2>2
<1>11. LoopBound(e[1]) = Len(e) /\ e[1] % 4 # 3
  BY SMT, <1>2, <1>4, CodecRoundTrip DEF e
<1>12. i > 0 => b[1] = e[1]
  BY <1>1, <1>9
<1>13. QED BY <1>2, <1>4, <1>5, <1>8, <1>9, <1>10, <1>11, <1>12 DEF e

\* Reading begins in front of the first value.
LEMMA ReadingBegins ==
  ASSUME TypeOK, LocalsInv, RoomInv, EndWriting, OursRead'
  PROVE  ReadInv'
<1>1. /\ phase = "encode" /\ room >= 0 /\ phase' = "decode" /\ err' = "CG_OK"
      /\ UNCHANGED <<b, i, got, took, room, stream, wrote>>
  <2>1. room' >= 0 /\ room' = room
    BY DEF OursRead, EndWriting, writer
  <2>2. room \in Int
    BY TypesHold
  <2>3. ~(room < 0)
    BY <2>1, <2>2
  <2>4. QED BY <2>1, <2>3 DEF EndWriting, writer
<1>2. PICK kept \in 0..Len(stream) : left' = SubSeq(stream, 1, kept)
  <2>1. ~(room < 0)
    BY <1>1, TypesHold
  <2>2. QED BY <2>1 DEF EndWriting
<1>3. /\ i = 0 /\ got = <<>> /\ took = 0 /\ Len(got) = 0
  BY <1>1 DEF LocalsInv
<1>4. /\ Len(left') = kept /\ kept \in Nat /\ kept <= Len(stream)
      /\ \A k \in 1..kept : left'[k] = stream[k]
  BY <1>2, TypesHold
<1>5. Place'
  BY <1>1, <1>3, <1>4 DEF Place
<1>6. Sum(got') = 0
  BY <1>1, <1>3, SumEmpty
<1>7. Len(got') = 0 /\ Len(wrote') \in Nat /\ Len(wrote') >= 0
  BY <1>1, <1>3, TypesHold
<1>8. Len(got') < Len(wrote') => i' <= Len(Encoded(wrote'[Len(got') + 1]))
  <2>1. SUFFICES ASSUME Len(got') < Len(wrote')
                 PROVE  i' <= Len(Encoded(wrote'[Len(got') + 1]))
    OBVIOUS
  <2>2. wrote[1] \in Nat
    BY <1>1, <1>7, <2>1, TypesHold
  <2>3. Len(Encoded(wrote[1])) \in 1..3
    BY <2>2, OctetsTyped
  <2>4. QED BY <1>1, <1>3, <2>3
<1>9. took' = Sum(got)' /\ \A k \in 1..Len(got') : got'[k] = wrote'[k]
  <2>1. Sum(got)' = Sum(got')
    OBVIOUS
  <2>2. QED BY <1>1, <1>3, <1>6, <1>7, <2>1
<1>10. QED BY <1>1, <1>5, <1>7, <1>8, <1>9 DEF ReadInv

\* One octet more is one of the value's.
LEMMA ReadingGoesOn ==
  ASSUME TypeOK, LocalsInv, RoomInv, ReadInv, LoadOctet, OursRead'
  PROVE  ReadInv'
<1>1. /\ phase = "decode" /\ i < LoopBound(b[1]) /\ UNCHANGED <<room, stream, wrote, got, took>>
      /\ left = <<>> => err' = "CG_EOF" /\ phase' = "ended" /\ UNCHANGED <<left, b, i>>
      /\ left # <<>> => /\ b' = [b EXCEPT ![i + 1] = Head(left)] /\ i' = i + 1
                        /\ left' = Tail(left) /\ UNCHANGED <<phase, err>>
  BY DEF LoadOctet, writer, reader
<1>2. OursRead
  BY <1>1 DEF OursRead
<1>3. /\ Len(got) <= Len(wrote) /\ took = Sum(got) /\ Place /\ err \in {"CG_OK", "CG_EOF"}
      /\ \A k \in 1..Len(got) : got[k] = wrote[k]
  BY <1>2 DEF ReadInv
<1>. DEFINE v == wrote[Len(got) + 1]
<1>. HIDE DEF v
<1>4. Len(got) < Len(wrote) => i < Len(Encoded(v)) /\ Len(Encoded(v)) \in 1..3
  <2>1. SUFFICES ASSUME Len(got) < Len(wrote)
                 PROVE  i < Len(Encoded(v)) /\ Len(Encoded(v)) \in 1..3
    OBVIOUS
  <2>2. v = wrote[Len(got) + 1]
    BY DEF v
  <2>3. Len(Encoded(v)) \in 1..3
    BY <1>2, <2>1, <2>2, NextValue
  <2>4. i > 0 => LoopBound(b[1]) = Len(Encoded(v))
    BY <1>2, <2>1, <2>2, NextValue
  <2>5. i < LoopBound(b[1]) /\ i \in 0..3
    BY <1>1, TypesHold
  <2>6. CASE i = 0
    BY <2>3, <2>6
  <2>7. CASE i # 0
    <3>1. i > 0
      BY <2>5, <2>7
    <3>2. i < Len(Encoded(v))
      BY <2>4, <2>5, <3>1
    <3>3. QED BY <2>3, <3>2
  <2>8. QED BY <2>6, <2>7
<1>5. CASE left = <<>>
  <2>1. Len(left) = 0 /\ Place'
    BY <1>1, <1>3, <1>5 DEF Place
  <2>2. Len(got) < Len(wrote) =>
          i <= Len(Encoded(v)) /\ Len(Encoded(v)) > i + Len(left)
    BY <1>4, <2>1, TypesHold
  <2>3. QED BY <1>1, <1>3, <1>5, <2>1, <2>2 DEF ReadInv, v
<1>6. CASE left # <<>>
  <2>1. /\ Len(left') = Len(left) - 1 /\ Head(left) = left[1] /\ Len(left) > 0
        /\ \A k \in 1..(Len(left) - 1) : left'[k] = left[k + 1]
    <3>1. left \in Seq(Octet) /\ left' = Tail(left)
      BY <1>1, <1>6, TypesHold
    <3>2. Len(left') = Len(left) - 1 /\ Len(left) > 0
      BY <1>6, <3>1, HeadTailProperties
    <3>3. Head(left) = left[1]
      BY <1>6, <3>1
    <3>4. \A k \in 1..(Len(left) - 1) : left'[k] = left[k + 1]
      BY <1>6, <3>1
    <3>5. QED BY <3>2, <3>3, <3>4
  <2>2. /\ took \in Nat /\ i \in 0..3 /\ Len(left) \in Nat /\ Len(stream) \in Nat
        /\ b \in [1..3 -> Octet] /\ i + 1 \in 1..3
    <3>1. LoopBound(b[1]) \in 0..3
      BY TypesHold, LoopBoundTyped
    <3>2. QED BY SMTT(30), <1>1, <3>1, TypesHold
  <2>3. /\ took + i + Len(left) <= Len(stream)
        /\ \A k \in 1..Len(left) : left[k] = stream[took + i + k]
        /\ \A k \in 1..i : b[k] = stream[took + k]
    BY <1>3 DEF Place
  <2>4. took + (i + 1) + Len(left') <= Len(stream)
    BY <2>1, <2>2, <2>3
  <2>5. \A k \in 1..Len(left') : left'[k] = stream[took + (i + 1) + k]
    <3>1. TAKE k \in 1..Len(left')
    <3>2. k + 1 \in 1..Len(left) /\ left'[k] = left[k + 1]
      BY <2>1, <2>2
    <3>3. took + i + (k + 1) = took + (i + 1) + k
      BY <2>1, <2>2
    <3>4. QED BY <2>3, <3>2, <3>3
  <2>6. \A k \in 1..(i + 1) : b'[k] = stream[took + k]
    <3>1. TAKE k \in 1..(i + 1)
    <3>2. CASE k \in 1..i
      <4>1. b'[k] = b[k]
        BY <1>1, <1>6, <2>2, <3>2
      <4>2. QED BY <2>3, <3>2, <4>1
    <3>3. CASE k = i + 1
      <4>1. b'[k] = left[1]
        BY <1>1, <1>6, <2>1, <2>2, <3>3
      <4>2. left[1] = stream[took + i + 1]
        BY <2>1, <2>2, <2>3
      <4>3. took + i + 1 = took + k
        BY <2>2, <3>3
      <4>4. QED BY <4>1, <4>2, <4>3
    <3>4. QED BY <2>2, <3>2, <3>3
  <2>7. Place'
    BY <1>1, <1>6, <2>4, <2>5, <2>6 DEF Place
  <2>8. Len(got) < Len(wrote) => i + 1 <= Len(Encoded(v))
    BY <1>4, <2>2
  <2>9. phase' # "ended"
    BY <1>1, <1>6
  <2>10. QED BY <1>1, <1>3, <1>6, <2>7, <2>8, <2>9 DEF ReadInv, v
<1>7. QED BY <1>5, <1>6

\* What is assembled is the next value.
LEMMA ReadingReturns ==
  ASSUME TypeOK, LocalsInv, RoomInv, ReadInv, Assemble, OursRead'
  PROVE  ReadInv'
<1>1. phase = "decode" /\ i >= LoopBound(b[1]) /\ UNCHANGED <<room, stream, wrote, left>>
  BY DEF Assemble, writer
<1>2. OursRead
  BY <1>1 DEF OursRead
<1>3. /\ Len(got) <= Len(wrote) /\ took = Sum(got) /\ Place /\ err \in {"CG_OK", "CG_EOF"}
      /\ \A k \in 1..Len(got) : got[k] = wrote[k]
  BY <1>2 DEF ReadInv
<1>4. i \in 0..3 /\ Len(got) \in Nat /\ Len(wrote) \in Nat
  BY TypesHold
<1>5. Len(got) < Len(wrote)
  <2>1. SUFFICES ASSUME Len(got) = Len(wrote) PROVE FALSE
    BY <1>3, <1>4
  <2>2. i = 0 /\ b[1] = 0
    BY <1>2, <2>1, AllRead
  <2>3. LoopBound(0) = 1
    BY SMT DEF LoopBound
  <2>4. QED BY <1>1, <2>2, <2>3
<1>. DEFINE n == Len(got) + 1
<1>6. PICK v : v = wrote[n]
  OBVIOUS
<1>7. /\ v \in Nat /\ v <= VsvalMax /\ Len(Encoded(v)) \in 1..3 /\ i <= Len(Encoded(v))
      /\ \A k \in 1..i : b[k] = Encoded(v)[k]
  BY <1>2, <1>5, <1>6, NextValue
<1>8. i > 0 /\ LoopBound(b[1]) = Len(Encoded(v)) /\ b[1] % 4 # 3
  <2>1. i = 0 => LoopBound(b[1]) = 1
    BY <1>2, <1>5, <1>6, NextValue
  <2>2. i > 0
    BY <1>1, <1>4, <2>1
  <2>3. QED BY <1>2, <1>5, <1>6, <2>2, NextValue
<1>9. i = Len(Encoded(v))
  BY <1>1, <1>4, <1>7, <1>8
<1>10. b = Padded(Encoded(v))
  <2>1. \A k \in 1..3 : b[k] = IF k <= Len(Encoded(v)) THEN Encoded(v)[k] ELSE 0
    <3>1. TAKE k \in 1..3
    <3>2. CASE k <= i
      BY <1>4, <1>7, <1>9, <3>2
    <3>3. CASE ~(k <= i)
      <4>1. k > i
        BY <1>4, <3>3
      <4>2. QED BY <1>9, <3>3, <4>1 DEF LocalsInv
    <3>4. QED BY <3>2, <3>3
  <2>2. b \in [1..3 -> Octet]
    BY TypesHold
  <2>3. QED BY <2>1, <2>2 DEF Padded
<1>11. Assembled(b) = v
  BY SMT, <1>7, <1>10, CodecRoundTrip
<1>12. /\ got' = Append(got, v) /\ took' = took + i /\ b' = NoOctets /\ i' = 0
       /\ UNCHANGED <<phase, err>>
  BY <1>8, <1>11 DEF Assemble
<1>13. /\ Len(got') = n /\ n <= Len(wrote)
       /\ \A k \in 1..n : got'[k] = wrote[k]
  <2>1. got \in Seq(Nat) /\ n \in Nat
    BY TypesHold
  <2>2. Len(got') = n /\ got'[n] = v /\ \A k \in 1..(n - 1) : got'[k] = got[k]
    BY <1>12, <2>1
  <2>3. \A k \in 1..n : k \in 1..(n - 1) \/ k = n
    BY <2>1
  <2>4. n <= Len(wrote) /\ n - 1 = Len(got)
    BY <1>4, <1>5
  <2>. HIDE DEF n
  <2>5. QED BY <1>3, <1>6, <2>2, <2>3, <2>4
<1>14. took' = Sum(got')
  BY <1>3, <1>7, <1>9, <1>12, TypesHold, SumAppend
<1>15. Place'
  <2>1. /\ took + i + Len(left) <= Len(stream)
        /\ \A k \in 1..Len(left) : left[k] = stream[took + i + k]
    BY <1>3 DEF Place
  <2>2. took' + i' = took + i
    BY <1>12, TypesHold
  <2>3. QED BY <1>1, <1>12, <2>1, <2>2 DEF Place
<1>16. Len(got') < Len(wrote') => i' <= Len(Encoded(wrote'[Len(got') + 1]))
  <2>1. SUFFICES ASSUME Len(got') < Len(wrote)
                 PROVE  0 <= Len(Encoded(wrote[Len(got') + 1]))
    BY <1>1, <1>12
  <2>2. Len(got') + 1 \in 1..Len(wrote)
    BY <1>4, <1>13, <2>1
  <2>3. wrote[Len(got') + 1] \in Nat
    BY <2>2, TypesHold
  <2>4. Len(Encoded(wrote[Len(got') + 1])) \in 1..3
    BY <2>3, OctetsTyped
  <2>5. QED BY <2>4
<1>17. Sum(got)' = Sum(got')
  OBVIOUS
<1>. HIDE DEF n
<1>18. QED BY <1>1, <1>3, <1>12, <1>13, <1>14, <1>15, <1>16, <1>17 DEF ReadInv

\* Each octet that is read is one of the next value.
LEMMA NextReadInv ==
  ASSUME TypeOK, LocalsInv, RoomInv, ReadInv, [Next]_vars
  PROVE  ReadInv'
<1>1. ASSUME phase' = "encode" PROVE ReadInv'
  BY <1>1 DEF ReadInv, OursRead
<1>2. ASSUME NEW v \in Values, Encode(v) PROVE ReadInv'
  BY <1>1, <1>2 DEF Encode
<1>3. ASSUME NEW v \in Values, Reject(v) PROVE ReadInv'
  BY <1>1, <1>3 DEF Reject
<1>4. CASE EndWriting
  BY <1>4, ReadingBegins DEF ReadInv
<1>5. CASE LoadOctet
  BY <1>5, ReadingGoesOn DEF ReadInv
<1>6. CASE Assemble
  BY <1>6, ReadingReturns DEF ReadInv
<1>7. CASE UNCHANGED vars
  BY <1>7 DEF vars, ReadInv, OursRead, Place
<1>8. QED BY <1>2, <1>3, <1>4, <1>5, <1>6, <1>7 DEF Next, Ended
-----------------------------------------------------------------------------
(* The invariants hold. *)

\* The inductive invariant holds at first
LEMMA InitInv == Init => Inv
BY InitTypeOK, InitLocalsInv, InitRoomInv, InitReadInv DEF Inv

\* and every step of the stream keeps it.
LEMMA NextInv == Inv /\ [Next]_vars => Inv'
<1>. SUFFICES ASSUME TypeOK, LocalsInv, RoomInv, ReadInv, [Next]_vars PROVE Inv'
  BY DEF Inv
<1>1. TypeOK'
  BY NextTypeOK
<1>2. LocalsInv'
  BY NextLocalsInv
<1>3. RoomInv'
  BY NextRoomInv
<1>4. ReadInv'
  BY NextReadInv
<1>5. QED BY <1>1, <1>2, <1>3, <1>4 DEF Inv

\* Whatever is encoded, wherever the stream is cut and whatever octets a foreign
\* stream has, cursor and locals agree with the values written and read.
THEOREM SpecInv == Spec => []Inv
BY InitInv, NextInv, PTL DEF Spec

\* The locals of decode_vsval stay in the range of their types, and what it
\* returns below 2^22, for every stream of octets.
THEOREM StreamTyped == Spec => []TypeOK
<1>1. Inv => TypeOK
  BY DEF Inv
<1>2. QED BY <1>1, SpecInv, PTL

\* decode_vsval returns what encode_vsval was given, in order, and invents
\* nothing, wherever the stream is cut.
THEOREM ReadIsWritten == Spec => []ReadsWhatWasWritten
<1>1. Inv => ReadsWhatWasWritten
  <2>1. SUFFICES ASSUME TypeOK, ReadInv, OursRead
                 PROVE  IsPrefix(got, wrote) /\ took = Sum(got) /\ err \in {"CG_OK", "CG_EOF"}
    BY DEF Inv, ReadsWhatWasWritten
  <2>2. got = SubSeq(wrote, 1, Len(got))
    BY <2>1, GotIsBefore
  <2>3. SubSeq(got, 1, Len(got)) = got
    BY <2>1, TypesHold, BeforeLast
  <2>4. IsPrefix(got, wrote)
    BY <2>1, <2>2, <2>3 DEF IsPrefix, ReadInv
  <2>5. QED BY <2>1, <2>4 DEF ReadInv
<1>2. QED BY <1>1, SpecInv, PTL

\* decode_vsval gives up on a stream of encode_vsval only where a value was cut.
THEOREM StopsWhereCut == Spec => []StopsOnlyWhereCut
<1>1. Inv => StopsOnlyWhereCut
  <2>1. SUFFICES ASSUME TypeOK, ReadInv, OursRead, phase = "ended", got # wrote
                 PROVE  Len(Encoded(wrote[Len(got) + 1])) > i + Len(left)
    BY DEF Inv, StopsOnlyWhereCut
  <2>2. Len(got) # Len(wrote)
    BY <2>1, GotIsBefore, BeforeLast, TypesHold
  <2>3. Len(got) < Len(wrote)
    BY <2>1, <2>2, TypesHold DEF ReadInv
  <2>4. QED BY <2>1, <2>3 DEF ReadInv
<1>2. QED BY <1>1, SpecInv, PTL

\* The single test of cursor->n in serializer decides whether all values are in
\* the block, and a negative n says how many octets were missing.
THEOREM RoomStaysExact == Spec => []RoomIsExact
<1>1. Inv => RoomIsExact
  BY DEF Inv, RoomInv, Laid, RoomIsExact
<1>2. QED BY <1>1, SpecInv, PTL

\* What decode_vsval reads from any stream encode_vsval writes in no more octets.
THEOREM RewritingFits == Spec => []RewritingNeverGrows
<1>1. Inv => RewritingNeverGrows
  <2>1. SUFFICES ASSUME TypeOK, LocalsInv PROVE RewritingNeverGrows
    BY DEF Inv
  <2>2. \A k \in DOMAIN got : got[k] \in 0..VsvalMax
    <3>1. got \in Seq(0..VsvalMax)
      BY <2>1 DEF TypeOK
    <3>2. DOMAIN got = 1..Len(got)
      BY <3>1
    <3>3. QED BY <3>1, <3>2, ElementOfSeq
  <2>3. VsvalMax \in Nat
    BY SMT DEF VsvalMax
  <2>4. QED BY <2>1, <2>2, <2>3 DEF LocalsInv, RewritingNeverGrows
<1>2. QED BY <1>1, SpecInv, PTL
=============================================================================

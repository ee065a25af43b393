----------------------------- MODULE SavingProofs -----------------------------
(***************************************************************************)
(* Saving, for any reader and any writer that keep to SavingAssumption,    *)
(* any saves and any size the file is made with: the order of the calls is *)
(* what makes of a safe order of stores a safe way to save.                *)
(***************************************************************************)
EXTENDS Saving, SequenceTheorems, TLAPS

Over == INSTANCE FoldFacts WITH Op <- OverStore

StoreOfOctets == [at : Nat, octets : Seq(Octet)]

\* All stores of the list stay inside of n octets.
Inside(list, n) == \A i \in 1..Len(list) : list[i].at + Len(list[i].octets) <= n
-----------------------------------------------------------------------------
(* Stores over a file. *)

\* A file of zeroes.
LEMMA ZeroesTyped ==
  ASSUME NEW n \in Nat
  PROVE  [i \in 1..n |-> 0] \in Seq(Octet) /\ Len([i \in 1..n |-> 0]) = n
<1>1. 0 \in Octet
  BY SMT DEF Octet
<1>2. QED BY <1>1

\* The octets of two sequences in a row.
LEMMA Joined ==
  ASSUME NEW s \in Seq(Octet), NEW t \in Seq(Octet)
  PROVE  /\ s \o t \in Seq(Octet) /\ Len(s \o t) = Len(s) + Len(t)
         /\ \A i \in 1..(Len(s) + Len(t)) :
              (s \o t)[i] = IF i <= Len(s) THEN s[i] ELSE t[i - Len(s)]
<1>1. s \o t \in Seq(Octet) /\ Len(s \o t) = Len(s) + Len(t)
  OBVIOUS
<1>2. \A i \in 1..(Len(s) + Len(t)) :
        (s \o t)[i] = IF i <= Len(s) THEN s[i] ELSE t[i - Len(s)]
  OBVIOUS
<1>3. QED BY <1>1, <1>2

\* A store changes the octets it has and no others.
LEMMA OverStoreIs ==
  ASSUME NEW f \in Seq(Octet), NEW x \in StoreOfOctets, x.at + Len(x.octets) <= Len(f)
  PROVE  /\ OverStore(f, x) \in Seq(Octet)
         /\ Len(OverStore(f, x)) = Len(f)
         /\ \A i \in 1..Len(f) :
              OverStore(f, x)[i] = IF i <= x.at THEN f[i]
                                   ELSE IF i <= x.at + Len(x.octets) THEN x.octets[i - x.at]
                                   ELSE f[i]
<1>. DEFINE a == x.at  o == x.octets  to == a + Len(o)
            front == SubSeq(f, 1, a)  back == SubSeq(f, to + 1, Len(f))
<1>1. a \in Nat /\ o \in Seq(Octet) /\ Len(o) \in Nat /\ Len(f) \in Nat /\ to \in Nat
      /\ a <= to /\ to <= Len(f) /\ to = a + Len(o)
  BY DEF StoreOfOctets
<1>2. OverStore(f, x) = (front \o o) \o back
  BY DEF OverStore
<1>. HIDE DEF a, o, to
<1>3. front \in Seq(Octet) /\ Len(front) = a /\ \A i \in 1..a : front[i] = f[i]
  <2>1. \A i \in 1..a : f[i] \in Octet
    BY <1>1
  <2>2. QED BY <1>1, <2>1, SubSeqProperties
<1>4. back \in Seq(Octet) /\ Len(back) = Len(f) - to
      /\ \A i \in 1..(Len(f) - to) : back[i] = f[to + i]
  <2>1. \A i \in (to + 1)..Len(f) : f[i] \in Octet
    BY <1>1
  <2>2. /\ back \in Seq(Octet)
        /\ Len(back) = IF to + 1 <= Len(f) THEN Len(f) - (to + 1) + 1 ELSE 0
        /\ \A i \in 1..(Len(f) - (to + 1) + 1) : back[i] = f[(to + 1) + i - 1]
    BY <1>1, <2>1, SubSeqProperties
  <2>3. Len(back) = Len(f) - to
    BY <1>1, <2>2
  <2>4. \A i \in 1..(Len(f) - to) : back[i] = f[to + i]
    <3>1. Len(f) - (to + 1) + 1 = Len(f) - to
      BY <1>1
    <3>2. ASSUME NEW i \in 1..(Len(f) - to) PROVE back[i] = f[to + i]
      <4>1. (to + 1) + i - 1 = to + i /\ i \in 1..(Len(f) - (to + 1) + 1)
        BY <1>1, <3>1
      <4>2. back[i] = f[(to + 1) + i - 1]
        BY <2>2, <4>1
      <4>3. QED BY <4>1, <4>2
    <3>3. QED BY <3>2
  <2>5. QED BY <2>2, <2>3, <2>4
<1>. HIDE DEF front, back
<1>5. front \o o \in Seq(Octet) /\ Len(front \o o) = to
      /\ \A i \in 1..to : (front \o o)[i] = IF i <= a THEN f[i] ELSE o[i - a]
  <2>1. /\ front \o o \in Seq(Octet) /\ Len(front \o o) = Len(front) + Len(o)
        /\ \A i \in 1..(Len(front) + Len(o)) :
             (front \o o)[i] = IF i <= Len(front) THEN front[i] ELSE o[i - Len(front)]
    BY <1>1, <1>3, Joined
  <2>2. QED BY <1>1, <1>3, <2>1
<1>. DEFINE both == front \o o
<1>6. both \in Seq(Octet) /\ Len(both) = to
      /\ \A i \in 1..to : both[i] = IF i <= a THEN f[i] ELSE o[i - a]
  BY <1>5
<1>. HIDE DEF both
<1>7. /\ both \o back \in Seq(Octet) /\ Len(both \o back) = Len(f)
      /\ \A i \in 1..Len(f) : (both \o back)[i] = IF i <= to THEN both[i] ELSE f[i]
  <2>1. /\ both \o back \in Seq(Octet) /\ Len(both \o back) = Len(both) + Len(back)
        /\ \A i \in 1..(Len(both) + Len(back)) :
             (both \o back)[i] = IF i <= Len(both) THEN both[i] ELSE back[i - Len(both)]
    BY <1>4, <1>6, Joined
  <2>2. Len(both) + Len(back) = Len(f)
    BY <1>1, <1>4, <1>6
  <2>3. ASSUME NEW i \in 1..Len(f), i > to PROVE back[i - to] = f[i]
    <3>1. i - to \in 1..(Len(f) - to) /\ to + (i - to) = i
      BY <1>1, <2>3
    <3>2. QED BY <1>4, <3>1
  <2>4. QED BY <1>1, <1>6, <2>1, <2>2, <2>3
<1>8. OverStore(f, x) = both \o back
  BY <1>2 DEF both
<1>9. \A i \in 1..Len(f) :
        (both \o back)[i] = IF i <= a THEN f[i] ELSE IF i <= to THEN o[i - a] ELSE f[i]
  BY <1>1, <1>6, <1>7
<1>10. QED BY <1>7, <1>8, <1>9 DEF a, o, to

\* A file is the fold of its stores: zeroes at first, and one store after the other.
LEMMA ContentsIsFold == \A list, n : Contents(list, n) = Over!Fold([i \in 1..n |-> 0], list)
BY DEF Contents, FoldLeft, MapThenFoldSet, Max, Over!Fold, Over!Folds, Over!Top

\* No stores leave the zeroes.
LEMMA ContentsEmpty == \A n : Contents(<<>>, n) = [i \in 1..n |-> 0]
BY ContentsIsFold, Over!FoldEmpty

\* One store more goes over what is there.
LEMMA ContentsAppend ==
  ASSUME NEW list \in Seq(StoreOfOctets), NEW x \in StoreOfOctets, NEW n
  PROVE  Contents(Append(list, x), n) = OverStore(Contents(list, n), x)
BY ContentsIsFold, Over!FoldAppend

\* The stores in front of the last one are inside, and so is the last one.
LEMMA InsideAppend ==
  ASSUME NEW list \in Seq(StoreOfOctets), NEW x \in StoreOfOctets, NEW n,
         Inside(Append(list, x), n)
  PROVE  Inside(list, n) /\ x.at + Len(x.octets) <= n
<1>1. Len(list) \in Nat /\ Len(Append(list, x)) = Len(list) + 1
      /\ Append(list, x)[Len(list) + 1] = x
      /\ \A i \in 1..Len(list) : Append(list, x)[i] = list[i]
  OBVIOUS
<1>2. Len(list) + 1 \in 1..(Len(list) + 1) /\ \A i \in 1..Len(list) : i \in 1..(Len(list) + 1)
  BY <1>1
<1>3. QED BY <1>1, <1>2 DEF Inside

\* Stores that stay inside keep the size of the file, and what is in it are octets.
LEMMA ContentsTyped ==
  ASSUME NEW list \in Seq(StoreOfOctets), NEW n \in Nat, Inside(list, n)
  PROVE  Contents(list, n) \in Seq(Octet) /\ Len(Contents(list, n)) = n
<1>. DEFINE Typed(s) == Contents(s, n) \in Seq(Octet) /\ Len(Contents(s, n)) = n
            T == {s \in Seq(StoreOfOctets) : Inside(s, n) => Typed(s)}
<1>1. <<>> \in T
  <2>1. Contents(<<>>, n) = [i \in 1..n |-> 0]
    BY ContentsEmpty
  <2>2. Typed(<<>>)
    BY <2>1, ZeroesTyped
  <2>3. QED BY <2>2
<1>2. ASSUME NEW s \in Seq(StoreOfOctets), NEW x \in StoreOfOctets, s \in T
      PROVE  Append(s, x) \in T
  <2>1. Append(s, x) \in Seq(StoreOfOctets)
    OBVIOUS
  <2>2. ASSUME Inside(Append(s, x), n) PROVE Typed(Append(s, x))
    <3>1. Inside(s, n) /\ x.at + Len(x.octets) <= n
      BY <2>2, InsideAppend
    <3>2. Contents(s, n) \in Seq(Octet) /\ Len(Contents(s, n)) = n
      BY <1>2, <3>1
    <3>3. Contents(Append(s, x), n) = OverStore(Contents(s, n), x)
      BY ContentsAppend
    <3>4. QED BY <3>1, <3>2, <3>3, OverStoreIs
  <2>3. QED BY <2>1, <2>2
<1>. HIDE DEF T
<1>3. Seq(StoreOfOctets) \subseteq T
  BY <1>1, <1>2, Over!SeqInduction
<1>4. QED BY <1>3 DEF T

\* Cutting a file behind all of its stores is as if it had been made shorter.
LEMMA CutBehindStores ==
  ASSUME NEW list \in Seq(StoreOfOctets), NEW m \in Nat, NEW n \in Nat, m <= n, Inside(list, m)
  PROVE  SubSeq(Contents(list, n), 1, m) = Contents(list, m)
<1>. DEFINE Cut(s) == \A i \in 1..m : Contents(s, n)[i] = Contents(s, m)[i]
            T == {s \in Seq(StoreOfOctets) : Inside(s, m) => Cut(s)}
<1>1. <<>> \in T
  <2>1. \A i \in 1..m : i \in 1..n
    OBVIOUS
  <2>2. Contents(<<>>, n) = [i \in 1..n |-> 0] /\ Contents(<<>>, m) = [i \in 1..m |-> 0]
    BY ContentsEmpty
  <2>3. Cut(<<>>)
    BY <2>1, <2>2
  <2>4. QED BY <2>3
<1>2. ASSUME NEW s \in Seq(StoreOfOctets), Inside(s, m)
      PROVE  /\ Contents(s, n) \in Seq(Octet) /\ Len(Contents(s, n)) = n
             /\ Contents(s, m) \in Seq(Octet) /\ Len(Contents(s, m)) = m
  <2>1. \A i \in 1..Len(s) : s[i] \in StoreOfOctets
    OBVIOUS
  <2>2. \A i \in 1..Len(s) : s[i].at + Len(s[i].octets) \in Nat
    BY <2>1 DEF StoreOfOctets
  <2>3. Inside(s, n)
    BY <1>2, <2>2 DEF Inside
  <2>4. QED BY <1>2, <2>3, ContentsTyped
<1>3. ASSUME NEW s \in Seq(StoreOfOctets), NEW x \in StoreOfOctets, s \in T
      PROVE  Append(s, x) \in T
  <2>1. Append(s, x) \in Seq(StoreOfOctets)
    OBVIOUS
  <2>2. ASSUME Inside(Append(s, x), m) PROVE Cut(Append(s, x))
    <3>. DEFINE long == Contents(s, n)  short == Contents(s, m)
    <3>1. Inside(s, m) /\ x.at + Len(x.octets) <= m
      BY <2>2, InsideAppend
    <3>2. \A i \in 1..m : long[i] = short[i]
      BY <1>3, <3>1
    <3>3. long \in Seq(Octet) /\ Len(long) = n /\ short \in Seq(Octet) /\ Len(short) = m
      BY <1>2, <3>1
    <3>4. Contents(Append(s, x), n) = OverStore(long, x)
          /\ Contents(Append(s, x), m) = OverStore(short, x)
      BY ContentsAppend
    <3>. HIDE DEF long, short
    <3>5. x.at \in Nat /\ Len(x.octets) \in Nat /\ x.at + Len(x.octets) <= n
      BY <3>1 DEF StoreOfOctets
    <3>6. \A i \in 1..n : OverStore(long, x)[i] =
            IF i <= x.at THEN long[i]
            ELSE IF i <= x.at + Len(x.octets) THEN x.octets[i - x.at] ELSE long[i]
      BY <3>3, <3>5, OverStoreIs
    <3>7. \A i \in 1..m : OverStore(short, x)[i] =
            IF i <= x.at THEN short[i]
            ELSE IF i <= x.at + Len(x.octets) THEN x.octets[i - x.at] ELSE short[i]
      BY <3>1, <3>3, OverStoreIs
    <3>8. \A i \in 1..m : i \in 1..n
      OBVIOUS
    <3>9. \A i \in 1..m : OverStore(long, x)[i] = OverStore(short, x)[i]
      BY <3>2, <3>6, <3>7, <3>8
    <3>10. QED BY <3>4, <3>9
  <2>3. QED BY <2>1, <2>2
<1>4. Cut(list)
  <2>. HIDE DEF T
  <2>1. Seq(StoreOfOctets) \subseteq T
    BY <1>1, <1>3, Over!SeqInduction
  <2>2. QED BY <2>1 DEF T
<1>. DEFINE long == Contents(list, n)  short == Contents(list, m)
<1>5. \A i \in 1..m : long[i] = short[i]
  BY <1>4
<1>6. long \in Seq(Octet) /\ Len(long) = n /\ short \in Seq(Octet) /\ Len(short) = m
  BY <1>2
<1>. HIDE DEF long, short
<1>7. /\ SubSeq(long, 1, m) \in Seq(Octet) /\ Len(SubSeq(long, 1, m)) = m
      /\ \A i \in 1..m : SubSeq(long, 1, m)[i] = long[i]
  <2>1. \A i \in 1..m : long[i] \in Octet
    BY <1>6
  <2>2. QED BY <2>1, SubSeqProperties
<1>8. SubSeq(long, 1, m) = short
  BY <1>5, <1>6, <1>7, SeqEqual
<1>9. QED BY <1>8 DEF long, short

\* What is known of the plan of a save.
LEMMA PlanFacts ==
  ASSUME NEW s \in Saves, NEW w, w = Writer(s)
  PROVE  /\ MaxFile \in Nat \ {0} /\ w.size \in 1..MaxFile
         /\ w.end \in {"CG_OK", "CG_COMPRESS", "killed"}
         /\ w.stores \in Seq(StoreOfOctets) /\ Len(w.stores) \in Nat
         /\ Inside(w.stores, w.size) /\ Inside(w.stores, MaxFile)
         /\ ReadsBack(s, w) /\ AtOneStroke(s, w)
<1>1. MaxFile \in Nat /\ FitsInside(w) /\ ReadsBack(s, w) /\ AtOneStroke(s, w)
  BY SavingAssumption
<1>2. /\ w.end \in {"CG_OK", "CG_COMPRESS", "killed"}
      /\ w.size \in 1..MaxFile
      /\ w.stores \in Seq(StoreOfOctets)
      /\ \A i \in DOMAIN w.stores : w.stores[i].at + Len(w.stores[i].octets) <= w.size
  BY <1>1 DEF FitsInside, StoreOfOctets
<1>3. MaxFile \in Nat \ {0} /\ w.size <= MaxFile /\ w.size \in Nat
  BY <1>1, <1>2
<1>4. Len(w.stores) \in Nat /\ DOMAIN w.stores = 1..Len(w.stores)
      /\ \A i \in 1..Len(w.stores) : w.stores[i] \in StoreOfOctets
  BY <1>2
<1>5. \A i \in 1..Len(w.stores) : w.stores[i].at + Len(w.stores[i].octets) \in Nat
  BY <1>4 DEF StoreOfOctets
<1>6. Inside(w.stores, w.size)
  BY <1>2, <1>4 DEF Inside
<1>7. Inside(w.stores, MaxFile)
  BY <1>3, <1>5, <1>6 DEF Inside
<1>8. QED BY <1>1, <1>2, <1>3, <1>4, <1>6, <1>7

\* The first stores of a list, one more of them, and all of them.
LEMMA FirstStores ==
  ASSUME NEW list \in Seq(StoreOfOctets)
  PROVE  /\ SubSeq(list, 1, 0) = <<>> /\ SubSeq(list, 1, Len(list)) = list
         /\ \A k \in 0..Len(list) : SubSeq(list, 1, k) \in Seq(StoreOfOctets)
         /\ \A k \in 0..(Len(list) - 1) :
              /\ list[k + 1] \in StoreOfOctets
              /\ SubSeq(list, 1, k + 1) = Append(SubSeq(list, 1, k), list[k + 1])
<1>1. Len(list) \in Nat /\ \A i \in 1..Len(list) : list[i] \in StoreOfOctets
  OBVIOUS
<1>2. SubSeq(list, 1, 0) = <<>>
  BY SubSeqEmpty
<1>3. SubSeq(list, 1, Len(list)) = list
  BY SubSeqFull
<1>4. ASSUME NEW k \in 0..Len(list)
      PROVE  /\ SubSeq(list, 1, k) \in Seq(StoreOfOctets) /\ Len(SubSeq(list, 1, k)) = k
             /\ \A i \in 1..k : SubSeq(list, 1, k)[i] = list[i]
  <2>1. \A i \in 1..k : list[i] \in StoreOfOctets
    BY <1>1
  <2>2. QED BY <2>1, SubSeqProperties
<1>5. ASSUME NEW k \in 0..(Len(list) - 1)
      PROVE  /\ list[k + 1] \in StoreOfOctets
             /\ SubSeq(list, 1, k + 1) = Append(SubSeq(list, 1, k), list[k + 1])
  <2>. DEFINE a == SubSeq(list, 1, k)  b == SubSeq(list, 1, k + 1)  x == list[k + 1]
  <2>1. k \in 0..Len(list) /\ k + 1 \in 0..Len(list) /\ x \in StoreOfOctets /\ k \in Nat
    BY <1>1
  <2>2. a \in Seq(StoreOfOctets) /\ Len(a) = k /\ \A i \in 1..k : a[i] = list[i]
    BY <1>4, <2>1
  <2>3. b \in Seq(StoreOfOctets) /\ Len(b) = k + 1 /\ \A i \in 1..(k + 1) : b[i] = list[i]
    BY <1>4, <2>1
  <2>4. b[k + 1] = x
    BY <2>1, <2>3
  <2>. HIDE DEF a, b, x
  <2>5. /\ Append(a, x) \in Seq(StoreOfOctets) /\ Len(Append(a, x)) = k + 1
        /\ Append(a, x)[k + 1] = x /\ \A i \in 1..k : Append(a, x)[i] = a[i]
    BY <2>1, <2>2
  <2>6. \A i \in 1..(k + 1) : i \in 1..k \/ i = k + 1
    BY <2>1
  <2>7. \A i \in 1..(k + 1) : b[i] = Append(a, x)[i]
    BY <2>1, <2>2, <2>3, <2>4, <2>5, <2>6
  <2>8. b = Append(a, x)
    BY <2>3, <2>5, <2>7, SeqEqual
  <2>9. QED BY <2>1, <2>8 DEF a, b, x
<1>6. QED BY <1>2, <1>3, <1>4, <1>5

\* The file that has the first stores of a plan.
LEMMA FileAfterIs ==
  ASSUME NEW list \in Seq(StoreOfOctets), MaxFile \in Nat, Inside(list, MaxFile)
  PROVE  /\ FileAfter(list, 0) = Contents(<<>>, MaxFile)
         /\ FileAfter(list, Len(list)) = Contents(list, MaxFile)
         /\ \A k \in 0..Len(list) :
              FileAfter(list, k) \in Seq(Octet) /\ Len(FileAfter(list, k)) = MaxFile
         /\ \A k \in 0..(Len(list) - 1) :
              FileAfter(list, k + 1) = OverStore(FileAfter(list, k), list[k + 1])
<1>1. Len(list) \in Nat
  OBVIOUS
<1>2. /\ FileAfter(list, 0) = Contents(<<>>, MaxFile)
      /\ FileAfter(list, Len(list)) = Contents(list, MaxFile)
  BY FirstStores DEF FileAfter
<1>3. ASSUME NEW k \in 0..Len(list)
      PROVE  FileAfter(list, k) \in Seq(Octet) /\ Len(FileAfter(list, k)) = MaxFile
  <2>. DEFINE first == SubSeq(list, 1, k)
  <2>1. first \in Seq(StoreOfOctets)
    BY FirstStores
  <2>2. Len(first) = k /\ \A i \in 1..k : first[i] = list[i] /\ i \in 1..Len(list)
    <3>1. \A i \in 1..k : i \in 1..Len(list) /\ list[i] \in StoreOfOctets
      BY <1>1
    <3>2. QED BY <3>1, SubSeqProperties
  <2>3. Inside(first, MaxFile)
    BY <2>2 DEF Inside
  <2>. HIDE DEF first
  <2>4. Contents(first, MaxFile) \in Seq(Octet) /\ Len(Contents(first, MaxFile)) = MaxFile
    BY <2>1, <2>3, ContentsTyped
  <2>5. QED BY <2>4 DEF FileAfter, first
<1>4. ASSUME NEW k \in 0..(Len(list) - 1)
      PROVE  FileAfter(list, k + 1) = OverStore(FileAfter(list, k), list[k + 1])
  <2>1. k \in 0..Len(list)
    BY <1>1
  <2>2. /\ SubSeq(list, 1, k) \in Seq(StoreOfOctets) /\ list[k + 1] \in StoreOfOctets
        /\ SubSeq(list, 1, k + 1) = Append(SubSeq(list, 1, k), list[k + 1])
    BY <2>1, FirstStores
  <2>3. QED BY ZenonT(40), <2>2, ContentsAppend DEF FileAfter
<1>5. QED BY <1>2, <1>3, <1>4

\* The front of a store is a store at the same place that is not longer.
LEMMA TornIs ==
  ASSUME NEW x \in StoreOfOctets, NEW t \in Torn(x)
  PROVE  t \in StoreOfOctets /\ t.at = x.at /\ Len(t.octets) <= Len(x.octets)
<1>1. x.at \in Nat /\ x.octets \in Seq(Octet) /\ Len(x.octets) \in Nat
  BY DEF StoreOfOctets
<1>2. PICK k \in Cuts : k < Len(x.octets) /\ t = [x EXCEPT !.octets = SubSeq(@, 1, k)]
  BY DEF Torn
<1>3. k \in Nat
  BY SavingAssumption
<1>. DEFINE o == SubSeq(x.octets, 1, k)
<1>4. o \in Seq(Octet) /\ Len(o) = k
  <2>1. \A i \in 1..k : x.octets[i] \in Octet
    BY <1>1, <1>2, <1>3
  <2>2. QED BY <1>3, <2>1, SubSeqProperties
<1>. HIDE DEF o
<1>5. t = [x EXCEPT !.octets = o]
  BY <1>2 DEF o
<1>6. t.at = x.at /\ t.octets = o /\ t \in StoreOfOctets
  BY <1>1, <1>4, <1>5 DEF StoreOfOctets
<1>7. QED BY <1>1, <1>2, <1>3, <1>4, <1>6

\* An empty file and one of zeroes are no saves.
LEMMA EmptyIsNothing ==
  ASSUME NEW s
  PROVE  /\ <<>> \in Seq(Octet) /\ Verdict(s, <<>>) = "nothing"
         /\ Verdict(s, Contents(<<>>, MaxFile)) = "nothing"
<1>1. ~Reader(Contents(<<>>, 0)).ok /\ ~Reader(Contents(<<>>, MaxFile)).ok
  BY SavingAssumption
<1>2. Contents(<<>>, 0) = <<>>
  <2>1. Contents(<<>>, 0) = [i \in 1..0 |-> 0]
    BY ContentsEmpty
  <2>2. [i \in 1..0 |-> 0] = <<>>
    OBVIOUS
  <2>3. QED BY <2>1, <2>2
<1>3. QED BY <1>1, <1>2 DEF Verdict

\* There are three verdicts.
LEMMA Verdicts == \A s, c : Verdict(s, c) \in {"nothing", "new", "part"}
BY DEF Verdict
-----------------------------------------------------------------------------
(* The invariant. *)

\* The file has the stores made so far, and found is what a reader makes of it.
OnDisk == file = FileAfter(plan.stores, done) /\ found = Verdict(save, file)

\* The whole save is there, and nothing but zeroes behind it.
Saved ==
    /\ found = "new"
    /\ Len(file) \in {plan.size, MaxFile}
    /\ file = Contents(plan.stores, Len(file))

\* The plan is the save's, and the old contents go with the first call that succeeds.
GivenInv ==
    /\ save \in Saves /\ plan = Writer(save)
    /\ file \in Seq(Octet)
    /\ old <=> found = "old"
    /\ pc = "open" => old
    /\ pc \notin {"open", "exited"} => ~old

\* The stores are in the file, from the call that makes it long enough to the one
\* that cuts it.
DiskInv ==
    /\ pc \in {"open", "ftruncate", "mmap", "close"} => done = 0
    /\ pc = "ftruncate" => file = <<>> /\ found = "nothing"
    /\ pc \in {"mmap", "close", "store", "munmap", "truncate"} => OnDisk

\* After file_writer, its error code says which of the two is on disk: everything or
\* no save; and so does the exit code.
EndInv ==
    /\ exit = "none" <=> pc # "exited"
    /\ pc \in {"open", "ftruncate", "mmap", "close", "store"} => err = "CG_OK"
    /\ pc \in {"munmap", "truncate"} =>
         IF err = "CG_OK" THEN plan.end = "CG_OK" /\ done = Len(plan.stores)
         ELSE found = "nothing"
    /\ pc = "return" => IF err = "CG_OK" THEN Saved ELSE found = "nothing"
    /\ exit = "EXIT_SUCCESS" => Saved

Inv == TypeOK /\ GivenInv /\ DiskInv /\ EndInv

\* In the beginning the old save is there.
LEMMA InvInit == Init => Inv
<1>1. SUFFICES ASSUME Init PROVE Inv
  OBVIOUS
<1>2. save \in Saves /\ plan = Writer(save)
  BY <1>1 DEF Init
<1>3. plan.end \in {"CG_OK", "CG_COMPRESS", "killed"} /\ Len(plan.stores) \in Nat
      /\ MaxFile \in Nat
  BY <1>2, PlanFacts
<1>4. Len(<<>>) = 0 /\ DOMAIN <<>> = {} /\ <<>> \in Seq(Octet)
  OBVIOUS
<1>5. TypeOK
  BY <1>1, <1>3, <1>4 DEF Init, TypeOK, Calls
<1>6. GivenInv /\ DiskInv /\ EndInv
  BY <1>1, <1>2, <1>4 DEF Init, GivenInv, DiskInv, EndInv
<1>7. QED BY <1>5, <1>6 DEF Inv

\* What the invariant says wherever the program is.
LEMMA InvFacts ==
  ASSUME Inv
  PROVE  /\ save \in Saves /\ plan = Writer(save)
         /\ MaxFile \in Nat \ {0} /\ plan.size \in 1..MaxFile
         /\ plan.end \in {"CG_OK", "CG_COMPRESS", "killed"}
         /\ plan.stores \in Seq(StoreOfOctets) /\ Len(plan.stores) \in Nat
         /\ Inside(plan.stores, plan.size) /\ Inside(plan.stores, MaxFile)
         /\ ReadsBack(save, plan) /\ AtOneStroke(save, plan)
         /\ file \in Seq(Octet) /\ Len(file) \in Nat /\ DOMAIN file = 1..Len(file)
         /\ done \in 0..Len(plan.stores)
BY PlanFacts DEF Inv, GivenInv, TypeOK

\* As long as the file is at its full length, its octets are those of the stores.
LEMMA DiskFacts ==
  ASSUME Inv, pc \in {"mmap", "close", "store", "munmap", "truncate"}
  PROVE  /\ ~old /\ file = FileAfter(plan.stores, done) /\ Len(file) = MaxFile
         /\ found = Verdict(save, file)
<1>1. OnDisk /\ ~old
  BY DEF Inv, DiskInv, GivenInv
<1>2. QED BY <1>1, InvFacts, FileAfterIs DEF OnDisk

\* The open that succeeds cuts the file to nothing.
LEMMA InvOpen == ASSUME Inv, Open PROVE Inv'
<1>1. pc = "open" /\ UNCHANGED <<err, save, plan, done>>
      /\ \/ pc' = "exited" /\ exit' = "EXIT_FAILURE" /\ UNCHANGED <<old, file, found>>
         \/ /\ pc' = "ftruncate" /\ exit' = exit /\ old' = FALSE
            /\ file' = <<>> /\ found' = Verdict(save, <<>>)
  BY DEF Open, given, GiveUp, disk, Go, Becomes
<1>2. /\ <<>> \in Seq(Octet) /\ Len(<<>>) = 0 /\ DOMAIN <<>> = {}
      /\ Verdict(save, <<>>) = "nothing"
  BY EmptyIsNothing
<1>3. done = 0 /\ old /\ found = "old" /\ exit = "none" /\ err = "CG_OK"
  BY <1>1 DEF Inv, DiskInv, GivenInv, EndInv
<1>4. TypeOK'
  BY <1>1, <1>2, <1>3, InvFacts DEF Inv, TypeOK, Calls
<1>5. GivenInv'
  BY <1>1, <1>2, <1>3 DEF Inv, GivenInv
<1>6. DiskInv'
  BY <1>1, <1>2, <1>3 DEF Inv, DiskInv
<1>7. EndInv'
  BY <1>1, <1>3 DEF Inv, EndInv
<1>8. QED BY <1>4, <1>5, <1>6, <1>7 DEF Inv

\* The file grows, with zeroes.
LEMMA InvFtruncate == ASSUME Inv, Ftruncate PROVE Inv'
<1>. DEFINE zeroes == Contents(<<>>, MaxFile)
<1>1. pc = "ftruncate" /\ UNCHANGED <<err, save, plan, done, old>>
      /\ \/ pc' = "exited" /\ exit' = "EXIT_FAILURE" /\ UNCHANGED <<file, found>>
         \/ pc' = "mmap" /\ exit' = exit /\ file' = zeroes /\ found' = Verdict(save, zeroes)
  BY DEF Ftruncate, given, GiveUp, disk, Go, Becomes
<1>2. Verdict(save, zeroes) = "nothing"
  BY EmptyIsNothing
<1>3. done = 0 /\ ~old /\ found = "nothing" /\ exit = "none" /\ err = "CG_OK"
  BY <1>1 DEF Inv, DiskInv, GivenInv, EndInv
<1>4. zeroes = FileAfter(plan.stores, 0) /\ zeroes \in Seq(Octet) /\ Len(zeroes) = MaxFile
  <2>1. 0 \in 0..Len(plan.stores)
    BY InvFacts
  <2>2. QED BY <2>1, InvFacts, FileAfterIs
<1>. HIDE DEF zeroes
<1>5. Len(zeroes) <= MaxFile /\ \A i \in DOMAIN zeroes : zeroes[i] \in Octet
  BY <1>4, InvFacts
<1>6. TypeOK'
  BY <1>1, <1>2, <1>3, <1>5, InvFacts DEF Inv, TypeOK, Calls
<1>7. GivenInv'
  BY <1>1, <1>2, <1>3, <1>4 DEF Inv, GivenInv
<1>8. DiskInv'
  <2>1. CASE pc' = "exited"
    BY <1>3, <2>1 DEF DiskInv
  <2>2. CASE pc' = "mmap"
    BY <1>1, <1>2, <1>3, <1>4, <2>2 DEF DiskInv, OnDisk
  <2>3. QED BY <1>1, <2>1, <2>2
<1>9. EndInv'
  BY <1>1, <1>3 DEF Inv, EndInv
<1>10. QED BY <1>6, <1>7, <1>8, <1>9 DEF Inv

\* The mapping, without a change to the file.
LEMMA InvMmap == ASSUME Inv, Mmap PROVE Inv'
<1>1. pc = "mmap" /\ UNCHANGED <<err, save, plan, done, old, file, found>>
      /\ \/ pc' = "exited" /\ exit' = "EXIT_FAILURE"
         \/ pc' = "close" /\ exit' = exit
  BY DEF Mmap, given, GiveUp, disk, Go
<1>2. TypeOK' /\ GivenInv'
  BY <1>1 DEF Inv, TypeOK, Calls, GivenInv
<1>3. DiskInv' /\ EndInv'
  BY <1>1 DEF Inv, DiskInv, OnDisk, EndInv
<1>4. QED BY <1>2, <1>3 DEF Inv

\* The descriptor is closed, or not.
LEMMA InvClose == ASSUME Inv, Close PROVE Inv'
<1>1. pc = "close" /\ pc' = "store" /\ exit' = exit
      /\ UNCHANGED <<err, save, plan, done, old, file, found>>
  BY DEF Close, given, disk, Go
<1>2. TypeOK' /\ GivenInv'
  BY <1>1 DEF Inv, TypeOK, Calls, GivenInv
<1>3. DiskInv' /\ EndInv'
  BY <1>1 DEF Inv, DiskInv, OnDisk, EndInv
<1>4. QED BY <1>2, <1>3 DEF Inv

\* A store over the file, or a front of one, leaves a file of octets of the same length.
LEMMA StoreFits ==
  ASSUME Inv, pc = "store", done < Len(plan.stores),
         NEW x \in {plan.stores[done + 1]} \cup Torn(plan.stores[done + 1])
  PROVE  OverStore(file, x) \in Seq(Octet) /\ Len(OverStore(file, x)) = MaxFile
<1>. DEFINE y == plan.stores[done + 1]
<1>1. done + 1 \in 1..Len(plan.stores)
  BY InvFacts
<1>2. y \in StoreOfOctets /\ y.at + Len(y.octets) <= MaxFile
  BY <1>1, InvFacts DEF Inside
<1>. HIDE DEF y
<1>3. x \in {y} \cup Torn(y)
  BY DEF y
<1>4. x \in StoreOfOctets /\ x.at = y.at /\ Len(x.octets) <= Len(y.octets)
  <2>1. CASE x = y
    BY <1>2, <2>1 DEF StoreOfOctets
  <2>2. CASE x \in Torn(y)
    BY <1>2, <2>2, TornIs
  <2>3. QED BY <1>3, <2>1, <2>2
<1>5. y.at \in Nat /\ Len(y.octets) \in Nat /\ Len(x.octets) \in Nat /\ MaxFile \in Nat
  BY SMTT(30), <1>2, <1>4, InvFacts DEF StoreOfOctets
<1>6. x.at + Len(x.octets) <= MaxFile
  BY <1>2, <1>4, <1>5
<1>7. file \in Seq(Octet) /\ Len(file) = MaxFile
  BY InvFacts, DiskFacts
<1>8. QED BY <1>4, <1>6, <1>7, OverStoreIs

\* One store more is in the file.
LEMMA InvStoreNext == ASSUME Inv, StoreNext PROVE Inv'
<1>. DEFINE next == OverStore(file, plan.stores[done + 1])
<1>1. /\ pc = "store" /\ done < Len(plan.stores) /\ done' = done + 1
      /\ file' = next /\ found' = Verdict(save, next)
      /\ UNCHANGED <<pc, exit, old, err, save, plan>>
  BY DEF StoreNext, Becomes, given
<1>2. next \in Seq(Octet) /\ Len(next) = MaxFile
  BY <1>1, StoreFits
<1>3. next = FileAfter(plan.stores, done + 1)
  <2>1. done \in 0..(Len(plan.stores) - 1)
    BY <1>1, InvFacts
  <2>2. QED BY <1>1, <2>1, InvFacts, DiskFacts, FileAfterIs
<1>. HIDE DEF next
<1>4. Verdict(save, next) \in {"nothing", "new", "part"}
  BY Verdicts
<1>5. ~old /\ done + 1 \in 0..Len(plan.stores) /\ Len(next) > 0 /\ Len(next) <= MaxFile
      /\ \A i \in DOMAIN next : next[i] \in Octet
  BY <1>1, <1>2, InvFacts, DiskFacts
<1>6. TypeOK'
  BY <1>1, <1>4, <1>5 DEF Inv, TypeOK, Calls
<1>7. GivenInv'
  BY <1>1, <1>2, <1>4, <1>5 DEF Inv, GivenInv
<1>8. DiskInv'
  BY <1>1, <1>3 DEF DiskInv, OnDisk
<1>9. EndInv'
  BY <1>1 DEF Inv, EndInv
<1>10. QED BY <1>6, <1>7, <1>8, <1>9 DEF Inv

\* No memory for the body buffer: the four stores so far are no save.
LEMMA InvNoBodyBuffer == ASSUME Inv, NoBodyBuffer PROVE Inv'
<1>1. pc = "store" /\ InBuffer(save) /\ done = 4 /\ err' = "CG_NO_MEM" /\ pc' = "munmap"
      /\ exit' = exit /\ UNCHANGED <<save, plan, done, old, file, found>>
  BY DEF NoBodyBuffer, given, disk, Go
<1>2. found = "nothing"
  BY <1>1, InvFacts, DiskFacts DEF ReadsBack
<1>3. TypeOK' /\ GivenInv'
  BY <1>1 DEF Inv, TypeOK, Calls, GivenInv
<1>4. DiskInv' /\ EndInv'
  BY <1>1, <1>2 DEF Inv, DiskInv, OnDisk, EndInv
<1>5. QED BY <1>3, <1>4 DEF Inv

\* file_writer returns, after all stores of its plan.
LEMMA InvFileWritten == ASSUME Inv, FileWritten PROVE Inv'
<1>1. /\ pc = "store" /\ done = Len(plan.stores) /\ plan.end # "killed"
      /\ err' = plan.end /\ pc' = "munmap" /\ exit' = exit
      /\ UNCHANGED <<save, plan, done, old, file, found>>
  BY DEF FileWritten, given, disk, Go
<1>2. plan.end \in {"CG_OK", "CG_COMPRESS"}
  BY <1>1, InvFacts
<1>3. plan.end # "CG_OK" => found = "nothing"
  BY <1>1, <1>2, InvFacts, DiskFacts DEF ReadsBack
<1>4. TypeOK' /\ GivenInv'
  BY <1>1, <1>2 DEF Inv, TypeOK, Calls, GivenInv
<1>5. DiskInv' /\ EndInv'
  BY <1>1, <1>2, <1>3 DEF Inv, DiskInv, OnDisk, EndInv
<1>6. QED BY <1>4, <1>5 DEF Inv

\* The mapping goes, or stays.
LEMMA InvMunmap == ASSUME Inv, Munmap PROVE Inv'
<1>1. pc = "munmap" /\ pc' = "truncate" /\ exit' = exit
      /\ UNCHANGED <<err, save, plan, done, old, file, found>>
  BY DEF Munmap, given, disk, Go
<1>2. TypeOK' /\ GivenInv'
  BY <1>1 DEF Inv, TypeOK, Calls, GivenInv
<1>3. DiskInv' /\ EndInv'
  BY <1>1 DEF Inv, DiskInv, OnDisk, EndInv
<1>4. QED BY <1>2, <1>3 DEF Inv

\* All stores are made when file_writer has returned without an error.
LEMMA AllStored ==
  ASSUME Inv, pc \in {"munmap", "truncate"}, err = "CG_OK"
  PROVE  /\ plan.end = "CG_OK" /\ file = Contents(plan.stores, MaxFile)
         /\ found = "new"
<1>1. plan.end = "CG_OK" /\ done = Len(plan.stores)
  BY DEF Inv, EndInv
<1>2. file = Contents(plan.stores, MaxFile)
  BY <1>1, InvFacts, DiskFacts, FileAfterIs
<1>3. Verdict(save, Contents(plan.stores, MaxFile)) = "new"
  BY <1>1, InvFacts DEF ReadsBack
<1>4. QED BY <1>1, <1>2, <1>3, DiskFacts

\* The zeroes behind the save are cut off, or nothing is, or the truncate fails.
LEMMA InvTruncate == ASSUME Inv, Truncate PROVE Inv'
<1>. DEFINE cut == SubSeq(file, 1, FileSize)
<1>1. /\ pc = "truncate" /\ pc' = "return" /\ exit' = exit
      /\ UNCHANGED <<old, done, err, save, plan>>
      /\ \/ UNCHANGED <<file, found>>
         \/ file' = cut /\ found' = Verdict(save, cut)
  BY DEF Truncate, Go, Becomes, given
<1>2. file \in Seq(Octet) /\ Len(file) = MaxFile /\ MaxFile \in Nat \ {0} /\ ~old
  BY <1>1, InvFacts, DiskFacts
<1>3. CASE err = "CG_OK"
  <2>1. file = Contents(plan.stores, MaxFile) /\ found = "new"
    BY <1>1, <1>3, AllStored
  <2>2. cut = Contents(plan.stores, plan.size)
    <3>1. plan.size \in Nat /\ plan.size <= MaxFile
      BY InvFacts
    <3>2. FileSize = plan.size
      BY <1>3 DEF FileSize
    <3>3. QED BY <1>2, <2>1, <3>1, <3>2, InvFacts, CutBehindStores
  <2>3. cut \in Seq(Octet) /\ Len(cut) = plan.size
    <3>1. plan.size \in Nat
      BY InvFacts
    <3>2. /\ Contents(plan.stores, plan.size) \in Seq(Octet)
          /\ Len(Contents(plan.stores, plan.size)) = plan.size
      BY <3>1, InvFacts, ContentsTyped
    <3>. HIDE DEF cut
    <3>3. QED BY <2>2, <3>2
  <2>4. Verdict(save, cut) = "new"
    <3>1. plan.end = "CG_OK"
      BY <1>1, <1>3, AllStored
    <3>2. QED BY <2>2, <3>1, InvFacts DEF ReadsBack
  <2>. HIDE DEF cut
  <2>5. found' = "new" /\ file' \in Seq(Octet) /\ Len(file') \in {plan.size, MaxFile}
        /\ file' = Contents(plan.stores, Len(file'))
    <3>1. CASE UNCHANGED <<file, found>>
      BY <1>2, <2>1, <3>1
    <3>2. CASE file' = cut /\ found' = Verdict(save, cut)
      BY <2>2, <2>3, <2>4, <3>2
    <3>3. QED BY <1>1, <3>1, <3>2
  <2>6. Saved'
    BY <1>1, <2>5 DEF Saved
  <2>7. Len(file') > 0 /\ Len(file') <= MaxFile /\ \A i \in DOMAIN file' : file'[i] \in Octet
    BY <1>2, <2>5, InvFacts
  <2>8. TypeOK'
    BY <1>1, <1>2, <2>5, <2>7 DEF Inv, TypeOK, Calls
  <2>9. GivenInv' /\ DiskInv'
    BY <1>1, <1>2, <2>5 DEF Inv, GivenInv, DiskInv
  <2>10. EndInv'
    BY <1>1, <1>3, <2>6 DEF Inv, EndInv
  <2>11. QED BY <2>8, <2>9, <2>10 DEF Inv
<1>4. CASE err # "CG_OK"
  <2>1. found = "nothing" /\ found = Verdict(save, file)
    BY <1>1, <1>4, DiskFacts DEF Inv, EndInv
  <2>2. cut = file
    BY <1>2, <1>4, SubSeqFull DEF FileSize
  <2>. HIDE DEF cut
  <2>3. UNCHANGED <<file, found>>
    BY <1>1, <2>1, <2>2
  <2>4. TypeOK' /\ GivenInv'
    BY <1>1, <2>3 DEF Inv, TypeOK, Calls, GivenInv
  <2>5. DiskInv' /\ EndInv'
    BY <1>1, <1>4, <2>1, <2>3 DEF Inv, DiskInv, EndInv
  <2>6. QED BY <2>4, <2>5 DEF Inv
<1>5. QED BY <1>3, <1>4

\* main returns.
LEMMA InvReturn == ASSUME Inv, Return PROVE Inv'
<1>1. /\ pc = "return" /\ pc' = "exited"
      /\ exit' = IF err = "CG_OK" THEN "EXIT_SUCCESS" ELSE "EXIT_FAILURE"
      /\ UNCHANGED <<err, save, plan, done, old, file, found>>
  BY DEF Return, given, disk
<1>2. TypeOK' /\ GivenInv'
  BY <1>1 DEF Inv, TypeOK, Calls, GivenInv
<1>3. DiskInv' /\ EndInv'
  BY <1>1 DEF Inv, DiskInv, EndInv, Saved
<1>4. QED BY <1>2, <1>3 DEF Inv

\* The program dies, and at most the front of one more store is in the file.
LEMMA InvDie == ASSUME Inv, Die PROVE Inv'
<1>1. /\ pc # "exited" /\ pc' = "exited" /\ exit' = "died"
      /\ UNCHANGED <<old, done, err, save, plan>>
      /\ \/ UNCHANGED <<file, found>>
         \/ /\ pc = "store" /\ done < Len(plan.stores)
            /\ \E torn \in Torn(plan.stores[done + 1]) :
                 file' = OverStore(file, torn) /\ found' = Verdict(save, OverStore(file, torn))
  BY DEF Die, Becomes, given
<1>2. DiskInv' /\ EndInv'
  BY <1>1 DEF DiskInv, EndInv
<1>3. CASE UNCHANGED <<file, found>>
  <2>1. TypeOK' /\ GivenInv'
    BY <1>1, <1>3 DEF Inv, TypeOK, Calls, GivenInv
  <2>2. QED BY <1>2, <2>1 DEF Inv
<1>4. CASE ~UNCHANGED <<file, found>>
  <2>1. pc = "store" /\ done < Len(plan.stores)
    BY <1>1, <1>4
  <2>2. PICK torn \in Torn(plan.stores[done + 1]) :
          file' = OverStore(file, torn) /\ found' = Verdict(save, OverStore(file, torn))
    BY <1>1, <1>4
  <2>3. file' \in Seq(Octet) /\ Len(file') = MaxFile
    BY <2>1, <2>2, StoreFits
  <2>4. found' \in {"nothing", "new", "part"} /\ ~old
    BY <2>1, <2>2, Verdicts, DiskFacts
  <2>5. Len(file') > 0 /\ Len(file') <= MaxFile /\ \A i \in DOMAIN file' : file'[i] \in Octet
    BY <2>3, InvFacts
  <2>6. TypeOK' /\ GivenInv'
    BY <1>1, <2>3, <2>4, <2>5 DEF Inv, TypeOK, Calls, GivenInv
  <2>7. QED BY <1>2, <2>6 DEF Inv
<1>5. QED BY <1>3, <1>4

\* Nothing happens.
LEMMA InvStutter == ASSUME Inv, UNCHANGED vars PROVE Inv'
<1>1. TypeOK' /\ GivenInv'
  BY DEF Inv, vars, TypeOK, GivenInv
<1>2. DiskInv' /\ EndInv'
  BY DEF Inv, vars, DiskInv, OnDisk, EndInv, Saved
<1>3. QED BY <1>1, <1>2 DEF Inv

\* Every step keeps the invariant.
THEOREM SpecInv == Spec => []Inv
<1>1. ASSUME Inv, [Next]_vars PROVE Inv'
  <2>1. CASE Open BY <1>1, <2>1, InvOpen
  <2>2. CASE Ftruncate BY <1>1, <2>2, InvFtruncate
  <2>3. CASE Mmap BY <1>1, <2>3, InvMmap
  <2>4. CASE Close BY <1>1, <2>4, InvClose
  <2>5. CASE StoreNext BY <1>1, <2>5, InvStoreNext
  <2>6. CASE NoBodyBuffer BY <1>1, <2>6, InvNoBodyBuffer
  <2>7. CASE FileWritten BY <1>1, <2>7, InvFileWritten
  <2>8. CASE Munmap BY <1>1, <2>8, InvMunmap
  <2>9. CASE Truncate BY <1>1, <2>9, InvTruncate
  <2>10. CASE Return BY <1>1, <2>10, InvReturn
  <2>11. CASE Die BY <1>1, <2>11, InvDie
  <2>12. CASE Ended \/ UNCHANGED vars BY <1>1, <2>12, InvStutter DEF Ended
  <2>13. QED
    BY <1>1, <2>1, <2>2, <2>3, <2>4, <2>5, <2>6, <2>7, <2>8, <2>9, <2>10, <2>11, <2>12 DEF Next
<1>2. QED BY <1>1, InvInit, PTL DEF Spec

\* The types of everything Saving keeps; and the old contents are gone before the file
\* grows and before the first store.
THEOREM SavingTyped == Spec => []TypeOK
<1>1. Inv => TypeOK
  BY DEF Inv
<1>2. QED BY <1>1, SpecInv, PTL

\* When main returns EXIT_SUCCESS the whole save is on disk and nothing but zeroes behind
\* it, although the failures of close, munmap and truncate are only printed.
THEOREM SuccessIsSaved == Spec => []SuccessMeansSaved
<1>1. Inv => SuccessMeansSaved
  BY DEF Inv, EndInv, Saved, SuccessMeansSaved
<1>2. QED BY <1>1, SpecInv, PTL
-----------------------------------------------------------------------------
(* The refinement of Output, step by step. *)

\* Nobody has been told anything before the program has ended.
LEMMA ToldNothing == ASSUME Inv, pc # "exited" PROVE exit = "none" /\ Told = "nothing yet"
BY DEF Inv, EndInv, Told

\* What the user is told follows from the exit code.
LEMMA ToldIs ==
  /\ exit = "EXIT_SUCCESS" => Told = "success"
  /\ exit = "EXIT_FAILURE" => Told = "failure"
  /\ exit = "died" => Told = "died"
  /\ exit = "none" => Told = "nothing yet"
BY DEF Told

\* The same after a step.
LEMMA ToldNext ==
  /\ exit' = "EXIT_SUCCESS" => Told' = "success"
  /\ exit' = "EXIT_FAILURE" => Told' = "failure"
  /\ exit' = "died" => Told' = "died"
  /\ exit' = "none" => Told' = "nothing yet"
BY DEF Told

\* A step between two calls that changes what is found in a way Output knows.
LEMMA Works ==
  ASSUME Inv, pc # "exited", exit' = exit, save' = save,
         \/ found' = found
         \/ found = "old" /\ found' = "nothing"
         \/ found = "nothing" /\ found' = "new"
         \/ ~InBuffer(save) /\ found # "old" /\ found' \in {"nothing", "part", "new"}
  PROVE  [O!Next]_(O!vars)
<1>1. Told = "nothing yet" /\ Told' = "nothing yet"
  BY ToldNothing, ToldNext
<1>2. (~InBuffer(save))' = ~InBuffer(save)
  OBVIOUS
<1>3. CASE found' = found
  BY <1>1, <1>2, <1>3 DEF O!vars
<1>4. CASE found' # found
  BY <1>1, <1>2, <1>4 DEF O!Next, O!Work, O!GiveUp, O!Grow
<1>5. QED BY <1>3, <1>4

\* Once file_writer has begun, the user is told of failure only if nothing is found.
LEMMA GivesUp ==
  ASSUME Inv, pc # "exited", exit' = "EXIT_FAILURE", save' = save, found' = found,
         found \in {"old", "nothing"}
  PROVE  [O!Next]_(O!vars)
<1>1. Told = "nothing yet" /\ Told' = "failure"
  BY ToldNothing, ToldNext
<1>2. (~InBuffer(save))' = ~InBuffer(save)
  OBVIOUS
<1>3. QED BY <1>1, <1>2 DEF O!Next, O!Fail

\* One store more, or the front of one: of a compressed save nothing or everything is
\* found, and it stays.
LEMMA StoreGrows ==
  ASSUME Inv, pc = "store", done < Len(plan.stores),
         NEW x \in {plan.stores[done + 1]} \cup Torn(plan.stores[done + 1]),
         NEW after, after = Verdict(save, OverStore(file, x))
  PROVE  \/ after = found
         \/ found = "nothing" /\ after = "new"
         \/ ~InBuffer(save) /\ found # "old" /\ after \in {"nothing", "part", "new"}
<1>1. found = Verdict(save, file) /\ file = FileAfter(plan.stores, done)
  BY DiskFacts
<1>2. found \in {"nothing", "new", "part"} /\ after \in {"nothing", "new", "part"}
  BY <1>1, Verdicts
<1>3. CASE ~InBuffer(save)
  BY <1>2, <1>3
<1>4. CASE InBuffer(save)
  <2>. DEFINE k == done + 1
  <2>1. k \in 1..Len(plan.stores) /\ k - 1 = done
    BY InvFacts
  <2>2. Appears(Verdict(save, FileAfter(plan.stores, k - 1)),
                Verdict(save, OverStore(FileAfter(plan.stores, k - 1), x)))
    BY <1>4, <2>1, InvFacts DEF AtOneStroke
  <2>3. Appears(found, after)
    BY <1>1, <2>1, <2>2
  <2>4. QED BY <1>2, <2>3 DEF Appears
<1>5. QED BY <1>3, <1>4

\* Death leaves what is there, or the front of one more store.
LEMMA DieMaps == ASSUME Inv, Die PROVE [O!Next]_(O!vars)
<1>1. pc # "exited" /\ exit' = "died" /\ save' = save
      /\ \/ found' = found
         \/ /\ pc = "store" /\ done < Len(plan.stores)
            /\ \E torn \in Torn(plan.stores[done + 1]) :
                 found' = Verdict(save, OverStore(file, torn))
  BY DEF Die, Becomes, given
<1>2. Told = "nothing yet" /\ Told' = "died"
  BY <1>1, ToldNothing, ToldNext
<1>3. \/ found' = found
      \/ found = "nothing" /\ found' = "new"
      \/ ~InBuffer(save) /\ found # "old" /\ found' \in {"nothing", "part", "new"}
  BY <1>1, StoreGrows
<1>4. (~InBuffer(save))' = ~InBuffer(save)
  BY <1>1
<1>5. QED BY <1>2, <1>3, <1>4 DEF O!Next, O!Die, O!Grow

\* The end of main: success if all is there, failure if nothing is.
LEMMA ReturnMaps == ASSUME Inv, Return PROVE [O!Next]_(O!vars)
<1>1. /\ pc = "return" /\ found' = found /\ save' = save
      /\ exit' = IF err = "CG_OK" THEN "EXIT_SUCCESS" ELSE "EXIT_FAILURE"
  BY DEF Return, given, disk
<1>2. IF err = "CG_OK" THEN found = "new" ELSE found = "nothing"
  BY <1>1 DEF Inv, EndInv, Saved
<1>3. CASE err = "CG_OK"
  <2>1. Told = "nothing yet" /\ Told' = "success"
    BY <1>1, <1>3, ToldNothing, ToldNext
  <2>2. (~InBuffer(save))' = ~InBuffer(save)
    BY <1>1
  <2>3. QED BY <1>1, <1>2, <1>3, <2>1, <2>2 DEF O!Next, O!Succeed
<1>4. CASE err # "CG_OK"
  BY <1>1, <1>2, <1>4, GivesUp
<1>5. QED BY <1>3, <1>4

\* Every step of Saving is one of Output, or changes nothing there.
LEMMA StepMaps == ASSUME Inv, Inv', [Next]_vars PROVE [O!Next]_(O!vars)
<1>1. CASE Open
  <2>1. pc = "open" /\ found = "old" /\ save' = save
    BY <1>1 DEF Open, given, Inv, GivenInv
  <2>2. CASE exit' = "EXIT_FAILURE" /\ found' = found
    BY <2>1, <2>2, GivesUp
  <2>3. CASE exit' = exit /\ found' = Verdict(save, <<>>)
    BY <2>1, <2>3, EmptyIsNothing, Works
  <2>4. QED BY <1>1, <2>2, <2>3 DEF Open, GiveUp, disk, Go, Becomes
<1>2. CASE Ftruncate
  <2>1. pc = "ftruncate" /\ found = "nothing" /\ save' = save
    BY <1>2 DEF Ftruncate, given, Inv, DiskInv
  <2>2. CASE exit' = "EXIT_FAILURE" /\ found' = found
    BY <2>1, <2>2, GivesUp
  <2>3. CASE exit' = exit /\ found' = Verdict(save, Contents(<<>>, MaxFile))
    BY <2>1, <2>3, EmptyIsNothing, Works
  <2>4. QED BY <1>2, <2>2, <2>3 DEF Ftruncate, GiveUp, disk, Go, Becomes
<1>3. CASE Mmap
  <2>1. pc = "mmap" /\ save' = save /\ found' = found
    BY <1>3 DEF Mmap, given, GiveUp, disk
  <2>2. found = "nothing"
    <3>1. done = 0
      BY <2>1 DEF Inv, DiskInv
    <3>2. found = Verdict(save, Contents(<<>>, MaxFile))
      BY <2>1, <3>1, InvFacts, DiskFacts, FileAfterIs
    <3>3. QED BY <3>2, EmptyIsNothing
  <2>3. CASE exit' = "EXIT_FAILURE"
    BY <2>1, <2>2, <2>3, GivesUp
  <2>4. CASE exit' = exit
    BY <2>1, <2>4, Works
  <2>5. QED BY <1>3, <2>3, <2>4 DEF Mmap, GiveUp, Go
<1>4. CASE Close
  BY <1>4, Works DEF Close, Go, disk, given
<1>5. CASE StoreNext
  <2>1. /\ pc = "store" /\ done < Len(plan.stores) /\ exit' = exit /\ save' = save
        /\ found' = Verdict(save, OverStore(file, plan.stores[done + 1]))
    BY <1>5 DEF StoreNext, Becomes, given
  <2>2. QED BY <2>1, StoreGrows, Works
<1>6. CASE NoBodyBuffer
  BY <1>6, Works DEF NoBodyBuffer, Go, disk, given
<1>7. CASE FileWritten
  BY <1>7, Works DEF FileWritten, Go, disk, given
<1>8. CASE Munmap
  BY <1>8, Works DEF Munmap, Go, disk, given
<1>9. CASE Truncate
  <2>1. pc = "truncate" /\ pc' = "return" /\ exit' = exit /\ save' = save /\ err' = err
    BY <1>9 DEF Truncate, Go, given
  <2>2. found' = found
    <3>1. CASE err = "CG_OK"
      BY <2>1, <3>1, AllStored DEF Inv, EndInv, Saved
    <3>2. CASE err # "CG_OK"
      BY <2>1, <3>2 DEF Inv, EndInv
    <3>3. QED BY <3>1, <3>2
  <2>3. QED BY <2>1, <2>2, Works
<1>10. CASE Return
  BY <1>10, ReturnMaps
<1>11. CASE Die
  BY <1>11, DieMaps
<1>12. CASE Ended \/ UNCHANGED vars
  <2>1. UNCHANGED <<save, found, exit>>
    BY <1>12 DEF Ended, vars
  <2>2. (~InBuffer(save))' = ~InBuffer(save) /\ Told' = Told
    BY <2>1 DEF Told
  <2>3. QED BY <2>1, <2>2 DEF O!vars
<1>13. QED
  BY <1>1, <1>2, <1>3, <1>4, <1>5, <1>6, <1>7, <1>8, <1>9, <1>10, <1>11, <1>12 DEF Next

\* The safety half of the promise: wherever cengine_savefile_write fails or dies, a reader
\* finds no part of a compressed save; a complete one stays; success is told when the
\* save is there, failure when there is none of it.
THEOREM SavingImplementsSteps == Spec => O!Init /\ [][O!Next]_(O!vars)
<1>1. Init => O!Init
  BY DEF Init, O!Init, Told
<1>2. QED BY <1>1, StepMaps, SpecInv, PTL DEF Spec
===============================================================================

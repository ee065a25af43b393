--------------------------- MODULE SaveWriterProofs ---------------------------
(***************************************************************************)
(* The invariants of SaveWriter, for any format, any room in the buffers   *)
(* and any sizes of what is written.                                       *)
(*                                                                         *)
(* Whatever file_writer does is one of three things to the buffers: it     *)
(* puts so many bytes behind a cursor (Puts), it moves on without a store, *)
(* or it stops for good (Stops).  The first part shows that for every      *)
(* action; the second shows what the three do to each invariant.           *)
(***************************************************************************)
EXTENDS SaveWriter, FiniteSetTheorems, SequenceTheorems, TLAPS

Plus(sum, w) == sum + w

Sums == INSTANCE FoldFacts WITH Op <- Plus
Loads == INSTANCE FoldFacts WITH Op <- Taken
-----------------------------------------------------------------------------
(* What the operators compute. *)

\* The sum of a run of widths is a fold.
LEMMA TotalIsFold == \A w : Total(w) = Sums!Fold(0, w)
BY DEF Total, FoldLeft, MapThenFoldSet, Max, Plus, Sums!Fold, Sums!Folds, Sums!Top

\* And so is a cursor after the stores of the run.
LEMMA TakenAllIsFold == \A c, w : TakenAll(c, w) = Loads!Fold(c, w)
BY DEF TakenAll, FoldLeft, MapThenFoldSet, Max, Loads!Fold, Loads!Folds, Loads!Top

\* No widths add up to nothing.
LEMMA TotalEmpty == Total(<<>>) = 0
BY TotalIsFold, Sums!FoldEmpty

\* One more width adds itself.
LEMMA TotalAppend ==
  ASSUME NEW w \in Seq(Nat), NEW x \in Nat
  PROVE  Total(Append(w, x)) = Total(w) + x
BY TotalIsFold, Sums!FoldAppend DEF Plus

\* A sum of widths is a number of bytes.
LEMMA TotalNat == \A w \in Seq(Nat) : Total(w) \in Nat
<1>. DEFINE T == {w \in Seq(Nat) : Total(w) \in Nat}
<1>1. <<>> \in T
  BY TotalEmpty
<1>2. ASSUME NEW w \in Seq(Nat), NEW x \in Nat, w \in T PROVE Append(w, x) \in T
  <2>1. Append(w, x) \in Seq(Nat)
    OBVIOUS
  <2>2. Total(w) \in Nat /\ Total(Append(w, x)) = Total(w) + x
    BY <1>2, TotalAppend
  <2>3. QED BY <2>1, <2>2
<1>. HIDE DEF T
<1>3. Seq(Nat) \subseteq T
  BY <1>1, <1>2, Sums!SeqInduction
<1>4. QED BY <1>3 DEF T

\* The two sizes in front of a compressed body, and the header of a global data.
LEMMA TotalOfTwo == Total(<<4, 4>>) = 8
<1>. DEFINE one == Append(<<>>, 4)  two == Append(one, 4)  pair == <<4, 4>>
<1>1. <<>> \in Seq(Nat) /\ one \in Seq(Nat) /\ two \in Seq(Nat) /\ pair \in Seq(Nat)
  OBVIOUS
<1>2. Len(two) = 2 /\ two[1] = 4 /\ two[2] = 4
  OBVIOUS
<1>3. Len(pair) = 2 /\ pair[1] = 4 /\ pair[2] = 4
  OBVIOUS
<1>4. \A i \in 1..2 : i = 1 \/ i = 2
  OBVIOUS
<1>5. Total(one) = Total(<<>>) + 4
  BY <1>1, TotalAppend
<1>. HIDE DEF one
<1>6. Total(two) = Total(one) + 4
  BY <1>1, TotalAppend
<1>. HIDE DEF two, pair
<1>7. pair = two
  BY <1>1, <1>2, <1>3, <1>4, SeqEqual
<1>8. Total(pair) = 8
  BY <1>5, <1>6, <1>7, TotalEmpty
<1>9. QED BY <1>8 DEF pair

\* A cursor c that became d when bytes were asked of it.
Moved(c, d, bytes) ==
    /\ d \in Cursor
    /\ d.n = c.n - bytes
    /\ c.pos <= d.pos /\ d.pos <= c.pos + bytes
    /\ d.n >= 0 => d.pos = c.pos + bytes

\* Any run of stores moves a cursor by what it asks for.
LEMMA TakenAllMoves ==
  ASSUME NEW c \in Cursor
  PROVE  \A w \in Seq(Nat) : Moved(c, TakenAll(c, w), Total(w))
<1>. DEFINE T == {w \in Seq(Nat) : Moved(c, TakenAll(c, w), Total(w))}
<1>1. <<>> \in T
  <2>1. TakenAll(c, <<>>) = c /\ Total(<<>>) = 0
    BY TakenAllIsFold, Loads!FoldEmpty, TotalEmpty
  <2>2. Moved(c, c, 0)
    BY DEF Moved, Cursor
  <2>3. QED BY <2>1, <2>2
<1>2. ASSUME NEW w \in Seq(Nat), NEW x \in Nat, w \in T PROVE Append(w, x) \in T
  <2>. DEFINE d == TakenAll(c, w)  t == Total(w)
  <2>1. Append(w, x) \in Seq(Nat)
    OBVIOUS
  <2>2. TakenAll(c, Append(w, x)) = Taken(d, x)
    BY TakenAllIsFold, Loads!FoldAppend
  <2>3. Total(Append(w, x)) = t + x /\ t \in Nat
    BY TotalAppend, TotalNat
  <2>4. Moved(c, d, t)
    BY <1>2
  <2>. HIDE DEF d, t
  <2>5. Moved(c, Taken(d, x), t + x)
    <3>1. c.pos \in Nat /\ c.n \in Int /\ d.pos \in Nat /\ d.n \in Int
      BY <2>4 DEF Moved, Cursor
    <3>2. CASE d.n - x >= 0
      <4>1. Taken(d, x) = [pos |-> d.pos + x, n |-> d.n - x]
        BY <3>2 DEF Taken, Fits
      <4>2. Taken(d, x) \in Cursor
        BY <3>1, <4>1 DEF Cursor
      <4>3. Taken(d, x).pos = d.pos + x /\ Taken(d, x).n = d.n - x
        BY <4>1
      <4>. DEFINE e == Taken(d, x)
      <4>. HIDE DEF e
      <4>4. e \in Cursor /\ e.pos = d.pos + x /\ e.n = d.n - x
        BY <4>2, <4>3 DEF e
      <4>5. d.n = c.n - t /\ d.pos = c.pos + t
        BY <2>4, <3>1, <3>2 DEF Moved
      <4>6. e.n = c.n - (t + x) /\ c.pos <= e.pos /\ e.pos = c.pos + (t + x)
        BY SMTT(30), <2>3, <3>1, <4>4, <4>5
      <4>7. e.pos <= c.pos + (t + x)
        BY <3>1, <4>4, <4>6
      <4>8. Moved(c, e, t + x)
        BY <4>4, <4>6, <4>7 DEF Moved
      <4>9. QED BY <4>8 DEF e
    <3>3. CASE ~(d.n - x >= 0)
      <4>1. Taken(d, x) = [pos |-> d.pos, n |-> d.n - x]
        BY <3>3 DEF Taken, Fits
      <4>2. Taken(d, x) \in Cursor
        BY <3>1, <4>1 DEF Cursor
      <4>3. Taken(d, x).pos = d.pos /\ Taken(d, x).n = d.n - x
        BY <4>1
      <4>. DEFINE e == Taken(d, x)
      <4>. HIDE DEF e
      <4>4. e \in Cursor /\ e.pos = d.pos /\ e.n = d.n - x
        BY <4>2, <4>3 DEF e
      <4>5. d.n = c.n - t /\ c.pos <= d.pos /\ d.pos <= c.pos + t
        BY <2>4 DEF Moved
      <4>6. e.n = c.n - (t + x) /\ c.pos <= e.pos /\ e.pos <= c.pos + (t + x) /\ ~(e.n >= 0)
        BY SMTT(30), <2>3, <3>1, <3>3, <4>4, <4>5
      <4>7. Moved(c, e, t + x)
        BY <4>4, <4>6 DEF Moved
      <4>8. QED BY <4>7 DEF e
    <3>4. QED BY <3>2, <3>3
  <2>6. QED BY <2>1, <2>2, <2>3, <2>5
<1>. HIDE DEF T
<1>3. Seq(Nat) \subseteq T
  BY <1>1, <1>2, Loads!SeqInduction
<1>4. QED BY <1>3 DEF T

\* So does assembler.
LEMMA AssemblerMoves ==
  ASSUME NEW c \in Cursor, NEW w \in Seq(Nat), NEW size \in Nat
  PROVE  Moved(c, Advanced(TakenAll(c, w), size), Total(w) + size)
<1>. DEFINE d == TakenAll(c, w)  t == Total(w)
<1>1. Moved(c, d, t) /\ t \in Nat
  BY TakenAllMoves, TotalNat
<1>. HIDE DEF d, t
<1>2. c.pos \in Nat /\ c.n \in Int /\ d.pos \in Nat /\ d.n \in Int
  BY <1>1 DEF Moved, Cursor
<1>3. Moved(c, Advanced(d, size), t + size)
  <2>1. Advanced(d, size) \in Cursor
    BY <1>2 DEF Advanced, Cursor
  <2>2. Advanced(d, size).pos = d.pos + size /\ Advanced(d, size).n = d.n - size
    BY DEF Advanced
  <2>. DEFINE e == Advanced(d, size)
  <2>. HIDE DEF e
  <2>3. d.n = c.n - t /\ c.pos <= d.pos /\ d.pos <= c.pos + t /\ (d.n >= 0 => d.pos = c.pos + t)
    BY <1>1 DEF Moved
  <2>4. e \in Cursor /\ e.pos = d.pos + size /\ e.n = d.n - size
    BY <2>1, <2>2 DEF e
  <2>5. e.n = c.n - (t + size) /\ c.pos <= e.pos /\ e.pos <= c.pos + (t + size)
    BY SMTT(30), <1>1, <1>2, <2>3, <2>4
  <2>6. e.n >= 0 => e.pos = c.pos + (t + size)
    BY SMTT(30), <1>1, <1>2, <2>3, <2>4
  <2>7. Moved(c, e, t + size)
    BY <2>4, <2>5, <2>6 DEF Moved
  <2>8. QED BY <2>7 DEF e
<1>4. QED BY <1>3 DEF d, t

\* Unsigned arithmetic that does not wrap around.
LEMMA ModOfSmall ==
  ASSUME NEW x \in Nat, x < UintMod
  PROVE  x % UintMod = x
BY WriterAssumption DEF WriterAssumption

\* Unsigned arithmetic stays in its range.
LEMMA ModInRange ==
  ASSUME NEW x \in Int, UintMod > 0
  PROVE  x % UintMod \in 0..(UintMod - 1)
BY WriterAssumption DEF WriterAssumption
-----------------------------------------------------------------------------
(* Sequences of stores that grow by one. *)

Stores == [what : DOMAIN Rank, in : Buffers, from : Nat, size : Nat]

\* What is said of the stores so far stays true.
LEMMA EndsAtStays ==
  ASSUME NEW S, NEW ps \in Seq(S), NEW p \in S, NEW b, NEW k \in 0..Len(ps), NEW e,
         EndsAt(ps, b, k, e)
  PROVE  EndsAt(Append(ps, p), b, k, e)
<1>1. \A i \in 1..k : Append(ps, p)[i] = ps[i]
  OBVIOUS
<1>2. QED BY <1>1 DEF EndsAt

\* A store elsewhere does not move the end.
LEMMA EndsAtBeside ==
  ASSUME NEW S, NEW ps \in Seq(S), NEW p \in S, NEW b, NEW e,
         p.in # b, EndsAt(ps, b, Len(ps), e)
  PROVE  EndsAt(Append(ps, p), b, Len(ps) + 1, e)
<1>. DEFINE n == Len(ps)  qs == Append(ps, p)
<1>1. n \in Nat /\ (\A i \in 1..n : qs[i] = ps[i]) /\ qs[n + 1] = p
  OBVIOUS
<1>2. \A i \in 1..(n + 1) : i \in 1..n \/ i = n + 1
  OBVIOUS
<1>. HIDE DEF n, qs
<1>3. CASE e = 0 /\ \A i \in 1..n : ps[i].in # b
  <2>1. \A i \in 1..(n + 1) : qs[i].in # b
    BY <1>1, <1>2, <1>3
  <2>2. QED BY <1>3, <2>1 DEF EndsAt, n, qs
<1>4. ASSUME NEW i \in 1..n, ps[i].in = b, ps[i].from + ps[i].size = e,
             \A j \in (i + 1)..n : ps[j].in # b
      PROVE  EndsAt(qs, b, n + 1, e)
  <2>1. i \in 1..(n + 1) /\ qs[i] = ps[i]
    BY <1>1
  <2>2. \A j \in (i + 1)..(n + 1) : j \in (i + 1)..n \/ j = n + 1
    BY <1>1
  <2>3. \A j \in (i + 1)..n : j \in 1..n
    BY <1>1
  <2>4. \A j \in (i + 1)..(n + 1) : qs[j].in # b
    BY <1>1, <1>4, <2>2, <2>3
  <2>5. QED BY <1>4, <2>1, <2>4 DEF EndsAt
<1>5. EndsAt(ps, b, n, e)
  BY DEF n
<1>6. EndsAt(qs, b, n + 1, e)
  BY <1>3, <1>4, <1>5 DEF EndsAt, n, qs
<1>7. QED BY <1>6 DEF n, qs

\* The last store ends where its bytes do.
LEMMA EndsAtLast ==
  ASSUME NEW S, NEW ps \in Seq(S), NEW p \in S
  PROVE  EndsAt(Append(ps, p), p.in, Len(ps) + 1, p.from + p.size)
<1>. DEFINE n == Len(ps)  qs == Append(ps, p)
<1>1. n \in Nat /\ qs[n + 1] = p
  OBVIOUS
<1>. HIDE DEF n, qs
<1>2. n + 1 \in 1..(n + 1) /\ (n + 1 + 1)..(n + 1) = {}
  BY <1>1
<1>3. EndsAt(qs, p.in, n + 1, p.from + p.size)
  BY <1>1, <1>2 DEF EndsAt
<1>4. QED BY <1>3 DEF n, qs

\* One more store where the last one ended.
LEMMA TiledNext ==
  ASSUME NEW ps \in Seq(Stores), NEW p \in Stores,
         Tiled(ps), EndsAt(ps, p.in, Len(ps), p.from)
  PROVE  Tiled(Append(ps, p))
<1>. DEFINE n == Len(ps)  qs == Append(ps, p)
<1>1. n \in Nat /\ Len(qs) = n + 1 /\ (\A i \in 1..n : qs[i] = ps[i]) /\ qs[n + 1] = p
  OBVIOUS
<1>2. ASSUME NEW i \in 1..n PROVE EndsAt(qs, qs[i].in, i - 1, qs[i].from)
  <2>1. EndsAt(ps, ps[i].in, i - 1, ps[i].from) /\ i - 1 \in 0..Len(ps)
    BY DEF Tiled
  <2>2. EndsAt(qs, ps[i].in, i - 1, ps[i].from)
    BY <2>1, EndsAtStays
  <2>3. QED BY <1>1, <2>2
<1>3. EndsAt(qs, p.in, n, p.from)
  BY EndsAtStays
<1>4. (n + 1) - 1 = n /\ \A i \in 1..(n + 1) : i \in 1..n \/ i = n + 1
  OBVIOUS
<1>. HIDE DEF n, qs
<1>5. \A i \in 1..(n + 1) : EndsAt(qs, qs[i].in, i - 1, qs[i].from)
  BY <1>1, <1>2, <1>3, <1>4
<1>6. QED BY <1>1, <1>5 DEF Tiled, qs

Number(ps, what) == Cardinality({i \in DOMAIN ps : ps[i].what = what})

\* The stores of a kind are counted one by one.
LEMMA NumberNext ==
  ASSUME NEW S, NEW ps \in Seq(S), NEW p \in S, NEW what
  PROVE  /\ Number(ps, what) \in Nat
         /\ Number(Append(ps, p), what) = Number(ps, what) + (IF p.what = what THEN 1 ELSE 0)
<1>. DEFINE n == Len(ps)  qs == Append(ps, p)
            I == {i \in 1..n : ps[i].what = what}
            J == {i \in 1..(n + 1) : qs[i].what = what}
<1>1. n \in Nat /\ DOMAIN ps = 1..n /\ DOMAIN qs = 1..(n + 1)
  OBVIOUS
<1>2. (\A i \in 1..n : qs[i] = ps[i]) /\ qs[n + 1] = p
  OBVIOUS
<1>3. \A i : i \in 1..(n + 1) <=> i \in 1..n \/ i = n + 1
  OBVIOUS
<1>4. n + 1 \notin 1..n
  OBVIOUS
<1>5. IsFiniteSet(1..n)
  BY <1>1, FS_Interval
<1>6. IsFiniteSet(I) /\ Cardinality(I) \in Nat
  BY <1>5, FS_Subset, FS_CardinalityType
<1>7. Number(ps, what) = Cardinality(I) /\ Number(qs, what) = Cardinality(J)
  BY <1>1 DEF Number
<1>8. CASE p.what = what
  <2>1. J = I \cup {n + 1} /\ n + 1 \notin I
    BY <1>2, <1>3, <1>4, <1>8
  <2>2. Cardinality(J) = Cardinality(I) + 1
    BY <1>6, <2>1, FS_AddElement
  <2>. HIDE DEF I, J, qs
  <2>3. QED BY <1>6, <1>7, <1>8, <2>2 DEF qs
<1>9. CASE p.what # what
  <2>1. J = I
    BY <1>2, <1>3, <1>9
  <2>. HIDE DEF I, J, qs
  <2>3. QED BY <1>6, <1>7, <1>9, <2>1 DEF qs
<1>10. QED BY <1>8, <1>9

\* There are none of a kind that no store is.
LEMMA NumberNone ==
  ASSUME NEW ps, NEW what, \A i \in DOMAIN ps : ps[i].what # what
  PROVE  Number(ps, what) = 0
<1>1. {i \in DOMAIN ps : ps[i].what = what} = {}
  OBVIOUS
<1>2. QED BY <1>1, FS_EmptySet DEF Number
-----------------------------------------------------------------------------
(* The invariants. *)

FilePcs == {"signature", "header", "snapshot", "body"}
Ends == {"done", "killed", "overrun"}

\* Writing has not gone wrong.
Alive == pc \notin Ends \/ Written

\* file_writer is at the body or behind it.
InBody == Alive /\ pc \notin FilePcs

\* The body is in the file, behind 8 bytes that nobody fills.
Gap == home = "file" /\ supports_save_file_compression

\* What a cursor says of its buffer, although most stores are not checked: the
\* distance is what was not asked for, and as long as it is not negative the
\* pointer stands behind all that was asked for.
Account(c) ==
    /\ cur[c].n = max[In(c)] - asked[In(c)]
    /\ cur[c].pos <= asked[In(c)]
    /\ cur[c].n >= 0 => cur[c].pos = asked[In(c)]

AccountInv ==
    /\ max.file \in FileRooms /\ max.body_buffer = BodyRoom
    /\ pc # "done" => err = "CG_OK"
    /\ pc \in FilePcs => home = "file" /\ offset_var = 0 /\ asked.body_buffer = 0
    /\ pc \in FilePcs => Account("file")
    /\ InBody => Account("body")
    /\ InBody /\ home = "body_buffer" => Account("file")
    /\ pc = "finish" \/ Written => cur.body.n >= 0
    /\ Written => file_size = max.file - (IF home = "file" THEN cur.body.n ELSE cur.file.n)
    /\ home = "body_buffer" => supports_save_file_compression
    /\ Written => ~Gap
    /\ err = "CG_EOF" \/ pc = "overrun" => \E b \in Buffers : asked[b] > max[b]

\* Where the next store of each buffer goes.
PlaceInv ==
    /\ Alive /\ home = "file" => \A i \in DOMAIN parts : parts[i].in = "file"
    /\ pc \in FilePcs \/ (InBody /\ ~Gap) => Tiled(parts)
    /\ pc \in FilePcs /\ cur.file.n >= 0 => EndsAt(parts, "file", Len(parts), cur.file.pos)
    /\ InBody /\ ~Gap /\ cur.body.n >= 0 => EndsAt(parts, home, Len(parts), cur.body.pos)
    /\ InBody /\ home = "body_buffer" /\ cur.file.n >= 0 =>
         EndsAt(parts, "file", Len(parts), cur.file.pos)

Globals == {"globals1", "globals2", "globals3"}

CountInv ==
    /\ pc \in FilePcs =>
         /\ \A i \in DOMAIN parts : parts[i].what \in {"signature", "header", "snapshot"}
         /\ \A t \in Counts : locations.num[t] = 0
    /\ InBody /\ cur.body.n >= 0 =>
         /\ \A t \in Counts \ {"globals3"} : locations.num[t] = HowMany(t)
         /\ locations.num["globals3"] = IF pc \in {"finish", "done"}
                                        THEN StoredCount(HowMany("globals3"))
                                        ELSE HowMany("globals3")
         /\ HowMany("globals1") + HowMany("globals2") + HowMany("globals3") <= asked[home]

\* How far the body has come.
Stage == [version |-> 0, plugins |-> 0, locations |-> 0, globals1 |-> 1, globals2 |-> 2,
          change_forms |-> 3, globals3 |-> 4, world_spaces |-> 5, unknown3 |-> 6,
          finish |-> 7, done |-> 7]

\* An offset leads to the first store of its table, or to where it will be.
Led(t) ==
    \/ /\ pc \notin {"finish", "done"}
       /\ \A i \in DOMAIN parts : parts[i].in = home => Rank[parts[i].what] < Rank[t]
       /\ locations.off[t] = cur.body.pos - offset_var
    \/ \E i \in DOMAIN parts : /\ Leads(parts, i, t)
                               /\ locations.off[t] = parts[i].from - offset_var

\* Every store so far was inside its buffer.
AllStored == /\ InBody /\ ~Gap /\ cur.body.n >= 0
             /\ home = "body_buffer" => cur.file.n >= 0

OffsetInv ==
    /\ InBody /\ home = "file" /\ ~Gap => offset_var = 0
    /\ InBody /\ home = "body_buffer" /\ pc # "done" => offset_var = 0 - cur.file.pos
    /\ Written /\ home = "body_buffer" /\ cur.file.n >= 0 =>
         \E i \in DOMAIN parts : parts[i].what = "compressed" /\ parts[i].from = 0 - offset_var
    /\ AllStored =>
         /\ \A i \in DOMAIN parts : parts[i].in = home => Rank[parts[i].what] <= Stage[pc]
         /\ \A t \in Offsets : Rank[t] <= Stage[pc] => Led(t)

Inv == TypeOK /\ AccountInv /\ PlaceInv /\ CountInv /\ OffsetInv
-----------------------------------------------------------------------------
(* What the actions do to the buffers. *)

Cursors == {"file", "body"}

\* So many bytes are asked of the buffer of c; if there is room they are a store.
Puts(what, c, bytes) ==
    /\ Moved(cur[c], cur'[c], bytes)
    /\ cur' = [cur EXCEPT ![c] = cur'[c]]
    /\ parts' = IF cur[c].n - bytes >= 0
                THEN Append(parts, Part(what, c, cur[c].pos, bytes)) ELSE parts
    /\ Ask(c, bytes)

\* A run of stores that nobody checks is a put.
LEMMA StorePuts ==
  ASSUME TypeOK, NEW c \in Cursors, NEW what, NEW w \in Seq(Nat), Store(what, c, w)
  PROVE  Puts(what, c, Total(w))
<1>1. cur \in [Cursors -> Cursor]
  BY DEF TypeOK, Cursors
<1>2. cur[c] \in Cursor
  BY <1>1
<1>3. cur' = [cur EXCEPT ![c] = TakenAll(cur[c], w)]
  BY DEF Store
<1>4. cur'[c] = TakenAll(cur[c], w)
  BY <1>1, <1>3
<1>5. Moved(cur[c], cur'[c], Total(w))
  BY <1>2, <1>4, TakenAllMoves
<1>6. cur' = [cur EXCEPT ![c] = cur'[c]]
  BY <1>3, <1>4
<1>7. QED BY <1>5, <1>6 DEF Puts, Store, Fits

\* What assembler stores is a put of header and data.
LEMMA AssemblerPuts ==
  ASSUME TypeOK, NEW c \in Cursors, NEW what, NEW w \in Seq(Nat), NEW size \in Nat,
         assembler(what, c, w, size), Ask(c, Total(w) + size)
  PROVE  Puts(what, c, Total(w) + size)
<1>1. cur \in [Cursors -> Cursor]
  BY DEF TypeOK, Cursors
<1>2. cur[c] \in Cursor
  BY <1>1
<1>3. cur' = [cur EXCEPT ![c] = Advanced(TakenAll(cur[c], w), size)]
  BY DEF assembler
<1>4. cur'[c] = Advanced(TakenAll(cur[c], w), size)
  BY <1>1, <1>3
<1>5. Moved(cur[c], cur'[c], Total(w) + size)
  BY <1>2, <1>4, AssemblerMoves
<1>6. cur' = [cur EXCEPT ![c] = cur'[c]]
  BY <1>3, <1>4
<1>7. QED BY <1>5, <1>6 DEF Puts, assembler, Fits

\* Too much was asked of some buffer.
Exceeded == \E b \in Buffers : asked[b] > max[b]

\* The numbers behind an account.
LEMMA AccountNumbers ==
  ASSUME TypeOK, AccountInv, NEW c \in Cursors
  PROVE  /\ In(c) \in Buffers
         /\ cur[c] \in Cursor /\ cur[c].pos \in Nat /\ cur[c].n \in Int
         /\ max[In(c)] \in Nat /\ max[In(c)] < UintMod
         /\ asked[In(c)] \in Nat
         /\ UintMod \in Nat /\ UintMod > 0
<1>1. In(c) \in Buffers
  BY DEF In, TypeOK, Cursors, Buffers
<1>2. cur[c] \in Cursor
  BY DEF TypeOK, Cursors
<1>3. cur[c].pos \in Nat /\ cur[c].n \in Int
  BY <1>2 DEF Cursor
<1>4. max[In(c)] \in Nat /\ asked[In(c)] \in Nat
  BY <1>1 DEF TypeOK
<1>5. max.file < UintMod /\ max.body_buffer < UintMod /\ UintMod \in Nat
  <2>1. max.file \in Nat /\ BodyRoom \in Nat /\ UintMod \in Nat
    BY WriterAssumption DEF WriterAssumption, AccountInv
  <2>2. max.file + BodyRoom + 100 < UintMod /\ max.body_buffer = BodyRoom
    BY WriterAssumption DEF WriterAssumption, AccountInv
  <2>3. QED BY <2>1, <2>2
<1>6. max[In(c)] < UintMod
  BY <1>1, <1>5 DEF Buffers
<1>7. UintMod > 0
  BY <1>4, <1>5, <1>6
<1>8. QED BY <1>1, <1>2, <1>3, <1>4, <1>5, <1>6, <1>7

\* A request beyond the account is one beyond the buffer.
LEMMA AskedTooMuch ==
  ASSUME TypeOK, AccountInv, NEW c \in Cursors, NEW bytes \in Nat, Ask(c, bytes),
         max' = max, asked[In(c)] + bytes > max[In(c)]
  PROVE  Exceeded'
<1>1. In(c) \in Buffers /\ asked \in [Buffers -> Nat]
  BY AccountNumbers DEF TypeOK
<1>2. asked'[In(c)] = asked[In(c)] + bytes
  BY <1>1 DEF Ask
<1>3. asked'[In(c)] > max'[In(c)]
  BY <1>2
<1>. DEFINE b == In(c)
<1>. HIDE DEF b
<1>4. b \in Buffers /\ asked'[b] > max'[b]
  BY <1>1, <1>3 DEF b
<1>5. QED BY <1>4 DEF Exceeded

\* A block is refused or runs over the end if its buffer is too small; otherwise
\* it is put.
LEMMA BlockPuts ==
  ASSUME TypeOK, AccountInv, NEW c \in Cursors, Account(c), NEW what, NEW w \in Seq(Nat),
         NEW size \in Nat, NEW next, Block(what, c, w, size, next), max' = max
  PROVE  \/ /\ \/ pc' = "done" /\ err' = "CG_EOF"
               \/ pc' = "overrun" /\ err' = err
            /\ UNCHANGED <<cur, parts>> /\ Ask(c, Total(w) + size)
            /\ Exceeded'
         \/ pc' = next /\ err' = err /\ Puts(what, c, Total(w) + size)
<1>. DEFINE h == Total(w)  bytes == h + size  n == cur[c].n  pos == cur[c].pos
            m == max[In(c)]  a == asked[In(c)]
<1>1. h \in Nat /\ bytes \in Nat
  BY TotalNat
<1>2. /\ n \in Int /\ pos \in Nat /\ m \in Nat /\ a \in Nat
      /\ m < UintMod /\ UintMod \in Nat
  BY AccountNumbers
<1>3. n = m - a /\ pos <= a
  BY DEF Account
<1>4. Ask(c, bytes)
  BY DEF Block
<1>5. CASE RoomBehind(c, w) < size /\ Fail("CG_EOF") /\ UNCHANGED <<cur, parts>>
  <2>1. (n - h) % UintMod < size
    BY <1>5 DEF RoomBehind
  <2>2. n - h < size
    <3>1. CASE n - h >= 0
      <4>1. n - h \in Nat /\ n - h < UintMod
        BY SMTT(30), <1>1, <1>2, <1>3, <3>1
      <4>2. (n - h) % UintMod = n - h
        BY <4>1, ModOfSmall
      <4>3. QED BY <2>1, <4>2
    <3>2. CASE ~(n - h >= 0)
      BY <1>1, <1>2, <3>2
    <3>3. QED BY <3>1, <3>2
  <2>3. a + bytes > m
    BY SMTT(30), <1>1, <1>2, <1>3, <2>2
  <2>4. Exceeded'
    BY <1>1, <1>4, <2>3, AskedTooMuch
  <2>5. QED BY <1>4, <1>5, <2>4 DEF Fail
<1>6. CASE /\ Overruns(c, w, size) /\ Go("overrun") /\ UNCHANGED <<cur, parts>>
  <2>1. pos + h + size > m
    BY <1>6 DEF Overruns
  <2>2. a + bytes > m
    BY SMTT(30), <1>1, <1>2, <1>3, <2>1
  <2>3. Exceeded'
    BY <1>1, <1>4, <2>2, AskedTooMuch
  <2>4. QED BY <1>4, <1>6, <2>3 DEF Go
<1>7. CASE Go(next) /\ assembler(what, c, w, size)
  BY <1>4, <1>7, AssemblerPuts DEF Go
<1>8. QED BY <1>5, <1>6, <1>7 DEF Block
-----------------------------------------------------------------------------
(* The steps the actions come down to. *)

BodyPcs == {"version", "plugins", "locations", "globals1", "globals2", "change_forms",
            "globals3", "world_spaces", "unknown3"}

BodyParts == {"version", "plugins", "locations", "globals1", "globals2", "change_forms",
              "globals3", "form_ids", "world_spaces", "unknown3"}

Locations == [off : [Offsets -> 0..UintMod], num : [Counts -> Nat]]
Todos == [types : Seq(STRING), forms : 0..MaxCount]

Settled == UNCHANGED <<save, max, home, offset_var>>

\* Writing stops, and there is no file to hand over.
Stops ==
    /\ pc' \in Ends /\ ~Written'
    /\ pc' # "done" => err' = "CG_OK"
    /\ err' = "CG_EOF" \/ pc' = "overrun" => Exceeded'
    /\ Settled
    /\ TypeOK'

\* A store in front of the body.
FilePut ==
    /\ pc \in FilePcs /\ pc' \in FilePcs
    /\ \E what \in {"signature", "header", "snapshot"}, bytes \in Nat :
         Puts(what, "file", bytes)
    /\ Settled /\ UNCHANGED <<err, locations, todo, file_size>>

\* The offsets of the tables that are reached: what has at least their rank
\* begins there, what has less ends there.
SetsOffsets(rank, bytes) ==
    \A t \in Offsets :
      /\ Rank[t] <= Stage[pc] => locations'.off[t] = locations.off[t]
      /\ AllStored /\ Stage[pc] < Rank[t] /\ Rank[t] <= Stage[pc'] =>
           locations'.off[t] =
             cur.body.pos + (IF Rank[t] > rank THEN bytes ELSE 0) - offset_var

\* A store in the body.
BodyPutOf(what, bytes) ==
    /\ pc \in BodyPcs /\ pc' \in BodyPcs \cup {"finish"}
    /\ Stage[pc] <= Rank[what] /\ Rank[what] <= Stage[pc']
    /\ Puts(what, "body", bytes)
    /\ what \in Globals => bytes >= 1
    /\ SetsOffsets(Rank[what], bytes)
    /\ \A t \in Counts \ {"globals3"} :
         locations'.num[t] = locations.num[t] + (IF what = t THEN 1 ELSE 0)
    /\ pc' # "finish" =>
         locations'.num["globals3"] =
           locations.num["globals3"] + (IF what = "globals3" THEN 1 ELSE 0)
    /\ pc' = "finish" =>
         /\ what = "unknown3" /\ cur'.body.n >= 0
         /\ locations'.num["globals3"] = StoredCount(locations.num["globals3"])

BodyPut ==
    /\ \E what \in BodyParts, bytes \in Nat : BodyPutOf(what, bytes)
    /\ locations' \in Locations /\ todo' \in Todos
    /\ Settled /\ UNCHANGED <<err, file_size>>

\* The next table begins, or a global data is left out.
BodySkip ==
    /\ pc \in BodyPcs /\ pc' \in BodyPcs /\ Stage[pc] <= Stage[pc']
    /\ SetsOffsets(8, 0)
    /\ locations'.num = locations.num
    /\ locations' \in Locations /\ todo' \in Todos
    /\ Settled /\ UNCHANGED <<err, file_size, cur, parts, asked>>

\* The compressed body is there.
Compressed ==
    /\ pc = "finish" /\ home = "body_buffer" /\ pc' = "done"
    /\ \E bytes \in Nat : Puts("compressed", "file", bytes)
    /\ file_size' = max.file - cur'.file.n
    /\ Settled /\ UNCHANGED <<err, locations, todo>>

\* A buffer for the body is there.
Allocated == AllocBody /\ pc' = "version"

\* Counting one block in the location table changes nothing else there.
LEMMA AddCount ==
  ASSUME locations \in Locations, NEW t \in Counts, NEW L,
         L = [locations EXCEPT !.num[t] = @ + 1]
  PROVE  /\ L \in Locations /\ L.off = locations.off
         /\ L.num[t] = locations.num[t] + 1
         /\ \A u \in Counts \ {t} : L.num[u] = locations.num[u]
BY DEF Locations

\* OFFSET() and the offset behind the location table fit their fields.
LEMMA OffsetTyped ==
  ASSUME TypeOK, AccountInv
  PROVE  /\ OFFSET \in 0..UintMod
         /\ (OFFSET + LocationTableSize) % UintMod \in 0..UintMod
<1>1. cur.body.pos \in Nat /\ offset_var \in Int /\ UintMod \in Nat /\ UintMod > 0
  BY AccountNumbers DEF TypeOK, Cursors
<1>2. cur.body.pos - offset_var \in Int
  BY <1>1
<1>3. OFFSET \in 0..(UintMod - 1)
  BY <1>1, <1>2, ModInRange DEF OFFSET
<1>4. OFFSET \in Int /\ OFFSET + LocationTableSize \in Int
  BY <1>1, <1>3 DEF LocationTableSize
<1>5. (OFFSET + LocationTableSize) % UintMod \in 0..(UintMod - 1)
  BY <1>1, <1>4, ModInRange
<1>6. \A x : x \in 0..(UintMod - 1) => x \in 0..UintMod
  BY <1>1
<1>. HIDE DEF OFFSET
<1>7. QED BY <1>3, <1>5, <1>6

\* As long as everything was stored, an offset does not wrap around.
LEMMA OffsetSmall ==
  ASSUME TypeOK, AccountInv, OffsetInv, AllStored, pc \in BodyPcs
  PROVE  /\ OFFSET = cur.body.pos - offset_var
         /\ (OFFSET + LocationTableSize) % UintMod =
              cur.body.pos + LocationTableSize - offset_var
<1>. DEFINE x == cur.body.pos - offset_var
<1>1. /\ cur.body.pos \in Nat /\ cur.body.n \in Int /\ offset_var \in Int
      /\ asked[home] \in Nat /\ max[home] \in Nat
  BY AccountNumbers DEF TypeOK, Cursors, In
<1>2. pc \notin FilePcs /\ pc \notin Ends /\ pc # "done"
  BY DEF BodyPcs, FilePcs, Ends
<1>3. cur.body.pos <= max[home]
  BY <1>1, <1>2 DEF AccountInv, Account, In, AllStored
<1>4. max.file \in Nat /\ BodyRoom \in Nat /\ max.body_buffer = BodyRoom /\ UintMod \in Nat
  BY WriterAssumption DEF WriterAssumption, AccountInv
<1>5. max.file + BodyRoom + 100 < UintMod
  BY WriterAssumption DEF WriterAssumption, AccountInv
<1>6. x \in Nat /\ x + 100 < UintMod
  <2>1. CASE home = "file"
    <3>1. offset_var = 0
      BY <2>1 DEF OffsetInv, AllStored
    <3>2. x = cur.body.pos /\ cur.body.pos <= max.file
      BY <1>1, <1>3, <2>1, <3>1
    <3>. HIDE DEF x
    <3>3. QED BY <1>1, <1>4, <1>5, <3>2
  <2>2. CASE home # "file"
    <3>1. home = "body_buffer"
      BY <2>2 DEF TypeOK, Buffers
    <3>2. offset_var = 0 - cur.file.pos /\ cur.file.n >= 0
      BY <1>2, <3>1 DEF OffsetInv, AllStored
    <3>3. cur.file.pos \in Nat /\ cur.file.n \in Int /\ asked["file"] \in Nat
      BY AccountNumbers DEF Cursors, In
    <3>4. cur.file.pos <= max.file
      BY <1>4, <3>1, <3>2, <3>3 DEF AccountInv, Account, In, AllStored
    <3>5. x = cur.body.pos + cur.file.pos /\ cur.body.pos <= BodyRoom
      BY <1>1, <1>3, <1>4, <3>1, <3>2, <3>3
    <3>. HIDE DEF x
    <3>6. QED BY <1>1, <1>4, <1>5, <3>3, <3>4, <3>5
  <2>3. QED BY <2>1, <2>2
<1>7. OFFSET = x
  <2>1. OFFSET = x % UintMod
    BY DEF OFFSET
  <2>. HIDE DEF x, OFFSET
  <2>2. x < UintMod
    BY <1>4, <1>6
  <2>3. QED BY <1>6, <2>1, <2>2, ModOfSmall
<1>8. (x + 100) % UintMod = x + 100
  <2>. HIDE DEF x
  <2>1. x + 100 \in Nat
    BY <1>6
  <2>2. QED BY <1>6, <2>1, ModOfSmall
<1>. HIDE DEF OFFSET
<1>9. x + 100 = cur.body.pos + 100 - offset_var
  BY <1>1
<1>10. QED BY <1>7, <1>8, <1>9 DEF LocationTableSize

\* What is put has its type.
LEMMA PutsTyped ==
  ASSUME TypeOK, NEW what \in DOMAIN Rank, NEW c \in Cursors, NEW bytes \in Nat,
         Puts(what, c, bytes)
  PROVE  /\ cur' \in [Cursors -> Cursor]
         /\ parts' \in Seq(Stores)
         /\ asked' \in [Buffers -> Nat]
         /\ \A d \in Cursors \ {c} : cur'[d] = cur[d]
         /\ \A b \in Buffers \ {In(c)} : asked'[b] = asked[b]
         /\ asked'[In(c)] = asked[In(c)] + bytes
<1>1. cur \in [Cursors -> Cursor] /\ cur'[c] \in Cursor
  BY DEF TypeOK, Cursors, Puts, Moved
<1>2. cur' \in [Cursors -> Cursor] /\ \A d \in Cursors \ {c} : cur'[d] = cur[d]
  BY <1>1 DEF Puts
<1>3. In(c) \in Buffers
  BY DEF TypeOK, Cursors, In, Buffers
<1>4. asked \in [Buffers -> Nat] /\ asked' = [asked EXCEPT ![In(c)] = @ + bytes]
  BY DEF TypeOK, Puts, Ask
<1>5. cur[c].pos \in Nat
  BY <1>1 DEF Cursor
<1>6. Part(what, c, cur[c].pos, bytes) \in Stores
  BY <1>3, <1>5 DEF Part, Stores
<1>7. parts \in Seq(Stores)
  BY DEF TypeOK, Stores
<1>8. parts' \in Seq(Stores)
  BY <1>6, <1>7 DEF Puts
<1>. HIDE DEF In
<1>9. asked' \in [Buffers -> Nat] /\ asked'[In(c)] = asked[In(c)] + bytes
  BY <1>3, <1>4
<1>10. \A b \in Buffers \ {In(c)} : asked'[b] = asked[b]
  BY <1>3, <1>4
<1>11. QED BY <1>2, <1>8, <1>9, <1>10
-----------------------------------------------------------------------------
(* Every action is one of the steps. *)

\* The widths of headers and fields are sequences of numbers.
LEMMA WidthsTyped ==
  /\ SimpleHeader \in Seq(Nat) /\ GlobalHeader \in Seq(Nat)
  /\ <<4, 4>> \in Seq(Nat)
  /\ \A w \in Nat : /\ FormHeader(w) \in Seq(Nat) /\ <<w>> \in Seq(Nat)
                    /\ <<1, 2, w>> \in Seq(Nat) /\ <<4, w>> \in Seq(Nat)
  /\ \A n \in Nat : <<4>> \o [i \in 1..n |-> 4] \in Seq(Nat)
<1>1. ASSUME NEW n \in Nat PROVE <<4>> \o [i \in 1..n |-> 4] \in Seq(Nat)
  <2>1. <<4>> \in Seq(Nat) /\ [i \in 1..n |-> 4] \in Seq(Nat)
    OBVIOUS
  <2>2. QED BY <2>1
<1>2. QED BY <1>1 DEF SimpleHeader, GlobalHeader, FormHeader

\* The bytes of a block are a number of bytes.
LEMMA BlockBytes ==
  ASSUME NEW size \in Sizes, NEW w \in Seq(Nat)
  PROVE  size \in Nat /\ Total(w) \in Nat /\ Total(w) + size \in Nat
<1>1. size \in Nat
  BY WriterAssumption DEF WriterAssumption
<1>2. Total(w) \in Nat
  BY TotalNat
<1>3. QED BY <1>1, <1>2

\* The parts of TypeOK that are needed over and over.
LEMMA TypesOf ==
  ASSUME TypeOK
  PROVE  /\ locations \in Locations /\ todo \in Todos /\ parts \in Seq(Stores)
         /\ cur \in [Cursors -> Cursor] /\ asked \in [Buffers -> Nat]
         /\ cur.file \in Cursor /\ cur.body \in Cursor
         /\ cur.body.n \in Int /\ cur.body.pos \in Nat
         /\ cur.file.n \in Int /\ cur.file.pos \in Nat
         /\ home \in Buffers /\ In("file") \in Buffers /\ In("body") \in Buffers
BY DEF TypeOK, Locations, Todos, Stores, Cursors, Cursor, In, Buffers

\* A buffer that is too small stops the writing.
LEMMA Refused ==
  ASSUME TypeOK, AccountInv, pc # "done", NEW c \in Cursors, NEW bytes \in Nat,
         \/ pc' = "done" /\ err' = "CG_EOF"
         \/ pc' = "overrun" /\ err' = err,
         UNCHANGED <<cur, parts>>, Ask(c, bytes), Exceeded',
         Settled, file_size' = file_size, locations' \in Locations, todo' \in Todos
  PROVE  Stops
<1>1. err = "CG_OK"
  BY DEF AccountInv
<1>2. pc' \in Ends /\ ~Written' /\ (pc' # "done" => err' = "CG_OK")
  BY <1>1 DEF Ends, Written
<1>3. asked' \in [Buffers -> Nat]
  <2>1. In(c) \in Buffers /\ asked \in [Buffers -> Nat]
    BY AccountNumbers, TypesOf
  <2>. HIDE DEF In
  <2>2. asked' = [asked EXCEPT ![In(c)] = asked[In(c)] + bytes]
    BY DEF Ask
  <2>3. QED BY <2>1, <2>2
<1>4. TypeOK'
  <2>1. pc' \in Pcs /\ err' \in {"CG_OK", "CG_EOF", "CG_NO_MEM", "CG_COMPRESS"}
    BY <1>1 DEF Pcs
  <2>2. QED BY <1>3, <2>1 DEF TypeOK, Settled, Locations, Todos
<1>5. QED BY <1>2, <1>4 DEF Stops, Settled

\* The signature is a store in front of the body.
LEMMA SignatureStep ==
  ASSUME TypeOK, WriteSignature
  PROVE  FilePut
<1>. DEFINE w == <<IF save.game = "SKYRIM" THEN 13 ELSE 12>>
<1>1. w \in Seq(Nat) /\ Total(w) \in Nat
  <2>1. (IF save.game = "SKYRIM" THEN 13 ELSE 12) \in Nat
    OBVIOUS
  <2>2. w \in Seq(Nat)
    BY <2>1, WidthsTyped
  <2>3. QED BY <2>2, TotalNat
<1>2. Store("signature", "file", w)
  BY DEF WriteSignature
<1>. HIDE DEF w
<1>3. Puts("signature", "file", Total(w))
  BY <1>1, <1>2, StorePuts DEF Cursors
<1>4. QED BY <1>1, <1>3 DEF WriteSignature, FilePut, FilePcs, Go, Settled, given, body

\* So is the header, unless there is no room for it.
LEMMA HeaderStep ==
  ASSUME TypeOK, AccountInv, WriteHeader
  PROVE  FilePut \/ Stops
<1>1. PICK size \in Sizes : Block("header", "file", SimpleHeader, size, "snapshot")
  BY DEF WriteHeader
<1>2. size \in Nat /\ Total(SimpleHeader) + size \in Nat
  BY BlockBytes, WidthsTyped
<1>3. Settled /\ UNCHANGED <<locations, todo, file_size>> /\ pc = "header"
  BY DEF WriteHeader, Settled, given, body
<1>4. Account("file") /\ max' = max
  BY <1>3 DEF AccountInv, FilePcs, Settled
<1>5. CASE /\ \/ pc' = "done" /\ err' = "CG_EOF"
              \/ pc' = "overrun" /\ err' = err
           /\ UNCHANGED <<cur, parts>> /\ Ask("file", Total(SimpleHeader) + size)
           /\ Exceeded'
  <2>1. locations' \in Locations /\ todo' \in Todos
    BY <1>3, TypesOf
  <2>2. QED BY <1>2, <1>3, <1>5, <2>1, Refused DEF Cursors
<1>6. CASE /\ pc' = "snapshot" /\ err' = err
           /\ Puts("header", "file", Total(SimpleHeader) + size)
  BY <1>2, <1>3, <1>6 DEF FilePut, FilePcs
<1>7. QED BY <1>1, <1>2, <1>4, <1>5, <1>6, BlockPuts, WidthsTyped DEF Cursors

\* So is the snapshot, room or not.
LEMMA SnapshotStep ==
  ASSUME TypeOK, WriteSnapshot
  PROVE  FilePut
<1>1. PICK size \in Snapshots : Store("snapshot", "file", <<size>>)
  BY DEF WriteSnapshot
<1>2. <<size>> \in Seq(Nat) /\ Total(<<size>>) \in Nat
  BY TotalNat, WidthsTyped, WriterAssumption DEF WriterAssumption
<1>3. Puts("snapshot", "file", Total(<<size>>))
  BY <1>1, <1>2, StorePuts DEF Cursors
<1>4. QED BY <1>2, <1>3 DEF WriteSnapshot, FilePut, FilePcs, Go, Settled, given, body

\* The account of the body stands while the body is written.
LEMMA BodyAccount ==
  ASSUME AccountInv, pc \in BodyPcs
  PROVE  Account("body") /\ pc \notin FilePcs /\ pc \notin Ends /\ pc # "done" /\ InBody
BY DEF AccountInv, BodyPcs, FilePcs, Ends, InBody, Alive

\* A part of the body that sets no offset and is not counted.
LEMMA PlainPut ==
  ASSUME TypeOK, pc \in BodyPcs, pc' \in BodyPcs, NEW what \in BodyParts,
         what \notin Counts, Stage[pc] <= Rank[what], Rank[what] <= Stage[pc'],
         \A t \in Offsets : ~(Stage[pc] < Rank[t] /\ Rank[t] <= Stage[pc']),
         NEW bytes \in Nat, Puts(what, "body", bytes),
         Settled, UNCHANGED <<err, file_size, locations, todo>>
  PROVE  BodyPut
<1>1. SetsOffsets(Rank[what], bytes)
  BY DEF SetsOffsets
<1>2. pc' # "finish" /\ what \notin Globals
  BY DEF BodyPcs, Counts, Globals
<1>3. \A t \in Counts : locations.num[t] \in Nat /\ what # t
  BY TypesOf DEF Locations
<1>4. \A t \in Counts : locations'.num[t] = locations.num[t] + (IF what = t THEN 1 ELSE 0)
  BY <1>3
<1>5. BodyPutOf(what, bytes)
  BY <1>1, <1>2, <1>4 DEF BodyPutOf, Counts
<1>6. QED BY <1>5, TypesOf DEF BodyPut

\* The versions are a store in the body.
LEMMA VersionStep ==
  ASSUME TypeOK, WriteVersion
  PROVE  BodyPut
<1>1. PICK w \in Seq(Nat) : Store("version", "body", w)
  <2>1. <<1>> \in Seq(Nat) /\ \A size \in Sizes : <<1, 2, size>> \in Seq(Nat)
    BY WidthsTyped, WriterAssumption DEF WriterAssumption
  <2>2. QED BY <2>1 DEF WriteVersion
<1>2. Puts("version", "body", Total(w)) /\ Total(w) \in Nat
  BY <1>1, StorePuts, TotalNat DEF Cursors
<1>3. /\ pc = "version" /\ pc' = "plugins" /\ Settled
      /\ UNCHANGED <<err, file_size, locations, todo>>
  BY DEF WriteVersion, Go, Settled, given, body
<1>4. QED BY <1>2, <1>3, PlainPut
          DEF BodyPcs, BodyParts, Counts, Offsets, Stage, Rank

\* So are the plugins, unless there is no room for them.
LEMMA PluginsStep ==
  ASSUME TypeOK, AccountInv, WritePlugins
  PROVE  BodyPut \/ Stops
<1>1. PICK size \in Sizes : Block("plugins", "body", SimpleHeader, size, "locations")
  BY DEF WritePlugins
<1>2. size \in Nat /\ Total(SimpleHeader) + size \in Nat
  BY BlockBytes, WidthsTyped
<1>3. Settled /\ UNCHANGED <<locations, todo, file_size>> /\ pc = "plugins"
  BY DEF WritePlugins, Settled, given, body
<1>4. Account("body") /\ max' = max
  BY <1>3, BodyAccount DEF BodyPcs, Settled
<1>5. CASE /\ \/ pc' = "done" /\ err' = "CG_EOF"
              \/ pc' = "overrun" /\ err' = err
           /\ UNCHANGED <<cur, parts>> /\ Ask("body", Total(SimpleHeader) + size)
           /\ Exceeded'
  <2>1. locations' \in Locations /\ todo' \in Todos
    BY <1>3, TypesOf
  <2>2. QED BY <1>2, <1>3, <1>5, <2>1, Refused DEF Cursors
<1>6. CASE /\ pc' = "locations" /\ err' = err
           /\ Puts("plugins", "body", Total(SimpleHeader) + size)
  BY <1>2, <1>3, <1>6, PlainPut DEF BodyPcs, BodyParts, Counts, Offsets, Stage, Rank
<1>7. QED BY <1>1, <1>2, <1>4, <1>5, <1>6, BlockPuts, WidthsTyped DEF Cursors

\* So are the world spaces, room or not.
LEMMA WorldSpacesStep ==
  ASSUME TypeOK, WriteWorldSpaces
  PROVE  BodyPut
<1>1. PICK w \in Seq(Nat) : Store("world_spaces", "body", w)
  <2>1. \A n \in 0..MaxCount : <<4>> \o [i \in 1..n |-> 4] \in Seq(Nat)
    BY WidthsTyped
  <2>2. QED BY <2>1 DEF WriteWorldSpaces
<1>2. Puts("world_spaces", "body", Total(w)) /\ Total(w) \in Nat
  BY <1>1, StorePuts, TotalNat DEF Cursors
<1>3. /\ pc = "world_spaces" /\ pc' = "unknown3" /\ Settled
      /\ UNCHANGED <<err, file_size, locations, todo>>
  BY DEF WriteWorldSpaces, Go, Settled, given, body
<1>4. \A t \in Offsets : ~(Stage[pc] < Rank[t] /\ Rank[t] <= Stage[pc'])
  BY <1>3 DEF Offsets, Stage, Rank
<1>5. QED BY <1>2, <1>3, <1>4, PlainPut DEF BodyPcs, BodyParts, Counts, Stage, Rank

\* A new list of types is one of types.
LEMMA NewTypes ==
  ASSUME todo \in Todos, NEW types \in Seq(STRING)
  PROVE  [todo EXCEPT !.types = types] \in Todos
BY DEF Todos

\* The location table is stepped over, and the first table begins behind it.
LEMMA LocationsStep ==
  ASSUME TypeOK, AccountInv, OffsetInv, ReserveLocations
  PROVE  BodyPut \/ Stops
<1>. DEFINE c == cur.body  x == (OFFSET + LocationTableSize) % UintMod
<1>1. /\ pc = "locations" /\ Ask("body", LocationTableSize) /\ Settled
      /\ file_size' = file_size
  BY DEF ReserveLocations, Settled, given, body
<1>2. pc \in BodyPcs /\ Account("body") /\ max' = max /\ pc # "done"
  BY <1>1, BodyAccount DEF BodyPcs, Settled
<1>3. LocationTableSize \in Nat /\ LocationTableSize = 100
  BY DEF LocationTableSize
<1>4. CASE /\ c.n < LocationTableSize /\ Fail("CG_EOF")
           /\ UNCHANGED <<cur, parts, todo, locations>>
  <2>1. asked[In("body")] + LocationTableSize > max[In("body")]
    <3>1. asked[In("body")] \in Nat /\ max[In("body")] \in Nat /\ c.n \in Int
      BY AccountNumbers DEF Cursors
    <3>2. c.n = max[In("body")] - asked[In("body")]
      BY <1>2 DEF Account
    <3>. HIDE DEF c, In
    <3>3. QED BY <1>3, <1>4, <3>1, <3>2
  <2>2. Exceeded'
    BY <1>1, <1>2, <1>3, <2>1, AskedTooMuch DEF Cursors
  <2>3. locations' \in Locations /\ todo' \in Todos
    BY <1>4, TypesOf
  <2>4. QED BY <1>1, <1>2, <1>3, <1>4, <2>2, <2>3, Refused DEF Cursors, Fail
<1>5. CASE /\ c.n >= LocationTableSize
           /\ cur' = [cur EXCEPT !.body = Advanced(c, LocationTableSize)]
           /\ parts' = Append(parts, Part("locations", "body", c.pos, LocationTableSize))
           /\ locations' = [locations EXCEPT !.off["globals1"] = x]
           /\ todo' = [todo EXCEPT !.types = Tables[1]]
           /\ Go("globals1")
  <2>1. c \in Cursor /\ c.pos \in Nat /\ c.n \in Int /\ cur \in [Cursors -> Cursor]
    BY TypesOf
  <2>2. Puts("locations", "body", LocationTableSize)
    <3>. DEFINE d == Advanced(c, LocationTableSize)
    <3>1. d = [pos |-> c.pos + 100, n |-> c.n - 100]
      BY <1>3 DEF Advanced
    <3>2. d \in Cursor /\ d.pos = c.pos + 100 /\ d.n = c.n - 100
      BY <2>1, <3>1 DEF Cursor
    <3>. HIDE DEF d
    <3>3. Moved(c, d, 100)
      BY <2>1, <3>2 DEF Moved
    <3>4. cur' = [cur EXCEPT !["body"] = d] /\ cur'["body"] = d
      BY <1>5, <2>1 DEF d, Cursors
    <3>5. Moved(cur["body"], cur'["body"], LocationTableSize)
      BY <1>3, <3>3, <3>4
    <3>6. cur["body"].n - LocationTableSize >= 0
      BY <1>3, <1>5, <2>1
    <3>7. QED BY <1>1, <1>5, <3>4, <3>5, <3>6 DEF Puts
  <2>3. locations \in Locations /\ x \in 0..UintMod /\ "globals1" \in Offsets
    BY OffsetTyped, TypesOf DEF Offsets
  <2>. DEFINE l == locations'
  <2>4. l = [locations EXCEPT !.off["globals1"] = x]
    BY <1>5
  <2>. HIDE DEF x, l
  <2>5. /\ l \in Locations /\ l.num = locations.num /\ l.off["globals1"] = x
        /\ \A u \in Offsets \ {"globals1"} : l.off[u] = locations.off[u]
    BY <2>3, <2>4 DEF Locations
  <2>6. pc' = "globals1" /\ err' = err
    BY <1>5 DEF Go
  <2>7. AllStored => x = cur.body.pos + 100 - offset_var
    BY <1>2, <1>3, OffsetSmall DEF x
  <2>8. SetsOffsets(Rank["locations"], LocationTableSize)
    <3>1. ASSUME NEW t \in Offsets, Rank[t] <= Stage[pc] PROVE locations'.off[t] = locations.off[t]
      BY <1>1, <2>5, <3>1 DEF Offsets, Rank, Stage, l
    <3>2. ASSUME NEW t \in Offsets, AllStored, Stage[pc] < Rank[t], Rank[t] <= Stage[pc']
          PROVE  locations'.off[t] = cur.body.pos +
                   (IF Rank[t] > Rank["locations"] THEN LocationTableSize ELSE 0) - offset_var
      <4>1. t = "globals1" /\ Rank[t] > Rank["locations"]
        BY <1>1, <2>6, <3>2 DEF Offsets, Rank, Stage
      <4>2. locations'.off[t] = x
        BY <2>5, <4>1 DEF l
      <4>3. QED BY <1>3, <2>7, <3>2, <4>1, <4>2
    <3>3. QED BY <3>1, <3>2 DEF SetsOffsets
  <2>9. BodyPutOf("locations", LocationTableSize)
    <3>1. \A t \in Counts : locations'.num[t] = locations.num[t] + 0
      BY <2>3, <2>5 DEF l, Locations
    <3>2. "locations" \notin Counts /\ "locations" \notin Globals
      BY DEF Counts, Globals
    <3>3. pc \in BodyPcs /\ pc' \in BodyPcs /\ pc' # "finish"
      BY <1>2, <2>6 DEF BodyPcs
    <3>4. Stage[pc] <= Rank["locations"] /\ Rank["locations"] <= Stage[pc']
      BY <1>1, <2>6 DEF Stage, Rank
    <3>5. \A t \in Counts : t # "locations"
      BY <3>2
    <3>6. "globals3" \in Counts
      BY DEF Counts
    <3>7. QED BY <2>2, <2>8, <3>1, <3>2, <3>3, <3>4, <3>5, <3>6 DEF BodyPutOf
  <2>10. todo' \in Todos
    <3>1. Tables[1] \in Seq(STRING)
      BY WriterAssumption DEF WriterAssumption
    <3>2. QED BY <1>5, <3>1, TypesOf, NewTypes
  <2>11. QED BY <1>1, <1>3, <2>5, <2>6, <2>9, <2>10 DEF BodyPut, BodyParts, l
<1>6. QED BY <1>4, <1>5 DEF ReserveLocations

\* A block of the table pc is at, counted there.
LEMMA CountedPut ==
  ASSUME TypeOK, pc \in {"globals1", "globals2", "globals3", "change_forms"}, pc' = pc,
         NEW bytes \in Nat, pc \in Globals => bytes >= 1, Puts(pc, "body", bytes),
         locations' = [locations EXCEPT !.num[pc] = @ + 1], todo' \in Todos,
         Settled, UNCHANGED <<err, file_size>>
  PROVE  BodyPut
<1>. DEFINE l == locations'  t0 == pc
<1>1. /\ t0 \in Counts /\ t0 \in BodyParts /\ t0 \in BodyPcs /\ t0 # "finish"
      /\ Stage[t0] = Rank[t0] /\ Rank[t0] \in Nat
  BY DEF Counts, BodyParts, BodyPcs, Stage, Rank
<1>2. locations \in Locations
  BY TypesOf
<1>3. l = [locations EXCEPT !.num[t0] = @ + 1]
  OBVIOUS
<1>. HIDE DEF l, t0
<1>4. /\ l \in Locations /\ l.off = locations.off
      /\ l.num[t0] = locations.num[t0] + 1
      /\ \A u \in Counts \ {t0} : l.num[u] = locations.num[u]
  BY <1>1, <1>2, <1>3, AddCount
<1>5. \A u \in Counts : locations.num[u] \in Nat
  BY <1>2 DEF Locations
<1>6. \A u \in Counts : l.num[u] = locations.num[u] + (IF t0 = u THEN 1 ELSE 0)
  BY <1>4, <1>5
<1>7. \A u \in Offsets : ~(Stage[t0] < Rank[u] /\ Rank[u] <= Stage[t0])
  BY <1>1 DEF Offsets, Rank
<1>8. SetsOffsets(Rank[t0], bytes)
  BY <1>4, <1>7 DEF SetsOffsets, l, t0
<1>9. BodyPutOf(t0, bytes)
  BY <1>1, <1>6, <1>8 DEF BodyPutOf, l, t0, Counts
<1>10. QED BY <1>1, <1>4, <1>9 DEF BodyPut, l

\* The types that are left are types.
LEMMA NextTypeTyped ==
  ASSUME TypeOK, NextType
  PROVE  todo' \in Todos
<1>1. todo \in Todos /\ todo.types # <<>> /\ todo' = [todo EXCEPT !.types = Tail(todo.types)]
  BY TypesOf DEF NextType
<1>2. todo.types \in Seq(STRING)
  BY <1>1 DEF Todos
<1>3. Tail(todo.types) \in Seq(STRING)
  BY <1>1, <1>2, HeadTailProperties
<1>4. QED BY <1>1, <1>3, NewTypes

\* A global data is stored and counted, refused, or left out.
LEMMA GlobalStep ==
  ASSUME TypeOK, AccountInv, NEW table \in Globals, WriteGlobal(table)
  PROVE  BodyPut \/ BodySkip \/ Stops
<1>1. /\ pc = table /\ todo' \in Todos /\ Settled /\ file_size' = file_size
  BY NextTypeTyped DEF WriteGlobal, Settled, given, body
<1>2. pc \in BodyPcs /\ Account("body") /\ max' = max /\ pc # "done"
  BY <1>1, BodyAccount DEF BodyPcs, Settled, Globals
<1>3. ASSUME NEW size \in Sizes, Block(table, "body", GlobalHeader, size, table),
             locations' = IF err' = "CG_OK"
                          THEN [locations EXCEPT !.num[table] = @ + 1] ELSE locations
      PROVE  BodyPut \/ Stops
  <2>. DEFINE bytes == Total(GlobalHeader) + size
  <2>1. size \in Nat /\ bytes \in Nat /\ bytes >= 1
    <3>1. Total(GlobalHeader) = 8 /\ size \in Nat
      BY BlockBytes, WidthsTyped, TotalOfTwo DEF GlobalHeader
    <3>2. QED BY <3>1
  <2>2. locations' \in Locations
    <3>1. table \in Counts /\ locations \in Locations
      BY TypesOf DEF Globals, Counts
    <3>2. CASE err' = "CG_OK"
      <4>. DEFINE l == [locations EXCEPT !.num[table] = @ + 1]
      <4>1. l \in Locations
        BY <3>1, AddCount
      <4>2. QED BY <1>3, <3>2, <4>1
    <3>3. QED BY <1>3, <3>1, <3>2
  <2>3. CASE /\ \/ pc' = "done" /\ err' = "CG_EOF"
                \/ pc' = "overrun" /\ err' = err
             /\ UNCHANGED <<cur, parts>> /\ Ask("body", bytes) /\ Exceeded'
    BY <1>1, <1>2, <2>1, <2>2, <2>3, Refused DEF Cursors
  <2>4. CASE pc' = table /\ err' = err /\ Puts(table, "body", bytes)
    <3>1. err' = "CG_OK"
      BY <1>2, <2>4 DEF AccountInv
    <3>2. locations' = [locations EXCEPT !.num[pc] = @ + 1]
      BY <1>1, <1>3, <3>1
    <3>3. pc \in {"globals1", "globals2", "globals3", "change_forms"}
      BY <1>1 DEF Globals
    <3>. HIDE DEF bytes
    <3>4. QED BY <1>1, <2>1, <2>4, <3>2, <3>3, CountedPut
  <2>5. QED BY <1>2, <1>3, <2>1, <2>3, <2>4, BlockPuts, WidthsTyped DEF Cursors
<1>4. CASE Go(pc) /\ UNCHANGED <<cur, parts, asked, locations>>
  <2>1. pc' = pc /\ err' = err
    BY <1>4 DEF Go
  <2>2. Stage[pc] \in Nat /\ \A t \in Offsets : Rank[t] \in Nat
    BY <1>1 DEF Globals, Stage, Offsets, Rank
  <2>3. SetsOffsets(8, 0)
    BY <1>4, <2>1, <2>2 DEF SetsOffsets
  <2>4. QED BY <1>1, <1>2, <1>4, <2>1, <2>2, <2>3, TypesOf DEF BodySkip
<1>5. QED BY <1>3, <1>4 DEF WriteGlobal

\* A table begins where the cursor is.
LEMMA BeginSkip ==
  ASSUME TypeOK, AccountInv, OffsetInv, pc \in BodyPcs, pc' \in BodyPcs,
         NEW table \in Offsets, Begin(table), Stage[pc] = Rank[table] - 1,
         Stage[pc'] = Rank[table],
         \A t \in Offsets : Rank[t] = Rank[table] => t = table,
         todo' \in Todos, Settled, UNCHANGED <<err, file_size, cur, parts, asked>>
  PROVE  BodySkip
<1>. DEFINE x == OFFSET
<1>1. x \in 0..UintMod /\ locations \in Locations
  BY OffsetTyped, TypesOf
<1>2. AllStored => x = cur.body.pos - offset_var
  BY OffsetSmall
<1>3. cur.body.pos \in Nat /\ offset_var \in Int
  BY TypesOf DEF TypeOK
<1>4. locations' = [locations EXCEPT !.off[table] = x]
  BY DEF Begin
<1>. HIDE DEF x
<1>5. /\ locations' \in Locations /\ locations'.num = locations.num
      /\ locations'.off[table] = x
      /\ \A u \in Offsets \ {table} : locations'.off[u] = locations.off[u]
  BY <1>1, <1>4 DEF Locations
<1>6. Rank[table] \in Nat /\ \A t \in Offsets : Rank[t] \in Nat /\ Rank[t] < 8
  BY DEF Offsets, Rank
<1>. DEFINE r == [t \in Offsets |-> Rank[t]]  s == Stage[pc]
<1>7. \A t \in Offsets : Rank[t] <= Stage[pc] => t # table
  BY <1>6
<1>8. \A t \in Offsets : Stage[pc] < Rank[t] /\ Rank[t] <= Stage[pc'] => t = table
  BY <1>6
<1>9. \A t \in Offsets : ~(Rank[t] > 8)
  BY <1>6
<1>10. cur.body.pos + 0 - offset_var = cur.body.pos - offset_var
  BY <1>3
<1>11. SetsOffsets(8, 0)
  <2>1. ASSUME NEW t \in Offsets, Rank[t] <= Stage[pc]
        PROVE  locations'.off[t] = locations.off[t]
    BY <1>5, <1>7, <2>1
  <2>2. ASSUME NEW t \in Offsets, AllStored, Stage[pc] < Rank[t], Rank[t] <= Stage[pc']
        PROVE  locations'.off[t] =
                 cur.body.pos + (IF Rank[t] > 8 THEN 0 ELSE 0) - offset_var
    BY <1>2, <1>5, <1>8, <1>10, <2>2
  <2>3. QED BY <2>1, <2>2 DEF SetsOffsets
<1>12. Stage[pc] <= Stage[pc']
  BY <1>6
<1>13. QED BY <1>5, <1>11, <1>12 DEF BodySkip

\* The second table begins where the first one ended.
LEMMA BeginGlobals2Step ==
  ASSUME TypeOK, AccountInv, OffsetInv, BeginGlobals2
  PROVE  BodySkip
<1>1. /\ pc = "globals1" /\ pc' = "globals2" /\ Begin("globals2") /\ Settled
      /\ UNCHANGED <<err, file_size, cur, parts, asked>>
  BY DEF BeginGlobals2, Go, Settled, given, body
<1>2. todo' \in Todos
  <2>1. Tables[2] \in Seq(STRING) /\ todo' = [todo EXCEPT !.types = Tables[2]]
    BY WriterAssumption DEF WriterAssumption, BeginGlobals2
  <2>2. QED BY <2>1, TypesOf, NewTypes
<1>3. pc \in BodyPcs /\ pc' \in BodyPcs /\ "globals2" \in Offsets
  BY <1>1 DEF BodyPcs, Offsets
<1>4. Stage[pc] = Rank["globals2"] - 1 /\ Stage[pc'] = Rank["globals2"]
  BY <1>1 DEF Stage, Rank
<1>5. \A t \in Offsets : Rank[t] = Rank["globals2"] => t = "globals2"
  BY DEF Offsets, Rank
<1>6. QED BY <1>1, <1>2, <1>3, <1>4, <1>5, BeginSkip

\* The change forms begin where the second table ended.
LEMMA BeginChangeFormsStep ==
  ASSUME TypeOK, AccountInv, OffsetInv, BeginChangeForms
  PROVE  BodySkip
<1>1. /\ pc = "globals2" /\ pc' = "change_forms" /\ Begin("change_forms") /\ Settled
      /\ UNCHANGED <<err, file_size, cur, parts, asked>>
  BY DEF BeginChangeForms, Go, Settled, given, body
<1>2. todo' \in Todos
  <2>1. PICK n \in 0..MaxCount : todo' = [todo EXCEPT !.forms = n]
    BY DEF BeginChangeForms
  <2>2. QED BY <2>1, TypesOf DEF Todos
<1>3. pc \in BodyPcs /\ pc' \in BodyPcs /\ "change_forms" \in Offsets
  BY <1>1 DEF BodyPcs, Offsets
<1>4. Stage[pc] = Rank["change_forms"] - 1 /\ Stage[pc'] = Rank["change_forms"]
  BY <1>1 DEF Stage, Rank
<1>5. \A t \in Offsets : Rank[t] = Rank["change_forms"] => t = "change_forms"
  BY DEF Offsets, Rank
<1>6. QED BY <1>1, <1>2, <1>3, <1>4, <1>5, BeginSkip

\* The third table begins where the change forms ended.
LEMMA BeginGlobals3Step ==
  ASSUME TypeOK, AccountInv, OffsetInv, BeginGlobals3
  PROVE  BodySkip
<1>1. /\ pc = "change_forms" /\ pc' = "globals3" /\ Begin("globals3") /\ Settled
      /\ UNCHANGED <<err, file_size, cur, parts, asked>>
  BY DEF BeginGlobals3, Go, Settled, given, body
<1>2. todo' \in Todos
  <2>1. Tables[3] \in Seq(STRING) /\ todo' = [todo EXCEPT !.types = Tables[3]]
    BY WriterAssumption DEF WriterAssumption, BeginGlobals3
  <2>2. QED BY <2>1, TypesOf, NewTypes
<1>3. pc \in BodyPcs /\ pc' \in BodyPcs /\ "globals3" \in Offsets
  BY <1>1 DEF BodyPcs, Offsets
<1>4. Stage[pc] = Rank["globals3"] - 1 /\ Stage[pc'] = Rank["globals3"]
  BY <1>1 DEF Stage, Rank
<1>5. \A t \in Offsets : Rank[t] = Rank["globals3"] => t = "globals3"
  BY DEF Offsets, Rank
<1>6. QED BY <1>1, <1>2, <1>3, <1>4, <1>5, BeginSkip

\* A change form is stored and counted, or runs past the end.
LEMMA ChangeFormStep ==
  ASSUME TypeOK, AccountInv, WriteChangeForm
  PROVE  BodyPut \/ Stops
<1>1. /\ pc = "change_forms" /\ todo.forms > 0 /\ Settled /\ file_size' = file_size
      /\ todo' = [todo EXCEPT !.forms = @ - 1]
  BY DEF WriteChangeForm, Settled, given, body
<1>2. pc \in BodyPcs /\ Account("body") /\ max' = max /\ pc # "done"
  BY <1>1, BodyAccount DEF BodyPcs, Settled
<1>3. todo' \in Todos
  <2>1. todo \in Todos /\ todo.forms \in 0..MaxCount /\ MaxCount \in Nat
    BY TypesOf, WriterAssumption DEF Todos, WriterAssumption
  <2>2. todo.forms - 1 \in 0..MaxCount
    BY <1>1, <2>1
  <2>3. QED BY <1>1, <2>1, <2>2 DEF Todos
<1>4. PICK width \in {1, 2, 4}, size \in Sizes :
        /\ Ask("body", Total(FormHeader(width)) + size)
        /\ \/ /\ Overruns("body", FormHeader(width), size)
              /\ Go("overrun") /\ UNCHANGED <<cur, parts, locations>>
           \/ /\ assembler("change_forms", "body", FormHeader(width), size)
              /\ locations' = [locations EXCEPT !.num["change_forms"] = @ + 1]
              /\ Go(pc)
  BY DEF WriteChangeForm
<1>. DEFINE w == FormHeader(width)  bytes == Total(w) + size
<1>5. w \in Seq(Nat)
  BY WidthsTyped
<1>6. size \in Nat /\ Total(w) \in Nat /\ bytes \in Nat
  BY <1>5, BlockBytes
<1>7. CASE /\ Overruns("body", w, size) /\ Go("overrun")
           /\ UNCHANGED <<cur, parts, locations>>
  <2>1. asked[In("body")] + bytes > max[In("body")]
    <3>1. /\ asked[In("body")] \in Nat /\ max[In("body")] \in Nat /\ cur.body.pos \in Nat
          /\ cur.body.pos <= asked[In("body")]
      BY <1>2, AccountNumbers DEF Cursors, Account
    <3>2. cur.body.pos + Total(w) + size > max[In("body")]
      BY <1>7 DEF Overruns
    <3>. HIDE DEF w, In
    <3>3. QED BY <1>6, <3>1, <3>2
  <2>2. Exceeded'
    BY <1>2, <1>4, <1>6, <2>1, AskedTooMuch DEF Cursors
  <2>3. locations' \in Locations
    BY <1>7, TypesOf
  <2>4. pc' = "overrun" /\ err' = err
    BY <1>7 DEF Go
  <2>. HIDE DEF bytes
  <2>5. QED BY <1>1, <1>2, <1>3, <1>4, <1>6, <1>7, <2>2, <2>3, <2>4, Refused DEF Cursors, bytes
<1>8. CASE /\ assembler("change_forms", "body", w, size)
           /\ locations' = [locations EXCEPT !.num["change_forms"] = @ + 1]
           /\ Go(pc)
  <2>1. Puts("change_forms", "body", bytes)
    BY <1>4, <1>5, <1>6, <1>8, AssemblerPuts DEF Cursors
  <2>2. pc' = pc /\ err' = err
    BY <1>8 DEF Go
  <2>3. pc \notin Globals
    BY <1>1 DEF Globals
  <2>. HIDE DEF bytes
  <2>4. QED BY <1>1, <1>3, <1>6, <1>8, <2>1, <2>2, <2>3, CountedPut
<1>9. QED BY <1>4, <1>7, <1>8

\* The form ids are a store in the body that begins a table.
LEMMA FormIdsStep ==
  ASSUME TypeOK, AccountInv, OffsetInv, WriteFormIds
  PROVE  BodyPut
<1>. DEFINE x == OFFSET
<1>1. /\ pc = "globals3" /\ pc' = "world_spaces" /\ Settled
      /\ UNCHANGED <<err, file_size, todo>>
      /\ locations' = [locations EXCEPT !.off["form_ids"] = x]
  BY DEF WriteFormIds, Go, Begin, Settled, given, body
<1>2. PICK w \in Seq(Nat) : Store("form_ids", "body", w)
  <2>1. \A n \in 0..MaxCount : <<4>> \o [i \in 1..n |-> 4] \in Seq(Nat)
    BY WidthsTyped
  <2>2. QED BY <2>1 DEF WriteFormIds
<1>3. Puts("form_ids", "body", Total(w)) /\ Total(w) \in Nat
  BY <1>2, StorePuts, TotalNat DEF Cursors
<1>4. pc \in BodyPcs /\ pc' \in BodyPcs /\ pc' # "finish" /\ todo' \in Todos
  BY <1>1, TypesOf DEF BodyPcs
<1>5. x \in 0..UintMod /\ locations \in Locations /\ "form_ids" \in Offsets
  BY OffsetTyped, TypesOf DEF Offsets
<1>6. AllStored => x = cur.body.pos - offset_var
  BY <1>4, OffsetSmall
<1>. HIDE DEF x
<1>7. /\ locations' \in Locations /\ locations'.num = locations.num
      /\ locations'.off["form_ids"] = x
      /\ \A u \in Offsets \ {"form_ids"} : locations'.off[u] = locations.off[u]
  BY <1>1, <1>5 DEF Locations
<1>8. SetsOffsets(Rank["form_ids"], Total(w))
  <2>1. ASSUME NEW t \in Offsets, Rank[t] <= Stage[pc]
        PROVE  locations'.off[t] = locations.off[t]
    BY <1>1, <1>7, <2>1 DEF Offsets, Rank, Stage
  <2>2. ASSUME NEW t \in Offsets, AllStored, Stage[pc] < Rank[t], Rank[t] <= Stage[pc']
        PROVE  locations'.off[t] =
                 cur.body.pos + (IF Rank[t] > Rank["form_ids"] THEN Total(w) ELSE 0) - offset_var
    <3>1. t = "form_ids" /\ ~(Rank[t] > Rank["form_ids"])
      BY <1>1, <2>2 DEF Offsets, Rank, Stage
    <3>2. cur.body.pos + 0 - offset_var = cur.body.pos - offset_var
      <4>1. cur.body.pos \in Nat /\ offset_var \in Int
        BY TypesOf DEF TypeOK
      <4>2. QED BY <4>1
    <3>3. QED BY <1>6, <1>7, <2>2, <3>1, <3>2
  <2>3. QED BY <2>1, <2>2 DEF SetsOffsets
<1>9. BodyPutOf("form_ids", Total(w))
  <2>1. \A t \in Counts : locations'.num[t] = locations.num[t] + 0
    BY <1>5, <1>7 DEF Locations
  <2>2. "form_ids" \notin Globals /\ \A t \in Counts : t # "form_ids"
    BY DEF Counts, Globals
  <2>3. Stage[pc] <= Rank["form_ids"] /\ Rank["form_ids"] <= Stage[pc']
    BY <1>1 DEF Stage, Rank
  <2>4. "globals3" \in Counts
    BY DEF Counts
  <2>5. QED BY <1>3, <1>4, <1>8, <2>1, <2>2, <2>3, <2>4 DEF BodyPutOf
<1>10. QED BY <1>1, <1>3, <1>4, <1>7, <1>9 DEF BodyPut, BodyParts

\* The corrected count fits its field.
LEMMA StoredCountTyped ==
  ASSUME TypeOK, AccountInv, NEW n \in Nat
  PROVE  StoredCount(n) \in Nat
<1>1. UintMod \in Nat /\ UintMod > 0 /\ n - 1 \in Int
  BY AccountNumbers DEF Cursors
<1>2. StoredCount(n) \in 0..(UintMod - 1)
  BY <1>1, ModInRange DEF StoredCount
<1>3. QED BY <1>1, <1>2

\* The last store is one in the body if everything had room; otherwise writing stops.
LEMMA Unknown3Step ==
  ASSUME TypeOK, AccountInv, OffsetInv, WriteUnknown3
  PROVE  BodyPut \/ Stops
<1>. DEFINE x == OFFSET  l == locations'
            m == IF cur'.body.n < 0 THEN locations.num["globals3"]
                 ELSE StoredCount(locations.num["globals3"])
<1>1. /\ pc = "unknown3" /\ Settled /\ UNCHANGED <<file_size, todo>>
      /\ l = [locations EXCEPT !.off["unknown3"] = x, !.num["globals3"] = m]
      /\ IF cur'.body.n < 0 THEN Fail("CG_EOF") ELSE Go("finish")
  BY DEF WriteUnknown3, Settled, given, body
<1>2. PICK size \in Sizes : Store("unknown3", "body", <<4, size>>)
  BY DEF WriteUnknown3
<1>. DEFINE bytes == Total(<<4, size>>)
<1>3. Puts("unknown3", "body", bytes) /\ bytes \in Nat
  <2>1. <<4, size>> \in Seq(Nat)
    BY BlockBytes, WidthsTyped, WriterAssumption DEF WriterAssumption
  <2>2. QED BY <1>2, <2>1, StorePuts, TotalNat DEF Cursors
<1>. HIDE DEF bytes
<1>4. pc \in BodyPcs /\ pc # "done" /\ todo' \in Todos /\ Account("body")
  BY <1>1, BodyAccount, TypesOf DEF BodyPcs
<1>5. x \in 0..UintMod /\ locations \in Locations
  BY OffsetTyped, TypesOf
<1>6. m \in Nat
  <2>1. locations.num["globals3"] \in Nat
    BY <1>5 DEF Locations, Counts
  <2>2. StoredCount(locations.num["globals3"]) \in Nat
    BY <2>1, StoredCountTyped
  <2>3. QED BY <2>1, <2>2
<1>7. AllStored => x = cur.body.pos - offset_var
  BY <1>4, OffsetSmall
<1>8. /\ cur' \in [Cursors -> Cursor] /\ parts' \in Seq(Stores)
      /\ asked' \in [Buffers -> Nat]
  BY <1>3, PutsTyped DEF Cursors, Rank
<1>9. cur'.body.n \in Int /\ cur'.body.n = cur.body.n - bytes
  BY <1>3, <1>8 DEF Puts, Moved, Cursors, Cursor
<1>. HIDE DEF x, m, l
<1>10. /\ l \in Locations /\ l.off["unknown3"] = x /\ l.num["globals3"] = m
       /\ \A u \in Offsets \ {"unknown3"} : l.off[u] = locations.off[u]
       /\ \A u \in Counts \ {"globals3"} : l.num[u] = locations.num[u]
  BY <1>1, <1>5, <1>6 DEF Locations, Offsets, Counts
<1>11. CASE cur'.body.n < 0
  <2>1. pc' = "done" /\ err' = "CG_EOF"
    BY <1>1, <1>11 DEF Fail
  <2>2. Exceeded'
    <3>1. /\ asked[In("body")] \in Nat /\ max[In("body")] \in Nat /\ cur.body.n \in Int
          /\ cur.body.n = max[In("body")] - asked[In("body")]
      BY <1>4, AccountNumbers DEF Cursors, Account
    <3>. HIDE DEF In
    <3>2. asked[In("body")] + bytes > max[In("body")]
      BY <1>3, <1>9, <1>11, <3>1
    <3>3. Ask("body", bytes) /\ max' = max
      BY <1>1, <1>3 DEF Puts, Settled
    <3>4. QED BY <1>3, <3>2, <3>3, AskedTooMuch DEF Cursors
  <2>3. TypeOK'
    <3>1. pc' \in Pcs /\ err' \in {"CG_OK", "CG_EOF", "CG_NO_MEM", "CG_COMPRESS"}
      BY <2>1 DEF Pcs
    <3>2. QED BY <1>1, <1>4, <1>8, <1>10, <3>1
              DEF TypeOK, Settled, Locations, Todos, Stores, Cursors, l
  <2>4. QED BY <1>1, <2>1, <2>2, <2>3 DEF Stops, Ends, Written, Settled
<1>12. CASE ~(cur'.body.n < 0)
  <2>1. pc' = "finish" /\ err' = err /\ cur'.body.n >= 0
    BY <1>1, <1>9, <1>12 DEF Go
  <2>2. m = StoredCount(locations.num["globals3"])
    BY <1>12 DEF m
  <2>3. SetsOffsets(Rank["unknown3"], bytes)
    <3>1. ASSUME NEW t \in Offsets, Rank[t] <= Stage[pc]
          PROVE  locations'.off[t] = locations.off[t]
      BY <1>1, <1>10, <3>1 DEF Offsets, Rank, Stage, l
    <3>2. ASSUME NEW t \in Offsets, AllStored, Stage[pc] < Rank[t], Rank[t] <= Stage[pc']
          PROVE  locations'.off[t] =
                   cur.body.pos + (IF Rank[t] > Rank["unknown3"] THEN bytes ELSE 0) - offset_var
      <4>1. t = "unknown3" /\ ~(Rank[t] > Rank["unknown3"])
        BY <1>1, <2>1, <3>2 DEF Offsets, Rank, Stage
      <4>2. cur.body.pos + 0 - offset_var = cur.body.pos - offset_var
        <5>1. cur.body.pos \in Nat /\ offset_var \in Int
          BY TypesOf DEF TypeOK
        <5>2. QED BY <5>1
      <4>3. QED BY <1>7, <1>10, <3>2, <4>1, <4>2 DEF l
    <3>3. QED BY <3>1, <3>2 DEF SetsOffsets
  <2>4. BodyPutOf("unknown3", bytes)
    <3>1. \A t \in Counts \ {"globals3"} : l.num[t] = locations.num[t] + 0
      BY <1>5, <1>10 DEF Locations
    <3>2. "unknown3" \notin Globals /\ \A t \in Counts : t # "unknown3"
      BY DEF Counts, Globals
    <3>3. Stage[pc] <= Rank["unknown3"] /\ Rank["unknown3"] <= Stage[pc']
      BY <1>1, <2>1 DEF Stage, Rank
    <3>4. QED BY <1>3, <1>4, <1>10, <2>1, <2>2, <2>3, <3>1, <3>2, <3>3 DEF BodyPutOf, l
  <2>5. QED BY <1>1, <1>3, <1>4, <1>10, <2>1, <2>4 DEF BodyPut, BodyParts, l
<1>13. QED BY <1>11, <1>12

\* There is a buffer for the body or writing stops.
LEMMA AllocStep ==
  ASSUME TypeOK, AccountInv, AllocBody
  PROVE  Allocated \/ Stops
<1>1. /\ pc = "body" /\ err = "CG_OK"
      /\ UNCHANGED <<locations, todo, file_size, parts, asked, save, max>>
  BY DEF AllocBody, given, AccountInv
<1>2. CASE Fail("CG_NO_MEM") /\ UNCHANGED <<cur, home, offset_var>>
  <2>1. pc' = "done" /\ err' = "CG_NO_MEM"
    BY <1>2 DEF Fail
  <2>2. TypeOK'
    BY <1>1, <1>2, <2>1 DEF TypeOK, Pcs
  <2>3. QED BY <1>1, <1>2, <2>1, <2>2 DEF Stops, Ends, Written, Settled
<1>3. CASE Go("version")
  BY <1>3 DEF Allocated, Go
<1>4. QED BY <1>2, <1>3 DEF AllocBody

\* A body with a gap in front of it is where the program is killed.
LEMMA UncompressedStep ==
  ASSUME TypeOK, AccountInv, FinishUncompressed
  PROVE  Stops
<1>1. /\ pc = "finish" /\ pc' = "killed" /\ err' = err /\ err = "CG_OK"
      /\ UNCHANGED <<cur, locations, todo, file_size, parts, asked, save, max, home, offset_var>>
  BY DEF FinishUncompressed, Go, given, body, AccountInv
<1>2. TypeOK'
  BY <1>1 DEF TypeOK, Pcs
<1>3. QED BY <1>1, <1>2 DEF Stops, Ends, Written, Settled

\* The compressed body is a store in the file, or writing stops.
LEMMA CompressedStep ==
  ASSUME TypeOK, AccountInv, FinishCompressed
  PROVE  Compressed \/ Stops
<1>1. /\ pc = "finish" /\ home = "body_buffer" /\ err = "CG_OK"
      /\ UNCHANGED <<locations, todo>> /\ Settled /\ max' = max
  BY DEF FinishCompressed, given, body, AccountInv, Settled
<1>2. Account("file") /\ In("file") = "file"
  BY <1>1 DEF AccountInv, InBody, Alive, FilePcs, Ends, In
<1>3. CASE Fail("CG_COMPRESS") /\ UNCHANGED <<cur, file_size, parts, asked>>
  <2>1. pc' = "done" /\ err' = "CG_COMPRESS"
    BY <1>3 DEF Fail
  <2>2. TypeOK'
    BY <1>1, <1>3, <2>1 DEF TypeOK, Pcs, Settled
  <2>3. QED BY <1>1, <2>1, <2>2 DEF Stops, Ends, Written
<1>4. ASSUME NEW size \in Sizes, Ask("file", 8 + size),
             IF Overruns("file", <<4, 4>>, size)
             THEN Go("overrun") /\ UNCHANGED <<cur, parts, file_size>>
             ELSE /\ assembler("compressed", "file", <<4, 4>>, size)
                  /\ file_size' = max.file - cur'.file.n
                  /\ Go("done")
      PROVE  Compressed \/ Stops
  <2>. DEFINE bytes == 8 + size
  <2>1. size \in Nat /\ bytes \in Nat /\ Total(<<4, 4>>) = 8 /\ <<4, 4>> \in Seq(Nat)
    <3>1. size \in Nat
      BY BlockBytes, WidthsTyped
    <3>2. QED BY <3>1, TotalOfTwo, WidthsTyped
  <2>2. CASE Overruns("file", <<4, 4>>, size)
    <3>1. pc' = "overrun" /\ err' = err /\ UNCHANGED <<cur, parts, file_size>>
      BY <1>4, <2>2 DEF Go
    <3>2. asked["file"] + bytes > max["file"]
      <4>1. cur.file.pos \in Nat /\ asked["file"] \in Nat /\ max["file"] \in Nat
        BY <1>2, AccountNumbers DEF Cursors
      <4>2. cur.file.pos <= asked["file"] /\ cur.file.pos + 8 + size > max["file"]
        BY <1>2, <2>1, <2>2 DEF Account, Overruns
      <4>3. QED BY <2>1, <4>1, <4>2
    <3>3. Exceeded'
      BY <1>1, <1>2, <1>4, <2>1, <3>2, AskedTooMuch DEF Cursors
    <3>4. locations' \in Locations /\ todo' \in Todos
      BY <1>1, TypesOf
    <3>5. QED BY <1>1, <1>4, <2>1, <3>1, <3>3, <3>4, Refused DEF Cursors
  <2>3. CASE ~Overruns("file", <<4, 4>>, size)
    <3>1. /\ assembler("compressed", "file", <<4, 4>>, size)
          /\ file_size' = max.file - cur'.file.n /\ pc' = "done" /\ err' = err
      BY <1>4, <2>3 DEF Go
    <3>2. Puts("compressed", "file", bytes)
      BY <1>4, <2>1, <3>1, AssemblerPuts DEF Cursors
    <3>. HIDE DEF bytes
    <3>3. QED BY <1>1, <2>1, <3>1, <3>2 DEF Compressed
  <2>4. QED BY <2>2, <2>3
<1>5. QED BY <1>3, <1>4 DEF FinishCompressed

\* What can happen next.
Step == \/ UNCHANGED vars \/ Stops \/ FilePut
        \/ ContinueInFile \/ LeaveRoomForSizes \/ Allocated
        \/ BodyPut \/ BodySkip \/ FinishInFile \/ Compressed

\* Each action of file_writer is one of the steps.
LEMMA NextIsStep ==
  ASSUME TypeOK, AccountInv, OffsetInv, [Next]_vars
  PROVE  Step
<1>1. CASE UNCHANGED vars
  BY <1>1 DEF Step
<1>2. CASE WriteSignature
  BY <1>2, SignatureStep DEF Step
<1>3. CASE WriteHeader
  BY <1>3, HeaderStep DEF Step
<1>4. CASE WriteSnapshot
  BY <1>4, SnapshotStep DEF Step
<1>5. CASE ContinueInFile \/ LeaveRoomForSizes \/ FinishInFile
  BY <1>5 DEF Step
<1>6. CASE AllocBody
  BY <1>6, AllocStep DEF Step
<1>7. CASE WriteVersion
  BY <1>7, VersionStep DEF Step
<1>8. CASE WritePlugins
  BY <1>8, PluginsStep DEF Step
<1>9. CASE ReserveLocations
  BY <1>9, LocationsStep DEF Step
<1>10. CASE WriteGlobal("globals1") \/ WriteGlobal("globals2") \/ WriteGlobal("globals3")
  BY <1>10, GlobalStep DEF Step, Globals
<1>11. CASE BeginGlobals2
  BY <1>11, BeginGlobals2Step DEF Step
<1>12. CASE BeginChangeForms
  BY <1>12, BeginChangeFormsStep DEF Step
<1>13. CASE WriteChangeForm
  BY <1>13, ChangeFormStep DEF Step
<1>14. CASE BeginGlobals3
  BY <1>14, BeginGlobals3Step DEF Step
<1>15. CASE WriteFormIds
  BY <1>15, FormIdsStep DEF Step
<1>16. CASE WriteWorldSpaces
  BY <1>16, WorldSpacesStep DEF Step
<1>17. CASE WriteUnknown3
  BY <1>17, Unknown3Step DEF Step
<1>18. CASE FinishUncompressed
  BY <1>18, UncompressedStep DEF Step
<1>19. CASE FinishCompressed
  BY <1>19, CompressedStep DEF Step
<1>20. CASE Ended
  BY <1>20 DEF Ended, Step
<1>21. QED BY <1>1, <1>2, <1>3, <1>4, <1>5, <1>6, <1>7, <1>8, <1>9, <1>10, <1>11,
              <1>12, <1>13, <1>14, <1>15, <1>16, <1>17, <1>18, <1>19, <1>20 DEF Next
-----------------------------------------------------------------------------
(* The steps keep the types. *)

\* Writing begins with values of the right types.
LEMMA InitTypeOK == Init => TypeOK
<1>. SUFFICES ASSUME Init PROVE TypeOK
  OBVIOUS
<1>1. PICK room \in FileRooms :
        /\ max = [file |-> room, body_buffer |-> BodyRoom]
        /\ cur = [c \in {"file", "body"} |-> [pos |-> 0, n |-> room]]
        /\ file_size = room
  BY DEF Init
<1>2. room \in Nat /\ BodyRoom \in Nat /\ UintMod \in Nat /\ MaxCount \in Nat
  BY WriterAssumption DEF WriterAssumption
<1>3. max \in [Buffers -> Nat] /\ file_size \in Nat
  BY <1>1, <1>2 DEF Buffers
<1>4. cur \in [{"file", "body"} -> Cursor]
  BY <1>1, <1>2 DEF Cursor
<1>5. locations \in [off : [Offsets -> 0..UintMod], num : [Counts -> Nat]]
  BY <1>2 DEF Init
<1>6. todo \in [types : Seq(STRING), forms : 0..MaxCount]
  BY <1>2 DEF Init
<1>7. parts \in Seq([what : DOMAIN Rank, in : Buffers, from : Nat, size : Nat])
  BY DEF Init
<1>8. asked \in [Buffers -> Nat]
  BY DEF Init
<1>9. QED BY <1>3, <1>4, <1>5, <1>6, <1>7, <1>8 DEF Init, TypeOK, Pcs, Buffers

\* Each step keeps the types.
LEMMA StepTypeOK ==
  ASSUME TypeOK, AccountInv, Step
  PROVE  TypeOK'
<1>1. CASE UNCHANGED vars
  BY <1>1 DEF TypeOK, vars
<1>2. CASE Stops
  BY <1>2 DEF Stops
<1>3. CASE FilePut
  <2>1. PICK what \in {"signature", "header", "snapshot"}, bytes \in Nat :
          Puts(what, "file", bytes)
    BY <1>3 DEF FilePut
  <2>2. /\ cur' \in [Cursors -> Cursor] /\ parts' \in Seq(Stores)
        /\ asked' \in [Buffers -> Nat]
    BY <2>1, PutsTyped DEF Cursors, Rank
  <2>3. pc' \in Pcs
    BY <1>3 DEF FilePut, FilePcs, Pcs
  <2>4. QED BY <1>3, <2>2, <2>3 DEF TypeOK, FilePut, Settled, Cursors, Stores
<1>4. CASE ContinueInFile
  <2>1. pc' \in Pcs /\ err' = err
    BY <1>4 DEF ContinueInFile, Go, Pcs
  <2>2. cur' \in [Cursors -> Cursor]
    BY <1>4, TypesOf DEF ContinueInFile, Cursors
  <2>3. QED BY <1>4, <2>1, <2>2 DEF TypeOK, ContinueInFile, given, body, Cursors
<1>5. CASE LeaveRoomForSizes
  <2>1. pc' \in Pcs /\ err' = err
    BY <1>5 DEF LeaveRoomForSizes, Go, Pcs
  <2>2. Advanced(cur.file, 8) \in Cursor
    BY SMTT(30), TypesOf DEF Advanced, Cursor
  <2>3. cur' \in [Cursors -> Cursor]
    BY <1>5, <2>2, TypesOf DEF LeaveRoomForSizes, Cursors
  <2>4. offset_var' \in Int
    BY <1>5 DEF LeaveRoomForSizes, TypeOK
  <2>5. asked' \in [Buffers -> Nat]
    <3>1. asked' = [asked EXCEPT !["file"] = @ + 8]
      BY <1>5 DEF LeaveRoomForSizes, Ask, In
    <3>2. QED BY <3>1, TypesOf DEF Buffers
  <2>6. QED BY <1>5, <2>1, <2>3, <2>4, <2>5
            DEF TypeOK, LeaveRoomForSizes, given, Cursors
<1>6. CASE Allocated
  <2>1. /\ pc' = "version" /\ err' = err
        /\ cur' = [cur EXCEPT !.body = [pos |-> 0, n |-> BodyRoom]]
        /\ home' = "body_buffer" /\ offset_var' = 0 - cur.file.pos
        /\ UNCHANGED <<locations, todo, file_size, parts, asked, save, max>>
    BY <1>6 DEF Allocated, AllocBody, Go, Fail, given
  <2>2. [pos |-> 0, n |-> BodyRoom] \in Cursor
    BY WriterAssumption DEF WriterAssumption, Cursor
  <2>3. cur' \in [Cursors -> Cursor]
    BY <2>1, <2>2, TypesOf DEF Cursors
  <2>4. offset_var' \in Int
    BY <2>1, TypesOf
  <2>5. QED BY <2>1, <2>3, <2>4 DEF TypeOK, Pcs, Buffers, Cursors
<1>7. CASE BodyPut
  <2>1. PICK what \in BodyParts, bytes \in Nat : BodyPutOf(what, bytes)
    BY <1>7 DEF BodyPut
  <2>2. what \in DOMAIN Rank
    BY DEF BodyParts, Rank
  <2>3. /\ cur' \in [Cursors -> Cursor] /\ parts' \in Seq(Stores)
        /\ asked' \in [Buffers -> Nat]
    BY <2>1, <2>2, PutsTyped DEF Cursors, BodyPutOf
  <2>4. pc' \in Pcs
    BY <2>1 DEF BodyPutOf, BodyPcs, Pcs
  <2>5. QED BY <1>7, <2>3, <2>4 DEF TypeOK, BodyPut, Settled, Cursors, Stores, Locations, Todos
<1>8. CASE BodySkip
  <2>1. pc' \in Pcs
    BY <1>8 DEF BodySkip, BodyPcs, Pcs
  <2>2. QED BY <1>8, <2>1 DEF TypeOK, BodySkip, Settled, Locations, Todos
<1>9. CASE FinishInFile
  <2>1. /\ pc = "finish" /\ pc' = "done" /\ err' = err
        /\ cur' = [cur EXCEPT !.file = cur.body]
        /\ file_size' = max.file - cur.body.n
        /\ UNCHANGED <<locations, todo, parts, asked, save, max, home, offset_var>>
        /\ ~supports_save_file_compression
    BY <1>9 DEF FinishInFile, Go, given, body
  <2>2. cur' \in [Cursors -> Cursor]
    BY <2>1, TypesOf DEF Cursors
  <2>3. home = "file"
    BY <2>1 DEF AccountInv, TypeOK, Buffers
  <2>4. Account("body") /\ In("body") = "file"
    BY <2>1, <2>3 DEF AccountInv, InBody, Alive, FilePcs, Ends, In
  <2>5. /\ asked["file"] \in Nat /\ max["file"] \in Nat
        /\ cur.body.n = max["file"] - asked["file"]
    BY <2>4, AccountNumbers DEF Account, Cursors
  <2>6. file_size' \in Nat
    BY <2>1, <2>5
  <2>7. QED BY <2>1, <2>2, <2>6 DEF TypeOK, Pcs, Cursors
<1>10. CASE Compressed
  <2>1. PICK bytes \in Nat : Puts("compressed", "file", bytes)
    BY <1>10 DEF Compressed
  <2>2. /\ cur' \in [Cursors -> Cursor] /\ parts' \in Seq(Stores)
        /\ asked' \in [Buffers -> Nat]
    BY <2>1, PutsTyped DEF Cursors, Rank
  <2>3. Account("file") /\ In("file") = "file"
    BY <1>10 DEF AccountInv, InBody, Alive, FilePcs, Ends, In, Compressed
  <2>4. /\ asked["file"] \in Nat /\ max["file"] \in Nat
        /\ cur.file.n = max["file"] - asked["file"]
    BY <2>3, AccountNumbers DEF Account, Cursors
  <2>5. cur'.file.n = cur.file.n - bytes
    BY <2>1 DEF Puts, Moved
  <2>6. file_size' \in Nat
    BY <1>10, <2>4, <2>5 DEF Compressed
  <2>7. QED BY <1>10, <2>2, <2>6 DEF TypeOK, Compressed, Settled, Pcs, Cursors, Stores
<1>11. QED BY <1>1, <1>2, <1>3, <1>4, <1>5, <1>6, <1>7, <1>8, <1>9, <1>10 DEF Step
-----------------------------------------------------------------------------
(* The accounts. *)

\* At first nothing was asked of a buffer.
LEMMA InitAccountInv == Init => AccountInv
<1>. SUFFICES ASSUME Init PROVE AccountInv
  OBVIOUS
<1>1. PICK room \in FileRooms :
        /\ max = [file |-> room, body_buffer |-> BodyRoom]
        /\ cur = [c \in {"file", "body"} |-> [pos |-> 0, n |-> room]]
  BY DEF Init
<1>2. room \in Nat
  BY WriterAssumption DEF WriterAssumption
<1>3. pc = "signature" /\ err = "CG_OK" /\ home = "file" /\ offset_var = 0
  BY DEF Init
<1>4. Account("file")
  <2>1. asked["file"] = 0 /\ max["file"] = room /\ cur["file"] = [pos |-> 0, n |-> room]
    BY <1>1 DEF Init, Buffers
  <2>2. QED BY <1>2, <2>1 DEF Account, In
<1>5. ~InBody /\ ~Written
  BY <1>3 DEF InBody, FilePcs, Written
<1>6. asked.body_buffer = 0
  BY DEF Init, Buffers
<1>7. QED BY <1>1, <1>3, <1>4, <1>5, <1>6 DEF AccountInv

\* A store moves its account along.
LEMMA AccountMoves ==
  ASSUME TypeOK, AccountInv, NEW c \in Cursors, Account(c), NEW what \in DOMAIN Rank,
         NEW bytes \in Nat, Puts(what, c, bytes), max' = max, home' = home
  PROVE  /\ Account(c)'
         /\ \A d \in Cursors : Account(d) /\ In(d) # In(c) => Account(d)'
<1>. DEFINE b == In(c)
<1>1. In(c)' = b /\ \A d \in Cursors : In(d)' = In(d)
  BY DEF In
<1>2. /\ \A d \in Cursors \ {c} : cur'[d] = cur[d]
      /\ \A x \in Buffers \ {b} : asked'[x] = asked[x]
      /\ asked'[b] = asked[b] + bytes
      /\ cur' \in [Cursors -> Cursor]
  BY PutsTyped
<1>3. /\ cur[c].pos \in Nat /\ cur[c].n \in Int /\ max[b] \in Nat /\ asked[b] \in Nat
  BY AccountNumbers
<1>4. cur'[c].n = cur[c].n - bytes /\ cur'[c].pos <= cur[c].pos + bytes
      /\ (cur'[c].n >= 0 => cur'[c].pos = cur[c].pos + bytes)
  BY DEF Puts, Moved
<1>5. /\ cur[c].n = max[b] - asked[b] /\ cur[c].pos <= asked[b]
      /\ cur[c].n >= 0 => cur[c].pos = asked[b]
  BY DEF Account
<1>6. cur'[c].pos \in Nat /\ cur'[c].n \in Int
  BY <1>2 DEF Cursor
<1>. HIDE DEF b, In
<1>7. /\ cur'[c].n = max'[b] - asked'[b] /\ cur'[c].pos <= asked'[b]
      /\ cur'[c].n >= 0 => cur'[c].pos = asked'[b]
  BY <1>2, <1>3, <1>4, <1>5, <1>6
<1>8. Account(c)'
  BY <1>1, <1>7 DEF Account
<1>9. ASSUME NEW d \in Cursors, Account(d), In(d) # In(c) PROVE Account(d)'
  <2>1. d # c /\ In(d) \in Buffers
    BY <1>9, AccountNumbers
  <2>2. cur'[d] = cur[d] /\ asked'[In(d)] = asked[In(d)]
    BY <1>2, <1>9, <2>1 DEF b
  <2>3. QED BY <1>1, <1>9, <2>2 DEF Account
<1>10. QED BY <1>8, <1>9

\* What is said of the program counter where the body goes on.
LEMMA BodyGoesOn ==
  ASSUME AccountInv, pc \in BodyPcs, pc' \in BodyPcs \cup {"finish"}, err' = err
  PROVE  /\ InBody /\ InBody' /\ ~Written' /\ pc' \notin FilePcs /\ err' = "CG_OK"
         /\ pc' # "overrun" /\ pc' # "done" /\ pc # "done" /\ pc # "finish"
         /\ pc \notin FilePcs /\ ~Written
BY DEF AccountInv, BodyPcs, FilePcs, Ends, InBody, Alive, Written

\* What is said of the program counter in front of the body.
LEMMA FileGoesOn ==
  ASSUME AccountInv, pc \in FilePcs, pc' \in FilePcs, err' = err
  PROVE  /\ ~InBody' /\ ~Written' /\ err' = "CG_OK"
         /\ pc' # "overrun" /\ pc' # "done" /\ pc' # "finish" /\ ~InBody /\ ~Written
BY DEF AccountInv, FilePcs, InBody, Alive, Written

\* What is said of the program counter where writing stops.
LEMMA StopsThere ==
  ASSUME Stops
  PROVE  ~InBody' /\ ~Alive' /\ ~Written' /\ pc' \notin FilePcs /\ pc' # "finish"
BY DEF Stops, FilePcs, Ends, InBody, Alive, Written

\* Each step keeps the accounts.
LEMMA StepAccountInv ==
  ASSUME TypeOK, AccountInv, Step, TypeOK'
  PROVE  AccountInv'
<1>1. CASE UNCHANGED vars
  BY <1>1 DEF AccountInv, vars, Account, In, InBody, Alive, Written, Gap,
              supports_save_file_compression
<1>2. CASE Stops
  <2>1. UNCHANGED <<max, home, save>> /\ (err' = "CG_EOF" \/ pc' = "overrun" => Exceeded')
        /\ (pc' # "done" => err' = "CG_OK")
    BY <1>2 DEF Stops, Settled
  <2>2. home' = "body_buffer" => supports_save_file_compression'
    BY <2>1 DEF AccountInv, supports_save_file_compression
  <2>3. QED BY <1>2, <2>1, <2>2, StopsThere DEF AccountInv, Exceeded
<1>3. CASE FilePut
  <2>1. PICK what \in {"signature", "header", "snapshot"}, bytes \in Nat :
          Puts(what, "file", bytes)
    BY <1>3 DEF FilePut
  <2>2. UNCHANGED <<err, save, max, home, offset_var>> /\ pc \in FilePcs /\ pc' \in FilePcs
    BY <1>3 DEF FilePut, Settled
  <2>3. Account("file") /\ home = "file" /\ offset_var = 0
    BY <2>2 DEF AccountInv
  <2>4. Account("file")'
    BY <2>1, <2>2, <2>3, AccountMoves DEF Cursors, Rank
  <2>5. asked'.body_buffer = asked.body_buffer
    BY <2>1, PutsTyped DEF Cursors, Rank, Buffers, In
  <2>6. asked'.body_buffer = 0
    BY <2>2, <2>5 DEF AccountInv
  <2>7. QED BY <2>2, <2>3, <2>4, <2>6, FileGoesOn DEF AccountInv
<1>4. CASE ContinueInFile
  <2>1. /\ pc = "body" /\ pc' = "version" /\ err' = err
        /\ cur' = [cur EXCEPT !.body = cur.file]
        /\ UNCHANGED <<asked, save, max, home, offset_var>>
    BY <1>4 DEF ContinueInFile, Go, given, body
  <2>2. Account("file") /\ home = "file" /\ err = "CG_OK"
    BY <2>1 DEF AccountInv, FilePcs
  <2>3. cur'.body = cur.file
    BY <2>1, TypesOf DEF Cursors
  <2>4. Account("body")'
    BY <2>1, <2>2, <2>3 DEF Account, In
  <2>5. ~Written' /\ pc' \notin FilePcs
    BY <2>1 DEF Written, FilePcs
  <2>6. QED BY <2>1, <2>2, <2>4, <2>5 DEF AccountInv
<1>5. CASE LeaveRoomForSizes
  <2>1. /\ pc = "body" /\ pc' = "version" /\ err' = err
        /\ cur' = [cur EXCEPT !.body = Advanced(cur.file, 8)]
        /\ asked' = [asked EXCEPT !["file"] = @ + 8]
        /\ UNCHANGED <<save, max, home>>
    BY <1>5 DEF LeaveRoomForSizes, Go, given, Ask, In
  <2>2. Account("file") /\ home = "file" /\ err = "CG_OK"
    BY <2>1 DEF AccountInv, FilePcs
  <2>3. cur'.body = [pos |-> cur.file.pos + 8, n |-> cur.file.n - 8]
    BY <2>1, TypesOf DEF Cursors, Advanced
  <2>4. asked'["file"] = asked["file"] + 8
    BY <2>1, TypesOf DEF Buffers
  <2>5. /\ cur.file.pos \in Nat /\ cur.file.n \in Int /\ max["file"] \in Nat
        /\ asked["file"] \in Nat
    BY <2>2, AccountNumbers DEF Cursors, In
  <2>6. Account("body")'
    <3>1. cur'.body.pos = cur.file.pos + 8 /\ cur'.body.n = cur.file.n - 8
      BY <2>3
    <3>2. /\ cur.file.n = max["file"] - asked["file"] /\ cur.file.pos <= asked["file"]
          /\ cur.file.n >= 0 => cur.file.pos = asked["file"]
      BY <2>2 DEF Account, In
    <3>3. /\ cur'.body.n = max["file"] - asked'["file"]
          /\ cur'.body.pos <= asked'["file"]
          /\ cur'.body.n >= 0 => cur'.body.pos = asked'["file"]
      BY <2>4, <2>5, <3>1, <3>2
    <3>4. In("body")' = "file"
      BY <2>1, <2>2 DEF In
    <3>5. QED BY <2>1, <3>3, <3>4 DEF Account
  <2>7. ~Written' /\ pc' \notin FilePcs
    BY <2>1 DEF Written, FilePcs
  <2>8. QED BY <2>1, <2>2, <2>6, <2>7 DEF AccountInv
<1>6. CASE Allocated
  <2>1. /\ pc = "body" /\ pc' = "version" /\ err' = err
        /\ cur' = [cur EXCEPT !.body = [pos |-> 0, n |-> BodyRoom]]
        /\ home' = "body_buffer" /\ supports_save_file_compression
        /\ UNCHANGED <<asked, save, max>>
    BY <1>6 DEF Allocated, AllocBody, Go, Fail, given
  <2>2. Account("file") /\ err = "CG_OK"
    BY <2>1 DEF AccountInv, FilePcs
  <2>3. cur'.body = [pos |-> 0, n |-> BodyRoom] /\ cur'.file = cur.file
    BY <2>1, TypesOf DEF Cursors
  <2>4. Account("body")'
    <3>1. asked["body_buffer"] = 0 /\ max["body_buffer"] = BodyRoom /\ BodyRoom \in Nat
      BY <2>1, WriterAssumption DEF WriterAssumption, AccountInv, FilePcs
    <3>2. In("body")' = "body_buffer"
      BY <2>1 DEF In
    <3>3. QED BY <2>1, <2>3, <3>1, <3>2 DEF Account
  <2>5. Account("file")'
    BY <2>1, <2>2, <2>3 DEF Account, In
  <2>6. ~Written' /\ pc' \notin FilePcs
    BY <2>1 DEF Written, FilePcs
  <2>7. supports_save_file_compression'
    BY <2>1 DEF supports_save_file_compression
  <2>8. QED BY <2>1, <2>2, <2>4, <2>5, <2>6, <2>7 DEF AccountInv
<1>7. CASE BodyPut
  <2>1. PICK what \in BodyParts, bytes \in Nat : BodyPutOf(what, bytes)
    BY <1>7 DEF BodyPut
  <2>2. /\ pc \in BodyPcs /\ pc' \in BodyPcs \cup {"finish"}
        /\ Puts(what, "body", bytes) /\ what \in DOMAIN Rank
        /\ UNCHANGED <<err, save, max, home>>
    BY <1>7, <2>1 DEF BodyPutOf, BodyPut, Settled, BodyParts, Rank
  <2>3. Account("body") /\ (home = "body_buffer" => Account("file"))
    BY <2>2, BodyGoesOn DEF AccountInv
  <2>4. Account("body")'
    BY <2>2, <2>3, AccountMoves DEF Cursors
  <2>5. home' = "body_buffer" => Account("file")'
    BY <2>2, <2>3, AccountMoves DEF Cursors, In
  <2>6. pc' = "finish" => cur'.body.n >= 0
    BY <2>1 DEF BodyPutOf
  <2>7. home' = "body_buffer" => supports_save_file_compression'
    BY <2>2 DEF AccountInv, supports_save_file_compression
  <2>8. QED BY <2>2, <2>4, <2>5, <2>6, <2>7, BodyGoesOn DEF AccountInv
<1>8. CASE BodySkip
  <2>1. pc \in BodyPcs /\ pc' \in BodyPcs
        /\ UNCHANGED <<err, save, max, home, cur, asked>>
    BY <1>8 DEF BodySkip, Settled
  <2>2. Account("body")' /\ (home' = "body_buffer" => Account("file")')
    BY <2>1, BodyGoesOn DEF AccountInv, Account, In
  <2>3. home' = "body_buffer" => supports_save_file_compression'
    BY <2>1 DEF AccountInv, supports_save_file_compression
  <2>4. pc' # "finish"
    BY <2>1 DEF BodyPcs
  <2>5. QED BY <2>1, <2>2, <2>3, <2>4, BodyGoesOn DEF AccountInv
<1>9. CASE FinishInFile
  <2>1. /\ pc = "finish" /\ pc' = "done" /\ err' = err
        /\ cur' = [cur EXCEPT !.file = cur.body]
        /\ file_size' = max.file - cur.body.n
        /\ UNCHANGED <<asked, save, max, home, offset_var>>
        /\ ~supports_save_file_compression
    BY <1>9 DEF FinishInFile, Go, given, body
  <2>2. home = "file" /\ err = "CG_OK" /\ cur.body.n >= 0
    BY <2>1 DEF AccountInv, TypeOK, Buffers
  <2>3. Account("body")
    BY <2>1 DEF AccountInv, InBody, Alive, FilePcs, Ends
  <2>4. cur'.body = cur.body
    BY <2>1, TypesOf DEF Cursors
  <2>5. Account("body")'
    BY <2>1, <2>3, <2>4 DEF Account, In
  <2>6. ~supports_save_file_compression' /\ ~Gap' /\ pc' \notin FilePcs
    BY <2>1 DEF supports_save_file_compression, Gap, FilePcs
  <2>7. QED BY <2>1, <2>2, <2>4, <2>5, <2>6 DEF AccountInv
<1>10. CASE Compressed
  <2>1. PICK bytes \in Nat : Puts("compressed", "file", bytes)
    BY <1>10 DEF Compressed
  <2>2. /\ pc = "finish" /\ home = "body_buffer" /\ pc' = "done"
        /\ file_size' = max.file - cur'.file.n
        /\ UNCHANGED <<err, save, max, home, offset_var>>
    BY <1>10 DEF Compressed, Settled
  <2>3. InBody
    BY <2>2 DEF InBody, Alive, FilePcs, Ends
  <2>4. Account("body") /\ Account("file") /\ cur.body.n >= 0 /\ err = "CG_OK"
    BY <2>2, <2>3 DEF AccountInv
  <2>5. Account("file")' /\ Account("body")'
    BY <2>1, <2>2, <2>4, AccountMoves DEF Cursors, In, Rank
  <2>6. cur'.body = cur.body
    BY <2>1, PutsTyped DEF Cursors, Rank
  <2>7. supports_save_file_compression' /\ ~Gap' /\ pc' \notin FilePcs
    BY <2>2 DEF AccountInv, supports_save_file_compression, Gap, FilePcs
  <2>8. QED BY <2>2, <2>4, <2>5, <2>6, <2>7 DEF AccountInv
<1>11. QED BY <1>1, <1>2, <1>3, <1>4, <1>5, <1>6, <1>7, <1>8, <1>9, <1>10 DEF Step
-----------------------------------------------------------------------------
(* Where the stores are. *)

\* No stores leave no gap.
LEMMA InitPlaceInv == Init => PlaceInv
<1>. SUFFICES ASSUME Init PROVE PlaceInv
  OBVIOUS
<1>1. parts = <<>> /\ pc = "signature" /\ home = "file"
  BY DEF Init
<1>2. Len(parts) = 0 /\ DOMAIN parts = {}
  BY <1>1
<1>3. Tiled(parts)
  BY <1>2 DEF Tiled
<1>4. cur.file.pos = 0
  BY DEF Init
<1>5. EndsAt(parts, "file", Len(parts), cur.file.pos)
  BY <1>2, <1>4 DEF EndsAt
<1>6. ~InBody
  BY <1>1 DEF InBody, FilePcs
<1>7. QED BY <1>1, <1>2, <1>3, <1>5, <1>6 DEF PlaceInv

\* A store joins the others without a gap.
LEMMA PutPlaces ==
  ASSUME TypeOK, NEW c \in Cursors, NEW what \in DOMAIN Rank, NEW bytes \in Nat,
         Puts(what, c, bytes)
  PROVE  /\ \A b \in Buffers, e \in Nat :
              b # In(c) /\ EndsAt(parts, b, Len(parts), e) =>
                EndsAt(parts', b, Len(parts'), e)
         /\ In(c) = "file" /\ (\A i \in DOMAIN parts : parts[i].in = "file") =>
              \A i \in DOMAIN parts' : parts'[i].in = "file"
         /\ Tiled(parts) /\ (cur[c].n >= 0 => EndsAt(parts, In(c), Len(parts), cur[c].pos)) =>
              /\ Tiled(parts')
              /\ cur'[c].n >= 0 => EndsAt(parts', In(c), Len(parts'), cur'[c].pos)
<1>. DEFINE p == Part(what, c, cur[c].pos, bytes)
<1>1. cur[c].pos \in Nat /\ cur[c].n \in Int /\ In(c) \in Buffers /\ parts \in Seq(Stores)
  BY TypesOf DEF Cursors, Cursor
<1>2. p \in Stores /\ p.in = In(c) /\ p.from = cur[c].pos /\ p.size = bytes
  BY <1>1 DEF Part, Stores
<1>3. cur'[c].n = cur[c].n - bytes /\ (cur'[c].n >= 0 => cur'[c].pos = cur[c].pos + bytes)
  BY DEF Puts, Moved
<1>. HIDE DEF p, In
<1>4. CASE cur[c].n - bytes >= 0
  <2>1. parts' = Append(parts, p)
    BY <1>4 DEF Puts, p
  <2>2. /\ Len(parts') = Len(parts) + 1 /\ DOMAIN parts' = 1..(Len(parts) + 1)
        /\ Len(parts) \in Nat /\ DOMAIN parts = 1..Len(parts)
        /\ \A i \in 1..Len(parts) : parts'[i] = parts[i]
        /\ parts'[Len(parts) + 1] = p
    BY <1>1, <1>2, <2>1
  <2>3. \A b \in Buffers, e \in Nat :
              b # In(c) /\ EndsAt(parts, b, Len(parts), e) =>
                EndsAt(parts', b, Len(parts'), e)
    BY <1>1, <1>2, <2>1, <2>2, EndsAtBeside
  <2>4. \A i \in 1..(Len(parts) + 1) : i \in 1..Len(parts) \/ i = Len(parts) + 1
    BY <2>2
  <2>5. In(c) = "file" /\ (\A i \in DOMAIN parts : parts[i].in = "file") =>
              \A i \in DOMAIN parts' : parts'[i].in = "file"
    BY <1>2, <2>2, <2>4
  <2>6. EndsAt(parts', In(c), Len(parts'), cur'[c].pos)
    <3>1. EndsAt(Append(parts, p), p.in, Len(parts) + 1, p.from + p.size)
      BY <1>1, <1>2, EndsAtLast
    <3>2. cur'[c].pos = p.from + p.size
      BY <1>2, <1>3, <1>4
    <3>3. QED BY <1>2, <2>1, <2>2, <3>1, <3>2
  <2>7. ASSUME Tiled(parts), cur[c].n >= 0 => EndsAt(parts, In(c), Len(parts), cur[c].pos)
        PROVE  Tiled(parts')
    <3>1. cur[c].n >= 0
      BY <1>1, <1>4
    <3>2. EndsAt(parts, p.in, Len(parts), p.from)
      BY <1>2, <2>7, <3>1
    <3>3. QED BY <1>1, <1>2, <2>1, <2>7, <3>2, TiledNext
  <2>8. QED BY <2>3, <2>5, <2>6, <2>7
<1>5. CASE ~(cur[c].n - bytes >= 0)
  <2>1. parts' = parts /\ ~(cur'[c].n >= 0)
    BY <1>3, <1>5 DEF Puts
  <2>2. QED BY <2>1
<1>6. QED BY <1>4, <1>5

\* Each step leaves no gap between the stores.
LEMMA StepPlaceInv ==
  ASSUME TypeOK, AccountInv, PlaceInv, Step, TypeOK', AccountInv'
  PROVE  PlaceInv'
<1>1. CASE UNCHANGED vars
  BY <1>1 DEF PlaceInv, vars, InBody, Alive, Written, Gap, supports_save_file_compression
<1>2. CASE Stops
  BY <1>2, StopsThere DEF PlaceInv
<1>3. CASE FilePut
  <2>1. PICK what \in {"signature", "header", "snapshot"}, bytes \in Nat :
          Puts(what, "file", bytes)
    BY <1>3 DEF FilePut
  <2>2. UNCHANGED <<err, home>> /\ pc \in FilePcs /\ pc' \in FilePcs
    BY <1>3 DEF FilePut, Settled
  <2>3. home = "file" /\ Alive /\ In("file") = "file" /\ what \in DOMAIN Rank
    BY <2>2 DEF AccountInv, Alive, FilePcs, Ends, In, Rank
  <2>4. /\ Tiled(parts) /\ (\A i \in DOMAIN parts : parts[i].in = "file")
        /\ cur.file.n >= 0 => EndsAt(parts, "file", Len(parts), cur.file.pos)
    BY <2>2, <2>3 DEF PlaceInv
  <2>5. /\ Tiled(parts') /\ (\A i \in DOMAIN parts' : parts'[i].in = "file")
        /\ cur'.file.n >= 0 => EndsAt(parts', "file", Len(parts'), cur'.file.pos)
    BY <2>1, <2>3, <2>4, PutPlaces DEF Cursors
  <2>6. ~InBody'
    BY <2>2, FileGoesOn
  <2>7. QED BY <2>5, <2>6 DEF PlaceInv
<1>4. CASE ContinueInFile
  <2>1. /\ pc = "body" /\ pc' = "version" /\ err' = err
        /\ cur' = [cur EXCEPT !.body = cur.file]
        /\ UNCHANGED <<parts, save, home>>
    BY <1>4 DEF ContinueInFile, Go, given, body
  <2>2. pc \in FilePcs /\ home = "file" /\ pc' \notin FilePcs /\ Alive
    BY <2>1 DEF FilePcs, AccountInv, Alive, Ends
  <2>3. cur'.body = cur.file
    BY <2>1, TypesOf DEF Cursors
  <2>4. QED BY <2>1, <2>2, <2>3 DEF PlaceInv
<1>5. CASE LeaveRoomForSizes
  <2>1. /\ pc = "body" /\ pc' = "version" /\ UNCHANGED <<parts, save, home>>
        /\ supports_save_file_compression
    BY <1>5 DEF LeaveRoomForSizes, Go, given
  <2>2. pc \in FilePcs /\ home = "file" /\ pc' \notin FilePcs /\ Alive
    BY <2>1 DEF FilePcs, AccountInv, Alive, Ends
  <2>3. Gap'
    BY <2>1, <2>2 DEF Gap, supports_save_file_compression
  <2>4. QED BY <2>1, <2>2, <2>3 DEF PlaceInv
<1>6. CASE Allocated
  <2>1. /\ pc = "body" /\ pc' = "version"
        /\ cur' = [cur EXCEPT !.body = [pos |-> 0, n |-> BodyRoom]]
        /\ home' = "body_buffer" /\ UNCHANGED parts
    BY <1>6 DEF Allocated, AllocBody, Go, Fail, given
  <2>2. pc \in FilePcs /\ home = "file" /\ pc' \notin FilePcs /\ Alive
    BY <2>1 DEF FilePcs, AccountInv, Alive, Ends
  <2>3. cur'.body.pos = 0 /\ cur'.file = cur.file
    BY <2>1, TypesOf DEF Cursors
  <2>4. Tiled(parts) /\ (\A i \in DOMAIN parts : parts[i].in = "file")
        /\ (cur.file.n >= 0 => EndsAt(parts, "file", Len(parts), cur.file.pos))
    BY <2>2 DEF PlaceInv
  <2>5. DOMAIN parts = 1..Len(parts)
    BY TypesOf
  <2>6. EndsAt(parts, "body_buffer", Len(parts), 0)
    BY <2>4, <2>5 DEF EndsAt
  <2>7. QED BY <2>1, <2>2, <2>3, <2>4, <2>6 DEF PlaceInv
<1>7. CASE BodyPut
  <2>1. PICK what \in BodyParts, bytes \in Nat : BodyPutOf(what, bytes)
    BY <1>7 DEF BodyPut
  <2>2. /\ pc \in BodyPcs /\ pc' \in BodyPcs \cup {"finish"}
        /\ Puts(what, "body", bytes) /\ what \in DOMAIN Rank
        /\ UNCHANGED <<err, save, max, home>>
    BY <1>7, <2>1 DEF BodyPutOf, BodyPut, Settled, BodyParts, Rank
  <2>3. /\ InBody /\ InBody' /\ pc' \notin FilePcs /\ pc \notin FilePcs
        /\ In("body") = home /\ Alive
    BY <2>2, BodyGoesOn DEF In, InBody
  <2>4. Gap' <=> Gap
    BY <2>2 DEF Gap, supports_save_file_compression
  <2>5. home = "file" => \A i \in DOMAIN parts' : parts'[i].in = "file"
    BY <2>2, <2>3, PutPlaces DEF PlaceInv, Cursors
  <2>6. ~Gap => /\ Tiled(parts')
                /\ cur'.body.n >= 0 => EndsAt(parts', home, Len(parts'), cur'.body.pos)
    <3>1. ~Gap => /\ Tiled(parts)
                  /\ cur.body.n >= 0 => EndsAt(parts, home, Len(parts), cur.body.pos)
      BY <2>3 DEF PlaceInv
    <3>2. QED BY <2>2, <2>3, <3>1, PutPlaces DEF Cursors
  <2>7. home = "body_buffer" /\ cur'.file.n >= 0 =>
          EndsAt(parts', "file", Len(parts'), cur'.file.pos)
    <3>1. cur'.file = cur.file
      BY <2>2, PutsTyped DEF Cursors
    <3>2. home = "body_buffer" /\ cur.file.n >= 0 =>
            EndsAt(parts, "file", Len(parts), cur.file.pos)
      BY <2>3 DEF PlaceInv
    <3>3. cur.file.pos \in Nat
      BY TypesOf
    <3>4. QED BY <2>2, <2>3, <3>1, <3>2, <3>3, PutPlaces DEF Cursors, Buffers
  <2>8. QED BY <2>2, <2>3, <2>4, <2>5, <2>6, <2>7 DEF PlaceInv
<1>8. CASE BodySkip
  <2>1. /\ pc \in BodyPcs /\ pc' \in BodyPcs /\ UNCHANGED <<err, save, home, cur, parts>>
    BY <1>8 DEF BodySkip, Settled
  <2>2. InBody /\ InBody' /\ pc' \notin FilePcs /\ pc \notin FilePcs /\ Alive
    BY <2>1, BodyGoesOn DEF InBody
  <2>3. Gap' <=> Gap
    BY <2>1 DEF Gap, supports_save_file_compression
  <2>4. QED BY <2>1, <2>2, <2>3 DEF PlaceInv
<1>9. CASE FinishInFile
  <2>1. /\ pc = "finish" /\ pc' = "done" /\ ~supports_save_file_compression
        /\ cur' = [cur EXCEPT !.file = cur.body]
        /\ UNCHANGED <<parts, save, home>>
    BY <1>9 DEF FinishInFile, Go, given, body
  <2>2. /\ InBody /\ pc' \notin FilePcs /\ Alive /\ home = "file"
    BY <2>1 DEF FilePcs, Ends, InBody, Alive, AccountInv, TypeOK, Buffers
  <2>3. ~Gap /\ ~Gap'
    BY <2>1 DEF Gap, supports_save_file_compression
  <2>4. cur'.body = cur.body
    BY <2>1, TypesOf DEF Cursors
  <2>5. QED BY <2>1, <2>2, <2>3, <2>4 DEF PlaceInv
<1>10. CASE Compressed
  <2>1. PICK bytes \in Nat : Puts("compressed", "file", bytes)
    BY <1>10 DEF Compressed
  <2>2. /\ pc = "finish" /\ home = "body_buffer" /\ pc' = "done" /\ UNCHANGED <<save, home>>
    BY <1>10 DEF Compressed, Settled
  <2>3. InBody /\ pc' \notin FilePcs /\ ~Gap /\ In("file") = "file"
    BY <2>2 DEF InBody, Alive, FilePcs, Ends, Gap, In
  <2>4. /\ Tiled(parts)
        /\ cur.body.n >= 0 => EndsAt(parts, "body_buffer", Len(parts), cur.body.pos)
        /\ cur.file.n >= 0 => EndsAt(parts, "file", Len(parts), cur.file.pos)
    BY <2>2, <2>3 DEF PlaceInv
  <2>5. cur'.body = cur.body /\ cur.body.pos \in Nat /\ "compressed" \in DOMAIN Rank
    BY <2>1, TypesOf, PutsTyped DEF Cursors, Rank
  <2>6. /\ Tiled(parts')
        /\ cur'.file.n >= 0 => EndsAt(parts', "file", Len(parts'), cur'.file.pos)
    BY <2>1, <2>3, <2>4, <2>5, PutPlaces DEF Cursors
  <2>7. cur'.body.n >= 0 => EndsAt(parts', "body_buffer", Len(parts'), cur'.body.pos)
    BY <2>1, <2>3, <2>4, <2>5, PutPlaces DEF Cursors, Buffers
  <2>8. QED BY <2>2, <2>3, <2>6, <2>7 DEF PlaceInv
<1>11. QED BY <1>1, <1>2, <1>3, <1>4, <1>5, <1>6, <1>7, <1>8, <1>9, <1>10 DEF Step

\* The stores of a file that is handed over fill it.
LEMMA PlaceTilesFile ==
  ASSUME TypeOK, AccountInv, PlaceInv
  PROVE  TilesFile
<1>. SUFFICES ASSUME Written, file_size <= max.file
              PROVE  /\ Tiled(parts)
                     /\ EndsAt(parts, "file", Len(parts), file_size)
                     /\ home = "body_buffer" =>
                          EndsAt(parts, "body_buffer", Len(parts), BodyRoom - cur.body.n)
  BY DEF TilesFile
<1>1. InBody /\ ~Gap /\ cur.body.n >= 0 /\ Account("body")
  BY DEF AccountInv, InBody, Alive, Written, FilePcs
<1>2. Tiled(parts) /\ EndsAt(parts, home, Len(parts), cur.body.pos)
  BY <1>1 DEF PlaceInv
<1>3. /\ max["file"] \in Nat /\ asked["file"] \in Nat /\ asked[home] \in Nat
      /\ max[home] \in Nat /\ cur.file.n \in Int /\ cur.body.n \in Int
  BY AccountNumbers DEF Cursors, In
<1>4. cur.body.pos = asked[home] /\ cur.body.n = max[home] - asked[home]
  BY <1>1 DEF Account, In
<1>5. CASE home = "file"
  <2>1. file_size = max["file"] - cur.body.n
    BY <1>5 DEF AccountInv
  <2>2. file_size = cur.body.pos
    BY <1>3, <1>4, <1>5, <2>1
  <2>3. QED BY <1>2, <1>5, <2>2
<1>6. CASE home = "body_buffer"
  <2>1. file_size = max["file"] - cur.file.n /\ Account("file")
    BY <1>1, <1>6 DEF AccountInv
  <2>2. cur.file.n >= 0
    BY <1>3, <2>1
  <2>3. cur.file.pos = asked["file"] /\ cur.file.n = max["file"] - asked["file"]
    BY <2>1, <2>2 DEF Account, In
  <2>4. file_size = cur.file.pos
    BY <1>3, <2>1, <2>3
  <2>5. EndsAt(parts, "file", Len(parts), cur.file.pos)
    BY <1>1, <1>6, <2>2 DEF PlaceInv
  <2>6. max[home] = BodyRoom
    BY <1>6 DEF AccountInv
  <2>7. cur.body.pos = BodyRoom - cur.body.n
    BY <1>3, <1>4, <2>6
  <2>8. QED BY <1>2, <1>6, <2>4, <2>5, <2>7
<1>7. QED BY <1>5, <1>6 DEF TypeOK, Buffers
-----------------------------------------------------------------------------
(* The counts. *)

\* HowMany counts the stores of a kind.
LEMMA HowManyIsNumber == \A t : HowMany(t) = Number(parts, t)
BY DEF HowMany, Number

\* There are finitely many stores of a kind.
LEMMA HowManyTyped ==
  ASSUME TypeOK
  PROVE  \A t : HowMany(t) \in Nat
<1>. TAKE t
<1>. DEFINE p == [what |-> "header", in |-> "file", from |-> 0, size |-> 0]
<1>1. p \in Stores
  BY DEF Stores, Buffers, Rank
<1>2. parts \in Seq(Stores)
  BY TypesOf
<1>. HIDE DEF p
<1>3. Number(parts, t) \in Nat
  BY <1>1, <1>2, NumberNext
<1>4. QED BY <1>3, HowManyIsNumber

\* At first nothing is stored and nothing is counted.
LEMMA InitCountInv == Init => CountInv
<1>. SUFFICES ASSUME Init PROVE CountInv
  OBVIOUS
<1>1. parts = <<>> /\ pc = "signature" /\ \A t \in Counts : locations.num[t] = 0
  BY DEF Init
<1>2. ~InBody /\ DOMAIN parts = {}
  BY <1>1 DEF InBody, FilePcs
<1>3. QED BY <1>1, <1>2 DEF CountInv

\* A put that is inside its buffer adds to the number of its kind.
LEMMA PutCounts ==
  ASSUME TypeOK, NEW c \in Cursors, NEW what \in DOMAIN Rank, NEW bytes \in Nat,
         Puts(what, c, bytes), cur'[c].n >= 0
  PROVE  /\ cur[c].n >= 0
         /\ \A t : HowMany(t)' = HowMany(t) + (IF what = t THEN 1 ELSE 0)
<1>. DEFINE p == Part(what, c, cur[c].pos, bytes)
<1>1. cur[c].n \in Int /\ cur'[c].n = cur[c].n - bytes
  BY TypesOf DEF Cursors, Cursor, Puts, Moved
<1>2. cur[c].n >= 0 /\ cur[c].n - bytes >= 0
  BY <1>1
<1>3. parts' = Append(parts, p)
  BY <1>2 DEF Puts
<1>4. parts \in Seq(Stores) /\ p \in Stores /\ p.what = what
  BY TypesOf DEF Part, Stores, Cursors, Cursor
<1>. HIDE DEF p
<1>5. ASSUME NEW t
      PROVE  Number(parts', t) = Number(parts, t) + (IF what = t THEN 1 ELSE 0)
  BY <1>3, <1>4, NumberNext
<1>6. \A t : HowMany(t)' = Number(parts', t)
  BY DEF HowMany, Number
<1>7. QED BY <1>2, <1>5, <1>6, HowManyIsNumber

\* Where the body begins nothing of it was counted.
LEMMA NothingCounted ==
  ASSUME TypeOK, CountInv, pc = "body", pc' = "version", UNCHANGED <<parts, locations>>,
         TypeOK'
  PROVE  CountInv'
<1>1. /\ \A i \in DOMAIN parts : parts[i].what \in {"signature", "header", "snapshot"}
      /\ \A t \in Counts : locations.num[t] = 0
  BY DEF CountInv, FilePcs
<1>2. ASSUME NEW t \in Counts PROVE Number(parts, t) = 0
  <2>1. t \notin {"signature", "header", "snapshot"}
    BY DEF Counts
  <2>2. \A i \in DOMAIN parts : parts[i].what # t
    BY <1>1, <2>1
  <2>3. QED BY <2>2, NumberNone
<1>3. \A t \in Counts : HowMany(t)' = 0 /\ locations'.num[t] = 0
  BY <1>1, <1>2 DEF HowMany, Number
<1>4. asked'[home'] \in Nat
  BY DEF TypeOK
<1>5. HowMany("globals1")' = 0 /\ HowMany("globals2")' = 0 /\ HowMany("globals3")' = 0
  BY <1>3 DEF Counts
<1>6. HowMany("globals1")' + HowMany("globals2")' + HowMany("globals3")' <= asked'[home']
  BY <1>4, <1>5
<1>. HIDE DEF HowMany
<1>7. pc' \notin FilePcs /\ pc' \notin {"finish", "done"} /\ "globals3" \in Counts
  BY DEF FilePcs, Counts
<1>8. QED BY <1>3, <1>6, <1>7 DEF CountInv

\* A store of the longer sequence is the new one or one of the others.
LEMMA AppendEither ==
  ASSUME NEW S, NEW ps \in Seq(S), NEW p \in S
  PROVE  \A i \in DOMAIN Append(ps, p) :
           \/ i \in DOMAIN ps /\ Append(ps, p)[i] = ps[i]
           \/ i = Len(ps) + 1 /\ Append(ps, p)[i] = p
OBVIOUS

\* Each step counts what it stores.
LEMMA StepCountInv ==
  ASSUME TypeOK, AccountInv, CountInv, Step, TypeOK'
  PROVE  CountInv'
<1>1. CASE UNCHANGED vars
  BY <1>1 DEF CountInv, vars, InBody, Alive, Written, HowMany
<1>2. CASE Stops
  BY <1>2, StopsThere DEF CountInv
<1>3. CASE FilePut
  <2>1. PICK what \in {"signature", "header", "snapshot"}, bytes \in Nat :
          Puts(what, "file", bytes)
    BY <1>3 DEF FilePut
  <2>2. UNCHANGED <<err, locations>> /\ pc \in FilePcs /\ pc' \in FilePcs
    BY <1>3 DEF FilePut
  <2>3. /\ \A i \in DOMAIN parts : parts[i].what \in {"signature", "header", "snapshot"}
        /\ \A t \in Counts : locations'.num[t] = 0
    BY <2>2 DEF CountInv
  <2>. DEFINE p == Part(what, "file", cur["file"].pos, bytes)
  <2>4. p.what = what /\ parts \in Seq(Stores) /\ (parts' = parts \/ parts' = Append(parts, p))
    BY <2>1, TypesOf DEF Part, Puts
  <2>5. p \in Stores
    BY TypesOf DEF Part, Stores, Rank
  <2>. HIDE DEF p
  <2>6. \A i \in DOMAIN parts' : parts'[i].what \in {"signature", "header", "snapshot"}
    BY <2>3, <2>4, <2>5, AppendEither
  <2>7. QED BY <2>2, <2>3, <2>6, FileGoesOn DEF CountInv
<1>4. CASE ContinueInFile
  BY <1>4, NothingCounted DEF ContinueInFile, Go
<1>5. CASE LeaveRoomForSizes
  BY <1>5, NothingCounted DEF LeaveRoomForSizes, Go
<1>6. CASE Allocated
  BY <1>6, NothingCounted DEF Allocated, AllocBody
<1>7. CASE BodyPut
  <2>1. PICK what \in BodyParts, bytes \in Nat : BodyPutOf(what, bytes)
    BY <1>7 DEF BodyPut
  <2>2. /\ pc \in BodyPcs /\ pc' \in BodyPcs \cup {"finish"}
        /\ Puts(what, "body", bytes) /\ what \in DOMAIN Rank
        /\ UNCHANGED <<err, home>>
    BY <1>7, <2>1 DEF BodyPutOf, BodyPut, Settled, BodyParts, Rank
  <2>3. InBody /\ InBody' /\ pc' \notin FilePcs /\ pc \notin {"finish", "done"} /\ pc' # "done"
    BY <2>2, BodyGoesOn
  <2>4. SUFFICES ASSUME cur'.body.n >= 0
                 PROVE  /\ \A t \in Counts \ {"globals3"} : locations'.num[t] = HowMany(t)'
                        /\ locations'.num["globals3"] =
                             IF pc' \in {"finish", "done"}
                             THEN StoredCount(HowMany("globals3"))' ELSE HowMany("globals3")'
                        /\ HowMany("globals1")' + HowMany("globals2")' + HowMany("globals3")'
                             <= asked'[home']
    BY <2>3 DEF CountInv
  <2>5. /\ cur.body.n >= 0
        /\ \A t : HowMany(t)' = HowMany(t) + (IF what = t THEN 1 ELSE 0)
    BY <2>2, <2>4, PutCounts DEF Cursors
  <2>6. /\ \A t \in Counts \ {"globals3"} : locations.num[t] = HowMany(t)
        /\ locations.num["globals3"] = HowMany("globals3")
        /\ HowMany("globals1") + HowMany("globals2") + HowMany("globals3") <= asked[home]
    BY <2>3, <2>5 DEF CountInv
  <2>7. \A t \in Counts \ {"globals3"} : locations'.num[t] = HowMany(t)'
    BY <2>1, <2>5, <2>6 DEF BodyPutOf
  <2>8. \A t : HowMany(t) \in Nat
    BY HowManyTyped
  <2>9. pc' # "finish" => locations'.num["globals3"] = HowMany("globals3")'
    BY <2>1, <2>5, <2>6 DEF BodyPutOf
  <2>10. pc' = "finish" => locations'.num["globals3"] = StoredCount(HowMany("globals3"))'
    <3>1. SUFFICES ASSUME pc' = "finish"
                   PROVE  locations'.num["globals3"] = StoredCount(HowMany("globals3"))'
      OBVIOUS
    <3>2. what = "unknown3"
          /\ locations'.num["globals3"] = StoredCount(locations.num["globals3"])
      BY <2>1, <3>1 DEF BodyPutOf
    <3>3. HowMany("globals3")' = HowMany("globals3")
      BY <2>5, <2>8, <3>2
    <3>. HIDE DEF HowMany
    <3>4. QED BY <2>6, <3>2, <3>3 DEF StoredCount
  <2>11. HowMany("globals1")' + HowMany("globals2")' + HowMany("globals3")' <= asked'[home']
    <3>. DEFINE g1 == HowMany("globals1")  g2 == HowMany("globals2")  g3 == HowMany("globals3")
                h1 == HowMany("globals1")'  h2 == HowMany("globals2")'  h3 == HowMany("globals3")'
                a == asked[home]  b == asked'[home']
    <3>1. b = a + bytes /\ a \in Nat
      BY <2>2, PutsTyped, TypesOf DEF Cursors, In
    <3>2. g1 \in Nat /\ g2 \in Nat /\ g3 \in Nat /\ g1 + g2 + g3 <= a
      BY <2>6, <2>8
    <3>3. /\ h1 = g1 + (IF what = "globals1" THEN 1 ELSE 0)
          /\ h2 = g2 + (IF what = "globals2" THEN 1 ELSE 0)
          /\ h3 = g3 + (IF what = "globals3" THEN 1 ELSE 0)
      BY <2>5
    <3>4. what \in {"globals1", "globals2", "globals3"} => bytes >= 1
      BY <2>1 DEF BodyPutOf, Globals
    <3>. HIDE DEF g1, g2, g3, h1, h2, h3, a, b
    <3>5. h1 + h2 + h3 <= b
      BY <3>1, <3>2, <3>3, <3>4
    <3>6. QED BY <3>5 DEF h1, h2, h3, b
  <2>. HIDE DEF HowMany, StoredCount
  <2>12. QED BY <2>3, <2>7, <2>9, <2>10, <2>11
<1>8. CASE BodySkip
  <2>1. /\ pc \in BodyPcs /\ pc' \in BodyPcs
        /\ UNCHANGED <<err, home, cur, parts, asked>> /\ locations'.num = locations.num
    BY <1>8 DEF BodySkip, Settled
  <2>2. InBody /\ InBody' /\ pc' \notin FilePcs /\ pc \notin {"finish", "done"}
        /\ pc' \notin {"finish", "done"}
    BY <2>1, BodyGoesOn DEF BodyPcs
  <2>3. QED BY <2>1, <2>2 DEF CountInv, HowMany
<1>9. CASE FinishInFile
  <2>1. /\ pc = "finish" /\ pc' = "done" /\ err' = err
        /\ cur' = [cur EXCEPT !.file = cur.body]
        /\ UNCHANGED <<locations, parts, asked, home>>
    BY <1>9 DEF FinishInFile, Go, body
  <2>2. InBody /\ pc' \notin FilePcs
    BY <2>1 DEF FilePcs, Ends, InBody, Alive
  <2>3. cur'.body = cur.body
    BY <2>1, TypesOf DEF Cursors
  <2>4. QED BY <2>1, <2>2, <2>3 DEF CountInv, HowMany, StoredCount
<1>10. CASE Compressed
  <2>1. PICK bytes \in Nat : Puts("compressed", "file", bytes)
    BY <1>10 DEF Compressed
  <2>2. /\ pc = "finish" /\ home = "body_buffer" /\ pc' = "done"
        /\ UNCHANGED <<err, home, locations>>
    BY <1>10 DEF Compressed, Settled
  <2>3. InBody /\ pc' \notin FilePcs /\ cur.body.n >= 0
    BY <2>2 DEF InBody, Alive, FilePcs, Ends, AccountInv
  <2>4. cur'.body = cur.body /\ asked'[home'] = asked[home]
    BY <2>1, <2>2, PutsTyped DEF Cursors, Rank, In, Buffers
  <2>5. \A t \in Counts : HowMany(t)' = HowMany(t)
    <3>1. "compressed" \notin Counts /\ "compressed" \in DOMAIN Rank /\ "file" \in Cursors
      BY DEF Counts, Rank, Cursors
    <3>2. CASE cur'.file.n >= 0
      <4>1. \A t : HowMany(t)' = HowMany(t) + (IF "compressed" = t THEN 1 ELSE 0)
        BY <2>1, <3>1, <3>2, PutCounts
      <4>2. QED BY <3>1, <4>1, HowManyTyped
    <3>3. CASE ~(cur'.file.n >= 0)
      <4>1. parts' = parts
        BY <2>1, <3>3, TypesOf DEF Puts, Moved
      <4>2. QED BY <4>1 DEF HowMany
    <3>4. QED BY <3>2, <3>3
  <2>6. HowMany("globals1")' = HowMany("globals1") /\ HowMany("globals2")' = HowMany("globals2")
        /\ HowMany("globals3")' = HowMany("globals3")
    BY <2>5 DEF Counts
  <2>7. StoredCount(HowMany("globals3"))' = StoredCount(HowMany("globals3"))
    BY <2>6 DEF StoredCount
  <2>. HIDE DEF HowMany, StoredCount
  <2>8. /\ \A t \in Counts \ {"globals3"} : locations.num[t] = HowMany(t)
        /\ locations.num["globals3"] = StoredCount(HowMany("globals3"))
        /\ HowMany("globals1") + HowMany("globals2") + HowMany("globals3") <= asked[home]
    BY <2>2, <2>3 DEF CountInv
  <2>9. QED BY <2>2, <2>3, <2>4, <2>5, <2>6, <2>7, <2>8 DEF CountInv
<1>11. QED BY <1>1, <1>2, <1>3, <1>4, <1>5, <1>6, <1>7, <1>8, <1>9, <1>10 DEF Step

\* One less and one more, in unsigned arithmetic.
LEMMA ThereAndBack ==
  ASSUME NEW n \in Nat, n < UintMod
  PROVE  (StoredCount(n) + 1) % UintMod = n
<1>1. UintMod \in Nat /\ UintMod > 0
  BY WriterAssumption DEF WriterAssumption
<1>2. CASE n = 0
  <2>1. StoredCount(n) = UintMod - 1
    BY <1>1, <1>2 DEF StoredCount
  <2>2. StoredCount(n) + 1 = UintMod
    BY <1>1, <2>1
  <2>3. UintMod % UintMod = 0
    BY <1>1
  <2>4. QED BY <1>2, <2>2, <2>3
<1>3. CASE n > 0
  <2>1. StoredCount(n) = n - 1
    BY <1>1, <1>3, ModOfSmall DEF StoredCount
  <2>2. StoredCount(n) + 1 = n
    BY <2>1
  <2>3. QED BY <2>2, ModOfSmall
<1>4. QED BY <1>2, <1>3

\* The counts of a file that is handed over lead the reader through it.
LEMMA CountsAreRight ==
  ASSUME TypeOK, AccountInv, CountInv
  PROVE  CountsReadBack
<1>. SUFFICES ASSUME Written PROVE
      /\ (locations.num["globals1"] + locations.num["globals2"]) % UintMod =
           HowMany("globals1") + HowMany("globals2")
      /\ (locations.num["globals3"] + 1) % UintMod = HowMany("globals3")
      /\ locations.num["change_forms"] = HowMany("change_forms")
  BY DEF CountsReadBack
<1>. DEFINE g1 == HowMany("globals1")  g2 == HowMany("globals2")  g3 == HowMany("globals3")
            a == asked[home]  m == max[home]
<1>1. /\ InBody /\ pc \in {"finish", "done"} /\ cur.body.n >= 0 /\ Account("body")
  BY DEF AccountInv, InBody, Alive, Written, FilePcs
<1>2. /\ \A t \in Counts \ {"globals3"} : locations.num[t] = HowMany(t)
      /\ locations.num["globals3"] = StoredCount(HowMany("globals3"))
      /\ g1 + g2 + g3 <= a
  BY <1>1 DEF CountInv
<1>3. a \in Nat /\ m \in Nat /\ m < UintMod /\ UintMod \in Nat
  BY AccountNumbers DEF Cursors, In
<1>4. cur.body.n = m - a
  BY <1>1 DEF Account, In
<1>5. a <= m
  BY <1>1, <1>3, <1>4
<1>6. g1 \in Nat /\ g2 \in Nat /\ g3 \in Nat
  BY HowManyTyped
<1>7. /\ locations.num["globals1"] = g1 /\ locations.num["globals2"] = g2
      /\ locations.num["change_forms"] = HowMany("change_forms")
  BY <1>2 DEF Counts
<1>. HIDE DEF g1, g2, g3, a, m
<1>8. g1 + g2 \in Nat /\ g1 + g2 < UintMod /\ g3 < UintMod
  BY <1>2, <1>3, <1>5, <1>6
<1>9. (g1 + g2) % UintMod = g1 + g2
  BY <1>8, ModOfSmall
<1>10. (StoredCount(g3) + 1) % UintMod = g3
  BY <1>6, <1>8, ThereAndBack
<1>11. (locations.num["globals3"] + 1) % UintMod = g3
  BY <1>2, <1>10 DEF g3
<1>12. QED BY <1>7, <1>9, <1>11 DEF g1, g2, g3

\* The accounts tell whether there was room.
LEMMA RoomDoesDecide ==
  ASSUME TypeOK, AccountInv
  PROVE  RoomDecides
<1>1. err = "CG_EOF" \/ pc = "overrun" => \E b \in Buffers : asked[b] > max[b]
  BY DEF AccountInv
<1>2. ASSUME Written PROVE asked[home] <= max[home]
  <2>1. Account("body") /\ cur.body.n >= 0
    BY <1>2 DEF AccountInv, InBody, Alive, Written, FilePcs
  <2>2. cur.body.n = max[home] - asked[home]
    BY <2>1 DEF Account, In
  <2>3. asked[home] \in Nat /\ max[home] \in Nat
    BY AccountNumbers DEF Cursors, In
  <2>4. QED BY <2>1, <2>2, <2>3
<1>3. QED BY <1>1, <1>2 DEF RoomDecides
-----------------------------------------------------------------------------
(* The offsets. *)

\* Ranks and stages are small numbers, and every table has a place behind the start.
LEMMA Ranks ==
  /\ \A what \in DOMAIN Rank : Rank[what] \in 0..7
  /\ \A next \in DOMAIN Stage : Stage[next] \in 0..7
  /\ Offsets \subseteq DOMAIN Rank /\ BodyPcs \cup {"finish", "done"} \subseteq DOMAIN Stage
  /\ \A t \in Offsets : Rank[t] >= 1
BY DEF Rank, Stage, Offsets, BodyPcs

\* Every store is of a known kind and at a place in its buffer.
LEMMA PartsTyped ==
  ASSUME TypeOK
  PROVE  \A i \in DOMAIN parts : parts[i].what \in DOMAIN Rank /\ parts[i].from \in Nat
<1>1. parts \in Seq(Stores)
  BY TypesOf
<1>2. \A i \in DOMAIN parts : parts[i] \in Stores
  BY <1>1
<1>3. \A p \in Stores : p.what \in DOMAIN Rank /\ p.from \in Nat
  BY DEF Stores
<1>. HIDE DEF Stores
<1>4. QED BY <1>2, <1>3

\* At first there is no body.
LEMMA InitOffsetInv == Init => OffsetInv
<1>1. Init => ~InBody /\ ~Written
  BY DEF Init, InBody, FilePcs, Written
<1>2. QED BY <1>1 DEF OffsetInv, AllStored

\* Where the body begins nothing of it is stored.
LEMMA NothingStored ==
  ASSUME TypeOK, CountInv, pc = "body", pc' = "version", UNCHANGED parts
  PROVE  /\ \A i \in DOMAIN parts' : Rank[parts'[i].what] <= Stage[pc']
         /\ \A t \in Offsets : ~(Rank[t] <= Stage[pc'])
<1>1. \A i \in DOMAIN parts : parts[i].what \in {"signature", "header", "snapshot"}
  BY DEF CountInv, FilePcs
<1>2. \A what \in {"signature", "header", "snapshot"} : Rank[what] = 0
  BY DEF Rank
<1>3. Stage[pc'] = 0
  BY DEF Stage
<1>4. \A t \in Offsets : ~(Rank[t] <= 0)
  BY Ranks
<1>5. \A i \in DOMAIN parts' : Rank[parts'[i].what] = 0
  BY <1>1, <1>2
<1>6. QED BY <1>3, <1>4, <1>5

\* The first store of a table stays the first.
LEMMA LeadsStays ==
  ASSUME TypeOK, NEW p \in Stores, parts' = Append(parts, p) \/ parts' = parts, home' = home,
         NEW t, NEW i \in DOMAIN parts, Leads(parts, i, t)
  PROVE  i \in DOMAIN parts' /\ parts'[i] = parts[i] /\ Leads(parts, i, t)'
<1>1. parts \in Seq(Stores)
  BY TypesOf
<1>2. /\ i \in DOMAIN parts'
      /\ \A j \in 1..i : parts'[j] = parts[j]
      /\ i \in 1..i /\ \A j \in 1..(i - 1) : j \in 1..i
  BY SMTT(30), <1>1
<1>3. QED BY <1>2 DEF Leads

\* A store of at least the table's rank behind stores of less is its first.
LEMMA LastLeads ==
  ASSUME TypeOK, NEW p \in Stores, parts' = Append(parts, p), home' = home, p.in = home,
         NEW t, Rank[p.what] >= Rank[t],
         \A i \in DOMAIN parts : parts[i].in = home => Rank[parts[i].what] < Rank[t]
  PROVE  \E i \in DOMAIN parts' : parts'[i] = p /\ Leads(parts, i, t)'
<1>1. parts \in Seq(Stores)
  BY TypesOf
<1>. DEFINE n == Len(parts)
<1>2. /\ n \in Nat /\ DOMAIN parts = 1..n /\ n + 1 \in DOMAIN parts' /\ parts'[n + 1] = p
      /\ \A j \in 1..n : parts'[j] = parts[j]
  BY <1>1
<1>. HIDE DEF n
<1>3. PICK i : i = n + 1
  OBVIOUS
<1>4. i - 1 = n
  BY <1>2, <1>3
<1>5. Leads(parts, i, t)'
  BY <1>2, <1>3, <1>4 DEF Leads
<1>6. QED BY <1>2, <1>3, <1>5

\* A store in the body leads to what begins there.
LEMMA BodyPutLeads ==
  ASSUME TypeOK, AccountInv, OffsetInv, TypeOK',
         NEW what \in BodyParts, NEW bytes \in Nat, BodyPutOf(what, bytes),
         UNCHANGED <<err, max, home, offset_var>>, cur'.body.n >= 0, AllStored
  PROVE  /\ \A i \in DOMAIN parts' : parts'[i].in = home' => Rank[parts'[i].what] <= Stage[pc']
         /\ \A t \in Offsets : Rank[t] <= Stage[pc'] => Led(t)'
<1>. DEFINE p == Part(what, "body", cur.body.pos, bytes)
<1>1. /\ pc \in BodyPcs /\ pc' \in BodyPcs \cup {"finish"}
      /\ Stage[pc] <= Rank[what] /\ Rank[what] <= Stage[pc']
      /\ Puts(what, "body", bytes) /\ what \in DOMAIN Rank
      /\ SetsOffsets(Rank[what], bytes)
      /\ pc' = "finish" => what = "unknown3"
  BY DEF BodyPutOf, BodyParts, Rank
<1>2. /\ cur.body.n \in Int /\ cur.body.pos \in Nat /\ offset_var \in Int
      /\ parts \in Seq(Stores) /\ In("body") = home /\ home \in Buffers
  BY TypesOf DEF TypeOK, In
<1>3. cur'.body.n = cur.body.n - bytes /\ cur'.body.pos = cur.body.pos + bytes
  BY <1>1 DEF Puts, Moved
<1>4. parts' = Append(parts, p)
  BY <1>1, <1>3 DEF Puts
<1>5. p \in Stores /\ p.in = home /\ p.what = what /\ p.from = cur.body.pos
  BY <1>1, <1>2 DEF Part, Stores
<1>6. /\ Stage[pc] \in 0..7 /\ Stage[pc'] \in 0..7 /\ Rank[what] \in 0..7
      /\ \A i \in DOMAIN parts : Rank[parts[i].what] \in 0..7
      /\ \A t \in Offsets : Rank[t] \in 0..7
  <2>1. \A i \in DOMAIN parts : parts[i].what \in DOMAIN Rank
    BY PartsTyped
  <2>2. QED BY <1>1, <2>1, Ranks
<1>. HIDE DEF p
<1>7. \A i \in DOMAIN parts : parts[i].in = home => Rank[parts[i].what] <= Stage[pc]
  BY DEF OffsetInv
<1>8. \A i \in DOMAIN parts' : \/ i \in DOMAIN parts /\ parts'[i] = parts[i]
                               \/ i = Len(parts) + 1 /\ parts'[i] = p
  BY <1>2, <1>4, <1>5, AppendEither
<1>9. \A i \in DOMAIN parts' : parts'[i].in = home' => Rank[parts'[i].what] <= Stage[pc']
  <2>1. \A i \in DOMAIN parts : parts[i].in = home => Rank[parts[i].what] <= Stage[pc']
    BY <1>1, <1>6, <1>7
  <2>2. Rank[p.what] <= Stage[pc']
    BY <1>1, <1>5
  <2>3. QED BY <1>8, <2>1, <2>2
\* Once its first store is there, a table is led to.
<1>10. ASSUME NEW t \in Offsets, Rank[what] >= Rank[t],
              \A i \in DOMAIN parts : parts[i].in = home => Rank[parts[i].what] < Rank[t],
              locations'.off[t] = cur.body.pos - offset_var
       PROVE  Led(t)'
  <2>1. PICK i \in DOMAIN parts' : parts'[i] = p /\ Leads(parts, i, t)'
    BY <1>4, <1>5, <1>10, LastLeads
  <2>2. locations'.off[t] = parts'[i].from - offset_var'
    BY <1>5, <1>10, <2>1
  <2>3. QED BY <2>1, <2>2 DEF Led
<1>11. ASSUME NEW t \in Offsets, Rank[t] <= Stage[pc] PROVE Led(t)'
  <2>1. Led(t) /\ locations'.off[t] = locations.off[t]
    BY <1>1, <1>11 DEF OffsetInv, SetsOffsets
  <2>2. Rank[what] >= Rank[t]
    BY <1>1, <1>6, <1>11
  <2>3. CASE /\ \A i \in DOMAIN parts : parts[i].in = home => Rank[parts[i].what] < Rank[t]
             /\ locations.off[t] = cur.body.pos - offset_var
    BY <1>10, <2>1, <2>2, <2>3
  <2>4. ASSUME NEW i \in DOMAIN parts, Leads(parts, i, t),
               locations.off[t] = parts[i].from - offset_var
        PROVE  Led(t)'
    <3>1. i \in DOMAIN parts' /\ parts'[i] = parts[i] /\ Leads(parts, i, t)'
      BY <1>4, <1>5, <2>4, LeadsStays
    <3>2. locations'.off[t] = parts'[i].from - offset_var'
      BY <2>1, <2>4, <3>1
    <3>3. QED BY <3>1, <3>2 DEF Led
  <2>5. QED BY <2>1, <2>3, <2>4 DEF Led
<1>12. ASSUME NEW t \in Offsets, Stage[pc] < Rank[t], Rank[t] <= Stage[pc'] PROVE Led(t)'
  <2>1. \A i \in DOMAIN parts : parts[i].in = home => Rank[parts[i].what] < Rank[t]
    BY <1>6, <1>7, <1>12
  <2>2. locations'.off[t] =
          cur.body.pos + (IF Rank[t] > Rank[what] THEN bytes ELSE 0) - offset_var
    BY <1>1, <1>12 DEF SetsOffsets
  <2>3. CASE Rank[what] >= Rank[t]
    <3>1. locations'.off[t] = cur.body.pos - offset_var
      <4>1. ~(Rank[t] > Rank[what])
        BY <1>6, <2>3
      <4>2. QED BY <1>2, <2>2, <4>1
    <3>2. QED BY <1>10, <2>1, <2>3, <3>1
  <2>4. CASE ~(Rank[what] >= Rank[t])
    <3>1. locations'.off[t] = cur'.body.pos - offset_var'
      <4>1. Rank[t] > Rank[what]
        BY <1>6, <2>4
      <4>2. QED BY <1>2, <1>3, <2>2, <4>1
    <3>2. pc' \notin {"finish", "done"}
      <4>1. Rank["unknown3"] = 7
        BY DEF Rank
      <4>2. Rank[what] # 7
        BY <1>6, <2>4
      <4>3. QED BY <1>1, <4>1, <4>2 DEF BodyPcs
    <3>3. Rank[p.what] < Rank[t]
      BY <1>5, <1>6, <2>4
    <3>4. \A i \in DOMAIN parts' : parts'[i].in = home' => Rank[parts'[i].what] < Rank[t]
      BY <1>8, <2>1, <3>3
    <3>5. QED BY <3>1, <3>2, <3>4 DEF Led
  <2>5. QED BY <2>3, <2>4
<1>13. \A t \in Offsets : Rank[t] <= Stage[pc] \/ Stage[pc] < Rank[t]
  BY <1>6
<1>14. QED BY <1>9, <1>11, <1>12, <1>13

\* Each step keeps the offsets leading to their tables.
LEMMA StepOffsetInv ==
  ASSUME TypeOK, AccountInv, CountInv, OffsetInv, Step, TypeOK'
  PROVE  OffsetInv'
<1>1. CASE UNCHANGED vars
  BY <1>1 DEF OffsetInv, vars, InBody, Alive, Written, Gap, supports_save_file_compression,
              AllStored, Led, Leads
<1>2. CASE Stops
  BY <1>2, StopsThere DEF OffsetInv, AllStored
<1>3. CASE FilePut
  <2>1. UNCHANGED err /\ pc \in FilePcs /\ pc' \in FilePcs
    BY <1>3 DEF FilePut
  <2>2. QED BY <2>1, FileGoesOn DEF OffsetInv, AllStored
<1>4. CASE ContinueInFile
  <2>1. pc = "body" /\ pc' = "version" /\ UNCHANGED <<parts, home, offset_var>>
    BY <1>4 DEF ContinueInFile, Go, body
  <2>2. home = "file" /\ offset_var = 0
    BY <2>1 DEF AccountInv, FilePcs
  <2>3. ~Written'
    BY <2>1 DEF Written
  <2>4. QED BY <2>1, <2>2, <2>3, NothingStored DEF OffsetInv
<1>5. CASE LeaveRoomForSizes
  <2>1. pc = "body" /\ pc' = "version" /\ UNCHANGED <<save, home>>
        /\ supports_save_file_compression
    BY <1>5 DEF LeaveRoomForSizes, Go, given
  <2>2. home' = "file" /\ Gap' /\ ~Written'
    BY <2>1 DEF AccountInv, FilePcs, Gap, supports_save_file_compression, Written
  <2>3. QED BY <2>2 DEF OffsetInv, AllStored
<1>6. CASE Allocated
  <2>1. /\ pc = "body" /\ pc' = "version" /\ UNCHANGED parts
        /\ cur' = [cur EXCEPT !.body = [pos |-> 0, n |-> BodyRoom]]
        /\ home' = "body_buffer" /\ offset_var' = 0 - cur.file.pos
    BY <1>6 DEF Allocated, AllocBody, Go, Fail
  <2>2. cur'.file = cur.file /\ ~Written'
    BY <2>1, TypesOf DEF Cursors, Written
  <2>3. QED BY <2>1, <2>2, NothingStored DEF OffsetInv
<1>7. CASE BodyPut
  <2>1. PICK what \in BodyParts, bytes \in Nat : BodyPutOf(what, bytes)
    BY <1>7 DEF BodyPut
  <2>2. /\ pc \in BodyPcs /\ pc' \in BodyPcs \cup {"finish"}
        /\ Puts(what, "body", bytes) /\ what \in DOMAIN Rank
        /\ UNCHANGED <<err, save, max, home, offset_var>>
    BY <1>7, <2>1 DEF BodyPutOf, BodyPut, Settled, BodyParts, Rank
  <2>3. InBody /\ InBody' /\ ~Written' /\ pc # "done"
    BY <2>2, BodyGoesOn
  <2>4. cur'.file = cur.file /\ (Gap' <=> Gap)
    BY <2>2, PutsTyped DEF Cursors, Gap, supports_save_file_compression
  <2>5. AllStored' => cur'.body.n >= 0 /\ AllStored
    <3>1. SUFFICES ASSUME AllStored' PROVE cur'.body.n >= 0 /\ AllStored
      OBVIOUS
    <3>2. cur'.body.n >= 0
      BY <3>1 DEF AllStored
    <3>3. cur.body.n >= 0
      BY <2>2, <3>2, PutCounts DEF Cursors
    <3>4. QED BY <2>2, <2>3, <2>4, <3>1, <3>2, <3>3 DEF AllStored
  <2>6. AllStored' =>
          /\ \A i \in DOMAIN parts' : parts'[i].in = home' => Rank[parts'[i].what] <= Stage[pc']
          /\ \A t \in Offsets : Rank[t] <= Stage[pc'] => Led(t)'
    BY <2>1, <2>2, <2>5, BodyPutLeads
  <2>7. /\ home = "file" /\ ~Gap => offset_var = 0
        /\ home = "body_buffer" => offset_var = 0 - cur.file.pos
    BY <2>3 DEF OffsetInv
  <2>8. QED BY <2>2, <2>3, <2>4, <2>6, <2>7 DEF OffsetInv
<1>8. CASE BodySkip
  <2>1. /\ pc \in BodyPcs /\ pc' \in BodyPcs /\ Stage[pc] <= Stage[pc'] /\ SetsOffsets(8, 0)
        /\ UNCHANGED <<err, save, max, home, offset_var, cur, parts, asked>>
    BY <1>8 DEF BodySkip, Settled
  <2>2. InBody /\ InBody' /\ ~Written' /\ pc # "done"
    BY <2>1, BodyGoesOn
  <2>3. (Gap' <=> Gap) /\ (AllStored' <=> AllStored)
    BY <2>1, <2>2 DEF Gap, supports_save_file_compression, AllStored
  <2>4. /\ Stage[pc] \in 0..7 /\ Stage[pc'] \in 0..7
        /\ \A i \in DOMAIN parts : Rank[parts[i].what] \in 0..7
        /\ \A t \in Offsets : Rank[t] \in 0..7
    <3>1. \A i \in DOMAIN parts : parts[i].what \in DOMAIN Rank
      BY PartsTyped
    <3>2. QED BY <2>1, <3>1, Ranks
  <2>5. ASSUME AllStored
        PROVE  /\ \A i \in DOMAIN parts' :
                    parts'[i].in = home' => Rank[parts'[i].what] <= Stage[pc']
               /\ \A t \in Offsets : Rank[t] <= Stage[pc'] => Led(t)'
    <3>1. \A i \in DOMAIN parts : parts[i].in = home => Rank[parts[i].what] <= Stage[pc]
      BY <2>5 DEF OffsetInv
    <3>2. \A i \in DOMAIN parts' : parts'[i].in = home' => Rank[parts'[i].what] <= Stage[pc']
      BY <2>1, <2>4, <3>1
    <3>3. pc \notin {"finish", "done"} /\ pc' \notin {"finish", "done"}
      BY <2>1 DEF BodyPcs
    <3>4. ASSUME NEW t \in Offsets, Rank[t] <= Stage[pc] PROVE Led(t)'
      <4>1. Led(t) /\ locations'.off[t] = locations.off[t]
        BY <2>1, <2>5, <3>4 DEF OffsetInv, SetsOffsets
      <4>2. QED BY <2>1, <3>3, <4>1 DEF Led, Leads
    <3>5. ASSUME NEW t \in Offsets, Stage[pc] < Rank[t], Rank[t] <= Stage[pc'] PROVE Led(t)'
      <4>1. locations'.off[t] = cur.body.pos - offset_var
        <5>. DEFINE bytes == IF Rank[t] > 8 THEN 0 ELSE 0  p == cur.body.pos
                    off == locations'.off[t]
        <5>1. off = p + bytes - offset_var
          BY <2>1, <2>5, <3>5 DEF SetsOffsets
        <5>2. bytes = 0
          OBVIOUS
        <5>3. p \in Int
          BY TypesOf
        <5>4. offset_var \in Int
          BY DEF TypeOK
        <5>. HIDE DEF bytes, p, off
        <5>5. off = p - offset_var
          BY <5>1, <5>2, <5>3, <5>4
        <5>6. QED BY <5>5 DEF p, off
      <4>2. \A i \in DOMAIN parts : parts[i].in = home => Rank[parts[i].what] < Rank[t]
        BY <2>4, <3>1, <3>5
      <4>3. QED BY <2>1, <3>3, <4>1, <4>2 DEF Led
    <3>6. \A t \in Offsets : Rank[t] <= Stage[pc] \/ Stage[pc] < Rank[t]
      BY <2>4
    <3>7. QED BY <3>2, <3>4, <3>5, <3>6
  <2>6. /\ home = "file" /\ ~Gap => offset_var = 0
        /\ home = "body_buffer" => offset_var = 0 - cur.file.pos
    BY <2>2 DEF OffsetInv
  <2>7. QED BY <2>1, <2>2, <2>3, <2>5, <2>6 DEF OffsetInv
<1>9. CASE FinishInFile
  <2>1. /\ pc = "finish" /\ pc' = "done" /\ ~supports_save_file_compression
        /\ cur' = [cur EXCEPT !.file = cur.body]
        /\ UNCHANGED <<err, locations, parts, save, home, offset_var>>
    BY <1>9 DEF FinishInFile, Go, given, body
  <2>2. /\ InBody /\ home = "file"
    BY <2>1 DEF FilePcs, Ends, InBody, Alive, AccountInv, TypeOK, Buffers
  <2>3. ~Gap /\ ~Gap'
    BY <2>1 DEF Gap, supports_save_file_compression
  <2>4. cur'.body = cur.body
    BY <2>1, TypesOf DEF Cursors
  <2>5. AllStored' => AllStored
    BY <2>2, <2>3, <2>4 DEF AllStored
  <2>6. Stage[pc'] = Stage[pc]
    BY <2>1 DEF Stage
  <2>7. \A t \in Offsets : Led(t) => Led(t)'
    BY <2>1 DEF Led, Leads
  <2>8. offset_var = 0
    BY <2>2, <2>3 DEF OffsetInv
  <2>9. AllStored' =>
          /\ \A i \in DOMAIN parts' : parts'[i].in = home' => Rank[parts'[i].what] <= Stage[pc']
          /\ \A t \in Offsets : Rank[t] <= Stage[pc'] => Led(t)'
    BY <2>1, <2>5, <2>6, <2>7 DEF OffsetInv
  <2>10. QED BY <2>1, <2>2, <2>8, <2>9 DEF OffsetInv
<1>10. CASE Compressed
  <2>1. PICK bytes \in Nat : Puts("compressed", "file", bytes)
    BY <1>10 DEF Compressed
  <2>. DEFINE p == Part("compressed", "file", cur["file"].pos, bytes)
  <2>2. /\ pc = "finish" /\ home = "body_buffer" /\ pc' = "done"
        /\ UNCHANGED <<err, save, home, offset_var, locations>>
    BY <1>10 DEF Compressed, Settled
  <2>3. InBody /\ ~Gap /\ cur.body.n >= 0 /\ offset_var = 0 - cur.file.pos
    BY <2>2 DEF InBody, Alive, FilePcs, Ends, Gap, AccountInv, OffsetInv
  <2>4. /\ p \in Stores /\ p.in = "file" /\ p.what = "compressed" /\ p.from = cur.file.pos
        /\ parts' = Append(parts, p) \/ parts' = parts
        /\ cur.file.n - bytes >= 0 => parts' = Append(parts, p)
    BY <2>1, TypesOf DEF Part, Stores, In, Rank, Puts, Buffers
  <2>5. cur'.file.n = cur.file.n - bytes /\ cur.file.n \in Int /\ parts \in Seq(Stores)
        /\ cur.file.pos \in Nat
    BY <2>1, TypesOf DEF Puts, Moved
  <2>. HIDE DEF p
  <2>6. cur'.file.n >= 0 =>
          \E i \in DOMAIN parts' : parts'[i].what = "compressed" /\ parts'[i].from = 0 - offset_var'
    <3>1. SUFFICES ASSUME cur'.file.n >= 0
                   PROVE  \E i \in DOMAIN parts' :
                            parts'[i].what = "compressed" /\ parts'[i].from = 0 - offset_var'
      OBVIOUS
    <3>2. parts' = Append(parts, p)
      BY <2>4, <2>5, <3>1
    <3>3. Len(parts) + 1 \in DOMAIN parts' /\ parts'[Len(parts) + 1] = p
      BY <2>4, <2>5, <3>2
    <3>4. p.from = 0 - offset_var'
      BY <2>2, <2>3, <2>4, <2>5
    <3>5. QED BY <2>4, <3>3, <3>4
  <2>7. AllStored' => AllStored
    <3>1. SUFFICES ASSUME AllStored' PROVE AllStored
      OBVIOUS
    <3>2. cur'.file.n >= 0
      BY <2>2, <3>1 DEF AllStored
    <3>3. cur.file.n >= 0
      BY <2>5, <3>2
    <3>4. QED BY <2>3, <3>3 DEF AllStored
  <2>8. Stage[pc'] = Stage[pc]
    BY <2>2 DEF Stage
  <2>9. ASSUME AllStored
        PROVE  /\ \A i \in DOMAIN parts' :
                    parts'[i].in = home' => Rank[parts'[i].what] <= Stage[pc']
               /\ \A t \in Offsets : Rank[t] <= Stage[pc'] => Led(t)'
    <3>1. \A i \in DOMAIN parts : parts[i].in = home => Rank[parts[i].what] <= Stage[pc]
      BY <2>9 DEF OffsetInv
    <3>2. \A i \in DOMAIN parts' : \/ i \in DOMAIN parts /\ parts'[i] = parts[i]
                                   \/ parts'[i] = p
      BY <2>4, <2>5, AppendEither
    <3>3. \A i \in DOMAIN parts' : parts'[i].in = home' => Rank[parts'[i].what] <= Stage[pc']
      BY <2>2, <2>4, <2>8, <3>1, <3>2
    <3>4. ASSUME NEW t \in Offsets, Rank[t] <= Stage[pc'] PROVE Led(t)'
      <4>1. Led(t)
        BY <2>8, <2>9, <3>4 DEF OffsetInv
      <4>2. PICK i \in DOMAIN parts : /\ Leads(parts, i, t)
                                      /\ locations.off[t] = parts[i].from - offset_var
        BY <2>2, <4>1 DEF Led
      <4>3. i \in DOMAIN parts' /\ parts'[i] = parts[i] /\ Leads(parts, i, t)'
        BY <2>2, <2>4, <4>2, LeadsStays
      <4>4. locations'.off[t] = parts'[i].from - offset_var'
        BY <2>2, <4>2, <4>3
      <4>5. QED BY <4>3, <4>4 DEF Led
    <3>5. QED BY <3>3, <3>4
  <2>10. QED BY <2>2, <2>6, <2>7, <2>9 DEF OffsetInv
<1>11. QED BY <1>1, <1>2, <1>3, <1>4, <1>5, <1>6, <1>7, <1>8, <1>9, <1>10 DEF Step

\* The offsets of a file that is handed over lead to their tables.
LEMMA OffsetsAreRight ==
  ASSUME TypeOK, AccountInv, OffsetInv
  PROVE  OffsetsLead
<1>. SUFFICES ASSUME Written, file_size <= max.file, NEW t \in Offsets
              PROVE  \E i \in DOMAIN parts :
                       /\ Leads(parts, i, t)
                       /\ BodyBegins(locations.off[t] - parts[i].from)
  BY DEF OffsetsLead
<1>1. /\ InBody /\ ~Gap /\ cur.body.n >= 0 /\ pc = "done"
      /\ home = "body_buffer" => file_size = max.file - cur.file.n
  BY DEF AccountInv, InBody, Alive, Written, FilePcs
<1>2. /\ max["file"] \in Nat /\ cur.file.n \in Int /\ offset_var \in Int
      /\ parts \in Seq(Stores) /\ home \in Buffers
  BY AccountNumbers, TypesOf DEF Cursors, In, TypeOK
<1>3. home = "body_buffer" => cur.file.n >= 0
  BY <1>1, <1>2
<1>4. AllStored
  BY <1>1, <1>3 DEF AllStored
<1>5. Rank[t] <= Stage[pc]
  <2>1. Stage["done"] = 7 /\ Rank[t] \in 0..7
    BY Ranks DEF Stage
  <2>2. QED BY <1>1, <2>1
<1>6. Led(t)
  BY <1>4, <1>5 DEF OffsetInv
<1>7. PICK i \in DOMAIN parts : /\ Leads(parts, i, t)
                                /\ locations.off[t] = parts[i].from - offset_var
  BY <1>1, <1>6 DEF Led
<1>8. parts[i].from \in Nat
  BY PartsTyped
<1>. DEFINE at == locations.off[t] - parts[i].from
<1>9. at = 0 - offset_var
  BY <1>2, <1>7, <1>8
<1>. HIDE DEF at
<1>10. CASE home = "file"
  <2>1. offset_var = 0
    BY <1>1, <1>10 DEF OffsetInv
  <2>2. at = 0
    BY <1>9, <2>1
  <2>3. QED BY <1>7, <1>10, <2>2 DEF BodyBegins, at
<1>11. CASE home = "body_buffer"
  <2>1. \E j \in DOMAIN parts : parts[j].what = "compressed" /\ parts[j].from = 0 - offset_var
    BY <1>3, <1>11 DEF OffsetInv
  <2>2. BodyBegins(at)
    BY <1>9, <1>11, <2>1 DEF BodyBegins
  <2>3. QED BY <1>7, <2>2 DEF at
<1>12. QED BY <1>2, <1>10, <1>11 DEF Buffers
-----------------------------------------------------------------------------
(* The invariants hold. *)

\* The inductive invariant holds at first
LEMMA InitInv == Init => Inv
BY InitTypeOK, InitAccountInv, InitPlaceInv, InitCountInv, InitOffsetInv DEF Inv

\* and every step of file_writer keeps it.
LEMMA NextInv == Inv /\ [Next]_vars => Inv'
<1>. SUFFICES ASSUME TypeOK, AccountInv, PlaceInv, CountInv, OffsetInv, [Next]_vars
              PROVE  Inv'
  BY DEF Inv
<1>1. Step
  BY NextIsStep
<1>2. TypeOK'
  BY <1>1, StepTypeOK
<1>3. AccountInv'
  BY <1>1, <1>2, StepAccountInv
<1>4. PlaceInv'
  BY <1>1, <1>2, <1>3, StepPlaceInv
<1>5. CountInv'
  BY <1>1, <1>2, StepCountInv
<1>6. OffsetInv'
  BY <1>1, <1>2, StepOffsetInv
<1>7. QED BY <1>2, <1>3, <1>4, <1>5, <1>6 DEF Inv

\* Whatever is written and however little room there is, the accounts of the
\* cursors, the places of the stores, the counts and the offsets of file_writer
\* agree with what has been stored.
THEOREM SpecInv == Spec => []Inv
BY InitInv, NextInv, PTL DEF Spec

\* The variables of file_writer keep their types; the offsets stay in the range
\* of the 32 bit fields they are stored in.
THEOREM WriterTyped == Spec => []TypeOK
<1>1. Inv => TypeOK
  BY DEF Inv
<1>2. QED BY <1>1, SpecInv, PTL

\* A file that file_writer hands over has no byte that was not written, and none
\* that was written twice.
THEOREM FileIsTiled == Spec => []TilesFile
<1>1. Inv => TilesFile
  BY PlaceTilesFile DEF Inv
<1>2. QED BY <1>1, SpecInv, PTL

\* The offsets that file_writer puts into the location table lead to the tables,
\* compressed or not.
THEOREM OffsetsDoLead == Spec => []OffsetsLead
<1>1. Inv => OffsetsLead
  BY OffsetsAreRight DEF Inv
<1>2. QED BY <1>1, SpecInv, PTL

\* The counts that file_writer puts into the location table are those that make
\* file_reader read what is there.
THEOREM CountsDoReadBack == Spec => []CountsReadBack
<1>1. Inv => CountsReadBack
  BY CountsAreRight DEF Inv
<1>2. QED BY <1>1, SpecInv, PTL

\* file_writer refuses a save, or writes past the end of a buffer, only when the
\* buffer is too small for it, and never hands over a body that did not fit.
THEOREM RoomIsDecisive == Spec => []RoomDecides
<1>1. Inv => RoomDecides
  BY RoomDoesDecide DEF Inv
<1>2. QED BY <1>1, SpecInv, PTL
=============================================================================

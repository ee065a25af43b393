------------------------------ MODULE FoldFacts ------------------------------
(***************************************************************************)
(* What FoldLeft of SequencesExt computes, for any operator: the base on   *)
(* the empty sequence, and one application more for one element more.      *)
(* Fold is FoldLeft(Op, _, _) with its definition written out, so that a   *)
(* module with a fold of its own can show it is an instance of this one.   *)
(*                                                                         *)
(* The induction over the length goes through the least counterexample,    *)
(* as a set of numbers: no fact here takes a predicate as a parameter.     *)
(***************************************************************************)
EXTENDS Integers, Sequences, WellFoundedInduction, TLAPS

CONSTANT Op(_, _)

Top(S) == CHOOSE x \in S : \A y \in S : x >= y

\* The function it is the recursive one FoldLeft defines over the sets of positions in D.
Folds(it, base, s, D) ==
    it = [S \in SUBSET D |->
            IF S = {} THEN base ELSE Op(it[S \ {Top(S)}], s[Top(S)])]

Fold(base, s) == (CHOOSE it : Folds(it, base, s, DOMAIN s))[DOMAIN s]
-----------------------------------------------------------------------------
\* A set of numbers that is not empty has a least one.
LEMMA LeastNat ==
  ASSUME NEW T, T \subseteq Nat, T # {}
  PROVE  \E m \in T : \A k \in T : m <= k
<1>. DEFINE R == OpToRel(<, Nat)
<1>1. IsWellFoundedOn(R, Nat)
  BY NatLessThanWellFounded
<1>2. \A x, y \in Nat : x < y => <<x, y>> \in R
  BY DEF OpToRel
<1>. HIDE DEF R
<1>3. PICK m \in T : \A y \in T : ~ (<<y, m>> \in R)
  BY <1>1, WFMin
<1>4. ASSUME NEW k \in T PROVE m <= k
  <2>1. m \in Nat /\ k \in Nat /\ ~(k < m)
    BY <1>2, <1>3
  <2>2. QED BY <2>1
<1>5. QED BY <1>4

\* Induction over the numbers, for a set of them.
LEMMA Induction ==
  ASSUME NEW T, 0 \in T, \A n \in Nat : n \in T => n + 1 \in T
  PROVE  Nat \subseteq T
<1>1. SUFFICES ASSUME Nat \ T # {} PROVE FALSE
  OBVIOUS
<1>2. PICK m \in Nat \ T : \A k \in Nat \ T : m <= k
  BY <1>1, LeastNat
<1>3. m # 0
  BY <1>2
<1>4. m - 1 \in Nat /\ ~(m <= m - 1)
  BY <1>2, <1>3
<1>5. m - 1 \in T
  BY <1>2, <1>4
<1>6. (m - 1) + 1 \in T
  BY <1>4, <1>5
<1>7. (m - 1) + 1 = m
  BY <1>2
<1>8. QED BY <1>2, <1>6, <1>7

\* Induction over the sequences, for a set of them.
LEMMA SeqInduction ==
  ASSUME NEW X, NEW T, <<>> \in T,
         \A s \in Seq(X), x \in X : s \in T => Append(s, x) \in T
  PROVE  Seq(X) \subseteq T
<1>. DEFINE N == {n \in Nat : \A s \in Seq(X) : Len(s) = n => s \in T}
<1>1. 0 \in N
  <2>1. \A s \in Seq(X) : Len(s) = 0 => s = <<>>
    OBVIOUS
  <2>2. QED BY <2>1
<1>2. ASSUME NEW n \in Nat, n \in N PROVE n + 1 \in N
  <2>1. ASSUME NEW s \in Seq(X), Len(s) = n + 1 PROVE s \in T
    <3>. DEFINE r == [i \in 1..n |-> s[i]]
    <3>1. r \in Seq(X) /\ Len(r) = n /\ s[n + 1] \in X
      BY <2>1
    <3>2. s = Append(r, s[n + 1])
      BY <2>1, <3>1
    <3>3. r \in T
      BY <1>2, <3>1
    <3>. HIDE DEF r
    <3>4. QED BY <3>1, <3>2, <3>3
  <2>2. QED BY <2>1
<1>. HIDE DEF N
<1>3. Nat \subseteq N
  BY <1>1, <1>2, Induction
<1>4. ASSUME NEW s \in Seq(X) PROVE s \in T
  <2>1. Len(s) \in N
    BY <1>3
  <2>2. QED BY <2>1 DEF N
<1>5. QED BY <1>4
-----------------------------------------------------------------------------
\* The largest of the positions up to n is n.
LEMMA TopOfRange ==
  ASSUME NEW n \in Nat, NEW S, S \subseteq 1..(n + 1), n + 1 \in S
  PROVE  Top(S) = n + 1
<1>1. \A x \in S : x \in Int /\ x <= n + 1
  OBVIOUS
<1>2. n + 1 \in S /\ \A y \in S : n + 1 >= y
  BY <1>1
<1>3. Top(S) \in S /\ \A y \in S : Top(S) >= y
  BY <1>2 DEF Top
<1>. HIDE DEF Top
<1>4. Top(S) \in Int /\ Top(S) <= n + 1 /\ Top(S) >= n + 1
  BY <1>1, <1>3
<1>5. QED BY <1>4

\* The recursion has a solution.
LEMMA FoldsExists ==
  ASSUME NEW base, NEW s
  PROVE  \A n \in Nat : \E it : Folds(it, base, s, 1..n)
<1>. DEFINE T == {n \in Nat : \E it : Folds(it, base, s, 1..n)}
<1>1. 0 \in T
  <2>. DEFINE it == [S \in SUBSET (1..0) |-> base]
  <2>1. \A S \in SUBSET (1..0) : S = {}
    OBVIOUS
  <2>2. Folds(it, base, s, 1..0)
    BY <2>1 DEF Folds
  <2>3. QED BY <2>2
<1>2. ASSUME NEW n \in Nat, n \in T PROVE n + 1 \in T
  <2>1. PICK it : Folds(it, base, s, 1..n)
    BY <1>2
  <2>. DEFINE jt == [S \in SUBSET (1..(n + 1)) |->
                       IF S \in SUBSET (1..n) THEN it[S]
                       ELSE Op(it[S \ {n + 1}], s[n + 1])]
              J(S) == IF S = {} THEN base ELSE Op(jt[S \ {Top(S)}], s[Top(S)])
  <2>2. ASSUME NEW S \in SUBSET (1..(n + 1)) PROVE jt[S] = J(S)
    <3>1. CASE S = {}
      BY <2>1, <3>1 DEF Folds
    <3>2. CASE S # {} /\ S \in SUBSET (1..n)
      <4>1. it[S] = Op(it[S \ {Top(S)}], s[Top(S)])
        BY <2>1, <3>2 DEF Folds
      <4>2. S \ {Top(S)} \in SUBSET (1..n)
        BY <3>2
      <4>3. S \ {Top(S)} \in SUBSET (1..(n + 1))
        OBVIOUS
      <4>4. jt[S \ {Top(S)}] = it[S \ {Top(S)}]
        BY <4>2, <4>3
      <4>5. QED BY <3>2, <4>1, <4>4
    <3>3. CASE S \notin SUBSET (1..n)
      <4>1. n + 1 \in S
        BY <3>3
      <4>2. Top(S) = n + 1
        BY <4>1, TopOfRange
      <4>3. S \ {n + 1} \in SUBSET (1..n) /\ S \ {n + 1} \in SUBSET (1..(n + 1))
        OBVIOUS
      <4>4. jt[S \ {n + 1}] = it[S \ {n + 1}]
        BY <4>3
      <4>5. jt[S] = Op(it[S \ {n + 1}], s[n + 1])
        BY <3>3
      <4>6. S # {}
        BY <4>1
      <4>. HIDE DEF jt
      <4>7. QED BY <4>2, <4>4, <4>5, <4>6
    <3>4. QED BY <3>1, <3>2, <3>3
  <2>3. jt = [S \in SUBSET (1..(n + 1)) |-> J(S)]
    <3>1. jt = [S \in SUBSET (1..(n + 1)) |-> jt[S]]
      OBVIOUS
    <3>. HIDE DEF jt, J
    <3>2. QED BY <2>2, <3>1
  <2>4. Folds(jt, base, s, 1..(n + 1))
    BY <2>3 DEF Folds
  <2>. HIDE DEF jt
  <2>5. QED BY <2>4
<1>. HIDE DEF T
<1>3. Nat \subseteq T
  BY <1>1, <1>2, Induction
<1>4. QED BY <1>3 DEF T

\* Two solutions agree as far as their sequences do.
LEMMA FoldsAgree ==
  ASSUME NEW base, NEW s, NEW t, NEW n \in Nat, NEW m \in Nat, NEW it, NEW jt,
         n <= m /\ (\A i \in 1..n : s[i] = t[i])
                /\ Folds(it, base, s, 1..n) /\ Folds(jt, base, t, 1..m)
  PROVE  it[1..n] = jt[1..n]
<1>. DEFINE T == {k \in Nat : k <= n => it[1..k] = jt[1..k]}
<1>1. 0 \in T
  <2>1. 1..0 = {}
    OBVIOUS
  <2>2. it[{}] = base /\ jt[{}] = base
    BY DEF Folds
  <2>3. QED BY <2>1, <2>2
<1>2. ASSUME NEW k \in Nat, k \in T PROVE k + 1 \in T
  <2>1. SUFFICES ASSUME k + 1 <= n PROVE it[1..(k + 1)] = jt[1..(k + 1)]
    OBVIOUS
  <2>2. it[1..k] = jt[1..k]
    BY <1>2, <2>1
  <2>. DEFINE S == 1..(k + 1)
  <2>3. Top(S) = k + 1
    BY TopOfRange
  <2>4. S \ {k + 1} = 1..k /\ S # {} /\ S \in SUBSET (1..n) /\ S \in SUBSET (1..m)
    <3>1. \A i \in Int : i \in 1..k <=> i \in 1..(k + 1) /\ i # k + 1
      OBVIOUS
    <3>2. S \ {k + 1} = 1..k
      BY <3>1
    <3>3. k + 1 \in S
      OBVIOUS
    <3>4. \A i \in S : i \in 1..n /\ i \in 1..m
      BY <2>1
    <3>. HIDE DEF S
    <3>5. QED BY <3>2, <3>3, <3>4
  <2>5. it[S] = Op(it[S \ {Top(S)}], s[Top(S)])
    BY <2>4 DEF Folds
  <2>6. jt[S] = Op(jt[S \ {Top(S)}], t[Top(S)])
    BY <2>4 DEF Folds
  <2>7. s[k + 1] = t[k + 1]
    BY <2>1
  <2>8. QED BY <2>2, <2>3, <2>4, <2>5, <2>6, <2>7
<1>. HIDE DEF T
<1>3. Nat \subseteq T
  BY <1>1, <1>2, Induction
<1>4. n \in T
  BY <1>3
<1>5. QED BY <1>4 DEF T

\* Nothing folded is the base.
LEMMA FoldEmpty ==
  ASSUME NEW base
  PROVE  Fold(base, <<>>) = base
<1>. DEFINE it == CHOOSE it : Folds(it, base, <<>>, DOMAIN <<>>)
<1>1. DOMAIN <<>> = 1..0
  OBVIOUS
<1>2. \E f : Folds(f, base, <<>>, 1..0)
  BY FoldsExists
<1>3. Folds(it, base, <<>>, DOMAIN <<>>)
  BY <1>1, <1>2
<1>4. DOMAIN <<>> = {}
  OBVIOUS
<1>. HIDE DEF it
<1>5. it[{}] = base
  BY <1>3 DEF Folds
<1>6. QED BY <1>4, <1>5 DEF Fold, it

\* One element more is one application more.
LEMMA FoldAppend ==
  ASSUME NEW base, NEW X, NEW s \in Seq(X), NEW x \in X
  PROVE  Fold(base, Append(s, x)) = Op(Fold(base, s), x)
<1>. DEFINE t == Append(s, x)
            n == Len(s)
            it == CHOOSE it : Folds(it, base, s, DOMAIN s)
            jt == CHOOSE jt : Folds(jt, base, t, DOMAIN t)
<1>1. n \in Nat /\ DOMAIN s = 1..n /\ DOMAIN t = 1..(n + 1)
  OBVIOUS
<1>2. t[n + 1] = x /\ \A i \in 1..n : s[i] = t[i]
  OBVIOUS
<1>3. Fold(base, s) = it[1..n] /\ Fold(base, t) = jt[1..(n + 1)]
  BY <1>1 DEF Fold
<1>4. \E f : Folds(f, base, s, 1..n)
  BY <1>1, FoldsExists
<1>5. \E f : Folds(f, base, t, 1..(n + 1))
  <2>1. n + 1 \in Nat
    BY <1>1
  <2>. HIDE DEF t, n
  <2>2. QED BY <2>1, FoldsExists
<1>6. Folds(it, base, s, 1..n) /\ Folds(jt, base, t, 1..(n + 1))
  BY <1>1, <1>4, <1>5
<1>. HIDE DEF t, n, it, jt
<1>7. it[1..n] = jt[1..n]
  <2>. DEFINE m == n + 1
  <2>1. m \in Nat /\ n <= m
    BY <1>1
  <2>2. \A i \in 1..n : s[i] = t[i]
    BY <1>2
  <2>3. n \in Nat /\ Folds(it, base, s, 1..n) /\ Folds(jt, base, t, 1..m)
    BY <1>1, <1>6
  <2>. HIDE DEF m
  <2>4. QED BY <2>1, <2>2, <2>3, FoldsAgree
<1>. DEFINE S == 1..(n + 1)
<1>8. Top(S) = n + 1 /\ S \ {n + 1} = 1..n /\ S # {}
  <2>1. n \in Nat /\ S \subseteq 1..(n + 1) /\ n + 1 \in S
    BY <1>1
  <2>2. Top(S) = n + 1
    BY <2>1, TopOfRange
  <2>3. \A i \in Int : i \in 1..n <=> i \in 1..(n + 1) /\ i # n + 1
    BY <1>1
  <2>4. S \ {n + 1} = 1..n
    BY <2>3
  <2>5. QED BY <2>1, <2>2, <2>4
<1>9. jt[S] = Op(jt[S \ {Top(S)}], t[Top(S)])
  BY <1>6, <1>8 DEF Folds
<1>10. QED BY <1>2, <1>3, <1>7, <1>8, <1>9 DEF t
=============================================================================

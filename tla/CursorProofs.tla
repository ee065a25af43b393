----------------------------- MODULE CursorProofs -----------------------------
(***************************************************************************)
(* The cursor invariants for every set of buffers, widths and requests.    *)
(*                                                                         *)
(* Neither CopiesInside nor LossRemembered is inductive: both rest on the  *)
(* ledger that n is the room left after everything that was asked for, and *)
(* that as long as n has not gone negative nothing asked for was refused,  *)
(* so that the pointer stands where the caller believes it does.           *)
(***************************************************************************)
EXTENDS Cursor, TLAPS

Ledger == \A c \in Cursors :
            /\ cur[c].n = win[c].hi - want[c]
            /\ cur[c].n >= 0 => cur[c].pos = want[c]

InWindow == \A c \in Cursors :
              /\ win[c].lo <= win[c].hi
              /\ win[c].hi <= win[c].cap
              /\ win[c].lo <= cur[c].pos

CopyInWindow == copied # NoCopy =>
                  /\ win[copied.at].lo <= copied.from
                  /\ copied.upto <= win[copied.at].hi

IInv == TypeOK /\ Ledger /\ InWindow /\ CopyInWindow /\ LossRemembered

USE CursorAssumption DEF CursorAssumption

\* A load or store that fits does so with the pointer where the caller asked it
\* to be, and ends inside the window (c_load_bytes, c_store_bytes).
LEMMA TakenInside ==
  ASSUME IInv, NEW c \in Cursors, NEW w \in Widths, Fits(cur[c], w)
  PROVE  /\ cur[c].pos = want[c]
         /\ cur[c].pos + w <= win[c].hi
         /\ cur[c].pos + w \in Nat
BY DEF IInv, TypeOK, Ledger, Fits, Cursor, Window

\* The initial cursors stand at the start of their buffers.
LEMMA InitIInv == Init => IInv
<1>1. SUFFICES ASSUME Init PROVE IInv
  OBVIOUS
<1>2. PICK size \in [Cursors -> Capacities] :
        /\ cur = [c \in Cursors |-> [pos |-> 0, n |-> size[c]]]
        /\ win = [c \in Cursors |-> [lo |-> 0, hi |-> size[c], cap |-> size[c]]]
  BY <1>1 DEF Init
<1>3. \A c \in Cursors : size[c] \in Capacities /\ size[c] \in Nat
  OBVIOUS
<1>4. ASSUME NEW c \in Cursors
      PROVE  /\ cur[c] \in Cursor /\ win[c] \in Window
             /\ cur[c].n = win[c].hi - want[c] /\ cur[c].pos = want[c]
             /\ win[c].lo <= win[c].hi /\ win[c].hi <= win[c].cap
             /\ win[c].lo <= cur[c].pos
             /\ ~lost[c]
  <2>1. cur[c] = [pos |-> 0, n |-> size[c]] /\ size[c] \in Nat
    BY <1>2, <1>3
  <2>2. win[c] = [lo |-> 0, hi |-> size[c], cap |-> size[c]] /\ size[c] \in Capacities
    BY <1>2, <1>3
  <2>3. want[c] = 0 /\ lost[c] = FALSE
    BY <1>1 DEF Init
  <2>4. QED BY <2>1, <2>2, <2>3 DEF Cursor, Window
<1>5. TypeOK
  <2>1. cur \in [Cursors -> Cursor]
    BY <1>2, <1>4
  <2>2. win \in [Cursors -> Window]
    BY <1>2, <1>4
  <2>3. QED BY <1>1, <2>1, <2>2 DEF Init, TypeOK
<1>6. Ledger /\ InWindow /\ LossRemembered
  BY <1>4 DEF Ledger, InWindow, LossRemembered
<1>7. CopyInWindow
  BY <1>1 DEF Init, CopyInWindow
<1>8. QED BY <1>5, <1>6, <1>7 DEF IInv

\* A load or store keeps the ledger, whether its bytes were there or not.
LEMMA LoadStoreIInv ==
  ASSUME IInv, NEW c \in Cursors, NEW w \in Widths, LoadStore(c, w)
  PROVE  IInv'
<1>1. CASE Fits(cur[c], w)
  <2>1. copied' = [at |-> c, from |-> cur[c].pos, upto |-> cur[c].pos + w]
    BY <1>1 DEF LoadStore
  <2>2. TypeOK'
    BY <1>1, <2>1, TakenInside
       DEF LoadStore, Taken, IInv, TypeOK, Cursor, CopyBy
  <2>3. Ledger' /\ InWindow' /\ LossRemembered'
    BY <1>1 DEF LoadStore, Taken, Fits, IInv, TypeOK, Ledger, InWindow,
                LossRemembered, Cursor, Window
  <2>4. CopyInWindow'
    BY <1>1, <2>1, TakenInside
       DEF LoadStore, IInv, InWindow, CopyInWindow, TypeOK, Window
  <2>5. QED BY <2>2, <2>3, <2>4 DEF IInv
<1>2. CASE ~Fits(cur[c], w)
  <2>1. TypeOK'
    BY <1>2 DEF LoadStore, Taken, IInv, TypeOK, Cursor
  <2>2. Ledger' /\ InWindow' /\ LossRemembered'
    BY <1>2 DEF LoadStore, Taken, Fits, IInv, TypeOK, Ledger, InWindow,
                LossRemembered, Cursor, Window
  <2>3. CopyInWindow'
    BY <1>2 DEF LoadStore, CopyInWindow
  <2>4. QED BY <2>1, <2>2, <2>3 DEF IInv
<1>3. QED BY <1>1, <1>2

\* Skipping bytes and copying a cursor keep the ledger: the pointer may leave
\* the buffer, but only together with n.
LEMMA Advance2IInv ==
  ASSUME IInv, NEW to \in Cursors, NEW from \in Cursors, NEW k \in Advances,
         Advance2(to, from, k)
  PROVE  IInv'
<1>1. TypeOK'
  BY DEF Advance2, Advanced, IInv, TypeOK, Cursor
<1>2. Ledger' /\ InWindow' /\ LossRemembered'
  BY SMTT(30) DEF Advance2, Advanced, IInv, TypeOK, Ledger, InWindow, LossRemembered,
         Cursor, Window
<1>3. CopyInWindow'
  BY DEF Advance2, CopyInWindow
<1>4. QED BY <1>1, <1>2, <1>3 DEF IInv

\* A block opened by disassembler lies inside the window of the outer cursor.
LEMMA OpenBlockIInv ==
  ASSUME IInv, NEW to \in Cursors, NEW from \in Cursors, NEW size \in Sizes,
         OpenBlock(to, from, size)
  PROVE  IInv'
<1>. DEFINE outer == Advanced(cur[from], size)
            inner == [pos |-> cur[from].pos, n |-> size]
            block == [lo  |-> cur[from].pos,
                      hi  |-> cur[from].pos + size,
                      cap |-> win[from].cap]
<1>1. /\ cur[from] \in Cursor /\ cur[from].pos \in Nat /\ cur[from].n \in Int
      /\ win[from].cap \in Capacities /\ win[from].hi \in Nat
      /\ want[from] \in Nat /\ size \in Nat
  BY DEF IInv, TypeOK, Cursor, Window
<1>2. /\ to # from
      /\ cur[from].pos = want[from]
      /\ cur[from].pos + size <= win[from].hi
      /\ cur[from].n >= size
  BY <1>1 DEF OpenBlock, IInv, Ledger
<1>3. outer \in Cursor /\ inner \in Cursor /\ block \in Window
  BY <1>1 DEF Advanced, Cursor, Window
<1>4. TypeOK'
  <2>1. cur' \in [Cursors -> Cursor]
    BY <1>3 DEF OpenBlock, IInv, TypeOK
  <2>2. win' \in [Cursors -> Window]
    BY <1>3 DEF OpenBlock, IInv, TypeOK
  <2>3. want' \in [Cursors -> Nat]
    BY <1>1 DEF OpenBlock, IInv, TypeOK
  <2>4. lost' \in [Cursors -> BOOLEAN] /\ copied' = NoCopy
    BY DEF OpenBlock, IInv, TypeOK
  <2>5. QED BY <2>1, <2>2, <2>3, <2>4 DEF TypeOK
<1>5. /\ cur'[to] = inner /\ win'[to] = block
      /\ want'[to] = cur[from].pos /\ lost'[to] = FALSE
  BY <1>2 DEF OpenBlock, IInv, TypeOK
<1>6. /\ cur'[from] = outer /\ win'[from] = win[from]
      /\ want'[from] = want[from] + size /\ lost'[from] = lost[from]
  BY <1>2 DEF OpenBlock, IInv, TypeOK
<1>7. \A c \in Cursors \ {to, from} :
        /\ cur'[c] = cur[c] /\ win'[c] = win[c]
        /\ want'[c] = want[c] /\ lost'[c] = lost[c]
  BY DEF OpenBlock, IInv, TypeOK
<1>8. ASSUME NEW c \in Cursors
      PROVE  /\ cur'[c].n = win'[c].hi - want'[c]
             /\ cur'[c].n >= 0 => cur'[c].pos = want'[c]
             /\ win'[c].lo <= win'[c].hi
             /\ win'[c].hi <= win'[c].cap
             /\ win'[c].lo <= cur'[c].pos
             /\ lost'[c] => cur'[c].n < 0
  <2>1. CASE c = to
    <3>1. win[from].hi <= win[from].cap /\ win[from].cap \in Nat
      BY <1>1 DEF IInv, InWindow
    <3>2. QED BY <2>1, <1>1, <1>2, <1>5, <3>1
  <2>2. CASE c = from
    <3>1. /\ cur[from].n = win[from].hi - want[from]
          /\ win[from].lo <= win[from].hi /\ win[from].hi <= win[from].cap
          /\ win[from].lo <= cur[from].pos /\ win[from].lo \in Nat
          /\ lost[from] => cur[from].n < 0
      BY DEF IInv, TypeOK, Window, Ledger, InWindow, LossRemembered
    <3>2. cur'[from].pos = cur[from].pos + size /\ cur'[from].n = cur[from].n - size
      BY <1>6 DEF Advanced
    <3>3. QED BY <2>2, <1>1, <1>2, <1>6, <3>1, <3>2
  <2>3. CASE c \notin {to, from}
    BY <2>3, <1>7 DEF IInv, Ledger, InWindow, LossRemembered
  <2>4. QED BY <2>1, <2>2, <2>3
<1>9. Ledger' /\ InWindow' /\ LossRemembered'
  BY <1>8 DEF Ledger, InWindow, LossRemembered
<1>10. CopyInWindow'
  BY DEF OpenBlock, CopyInWindow
<1>11. QED BY <1>4, <1>9, <1>10 DEF IInv

\* Every step keeps the ledger.
LEMMA NextIInv == IInv /\ [Next]_vars => IInv'
<1>1. SUFFICES ASSUME IInv, [Next]_vars PROVE IInv'
  OBVIOUS
<1>2. CASE \E c \in Cursors, w \in Widths : LoadStore(c, w)
  BY <1>1, <1>2, LoadStoreIInv
<1>3. CASE \E to, from \in Cursors, k \in Advances : Advance2(to, from, k)
  BY <1>1, <1>3, Advance2IInv
<1>4. CASE \E to, from \in Cursors, size \in Sizes : OpenBlock(to, from, size)
  BY <1>1, <1>4, OpenBlockIInv
<1>5. CASE UNCHANGED vars
  BY <1>1, <1>5 DEF vars, IInv, TypeOK, Ledger, InWindow, CopyInWindow,
                    LossRemembered
<1>6. QED BY <1>1, <1>2, <1>3, <1>4, <1>5 DEF Next

\* The ledger of requests is kept in every reachable state.
THEOREM SpecIInv == Spec => []IInv
BY InitIInv, NextIInv, PTL DEF Spec

\* Every cursor is a well-formed pointer and distance.
THEOREM TypeCorrect == Spec => []TypeOK
<1>1. IInv => TypeOK BY DEF IInv
<1>2. QED BY SpecIInv, <1>1, PTL

\* No memcpy of binary_stream.c leaves the block, or the buffer, it was given.
THEOREM CopiesStayInside == Spec => []CopiesInside
<1>1. IInv => CopiesInside BY DEF IInv, InWindow, CopyInWindow, CopiesInside
<1>2. QED BY SpecIInv, <1>1, PTL

\* The comment on struct cursor holds of n in all its three cases.
THEOREM DistanceIsRoom == Spec => []DistanceMeansRoom
<1>1. IInv => DistanceMeansRoom
  BY DEF IInv, TypeOK, Ledger, DistanceMeansRoom, Cursor, Window
<1>2. QED BY SpecIInv, <1>1, PTL

\* One test of n at the end of a run of loads sees every load that failed.
THEOREM LossStaysVisible == Spec => []LossRemembered
<1>1. IInv => LossRemembered BY DEF IInv
<1>2. QED BY SpecIInv, <1>1, PTL

-----------------------------------------------------------------------------
\* A load or store is a delivery or a refusal of the abstract cursor.
LEMMA LoadStoreKeepsPromise ==
  ASSUME IInv, NEW c \in Cursors, NEW w \in Widths, LoadStore(c, w)
  PROVE  Promise!Refuse(c) \/ UNCHANGED Promise!vars
<1>1. cur[c].n \in Int /\ w \in Nat /\ lost[c] \in BOOLEAN
  BY DEF IInv, TypeOK, Cursor
<1>2. cur' = [cur EXCEPT ![c] = Taken(cur[c], w)] /\ cur \in [Cursors -> Cursor]
  BY DEF LoadStore, IInv, TypeOK
<1>3. Taken(cur[c], w).n = cur[c].n - w
  BY DEF Taken
<1>4. CASE Fits(cur[c], w)
  <2>1. cur[c].n >= 0 /\ cur[c].n - w >= 0
    BY <1>1, <1>4 DEF Fits
  <2>2. PlaceOf(cur[c]) = "inside" /\ PlaceOf(Taken(cur[c], w)) = "inside"
    BY <1>1, <1>3, <2>1 DEF PlaceOf
  <2>3. where' = where
    BY <1>2, <2>2 DEF where
  <2>4. lost' = lost
    BY <1>1, <1>4 DEF LoadStore, IInv, TypeOK
  <2>5. QED BY <2>3, <2>4 DEF Promise!vars
<1>5. CASE ~Fits(cur[c], w)
  <2>1. PlaceOf(Taken(cur[c], w)) = "past"
    BY <1>1, <1>3, <1>5 DEF Fits, PlaceOf
  <2>2. where' = [where EXCEPT ![c] = "past"]
    BY <1>2, <2>1 DEF where
  <2>3. lost' = [lost EXCEPT ![c] = TRUE]
    BY <1>1, <1>5 DEF LoadStore, IInv, TypeOK
  <2>4. QED BY <2>2, <2>3 DEF Promise!Refuse
<1>6. QED BY <1>4, <1>5

\* c_advance2 hands on the place of the cursor it copies, or goes past the end.
LEMMA Advance2KeepsPromise ==
  ASSUME IInv, NEW to \in Cursors, NEW from \in Cursors, NEW k \in Advances,
         Advance2(to, from, k)
  PROVE  Promise!Copy(to, from)
<1>1. cur[from].n \in Int /\ k \in Nat
  BY DEF IInv, TypeOK, Cursor
<1>2. PlaceOf(Advanced(cur[from], k)) \in {"past"} \cup {where[from]}
  BY <1>1 DEF where, PlaceOf, Advanced
<1>3. where' = [where EXCEPT ![to] = PlaceOf(Advanced(cur[from], k))]
  BY DEF Advance2, IInv, TypeOK, where
<1>4. lost' = [lost EXCEPT ![to] = lost[from]]
  BY DEF Advance2
<1>5. QED BY <1>2, <1>3, <1>4 DEF Promise!Copy

\* A block is opened only while its bytes are there, and leaves the outer
\* cursor inside.
LEMMA OpenBlockKeepsPromise ==
  ASSUME IInv, NEW to \in Cursors, NEW from \in Cursors, NEW size \in Sizes,
         OpenBlock(to, from, size)
  PROVE  Promise!Nest(to, from)
<1>1. cur[from].n \in Int /\ size \in Nat /\ cur[from].n >= size
  BY DEF OpenBlock, IInv, TypeOK, Cursor
<1>2. /\ PlaceOf(cur[from]) = "inside"
      /\ PlaceOf(Advanced(cur[from], size)) = "inside"
      /\ PlaceOf([pos |-> cur[from].pos, n |-> size]) = "inside"
  BY <1>1 DEF PlaceOf, Advanced
<1>3. where[from] = "inside"
  BY <1>2 DEF where
<1>4. where' = [where EXCEPT ![to] = "inside"]
  BY <1>2 DEF OpenBlock, IInv, TypeOK, where
<1>5. lost' = [lost EXCEPT ![to] = FALSE]
  BY DEF OpenBlock
<1>6. QED BY <1>3, <1>4, <1>5 DEF Promise!Nest

\* Fresh cursors are inside their buffers.
LEMMA InitKeepsPromise == Init => Promise!Init
<1>1. SUFFICES ASSUME Init PROVE Promise!Init
  OBVIOUS
<1>2. PICK size \in [Cursors -> Capacities] :
        cur = [c \in Cursors |-> [pos |-> 0, n |-> size[c]]]
  BY <1>1 DEF Init
<1>3. \A c \in Cursors : PlaceOf(cur[c]) = "inside"
  <2>1. TAKE c \in Cursors
  <2>2. cur[c] = [pos |-> 0, n |-> size[c]] /\ size[c] \in Nat
    BY <1>2
  <2>3. QED BY <2>2 DEF PlaceOf
<1>4. QED BY <1>1, <1>3 DEF Init, where, Promise!Init

\* Every behaviour of the cursors of binary_stream.c is a behaviour of cursors
\* that remember having left their bytes.
THEOREM CursorImplementsStickyEnd == Spec => ImplementsStickyEnd
<1>1. IInv /\ [Next]_vars => [Promise!Next]_(Promise!vars)
  <2>1. SUFFICES ASSUME IInv, [Next]_vars
                 PROVE  Promise!Next \/ UNCHANGED Promise!vars
    OBVIOUS
  <2>2. CASE \E c \in Cursors, w \in Widths : LoadStore(c, w)
    BY <2>1, <2>2, LoadStoreKeepsPromise DEF Promise!Next
  <2>3. CASE \E to, from \in Cursors, k \in Advances : Advance2(to, from, k)
    BY <2>1, <2>3, Advance2KeepsPromise DEF Promise!Next
  <2>4. CASE \E to, from \in Cursors, size \in Sizes : OpenBlock(to, from, size)
    BY <2>1, <2>4, OpenBlockKeepsPromise DEF Promise!Next
  <2>5. CASE UNCHANGED vars
    BY <2>5 DEF vars, where, Promise!vars
  <2>6. QED BY <2>1, <2>2, <2>3, <2>4, <2>5 DEF Next
<1>2. QED BY <1>1, InitKeepsPromise, SpecIInv, PTL
          DEF Spec, ImplementsStickyEnd, Promise!Spec
=============================================================================

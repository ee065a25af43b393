-------------------------------- MODULE Cursor --------------------------------
(***************************************************************************)
(* Cursors at work: every way savefile.c uses the API of binary_stream.c.  *)
(*                                                                         *)
(* A cursor walks a window [lo, hi) of a buffer of cap bytes.  file_cursor *)
(* and the body cursor of a decompressed save have the whole buffer as     *)
(* their window; the cursor deserializer makes has one block.              *)
(*                                                                         *)
(* want, lost and copied are history variables: the offset the caller has  *)
(* asked to reach, whether some load or store moved no bytes, and the byte *)
(* range of the last memcpy.                                               *)
(***************************************************************************)
EXTENDS CursorOps

CONSTANTS Cursors,      \* the cursor variables of a caller
          Capacities,   \* the buffer sizes they are opened on
          Widths,       \* the operand widths of loads and stores
          Advances,     \* the distances c_advance is called with
          Sizes,        \* the block sizes a header can announce
          MaxWant       \* bound on how far past the end callers go on asking

ASSUME CursorAssumption ==
    /\ Capacities \subseteq Nat
    /\ Widths \subseteq Nat
    /\ Advances \subseteq Nat
    /\ Sizes \subseteq Nat
    /\ MaxWant \in Nat

VARIABLES cur, win, want, lost, copied

vars == <<cur, win, want, lost, copied>>

Window == [lo : Nat, hi : Nat, cap : Capacities]

NoCopy == [at |-> "nowhere"]
CopyBy == [at : Cursors, from : Nat, upto : Nat]

\* The pointer stays an offset into a buffer; only the distance may turn negative.
TypeOK == /\ cur \in [Cursors -> Cursor]
          /\ win \in [Cursors -> Window]
          /\ want \in [Cursors -> Nat]
          /\ lost \in [Cursors -> BOOLEAN]
          /\ copied \in CopyBy \cup {NoCopy}

\* file_cursor.pos = file; file_cursor.n = file_size.
Init == /\ \E size \in [Cursors -> Capacities] :
             /\ cur = [c \in Cursors |-> [pos |-> 0, n |-> size[c]]]
             /\ win = [c \in Cursors |-> [lo |-> 0, hi |-> size[c], cap |-> size[c]]]
        /\ want = [c \in Cursors |-> 0]
        /\ lost = [c \in Cursors |-> FALSE]
        /\ copied = NoCopy

\* c_load_bytes, c_store_bytes and the typed loads and stores.
LoadStore(c, w) ==
    /\ want[c] + w <= MaxWant
    /\ cur' = [cur EXCEPT ![c] = Taken(cur[c], w)]
    /\ want' = [want EXCEPT ![c] = want[c] + w]
    /\ lost' = [lost EXCEPT ![c] = lost[c] \/ ~Fits(cur[c], w)]
    /\ copied' = IF Fits(cur[c], w)
                 THEN [at |-> c, from |-> cur[c].pos, upto |-> cur[c].pos + w]
                 ELSE NoCopy
    /\ UNCHANGED win

\* c_advance2(to, from, k): to takes up the buffer of from, k bytes further.
\* c_advance(c, k) is c_advance2(c, c, k).
Advance2(to, from, k) ==
    /\ want[from] + k <= MaxWant
    /\ cur' = [cur EXCEPT ![to] = Advanced(cur[from], k)]
    /\ win' = [win EXCEPT ![to] = win[from]]
    /\ want' = [want EXCEPT ![to] = want[from] + k]
    /\ lost' = [lost EXCEPT ![to] = lost[from]]
    /\ copied' = NoCopy

\* The tail of disassembler and the first line of deserializer: a block that
\* is completely inside gets a cursor of its own, the outer cursor steps over
\* it.  A header that could not be loaded leaves n negative and is refused.
OpenBlock(to, from, size) ==
    /\ to # from
    /\ cur[from].n >= size
    /\ want[from] + size <= MaxWant
    /\ cur' = [cur EXCEPT ![from] = Advanced(cur[from], size),
                          ![to] = [pos |-> cur[from].pos, n |-> size]]
    /\ win' = [win EXCEPT ![to] = [lo  |-> cur[from].pos,
                                   hi  |-> cur[from].pos + size,
                                   cap |-> win[from].cap]]
    /\ want' = [want EXCEPT ![from] = want[from] + size,
                            ![to] = cur[from].pos]
    /\ lost' = [lost EXCEPT ![to] = FALSE]
    /\ copied' = NoCopy

Next == \/ \E c \in Cursors, w \in Widths : LoadStore(c, w)
        \/ \E to, from \in Cursors, k \in Advances : Advance2(to, from, k)
        \/ \E to, from \in Cursors, size \in Sizes : OpenBlock(to, from, size)

Spec == Init /\ [][Next]_vars
-----------------------------------------------------------------------------
\* No load or store touches a byte outside the block it was given, and no
\* block reaches outside its buffer: the memcpy calls of binary_stream.c need
\* no bounds check of their own, however many requests failed before.
CopiesInside ==
    /\ \A c \in Cursors : win[c].lo <= win[c].hi /\ win[c].hi <= win[c].cap
    /\ copied # NoCopy =>
         /\ win[copied.at].lo <= copied.from
         /\ copied.upto <= win[copied.at].hi

\* The comment on struct cursor: n > 0 is the distance to the end, n = 0 is
\* the end, and n < 0 is by how many bytes the buffer should have been longer
\* for every request so far to succeed.
DistanceMeansRoom ==
    \A c \in Cursors :
        /\ cur[c].n >= 0 => cur[c].pos + cur[c].n = win[c].hi
        /\ cur[c].n < 0 => want[c] = win[c].hi - cur[c].n

\* The parsing code looks at n once after many unchecked loads (the *_or0
\* loads of the location table and of every deserializer case): a load that
\* failed at any time is still visible then.
LossRemembered == \A c \in Cursors : lost[c] => cur[c].n < 0

\* A cursor keeps the promise its callers rely on: the tests of n in
\* file_reader and deserializer can come late, because a cursor that left its
\* bytes never returns to them by being used, and hands its place on when it is
\* copied by c_advance2.
where == [c \in Cursors |-> PlaceOf(cur[c])]

Promise == INSTANCE StickyEnd

ImplementsStickyEnd == Promise!Spec
=============================================================================

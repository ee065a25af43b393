------------------------------ MODULE CursorOps ------------------------------
(***************************************************************************)
(* The cursor arithmetic of binary_stream.c as pure operators.             *)
(*                                                                         *)
(* A struct cursor is a record [pos, n]: pos is the offset of the pointer  *)
(* from the start of the buffer, n the signed distance to the end.  Bytes  *)
(* themselves are left out: the operators say which bytes are touched.     *)
(***************************************************************************)
EXTENDS Integers

Cursor == [pos : Nat, n : Int]

\* Mutant: the pointer goes back and the distance grows.
AdvancedBack(c, k) == [pos |-> c.pos - k, n |-> c.n + k]

\* c_advance and c_advance2: both fields move, whatever the distance.
Advanced(c, k) == [pos |-> c.pos + k, n |-> c.n - k]

\* Mutant: the distance is tested before it shrinks.
FitsBefore(c, w) == c.n >= 0

\* A load or store of w bytes copies only when the distance stays non-negative.
Fits(c, w) == c.n - w >= 0

\* Mutants: a load or store that fails leaves the distance alone, stops it at 0,
\* or leaves only a mark.
TakenIfFits(c, w) == IF Fits(c, w) THEN Advanced(c, w) ELSE c
TakenToEnd(c, w) == IF Fits(c, w) THEN Advanced(c, w) ELSE [c EXCEPT !.n = 0]
TakenOrMarked(c, w) == IF Fits(c, w) THEN Advanced(c, w) ELSE [c EXCEPT !.n = -1]

\* c_load_*, c_store_*: the distance always shrinks, the pointer only moves
\* when the bytes were copied.
Taken(c, w) == [pos |-> IF Fits(c, w) THEN c.pos + w ELSE c.pos,
                n   |-> c.n - w]

\* What the code ever asks of a cursor after the fact: is n negative?
Place == {"inside", "past"}

PlaceOf(c) == IF c.n < 0 THEN "past" ELSE "inside"

\* Where a cursor can be after it was used: out of bounds is for good.
After(p) == IF p = "past" THEN {"past"} ELSE Place
=============================================================================

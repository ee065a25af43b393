------------------------------ MODULE StickyEnd ------------------------------
(***************************************************************************)
(* What the parsing code relies on when it uses a cursor: it issues a long *)
(* run of loads whose results it does not look at, and tests the distance  *)
(* n once at the end.  That is sound when going past the end is permanent  *)
(* and every failed load goes past the end.                                *)
(*                                                                         *)
(* where[c] is the only thing a caller can learn from n; lost[c] says that *)
(* some load through c did not deliver its bytes.                          *)
(***************************************************************************)
CONSTANT Cursors

VARIABLES where, lost

vars == <<where, lost>>

\* What a caller knows of each cursor, and what it may have missed.
TypeOK == /\ where \in [Cursors -> {"inside", "past"}]
          /\ lost \in [Cursors -> BOOLEAN]

Init == /\ where = [c \in Cursors |-> "inside"]
        /\ lost = [c \in Cursors |-> FALSE]

\* Bytes are delivered: the cursor was, and stays, inside.
Deliver(c) == where[c] = "inside" /\ UNCHANGED vars

\* Bytes are not delivered: the cursor is past the end from now on.
Refuse(c) == /\ where' = [where EXCEPT ![c] = "past"]
             /\ lost' = [lost EXCEPT ![c] = TRUE]

\* The cursor skips bytes nobody reads; this may leave the buffer.
Skip(c) == /\ where' = [where EXCEPT ![c] = "past"]
           /\ UNCHANGED lost

\* A second cursor takes up where another one stands, or further on; it has
\* lost what the first one had lost.
Copy(to, from) ==
    /\ \E p \in {"past"} \cup {where[from]} : where' = [where EXCEPT ![to] = p]
    /\ lost' = [lost EXCEPT ![to] = lost[from]]

\* A fresh cursor over bytes that the enclosing cursor can still deliver.
Nest(to, from) ==
    /\ where[from] = "inside"
    /\ where' = [where EXCEPT ![to] = "inside"]
    /\ lost' = [lost EXCEPT ![to] = FALSE]

Next == \/ \E c \in Cursors : Deliver(c) \/ Refuse(c) \/ Skip(c)
        \/ \E to, from \in Cursors : Copy(to, from) \/ Nest(to, from)

Spec == Init /\ [][Next]_vars
=============================================================================

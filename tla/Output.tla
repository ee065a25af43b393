-------------------------------- MODULE Output --------------------------------
(***************************************************************************)
(* What saving promises, seen from the path that is written to: what a     *)
(* reader of it would find at any moment, and what the user is told.       *)
(*                                                                         *)
(* The old save is given up before there is a new one.  A new save whose   *)
(* body was compressed is there at one stroke and stays; if its body is    *)
(* written to the file in place, a reader may find part of it, or all of   *)
(* it for a while.  The user is told of success when the new save is       *)
(* there, and of failure when there is none of it; and something the user  *)
(* is told, or the program dies.                                           *)
(***************************************************************************)
VARIABLES in_place,  \* the body goes to the file without compression
          found,     \* what a reader finds: "old", "nothing", "part", "new"
          told       \* "nothing yet", "success", "failure", "died"

vars == <<in_place, found, told>>

Init == in_place \in BOOLEAN /\ found = "old" /\ told = "nothing yet"

GiveUp == found = "old" /\ found' = "nothing"

Grow == \/ found = "nothing" /\ found' \in {"nothing", "new"}
        \/ in_place /\ found # "old" /\ found' \in {"nothing", "part", "new"}

Work == told' = told /\ (GiveUp \/ Grow)

Succeed == found = "new" /\ told' = "success" /\ found' = found
Fail == found \in {"old", "nothing"} /\ told' = "failure" /\ found' = found

\* The program is killed, in the midst of a store perhaps.
Die == told' = "died" /\ (found' = found \/ Grow)

Next == /\ told = "nothing yet" /\ in_place' = in_place
        /\ Work \/ Succeed \/ Fail \/ Die

Answer == <>(told # "nothing yet")

Spec == Init /\ [][Next]_vars /\ Answer
=============================================================================

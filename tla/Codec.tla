--------------------------------- MODULE Codec ---------------------------------
(***************************************************************************)
(* A stand-in for liblz4 and zlib, for the runs.  Like them it shrinks     *)
(* runs of zeroes and grows other data, has several codes for the same     *)
(* octets, stays inside the room it is given and fails on data that is cut *)
(* off.                                                                    *)
(*                                                                         *)
(* In a code a zero is followed by how many zeroes it stands for; every    *)
(* other octet stands for itself; and behind all is a mark.                *)
(***************************************************************************)
EXTENDS Integers, SequencesExt

EndMark == 77

\* No run is longer.
MaxRun == 100

\* The sequences s[from], ..., s[to] joined, by halves: that is not as deep as a fold.
RECURSIVE Joined(_, _, _)
Joined(s, from, to) ==
    LET middle == (from + to) \div 2
    IN  CASE from > to -> <<>>
          [] from = to -> s[from]
          [] from < to -> Joined(s, from, middle) \o Joined(s, middle + 1, to)

\* A run begins at a zero behind another octet, and every MaxRun octets anew.
Begins(octets, i) ==
    octets[i] = 0 /\ (i % MaxRun = 1 \/ octets[i - 1] # 0)

\* The position behind the run that begins at i.
RunEnd(octets, i) ==
    CHOOSE j \in (i + 1)..(i + MaxRun) :
      /\ j = Len(octets) + 1 \/ j % MaxRun = 1 \/ octets[j] # 0
      /\ \A k \in (i + 1)..(j - 1) : k % MaxRun # 1 /\ octets[k] = 0

Shrunk(octets) ==
    LET token(i) == CASE octets[i] # 0 -> <<octets[i]>>
                      [] Begins(octets, i) -> <<0, RunEnd(octets, i) - i>>
                      [] OTHER -> <<>>
    IN  Joined([i \in DOMAIN octets |-> token(i)], 1, Len(octets)) \o <<EndMark>>

\* Every zero is a run of its own: what another compressor might make of it.
Loose(octets) ==
    LET token(i) == IF octets[i] = 0 THEN <<0, 1>> ELSE <<octets[i]>>
    IN  Joined([i \in DOMAIN octets |-> token(i)], 1, Len(octets)) \o <<EndMark>>

Expanded(o, room) ==
    LET meant(i) == CASE o[i] = 0 -> <<>>
                      [] o[i] # 0 /\ i > 1 /\ o[i - 1] = 0 -> [k \in 1..o[i] |-> 0]
                      [] OTHER -> <<o[i]>>
        octets == Joined([i \in 1..(Len(o) - 1) |-> meant(i)], 1, Len(o) - 1)
        whole == o # <<>> /\ Last(o) = EndMark /\ (Len(o) > 1 => o[Len(o) - 1] # 0)
    IN  IF whole /\ Len(octets) <= room THEN [ok |-> TRUE, octets |-> octets]
        ELSE [ok |-> FALSE, octets |-> <<>>]

\* Both codes are undone, and in no less room.  (Format says of the libraries that this
\* is so for all data.)
ASSUME CodecAssumption ==
    \A o \in SeqOf({0, 5, EndMark}, 5) : \A code \in {Shrunk(o), Loose(o)} :
      /\ Expanded(code, Len(o)) = [ok |-> TRUE, octets |-> o]
      /\ Len(o) > 0 => ~Expanded(code, Len(o) - 1).ok
================================================================================

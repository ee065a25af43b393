-------------------------------- MODULE Vsval --------------------------------
(***************************************************************************)
(* A stream of variable size values, written by encode_vsval calls into a  *)
(* buffer with limited room and read back by decode_vsval calls, octet by  *)
(* octet, after the stream may have lost its tail.                         *)
(*                                                                         *)
(* The stream can also come from elsewhere (a save the game wrote): then   *)
(* nothing was encoded here and the octets are arbitrary.                  *)
(***************************************************************************)
EXTENDS VsvalOps, SequencesExt

CONSTANTS Values,       \* what the serializer may be asked to encode
          MaxValues,    \* bound on the number of encode_vsval calls
          Rooms,        \* room in the serializer's block
          Foreign       \* streams not written by encode_vsval

ASSUME VsvalAssumption ==
    /\ Values \subseteq Nat
    /\ MaxValues \in Nat
    /\ Rooms \subseteq Nat
    /\ Foreign \subseteq Seq(Octet)

VARIABLES phase,    \* "encode", "decode", "ended"
          room,     \* cursor->n of the writer
          stream,   \* the octets in the buffer
          wrote,    \* the values that were accepted for encoding
          left,     \* octets in front of the reader's cursor
          b, i,     \* the locals of decode_vsval
          got,      \* the values decode_vsval returned
          took,     \* history: octets consumed by the values in got
          err       \* the last error code

vars == <<phase, room, stream, wrote, left, b, i, got, took, err>>
writer == <<room, stream, wrote>>
reader == <<left, b, i, got, took>>

NoOctets == <<0, 0, 0>>

\* Whatever octets come, the locals of decode_vsval stay in the range of their
\* types and a decoded value below 2^22.
TypeOK == /\ phase \in {"encode", "decode", "ended"}
          /\ room \in Int
          /\ stream \in Seq(Octet)
          /\ wrote \in Seq(Values)
          /\ left \in Seq(Octet)
          /\ b \in [1..3 -> Octet]
          /\ i \in 0..3
          /\ got \in Seq(0..VsvalMax)
          /\ took \in Nat
          /\ err \in {"CG_OK", "CG_EOF", "CG_CORRUPT", "CG_INVAL"}

Init == /\ \/ phase = "encode" /\ stream = <<>> /\ room \in Rooms
           \/ phase = "decode" /\ stream \in Foreign /\ room = 0
        /\ left = stream
        /\ wrote = <<>>
        /\ b = NoOctets /\ i = 0 /\ got = <<>> /\ took = 0
        /\ err = "CG_OK"

\* encode_vsval with a value too wide to encode: nothing is stored.
Reject(v) ==
    /\ phase = "encode" /\ v > VsvalMax
    /\ err' = "CG_INVAL"
    /\ UNCHANGED phase /\ UNCHANGED writer /\ UNCHANGED reader

\* Mutant: octets that do not fit are not counted off.
EncodeIfRoom(v) ==
    /\ phase = "encode" /\ v <= VsvalMax /\ Len(wrote) < MaxValues
    /\ LET fits == room - Len(Encoded(v)) >= 0
       IN  /\ room' = IF fits THEN room - Len(Encoded(v)) ELSE room
           /\ stream' = IF fits THEN stream \o Encoded(v) ELSE stream
    /\ wrote' = Append(wrote, v)
    /\ err' = "CG_OK"
    /\ UNCHANGED phase /\ UNCHANGED reader

\* encode_vsval: c_store_bytes copies all octets or none, and counts them off
\* the room either way.
Encode(v) ==
    /\ phase = "encode" /\ v <= VsvalMax /\ Len(wrote) < MaxValues
    /\ LET octets == Encoded(v)
           fits == room - Len(octets) >= 0
       IN  /\ room' = room - Len(octets)
           /\ stream' = IF fits THEN stream \o octets ELSE stream
    /\ wrote' = Append(wrote, v)
    /\ err' = "CG_OK"
    /\ UNCHANGED phase /\ UNCHANGED reader

\* serializer ignores what encode_vsval returned and looks at the cursor once,
\* after the last store.
EndWriting ==
    /\ phase = "encode"
    /\ IF room < 0
       THEN phase' = "ended" /\ err' = "CG_EOF" /\ UNCHANGED left
       ELSE /\ phase' = "decode" /\ err' = "CG_OK"
            /\ \E kept \in 0..Len(stream) : left' = SubSeq(stream, 1, kept)
    /\ UNCHANGED <<b, i, got, took>> /\ UNCHANGED writer

\* Mutant: a load that fails is tried again.
LoadOctetAgain ==
    /\ phase = "decode" /\ i < LoopBound(b[1])
    /\ IF left = <<>>
       THEN err' = "CG_EOF" /\ UNCHANGED phase /\ UNCHANGED reader
       ELSE /\ b' = [b EXCEPT ![i + 1] = Head(left)]
            /\ i' = i + 1
            /\ left' = Tail(left)
            /\ UNCHANGED <<phase, err, got, took>>
    /\ UNCHANGED writer

\* One round of decode_vsval's loop.
LoadOctet ==
    /\ phase = "decode" /\ i < LoopBound(b[1])
    /\ IF left = <<>>
       THEN /\ err' = "CG_EOF" /\ phase' = "ended"
            /\ UNCHANGED reader
       ELSE /\ b' = [b EXCEPT ![i + 1] = Head(left)]
            /\ i' = i + 1
            /\ left' = Tail(left)
            /\ UNCHANGED <<phase, err, got, took>>
    /\ UNCHANGED writer

\* The end of the loop: the octet count was valid and gives a value, or it was
\* not.  The next call starts with fresh locals.
Assemble ==
    /\ phase = "decode" /\ i >= LoopBound(b[1])
    /\ IF b[1] % 4 = 3
       THEN /\ err' = "CG_CORRUPT" /\ phase' = "ended"
            /\ UNCHANGED <<got, took, b, i>>
       ELSE /\ got' = Append(got, Assembled(b))
            /\ took' = took + i
            /\ b' = NoOctets /\ i' = 0
            /\ UNCHANGED <<phase, err>>
    /\ UNCHANGED left /\ UNCHANGED writer

Ended == phase = "ended" /\ UNCHANGED vars

Next == \/ \E v \in Values : Reject(v) \/ Encode(v)
        \/ EndWriting \/ LoadOctet \/ Assemble \/ Ended

Spec == Init /\ [][Next]_vars /\ WF_vars(Next)
-----------------------------------------------------------------------------
Sum(s) == FoldLeft(LAMBDA acc, v : acc + Len(Encoded(v)), 0, s)

OursRead == wrote # <<>> /\ phase # "encode" /\ room >= 0

\* Decoding returns the encoded values in their order and invents none: a
\* value whose octets were cut off ends the reading with CG_EOF, it does not
\* come back as a shorter value, and a value decodes from exactly its octets.
ReadsWhatWasWritten ==
    OursRead => /\ IsPrefix(got, wrote)
                /\ took = Sum(got)
                /\ err \in {"CG_OK", "CG_EOF"}

\* Reading stops early only where the stream was cut: the octets that are left
\* do not hold the next value.
StopsOnlyWhereCut ==
    OursRead /\ phase = "ended" /\ got # wrote =>
      Len(Encoded(wrote[Len(got) + 1])) > i + Len(left)

\* The room that encode_vsval leaves is exact even after it stored nothing, so
\* that serializer's single test of cursor->n decides whether all values are
\* in the block, and a negative n says how many octets were missing.
RoomIsExact ==
    wrote # <<>> =>
      /\ room + Sum(wrote) \in Rooms
      /\ room >= 0 => Len(stream) = Sum(wrote)

\* Whatever the stream, a decoded value can be encoded again and takes no more
\* octets than it was read from: a block of a save read from disk never grows
\* when it is written back.
RewritingNeverGrows ==
    /\ \A k \in DOMAIN got : got[k] <= VsvalMax
    /\ Sum(got) <= took

\* decode_vsval returns on every stream: the loop bound is read from an octet
\* the loop itself fills in, and still the loop ends.
DecodingEnds == (phase = "decode") ~> (phase = "ended")
=============================================================================

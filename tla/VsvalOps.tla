------------------------------- MODULE VsvalOps -------------------------------
(***************************************************************************)
(* Variable size values: the codec of encode_vsval and decode_vsval.       *)
(*                                                                         *)
(* A value is shifted left by two, the two low bits hold the number of     *)
(* octets minus one, and the octets are written lowest first.              *)
(***************************************************************************)
EXTENDS Integers, Sequences

VsvalMax == 4194303

Octet == 0..255

\* value <<= 2; value &= 0xffffff.
Shifted(v) == (v * 4) % 16777216

\* Mutants: a boundary off by one, and no two octet form.
OctetCountLate(s) == IF s >= 65536 THEN 3 ELSE IF s > 256 THEN 2 ELSE 1
OctetCountWide(s) == IF s >= 256 THEN 3 ELSE 1

\* ((value >= 0x100) << (value >= 0x10000)) + 1.
OctetCount(s) == IF s >= 65536 THEN 3 ELSE IF s >= 256 THEN 2 ELSE 1

\* The shifted value with the size information in its two low bits, which the
\* shift left zero.
Word(v) == Shifted(v) + (OctetCount(Shifted(v)) - 1)

\* htole32: the octets of a word, lowest first.
Octets(w) == <<w % 256, (w \div 256) % 256, (w \div 65536) % 256>>

\* The octets c_store_bytes copies from the little endian word.
Encoded(v) == [i \in 1..OctetCount(Shifted(v)) |-> Octets(Word(v))[i]]

\* Mutant: three octets always.
LoopBoundThree(b0) == IF b0 % 4 = 3 THEN 0 ELSE 3

\* (b[0] + 1) & 3: the bound of the decoder's loop, read again on every round.
\* The size tag 3 makes it 0.
LoopBound(b0) == (b0 + 1) % 4

\* Mutant: the size tag is left in.
AssembledWithTag(b) == b[3] * 65536 + b[2] * 256 + b[1]

\* ((b[2] << 16) | (b[1] << 8) | b[0]) >> 2.
Assembled(b) == (b[3] * 65536 + b[2] * 256 + b[1]) \div 4
=============================================================================

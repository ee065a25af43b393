-------------------------------- MODULE Format --------------------------------
(***************************************************************************)
(* The octets of a save game: what file_reader and deserializer make of a  *)
(* file, and which octets file_writer, serializer and assembler store      *)
(* where, on a little endian host.                                         *)
(*                                                                         *)
(* A value in memory is the sequence of its octets, lowest first; numbers  *)
(* are put together only where they count something.  SaveReader has the   *)
(* reader's control in full and shows that a load that fails makes reading *)
(* fail; so here reading is a function, and ok is FALSE from the first     *)
(* failed load on.                                                         *)
(***************************************************************************)
EXTENDS VsvalOps, SequencesExt

CONSTANTS
    HighHalves,         \* how many values of a le32's upper half are told apart
    Compressed(_),      \* LZ4_compress_default: what becomes of a body
    Decompressed(_, _)  \* LZ4_decompress_safe and uncompress, with room: [ok, octets]

\* 65536 is every value.  Less keeps the numbers small enough for the model checker.
ASSUME FormatAssumption == HighHalves \in 256..65536

\* Stands for every le32 with another upper half, and is more than the rest; with all
\* upper halves it is 2^32, and no le32 at all.
TooMany == 65536 * HighHalves

\* The number of four octets, lowest first.
Assembled4(a, b, c, d) ==
    LET high == c + 256 * d
    IN  IF high < HighHalves THEN a + 256 * b + 65536 * high ELSE TooMany

\* A le32, a le16 or an octet.
Number(o) ==
    LET octet(i) == IF i <= Len(o) THEN o[i] ELSE 0
    IN  Assembled4(octet(1), octet(2), octet(3), octet(4))

\* The w octets of n modulo 2^8w.
LE(n, w) == [i \in 1..w |-> (n \div 256^(i - 1)) % 256]

Width == [u8 |-> 1, le16 |-> 2, be24 |-> 3, le32 |-> 4, lef32 |-> 4, le64 |-> 8]

Signature == [SKYRIM   |-> <<84, 69, 83, 86, 95, 83, 65, 86, 69, 71, 65, 77, 69>>,
              FALLOUT4 |-> <<70, 79, 52, 95, 83, 65, 86, 69, 71, 65, 77, 69>>]

MinFileSize == 300
LocationTableSize == 100

supports_save_file_compression(s) ==
    s.game = "SKYRIM" /\ Number(s.file_version[1]) >= 12

\* Mutant: the two versions are mixed up.
supports_light_plugins_swapped(s) ==
    /\ Number(s.file_version[1]) >= 78
    /\ s.game = "SKYRIM" => Number(s.form_version[1]) >= 12

supports_light_plugins(s) ==
    /\ Number(s.file_version[1]) >= 12
    /\ s.game = "SKYRIM" => Number(s.form_version[1]) >= 78

snapshot_pixel_width(s) == IF Number(s.file_version[1]) >= 11 THEN 4 ELSE 3

-----------------------------------------------------------------------------
\* Object types: enum object_type from OBJECT_GLDA_MISC_STATS on, counted from 0.

ObjectTypes == 0..37
Table1 == [i \in 1..12 |-> i - 1]
Table2 == [i \in 1..18 |-> i + 11]
Table3 == [i \in 1..8 |-> i + 29]

glda_type_number(t) == IF t < 12 THEN t ELSE IF t < 30 THEN t + 88 ELSE t + 970

MISC_STATS == 0
PLAYER_LOCATION == 1
GLOBAL_VARIABLES == 3
WEATHER == 6
MAGIC_FAVORITES == 21

\* Types with a structure of their own; of the others the block is kept as it is.
Structured == {MISC_STATS, PLAYER_LOCATION, GLOBAL_VARIABLES, WEATHER, MAGIC_FAVORITES}

-----------------------------------------------------------------------------
\* Fields: a name, how many elements there are ("one", "some" if any octets are
\* left, or a number stored in front of them) and the kinds an element consists of.

Field(name, count, kinds) == [name |-> name, count |-> count, kinds |-> kinds]
One(name, kind) == Field(name, "one", <<kind>>)
Each(names, kind) == [i \in DOMAIN names |-> One(names[i], kind)]

\* Mutant: a be24 is taken for a signed number.
LoadedSigned(kind, o) ==
    CASE kind = "str"  -> Append(o, 0)
      [] kind = "be24" -> <<o[3], o[2], o[1], IF o[1] >= 128 THEN 255 ELSE 0>>
      [] OTHER -> o

\* c_load_le16_str: the octets and a NUL.  be24: the uint32_t that load_be24 returns.
Loaded(kind, o) ==
    CASE kind = "str"  -> Append(o, 0)
      [] kind = "be24" -> <<o[3], o[2], o[1], 0>>
      [] OTHER -> o

\* strlen.
CString(v) == SubSeq(v, 1, SelectInSeq(v, LAMBDA octet : octet = 0) - 1)

Stored(kind, v) ==
    CASE kind = "str"  -> LE(Len(CString(v)), 2) \o CString(v)
      [] kind = "be24" -> <<v[3], v[2], v[1]>>
      [] OTHER -> v

-----------------------------------------------------------------------------
\* A cursor that loads: the octets it walks over, how many it has passed, the
\* save it fills, and what it got for the field at hand.

Left(c) == Len(c.octets) - c.pos
Refused(c) == [c EXCEPT !.ok = FALSE]

\* Behind the end of a file are zeroes; whether they may be used is asked elsewhere.
Piece(c, skip, w) ==
    [i \in 1..w |-> IF skip + i <= Left(c) THEN c.octets[c.pos + skip + i] ELSE 0]

NumberAt(c, skip, w) == Number(Piece(c, skip, w))

Advance(c, w) == IF w > Left(c) THEN Refused(c) ELSE [c EXCEPT !.pos = @ + w]

\* w octets behind skip ones that say how many there are.
Take(c, skip, w, kind) ==
    IF skip + w > Left(c) THEN Refused(c)
    ELSE [c EXCEPT !.pos = @ + skip + w, !.got = Append(@, Loaded(kind, Piece(c, skip, w)))]

LoadOne(c, kind) ==
    CASE kind = "str"   -> Take(c, 2, NumberAt(c, 0, 2), kind)
      [] kind = "chunk" -> Take(c, 0, Left(c), kind)
      [] OTHER -> Take(c, 0, Width[kind], kind)

\* The size tag 3 of a variable size value has no width.
CountWidth(c, count) ==
    CASE count \in {"one", "some"} -> 0
      [] count = "vsval" -> IF LoopBound(Piece(c, 0, 1)[1]) = 0 THEN TooMany
                            ELSE LoopBound(Piece(c, 0, 1)[1])
      [] OTHER -> Width[count]

CountAhead(c, count) ==
    CASE count = "one"   -> 1
      [] count = "some"  -> IF Left(c) > 0 THEN 1 ELSE 0
      [] count = "vsval" -> Assembled(Piece(c, 0, CountWidth(c, count)) \o <<0, 0>>)
      [] OTHER -> NumberAt(c, 0, Width[count])

\* Every element has an octet or more, so a count beyond the octets left fails.
Load(c, f) ==
    LET width == CountWidth(c, f.count)
        n == CountAhead(c, f.count)
        kinds == FlattenSeq([i \in 1..n |-> f.kinds])
        done == FoldLeft(LoadOne, [c EXCEPT !.pos = @ + width, !.got = <<>>], kinds)
    IN  IF width > Left(c) \/ (width > 0 /\ n > Left(c) - width) THEN Refused(c)
        ELSE IF f.count = "some" /\ n = 0 THEN c
        ELSE [done EXCEPT !.save[f.name] = done.got]

LoadAll(c, fields) == FoldLeft(Load, c, fields)
-----------------------------------------------------------------------------
\* liblz4 and zlib are not modelled; what is proved rests on two of their promises.

\* A decompressor stays inside the room it is given, whatever it is given to decompress.
DecompressorIsSafe ==
    \A o \in Seq(Octet), room \in Nat :
      LET result == Decompressed(o, room)
      IN  /\ result \in [ok : BOOLEAN, octets : Seq(Octet)]
          /\ Len(result.octets) <= room /\ Len(result.octets) < TooMany

\* Of up to most octets it gets back what was compressed, in just the room for it.
CompressorIsUndone(most) ==
    \A o \in Seq(Octet) : Len(o) <= most =>
      /\ Compressed(o) \in Seq(Octet)
      /\ Decompressed(Compressed(o), Len(o)) = [ok |-> TRUE, octets |-> o]
=============================================================================

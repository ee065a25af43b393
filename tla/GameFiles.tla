------------------------------ MODULE GameFiles ------------------------------
(***************************************************************************)
(* Files the way the games write them, octet by octet, with at most one    *)
(* irregularity each.                                                      *)
(***************************************************************************)
EXTENDS Format, Codec

\* The sequence from, from + 1, ... of n octets, all of them different.
Run(from, n) == [i \in 1..n |-> (from + i - 1) % 256]
Same(octet, n) == [i \in 1..n |-> octet]

Block(header, data) == header \o LE(Len(data), 4) \o data
Global(number, data) == Block(LE(number, 4), data)

\* Formats: the game, its versions, and the compressor where there is a choice.
Format(game, file, form, compressor) ==
    [game |-> game, file |-> file, form |-> form, compressor |-> compressor]

GameFormats ==
    {Format("SKYRIM", 9, 70, 0), Format("SKYRIM", 12, 78, 0), Format("SKYRIM", 12, 78, 1),
     Format("SKYRIM", 12, 78, 2), Format("SKYRIM", 12, 77, 2), Format("FALLOUT4", 11, 60, 0),
     Format("FALLOUT4", 15, 67, 0)}

Compressible(f) == f.game = "SKYRIM" /\ f.file >= 12
Light(f) == f.file >= 12 /\ (f.game = "SKYRIM" => f.form >= 78)

\* One of them has something of everything, the other nothing that may be missing.
Amounts == {"full", "bare"}

\* What an irregular file has: a NUL inside a string, a count in more octets than it
\* needs, octets in the unused part of the location table, an octet more than a
\* structure needs, octets behind the end, no magic favourites, two weathers, a type of
\* the third table in the first one, a type kept as a chunk twice, a size tag of 3, a
\* side of the snapshot or a count of blocks that counts only modulo 2^32, and one pixel
\* with a body that may be compressed better.
Quirks == {"none", "nul", "overlong", "junk", "slack", "trailing", "missing", "twice",
           "moved", "doubled", "bad_tag", "wide", "wrapped", "loose"}

Name(q) == IF q = "nul" THEN <<3, 0, 65, 0, 66>> ELSE <<2, 0, 65, 66>>

\* Width and height, and the pixels: 20, or 1.
Sides(q) == CASE q = "wide"  -> <<5, 0, 0, 128>> \o LE(4, 4)
              [] q = "loose" -> LE(1, 4) \o LE(1, 4)
              [] OTHER -> LE(5, 4) \o LE(4, 4)

Pixels(f, q) == Run(61, (IF q = "loose" THEN 1 ELSE 20) * (IF f.file >= 11 THEN 4 ELSE 3))

HeaderOf(f, q) ==
    LE(f.file, 4) \o Run(7, 4) \o Name(q) \o Run(11, 4) \o <<1, 0, 67>> \o <<0, 0>>
    \o <<1, 0, 68>> \o <<1, 0>> \o Run(21, 8) \o Run(31, 8) \o Sides(q)
    \o IF Compressible(f) THEN LE(f.compressor, 2) ELSE <<>>

PluginsOf(f, full) ==
    (IF full THEN <<2, 1, 0, 80, 2, 0, 81, 82>> ELSE <<0>>)
    \o IF ~Light(f) THEN <<>> ELSE IF full THEN <<1, 0, 1, 0, 83>> ELSE <<0, 0>>

MiscStats(full, q) ==
    Global(0, IF full THEN <<2, 0, 0, 0>> \o <<1, 0, 71, 3>> \o Run(41, 4)
                           \o <<0, 0, 4>> \o Run(45, 4)
              ELSE <<0, 0, 0, 0>>)

PlayerLocation(f, q) ==
    Global(1, Run(51, 30) \o (IF f.game = "SKYRIM" THEN <<81>> ELSE <<>>)
              \o IF q = "slack" THEN <<9>> ELSE <<>>)

\* Two global variables; the count in one octet or in two.
GlobalVars(full, q) ==
    Global(3, CASE q = "overlong" -> <<9, 0>> \o Run(91, 14)
                [] q = "bad_tag" -> <<3>> \o Run(91, 14)
                [] full /\ q \notin {"overlong", "bad_tag"} -> <<8>> \o Run(91, 14)
                [] OTHER -> <<0>>)

WeatherBlock(rest) == Global(6, Run(111, 63) \o Run(181, rest))

Favourites(full) ==
    Global(109, IF full THEN <<4>> \o Run(191, 3) \o <<8>> \o Run(195, 6) ELSE <<0, 0>>)

\* The change forms with lengths of one, two and four octets.
Forms == Run(201, 7) \o <<5, 74, 2, 0, 1, 2>>
         \o Run(211, 7) \o <<64, 75, 3, 0, 9, 0, 3, 4, 5>>
         \o Run(221, 7) \o <<129, 76, 1, 0, 0, 0, 0, 0, 0, 0, 6>>

\* The tables, as lists of blocks.
Tables(f, full, q) ==
    LET favourites == IF q = "missing" THEN <<>> ELSE <<Favourites(full)>>
        chunk(number) == IF full THEN <<Global(number, Run(231, 3))>> ELSE <<>>
    IN  <<  <<MiscStats(full, q), PlayerLocation(f, q)>> \o chunk(2)
              \o <<GlobalVars(full, q), WeatherBlock(IF full THEN 2 ELSE 0)>>
              \o (IF q = "twice" THEN <<WeatherBlock(0)>> ELSE <<>>)
              \o (IF q = "moved" THEN <<Global(1001, <<1, 2>>)>> ELSE <<>>)
              \o (IF q = "doubled" THEN <<Global(5, <<1>>), Global(5, <<2>>)>> ELSE <<>>),
            favourites \o chunk(116),
            IF q = "moved" THEN <<>> ELSE chunk(1001) >>

BodyOf(f, full, q, base) ==
    LET tables == Tables(f, full, q)
        front == LE(f.form, 1) \o (IF f.game = "FALLOUT4" THEN <<1, 0, 49>> ELSE <<>>)
                 \o Block(<<>>, PluginsOf(f, full))
        forms == IF full THEN Forms ELSE <<>>
        parts == <<FlattenSeq(tables[1]), FlattenSeq(tables[2]), forms,
                   FlattenSeq(tables[3]),
                   IF full THEN LE(1, 4) \o Run(236, 4) \o LE(2, 4) \o Run(241, 8)
                           ELSE LE(0, 4) \o LE(0, 4)>>
        \* Where the part behind the first i begins.
        off(i) == base + Len(front) + LocationTableSize
                  + Len(FlattenSeq(SubSeq(parts, 1, i)))
        start(i) == LE(off(i), 4)
    IN  front
        \o start(4) \o start(5) \o start(0) \o start(1) \o start(2) \o start(3)
        \o (IF q = "wrapped" THEN LE(Len(tables[1]) + Len(tables[2]) + 1, 4) \o Same(255, 4)
            ELSE LE(Len(tables[1]), 4) \o LE(Len(tables[2]), 4))
        \o LE(Len(tables[3]) - 1, 4)
        \o LE(IF full THEN 3 ELSE 0, 4)
        \o (IF q = "junk" THEN Run(1, 60) ELSE Same(0, 60))
        \o FlattenSeq(parts)
        \o (IF full THEN LE(3, 4) \o <<251, 252, 253>> ELSE LE(0, 4))
        \o IF q = "trailing" THEN <<8, 9>> ELSE <<>>

\* The file, its body in place or compressed behind two sizes.
FileOf(f, full, q) ==
    LET front == Signature[f.game] \o Block(<<>>, HeaderOf(f, q)) \o Pixels(f, q)
        body == BodyOf(f, full, q, Len(front))
        packed == IF q = "loose" THEN Loose(body) ELSE Shrunk(body)
    IN  front \o
        IF ~Compressible(f) THEN body
        ELSE IF f.compressor = 0 THEN LE(Len(body), 4) \o LE(Len(body), 4) \o body
        ELSE LE(Len(body), 4) \o LE(Len(packed), 4) \o packed
==============================================================================

----------------------------- MODULE FormatReader -----------------------------
(***************************************************************************)
(* What file_reader, disassembler and deserializer make of the octets of a *)
(* file.                                                                   *)
(***************************************************************************)
EXTENDS Format

\* Arithmetic of uint32_t: the four octets of a sum of columns, what is over 255 carried
\* into the next column and out of the last one lost.
Carried(n) ==
    LET n2 == n[2] + n[1] \div 256
        n3 == n[3] + n2 \div 256
        n4 == n[4] + n3 \div 256
    IN  <<n[1] % 256, n2 % 256, n3 % 256, n4 % 256>>

Plus(a, b) == Carried([i \in 1..4 |-> a[i] + b[i]])

Times(a, b) ==
    Carried(<<a[1] * b[1],
              a[1] * b[2] + a[2] * b[1],
              a[1] * b[3] + a[2] * b[2] + a[3] * b[1],
              a[1] * b[4] + a[2] * b[3] + a[3] * b[2] + a[4] * b[1]>>)

\* deserializer: the fields of each structure in the order of the loads.

FileHeaderLoads ==
    <<One("file_version", "le32"), One("save_num", "le32"), One("player_name", "str"),
      One("level", "le32")>>
    \o Each(<<"player_location_name", "game_time", "race_id">>, "str")
    \o <<One("sex", "le16"), One("current_xp", "lef32"), One("target_xp", "lef32"),
         One("filetime", "le64"), One("snapshot_width", "le32"),
         One("snapshot_height", "le32")>>

CompressorLoads == <<One("compressor", "le16")>>

PluginLoads == <<Field("plugins", "u8", <<"str">>)>>
LightPluginLoads == <<Field("light_plugins", "le16", <<"str">>)>>

PlayerLocationLoads(game) ==
    <<One("next_object_id", "le32"), One("world_space1", "be24"), One("coord_x", "le32"),
      One("coord_y", "le32"), One("world_space2", "be24")>>
    \o Each(<<"pos_x", "pos_y", "pos_z">>, "lef32")
    \o IF game = "SKYRIM" THEN <<One("unknown", "u8")>> ELSE <<>>

WeatherLoads ==
    Each(<<"climate", "weather", "prev_weather", "unk_weather1", "unk_weather2",
           "regn_weather">>, "be24")
    \o Each(<<"current_time", "begin_time", "weather_pct">>, "lef32")
    \o <<Field("data1", "one", [i \in 1..6 |-> "le32"]), One("data2", "lef32"),
         One("data3", "le32"), One("flags", "u8"), Field("data4", "some", <<"chunk">>)>>

GlobalLoads(t, game) ==
    CASE t = MISC_STATS -> <<Field("misc_stats", "le32", <<"str", "u8", "le32">>)>>
      [] t = PLAYER_LOCATION -> PlayerLocationLoads(game)
      [] t = GLOBAL_VARIABLES -> <<Field("global_vars", "vsval", <<"be24", "lef32">>)>>
      [] t = WEATHER -> WeatherLoads
      [] t = MAGIC_FAVORITES -> <<Field("favourites", "vsval", <<"be24">>),
                                  Field("hotkeys", "vsval", <<"be24">>)>>

VersionLoads(game) ==
    <<One("form_version", "u8")>>
    \o IF game = "FALLOUT4" THEN <<One("game_version", "str")>> ELSE <<>>

\* What follows the last table; the form ids and world spaces behind their counts.
TailLoads == <<Field("form_ids", "le32", <<"le32">>),
               Field("world_spaces", "le32", <<"le32">>),
               Field("unknown3", "le32", <<"u8">>)>>

-----------------------------------------------------------------------------
\* savegame_alloc: numbers are 0, arrays empty, pointers NULL.

AllFields ==
    ToSet(FileHeaderLoads \o CompressorLoads \o PluginLoads \o LightPluginLoads
          \o VersionLoads("FALLOUT4") \o TailLoads
          \o FlattenSeq([i \in 1..38 |-> IF i - 1 \in Structured
                                         THEN GlobalLoads(i - 1, "SKYRIM") ELSE <<>>]))

Zeroes(kind) ==
    IF kind \in {"str", "chunk"} THEN <<>> ELSE Loaded(kind, [i \in 1..Width[kind] |-> 0])

savegame_alloc ==
    [name \in {f.name : f \in AllFields} \cup {"game", "snapshot_data", "change_forms", "globals"} |->
        CASE name = "game" -> "none"
          [] name \in {"snapshot_data", "change_forms"} -> <<>>
          [] name = "globals" -> [t \in ObjectTypes |-> <<>>]
          [] OTHER ->
               LET f == CHOOSE f \in AllFields : f.name = name
               IN  IF f.count = "one" THEN [i \in DOMAIN f.kinds |-> Zeroes(f.kinds[i])]
                   ELSE <<>>]

-----------------------------------------------------------------------------
\* Blocks.  disassembler looks whether the block is there; deserializer works on a
\* cursor of its own; what it leaves of the block is dropped.

Inside(c, header, size, Deserialize(_)) ==
    LET block == Deserialize([c EXCEPT !.octets = Piece(c, header, size), !.pos = 0])
    IN  IF ~c.ok \/ header + size > Left(c) THEN Refused(c)
        ELSE [c EXCEPT !.pos = @ + header + size, !.ok = block.ok, !.save = block.save]

file_header(c) ==
    LET fixed == LoadAll(c, FileHeaderLoads)
        all == LoadAll(fixed, CompressorLoads)
    IN  IF ~fixed.ok \/ ~supports_save_file_compression(fixed.save) THEN fixed
        ELSE IF Number(all.save.compressor[1]) > 2 THEN Refused(all) ELSE all

plugin_info(c) ==
    LoadAll(c, PluginLoads
               \o IF supports_light_plugins(c.save) THEN LightPluginLoads ELSE <<>>)

\* A type kept as a chunk may come only once.
global_data(c, t) ==
    IF t \in Structured THEN LoadAll(c, GlobalLoads(t, c.save.game))
    ELSE IF c.save.globals[t] # <<>> THEN Refused(c)
    ELSE [c EXCEPT !.save.globals[t] = <<c.octets>>]

ReadGlobal(c, round) ==
    LET known == {t \in ObjectTypes : glda_type_number(t) = NumberAt(c, 0, 4)}
    IN  IF known = {} THEN Refused(c)
        ELSE Inside(c, 8, NumberAt(c, 4, 4),
                    LAMBDA block : global_data(block, CHOOSE t \in known : TRUE))

\* The two upper bits of the type choose the width of the two lengths.
ReadChangeForm(c, round) ==
    LET type == Piece(c, 7, 1)[1]
        w == 2^(type \div 64)
        header == 9 + 2 * w
        size == NumberAt(c, 9, w)
        form == [form_id |-> Loaded("be24", Piece(c, 0, 3)), flags |-> Piece(c, 3, 4),
                 type |-> type, version |-> Piece(c, 8, 1)[1],
                 length2 |-> Piece(c, 9 + w, w), data |-> Piece(c, header, size)]
    IN  IF ~c.ok \/ type \div 64 = 3 \/ header + size > Left(c) THEN Refused(c)
        ELSE [c EXCEPT !.pos = @ + header + size,
                       !.save.change_forms = Append(@, form)]

\* Every round passes some octets, so more rounds than octets fail.
Rounds(Read(_, _), c, n) ==
    IF ~c.ok \/ n > Left(c) THEN Refused(c) ELSE FoldLeft(Read, c, [i \in 1..n |-> i])

\* Mutant: the count is taken as it stands.
num_globals3_stored(c) == NumberAt(c, 32, 4)

\* The count of table 3 is stored one too small, modulo 2^32.
num_globals3(c) ==
    IF Piece(c, 32, 4) = <<255, 255, 255, 255>> THEN 0 ELSE NumberAt(c, 32, 4) + 1

\* Behind the location table, of which only the counts are used.
read_tables(table) ==
    LET early == Rounds(ReadGlobal, Advance(table, LocationTableSize),
                        Number(Plus(Piece(table, 24, 4), Piece(table, 28, 4))))
        forms == Rounds(ReadChangeForm, early, NumberAt(table, 36, 4))
    IN  Rounds(ReadGlobal, forms, num_globals3(table))

read_tail(c) == IF c.ok THEN LoadAll(c, TailLoads) ELSE c

\* The body, from the form version on.
read_body(c) ==
    LET version == LoadAll(c, VersionLoads(c.save.game))
        table   == Inside(version, 4, NumberAt(version, 0, 4), plugin_info)
    IN  read_tail(read_tables(table))

\* width * height * bytes per pixel, in 32 bits.
snapshot_size(s) ==
    Number(Times(Times(s.snapshot_width[1], s.snapshot_height[1]),
                 LE(snapshot_pixel_width(s), 4)))

read_snapshot(c) ==
    LET taken == Take([c EXCEPT !.got = <<>>], 0, snapshot_size(c.save), "chunk")
    IN  [taken EXCEPT !.save.snapshot_data = taken.got]

\* The body is behind the two sizes and 8 more octets, in a buffer, or in the file.
\* (Compressed data that is cut off is the subject of SaveReader; here it fails.)
find_body(c) ==
    LET uncompress_size == NumberAt(c, 0, 4)
        compress_size == NumberAt(c, 4, 4)
        result == Decompressed(Piece(c, 8, compress_size), uncompress_size)
    IN  IF ~supports_save_file_compression(c.save) THEN c
        ELSE IF Number(c.save.compressor[1]) = 0 THEN Advance(c, 16)
        ELSE IF 8 + compress_size > Left(c) THEN Refused(c)
        ELSE [c EXCEPT !.octets = result.octets, !.pos = 0, !.ok = result.ok]

\* The same after a step that succeeded.
If(c, Step(_)) == IF c.ok THEN Step(c) ELSE c

\* file_reader: [ok, save].
Outcome(done, refused) ==
    IF refused \/ ~done.ok THEN [ok |-> FALSE, save |-> savegame_alloc]
    ELSE [ok |-> TRUE, save |-> done.save]

file_reader(file) ==
    LET games == {g \in DOMAIN Signature : IsPrefix(Signature[g], file)}
        game == CHOOSE g \in games : TRUE
        start == [octets |-> file, pos |-> Len(Signature[game]), ok |-> TRUE, got |-> <<>>,
                  save |-> [savegame_alloc EXCEPT !.game = game]]
        header == Inside(start, 4, NumberAt(start, 0, 4), file_header)
        body == If(If(header, read_snapshot), find_body)
        supported == header.ok /\ Number(header.save.file_version[1]) <= 15
    IN  Outcome(If(body, read_body), Len(file) < MinFileSize \/ games = {} \/ ~supported)
=============================================================================

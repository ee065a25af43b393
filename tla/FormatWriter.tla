----------------------------- MODULE FormatWriter -----------------------------
(***************************************************************************)
(* Which octets file_writer, serializer and assembler store for a save,    *)
(* where, and in which order.  SaveWriter has the room and the failures    *)
(* for lack of it; here the file is big enough.                            *)
(***************************************************************************)
EXTENDS Format

\* serializer: the fields of each structure in the order of the stores.

FileHeaderStores ==
    <<One("file_version", "le32"), One("save_num", "le32"), One("player_name", "str"),
      One("level", "le32")>>
    \o Each(<<"player_location_name", "game_time", "race_id">>, "str")
    \o <<One("sex", "le16"), One("current_xp", "lef32"), One("target_xp", "lef32"),
         One("filetime", "le64"), One("snapshot_width", "le32"),
         One("snapshot_height", "le32")>>

CompressorStores == <<One("compressor", "le16")>>

PluginStores == <<Field("plugins", "u8", <<"str">>)>>
LightPluginStores == <<Field("light_plugins", "le16", <<"str">>)>>

\* In every game.
PlayerLocationStores ==
    <<One("next_object_id", "le32"), One("world_space1", "be24"), One("coord_x", "le32"),
      One("coord_y", "le32"), One("world_space2", "be24")>>
    \o Each(<<"pos_x", "pos_y", "pos_z">>, "lef32") \o <<One("unknown", "u8")>>

\* Mutant: the flags before data3.
WeatherStoresSwapped ==
    Each(<<"climate", "weather", "prev_weather", "unk_weather1", "unk_weather2",
           "regn_weather">>, "be24")
    \o Each(<<"current_time", "begin_time", "weather_pct">>, "lef32")
    \o <<Field("data1", "one", [i \in 1..6 |-> "le32"]), One("data2", "lef32"),
         One("flags", "u8"), One("data3", "le32"), Field("data4", "some", <<"chunk">>)>>

WeatherStores ==
    Each(<<"climate", "weather", "prev_weather", "unk_weather1", "unk_weather2",
           "regn_weather">>, "be24")
    \o Each(<<"current_time", "begin_time", "weather_pct">>, "lef32")
    \o <<Field("data1", "one", [i \in 1..6 |-> "le32"]), One("data2", "lef32"),
         One("data3", "le32"), One("flags", "u8"), Field("data4", "some", <<"chunk">>)>>

GlobalStores(t) ==
    CASE t = MISC_STATS -> <<Field("misc_stats", "le32", <<"str", "u8", "le32">>)>>
      [] t = PLAYER_LOCATION -> PlayerLocationStores
      [] t = GLOBAL_VARIABLES -> <<Field("global_vars", "vsval", <<"be24", "lef32">>)>>
      [] t = WEATHER -> WeatherStores
      [] t = MAGIC_FAVORITES -> <<Field("favourites", "vsval", <<"be24">>),
                                  Field("hotkeys", "vsval", <<"be24">>)>>

VersionStores(game) ==
    <<One("form_version", "u8")>>
    \o IF game = "FALLOUT4" THEN <<One("game_version", "str")>> ELSE <<>>

StoredCount(count, n) ==
    CASE count \in {"one", "some"} -> <<>>
      [] count = "vsval" -> Encoded(n)
      [] OTHER -> LE(n, Width[count])

Store(s, f) ==
    LET values == s[f.name]
        width == Len(f.kinds)
        kind(i) == f.kinds[1 + ((i - 1) % width)]
    IN  StoredCount(f.count, Len(values) \div width)
        \o FlattenSeq([i \in DOMAIN values |-> Stored(kind(i), values[i])])

StoreAll(s, fields) == FlattenSeq([i \in DOMAIN fields |-> Store(s, fields[i])])

file_header_octets(s) ==
    StoreAll(s, FileHeaderStores
                \o IF supports_save_file_compression(s) THEN CompressorStores ELSE <<>>)

plugin_info_octets(s) ==
    StoreAll(s, PluginStores
                \o IF supports_light_plugins(s) THEN LightPluginStores ELSE <<>>)

\* CG_NOT_PRESENT otherwise.
Present(s, t) == t \in Structured \/ s.globals[t] # <<>>

global_data_octets(s, t) ==
    IF t \in Structured THEN StoreAll(s, GlobalStores(t)) ELSE s.globals[t][1]

-----------------------------------------------------------------------------
\* A cursor that stores: where it stands, and the stores so far, [at, octets], in
\* their order.

Put(c, octets) ==
    [pos |-> c.pos + Len(octets),
     stores |-> Append(c.stores, [at |-> c.pos, octets |-> octets])]

\* prepare_block, serializer, assembler: the data first, then the header in front.
PutBlock(c, block) ==
    [pos |-> c.pos + Len(block.header) + Len(block.data),
     stores |-> c.stores \o <<[at |-> c.pos + Len(block.header), octets |-> block.data],
                              [at |-> c.pos, octets |-> block.header]>>]

SimpleBlock(data) == [header |-> LE(Len(data), 4), data |-> data]

GlobalBlock(s, t) ==
    LET data == global_data_octets(s, t)
    IN  [header |-> LE(glda_type_number(t), 4) \o LE(Len(data), 4), data |-> data]

FormBlock(form) ==
    LET w == 2^(form.type \div 64)
    IN  [header |-> Stored("be24", form.form_id) \o form.flags
                    \o <<form.type, form.version>> \o LE(Len(form.data), w) \o form.length2,
         data |-> form.data]

GlobalBlocks(s, types) ==
    FlattenSeq([i \in DOMAIN types |->
        IF Present(s, types[i]) THEN <<GlobalBlock(s, types[i])>> ELSE <<>>])

FormBlocks(s) == [i \in DOMAIN s.change_forms |-> FormBlock(s.change_forms[i])]

PutBlocks(c, blocks) == FoldLeft(PutBlock, c, blocks)

\* The body, with offsets that count base less than the cursor, and at last the
\* location table, one entry after the other.
PutBody(c, s, base) ==
    LET version  == Put(c, StoreAll(s, VersionStores(s.game)))
        table    == PutBlock(version, SimpleBlock(plugin_info_octets(s)))
        globals1 == Put(table, [i \in 1..LocationTableSize |-> 0])
        globals2 == PutBlocks(globals1, GlobalBlocks(s, Table1))
        forms    == PutBlocks(globals2, GlobalBlocks(s, Table2))
        globals3 == PutBlocks(forms, FormBlocks(s))
        form_ids == PutBlocks(globals3, GlobalBlocks(s, Table3))
        spaces   == Put(form_ids, Store(s, Field("form_ids", "le32", <<"le32">>)))
        unknown3 == Put(spaces, Store(s, Field("world_spaces", "le32", <<"le32">>)))
        end      == Put(unknown3, Store(s, Field("unknown3", "le32", <<"u8">>)))
        count(types) == Len(GlobalBlocks(s, types))
        entries  == [i \in 1..6 |-> <<form_ids, unknown3, globals1, globals2, forms,
                                      globals3>>[i].pos - base]
                    \o <<count(Table1), count(Table2), count(Table3) - 1,
                         Len(s.change_forms)>>
    IN  [end EXCEPT !.stores = @ \o
            [i \in 1..10 |-> [at |-> table.pos + 4 * (i - 1), octets |-> LE(entries[i], 4)]]]

\* A store over a file, and the first n octets of a file that was all zeroes.
OverStore(file, store) ==
    SubSeq(file, 1, store.at) \o store.octets
    \o SubSeq(file, store.at + Len(store.octets) + 1, Len(file))

Contents(stores, n) == FoldLeft(OverStore, [i \in 1..n |-> 0], stores)

\* lz4_compress writes behind the two sizes, which come last.
PutCompressed(c, data) ==
    [pos |-> c.pos + 8 + Len(Compressed(data)),
     stores |-> c.stores \o <<[at |-> c.pos + 8, octets |-> Compressed(data)],
                              [at |-> c.pos, octets |-> LE(Len(data), 4)],
                              [at |-> c.pos + 4, octets |-> LE(Len(Compressed(data)), 4)]>>]

\* file_writer: how it ends, the stores into the file, the size of it, and how much of the
\* body buffer is used.  zlib_compress has no implementation; a body that might be
\* compressed and is not ends in a NULL pointer being read.
file_writer(s) ==
    LET front == Put([pos |-> 0, stores |-> <<>>], Signature[s.game])
        header == PutBlock(front, SimpleBlock(file_header_octets(s)))
        body  == Put(header, FlattenSeq(s.snapshot_data))
        compressor == Number(s.compressor[1])
        buffer == PutBody([pos |-> 0, stores |-> <<>>], s, 0 - body.pos)
        Result(end, c, buffered) ==
            [end |-> end, stores |-> c.stores, size |-> c.pos, buffered |-> buffered]
    IN  IF ~supports_save_file_compression(s) THEN Result("CG_OK", PutBody(body, s, 0), 0)
        ELSE CASE compressor = 0 ->
                    Result("killed", PutBody([body EXCEPT !.pos = @ + 8], s, 8), 0)
               [] compressor = 1 -> Result("CG_COMPRESS", body, buffer.pos)
               [] compressor = 2 ->
                    Result("CG_OK", PutCompressed(body, Contents(buffer.stores, buffer.pos)),
                           buffer.pos)
=============================================================================

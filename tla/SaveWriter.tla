------------------------------ MODULE SaveWriter ------------------------------
(***************************************************************************)
(* Writing a save game: file_writer with prepare_block, serializer and     *)
(* assembler, as the release build (NDEBUG, the default of CMakeLists.txt) *)
(* runs it.                                                                *)
(*                                                                         *)
(* Of the bytes only their place is kept: parts lists what was stored,     *)
(* where, in the order of the stores.  Each part of a save is written      *)
(* once, so its size is chosen when it is written.  Every header and fixed *)
(* field has its real width; the room in the buffers is scaled down.       *)
(***************************************************************************)
EXTENDS CursorOps, FiniteSets, SequencesExt

CONSTANTS Formats,      \* records [game, file_version, compressor]
          FileRooms,    \* values of *file_size_ptr
          BodyRoom,     \* size of buffers[0]
          UintMod,      \* 2^32 scaled down
          Sizes,        \* sizes of strings, structures and chunks
          Snapshots,    \* sizes of the snapshot
          Tables,       \* for each global data table the types it has, in order
          MaxCount      \* bound on the change forms, form ids and world spaces

Buffers == {"file", "body_buffer"}

\* Types serializer has a case for write themselves always; the others are
\* written if priv->globals has a chunk for them.
Structured == {"misc_stats", "player_location", "global_vars", "weather",
               "favourites"}

ASSUME WriterAssumption ==
    /\ Formats \subseteq [game : {"SKYRIM", "FALLOUT4"}, file_version : Nat,
                          compressor : {"none", "zlib", "lz4"}]
    /\ FileRooms \subseteq Nat
    /\ BodyRoom \in Nat
    /\ UintMod \in Nat
    /\ \A room \in FileRooms : room + BodyRoom + 100 < UintMod
    /\ Sizes \subseteq Nat /\ Snapshots \subseteq Nat
    /\ Tables \in [1..3 -> Seq(STRING)]
    /\ MaxCount \in Nat

SimpleHeader == <<4>>
GlobalHeader == <<4, 4>>
\* The two upper bits of the type choose the width of the two lengths: 1, 2 or 4.
FormHeader(width) == <<3, 4, 1, 1, width, width>>

LocationTableSize == 100

VARIABLES
    pc, err,
    save,         \* the format of the save
    max,          \* the size of each buffer
    home,         \* the buffer body_cursor points into
    cur,          \* file_cursor and body_cursor
    offset_var,   \* as an offset from the start of the buffer in use
    locations,    \* the location table
    todo,         \* types left in the current table, change forms left
    file_size,    \* *file_size_ptr
    parts,        \* history: the stores, [what, in, from, size]
    asked         \* history: bytes requested of each buffer

vars == <<pc, err, save, max, home, cur, offset_var, locations, todo,
          file_size, parts, asked>>
given == <<save, max>>
body == <<home, offset_var>>

Offsets == {"globals1", "globals2", "change_forms", "globals3", "form_ids", "unknown3"}
Counts == {"globals1", "globals2", "globals3", "change_forms"}

\* What is stored, by its place in the body.
Rank == [version |-> 0, plugins |-> 0, locations |-> 0, globals1 |-> 1, globals2 |-> 2,
         change_forms |-> 3, globals3 |-> 4, form_ids |-> 5, world_spaces |-> 6,
         unknown3 |-> 7, signature |-> 0, header |-> 0, snapshot |-> 0, compressed |-> 0]

Pcs == {"signature", "header", "snapshot", "body", "version", "plugins",
        "locations", "globals1", "globals2", "change_forms", "globals3",
        "world_spaces", "unknown3", "finish", "done", "killed", "overrun"}

\* Offsets and counts stay in the range of the 32 bit fields they are stored in;
\* the cursors' distances may be negative, their pointers may not.
TypeOK == /\ pc \in Pcs
          /\ err \in {"CG_OK", "CG_EOF", "CG_NO_MEM", "CG_COMPRESS"}
          /\ save \in Formats
          /\ max \in [Buffers -> Nat]
          /\ home \in Buffers
          /\ cur \in [{"file", "body"} -> Cursor]
          /\ offset_var \in Int
          /\ locations \in [off : [Offsets -> 0..UintMod], num : [Counts -> Nat]]
          /\ todo \in [types : Seq(STRING), forms : 0..MaxCount]
          /\ file_size \in Nat
          /\ parts \in Seq([what : DOMAIN Rank, in : Buffers, from : Nat, size : Nat])
          /\ asked \in [Buffers -> Nat]

supports_save_file_compression == save.game = "SKYRIM" /\ save.file_version >= 12

Init == /\ pc = "signature" /\ err = "CG_OK"
        /\ save \in Formats
        /\ \E room \in FileRooms :
             /\ max = [file |-> room, body_buffer |-> BodyRoom]
             /\ cur = [c \in {"file", "body"} |-> [pos |-> 0, n |-> room]]
             /\ file_size = room
        /\ home = "file" /\ offset_var = 0
        /\ locations = [off |-> [o \in Offsets |-> 0], num |-> [c \in Counts |-> 0]]
        /\ todo = [types |-> <<>>, forms |-> 0]
        /\ parts = <<>>
        /\ asked = [b \in Buffers |-> 0]
-----------------------------------------------------------------------------
Go(next) == pc' = next /\ UNCHANGED err
Fail(e) == pc' = "done" /\ err' = e

\* The buffer a cursor points into.
In(c) == IF c = "file" THEN "file" ELSE home

Total(widths) == FoldLeft(LAMBDA sum, w : sum + w, 0, widths)
TakenAll(c, widths) == FoldLeft(Taken, c, widths)

Part(what, c, from, size) == [what |-> what, in |-> In(c), from |-> from, size |-> size]

Ask(c, bytes) == asked' = [asked EXCEPT ![In(c)] = @ + bytes]

\* A run of stores nobody checks.
Store(what, c, widths) ==
    /\ cur' = [cur EXCEPT ![c] = TakenAll(@, widths)]
    /\ parts' = IF Fits(cur[c], Total(widths))
                THEN Append(parts, Part(what, c, cur[c].pos, Total(widths)))
                ELSE parts
    /\ Ask(c, Total(widths))

-----------------------------------------------------------------------------
\* Blocks.  prepare_block computes the room behind the header in an unsigned;
\* the stores of serializer, and the memcpy of a change form, go there.

\* Mutant: the header is taken off twice.
RoomBehindTwice(c, header) == (cur[c].n - 2 * Total(header)) % UintMod

RoomBehind(c, header) == (cur[c].n - Total(header)) % UintMod

\* The data of a block reaches past the end of the buffer.
Overruns(c, header, size) ==
    size > 0 /\ cur[c].pos + Total(header) + size > max[In(c)]

\* Mutant: the cursor is left at the data.
assembler_at_data(what, c, header, size) ==
    /\ cur' = [cur EXCEPT ![c] = TakenAll(@, header)]
    /\ parts' = IF Fits(cur[c], Total(header) + size)
                THEN Append(parts, Part(what, c, cur[c].pos, Total(header) + size))
                ELSE parts

\* assembler puts the header in front of the data and steps over both.
assembler(what, c, header, size) ==
    /\ cur' = [cur EXCEPT ![c] = Advanced(TakenAll(@, header), size)]
    /\ parts' = IF Fits(cur[c], Total(header) + size)
                THEN Append(parts, Part(what, c, cur[c].pos, Total(header) + size))
                ELSE parts

\* prepare_block, serializer, assembler.
Block(what, c, header, size, next) ==
    /\ Ask(c, Total(header) + size)
    /\ \/ /\ RoomBehind(c, header) < size
          /\ Fail("CG_EOF") /\ UNCHANGED <<cur, parts>>
       \/ /\ RoomBehind(c, header) >= size /\ Overruns(c, header, size)
          /\ Go("overrun") /\ UNCHANGED <<cur, parts>>
       \/ /\ RoomBehind(c, header) >= size /\ ~Overruns(c, header, size)
          /\ Go(next) /\ assembler(what, c, header, size)

\* Mutant: the offset is taken the wrong way round.
OFFSET_ADDED == (cur.body.pos + offset_var) % UintMod

\* OFFSET(): where the cursor is, not counting what offset_var says.
OFFSET == (cur.body.pos - offset_var) % UintMod

\* locations.off_...: the table that follows begins here.
Begin(table) ==
    locations' = [locations EXCEPT !.off[table] = OFFSET]

-----------------------------------------------------------------------------
\* file_writer: what goes into the file itself.

WriteSignature ==
    /\ pc = "signature"
    /\ Store("signature", "file", <<IF save.game = "SKYRIM" THEN 13 ELSE 12>>)
    /\ Go("header")
    /\ UNCHANGED <<locations, todo, file_size>> /\ UNCHANGED given /\ UNCHANGED body

WriteHeader ==
    /\ pc = "header"
    /\ \E size \in Sizes \ {0} : Block("header", "file", SimpleHeader, size, "snapshot")
    /\ UNCHANGED <<locations, todo, file_size>> /\ UNCHANGED given /\ UNCHANGED body

WriteSnapshot ==
    /\ pc = "snapshot"
    /\ \E size \in Snapshots : Store("snapshot", "file", <<size>>)
    /\ Go("body")
    /\ UNCHANGED <<locations, todo, file_size>> /\ UNCHANGED given /\ UNCHANGED body

\* The body continues in the file.
ContinueInFile ==
    /\ pc = "body" /\ ~supports_save_file_compression
    /\ cur' = [cur EXCEPT !.body = cur.file]
    /\ Go("version")
    /\ UNCHANGED <<locations, todo, file_size, parts, asked>>
    /\ UNCHANGED given /\ UNCHANGED body

\* 8 bytes are left for the sizes; offsets do not count them.
LeaveRoomForSizes ==
    /\ pc = "body" /\ supports_save_file_compression /\ save.compressor = "none"
    /\ cur' = [cur EXCEPT !.body = Advanced(cur.file, 8)]
    /\ offset_var' = offset_var + 8
    /\ Ask("file", 8)
    /\ Go("version")
    /\ UNCHANGED <<home, locations, todo, file_size, parts>> /\ UNCHANGED given

\* A buffer for the body; offsets count from where it is to go in the file.
AllocBody ==
    /\ pc = "body" /\ supports_save_file_compression /\ save.compressor # "none"
    /\ \/ Fail("CG_NO_MEM") /\ UNCHANGED <<cur, home, offset_var>>
       \/ /\ cur' = [cur EXCEPT !.body = [pos |-> 0, n |-> BodyRoom]]
          /\ home' = "body_buffer"
          /\ offset_var' = 0 - cur.file.pos
          /\ Go("version")
    /\ UNCHANGED <<locations, todo, file_size, parts, asked>> /\ UNCHANGED given

-----------------------------------------------------------------------------
\* file_writer: the body.

\* The form version, and the game version of Fallout 4.
WriteVersion ==
    /\ pc = "version"
    /\ \/ save.game # "FALLOUT4" /\ Store("version", "body", <<1>>)
       \/ /\ save.game = "FALLOUT4"
          /\ \E size \in Sizes : Store("version", "body", <<1, 2, size>>)
    /\ Go("plugins")
    /\ UNCHANGED <<locations, todo, file_size>> /\ UNCHANGED given /\ UNCHANGED body

WritePlugins ==
    /\ pc = "plugins"
    /\ \E size \in Sizes \ {0} : Block("plugins", "body", SimpleHeader, size, "locations")
    /\ UNCHANGED <<locations, todo, file_size>> /\ UNCHANGED given /\ UNCHANGED body

\* The table is filled in at the end.
ReserveLocations ==
    /\ pc = "locations"
    /\ Ask("body", LocationTableSize)
    /\ \/ /\ cur.body.n < LocationTableSize
          /\ Fail("CG_EOF")
          /\ UNCHANGED <<cur, parts, todo, locations>>
       \/ /\ cur.body.n >= LocationTableSize
          /\ cur' = [cur EXCEPT !.body = Advanced(@, LocationTableSize)]
          /\ parts' = Append(parts, Part("locations", "body", cur.body.pos, LocationTableSize))
          /\ locations' = [locations EXCEPT
                             !.off["globals1"] = (OFFSET + LocationTableSize) % UintMod]
          /\ todo' = [todo EXCEPT !.types = Tables[1]]
          /\ Go("globals1")
    /\ UNCHANGED file_size /\ UNCHANGED given /\ UNCHANGED body

NextType == todo.types # <<>> /\ todo' = [todo EXCEPT !.types = Tail(@)]

\* One type of a table: it is written and counted, or it is not there.  Only a
\* chunk can be empty.
WriteGlobal(table) ==
    /\ pc = table /\ NextType
    /\ \/ /\ \E size \in Sizes :
               /\ Head(todo.types) \in Structured => size > 0
               /\ Block(table, "body", GlobalHeader, size, table)
          /\ locations' = IF err' = "CG_OK"
                          THEN [locations EXCEPT !.num[table] = @ + 1] ELSE locations
       \/ /\ Head(todo.types) \notin Structured
          /\ Go(pc) /\ UNCHANGED <<cur, parts, asked, locations>>
    /\ UNCHANGED <<file_size>> /\ UNCHANGED given /\ UNCHANGED body

BeginGlobals2 ==
    /\ pc = "globals1" /\ todo.types = <<>>
    /\ Begin("globals2") /\ todo' = [todo EXCEPT !.types = Tables[2]]
    /\ Go("globals2")
    /\ UNCHANGED <<cur, file_size, parts, asked>> /\ UNCHANGED given /\ UNCHANGED body

BeginChangeForms ==
    /\ pc = "globals2" /\ todo.types = <<>>
    /\ Begin("change_forms")
    /\ \E n \in 0..MaxCount : todo' = [todo EXCEPT !.forms = n]
    /\ Go("change_forms")
    /\ UNCHANGED <<cur, file_size, parts, asked>> /\ UNCHANGED given /\ UNCHANGED body

\* The data is copied without a look at the room.
WriteChangeForm ==
    /\ pc = "change_forms" /\ todo.forms > 0
    /\ todo' = [todo EXCEPT !.forms = @ - 1]
    /\ \E width \in {1, 2, 4}, size \in Sizes :
         /\ Ask("body", Total(FormHeader(width)) + size)
         /\ \/ /\ Overruns("body", FormHeader(width), size)
               /\ Go("overrun") /\ UNCHANGED <<cur, parts, locations>>
            \/ /\ ~Overruns("body", FormHeader(width), size)
               /\ assembler("change_forms", "body", FormHeader(width), size)
               /\ locations' = [locations EXCEPT !.num["change_forms"] = @ + 1]
               /\ Go(pc)
    /\ UNCHANGED <<file_size>> /\ UNCHANGED given /\ UNCHANGED body

BeginGlobals3 ==
    /\ pc = "change_forms" /\ todo.forms = 0
    /\ Begin("globals3") /\ todo' = [todo EXCEPT !.types = Tables[3]]
    /\ Go("globals3")
    /\ UNCHANGED <<cur, file_size, parts, asked>> /\ UNCHANGED given /\ UNCHANGED body

WriteFormIds ==
    /\ pc = "globals3" /\ todo.types = <<>>
    /\ Begin("form_ids")
    /\ \E n \in 0..MaxCount : Store("form_ids", "body", <<4>> \o [i \in 1..n |-> 4])
    /\ Go("world_spaces")
    /\ UNCHANGED <<todo, file_size>> /\ UNCHANGED given /\ UNCHANGED body

WriteWorldSpaces ==
    /\ pc = "world_spaces"
    /\ \E n \in 0..MaxCount : Store("world_spaces", "body", <<4>> \o [i \in 1..n |-> 4])
    /\ Go("unknown3")
    /\ UNCHANGED <<locations, todo, file_size>> /\ UNCHANGED given /\ UNCHANGED body

\* Mutants: the count is stored as it is; its type is signed.
StoredCountFull(n) == n
StoredCountSigned(n) == n - 1

\* The location table is stored with one global data too few.
StoredCount(n) == (n - 1) % UintMod

\* The last stores, and the test of cursor->n that follows them.
WriteUnknown3 ==
    /\ pc = "unknown3"
    /\ \E size \in Sizes : Store("unknown3", "body", <<4, size>>)
    /\ locations' = [locations EXCEPT
                       !.off["unknown3"] = OFFSET,
                       !.num["globals3"] = IF cur'.body.n < 0 THEN @ ELSE StoredCount(@)]
    /\ IF cur'.body.n < 0 THEN Fail("CG_EOF") ELSE Go("finish")
    /\ UNCHANGED <<todo, file_size>> /\ UNCHANGED given /\ UNCHANGED body

-----------------------------------------------------------------------------
\* file_writer: the end.

FinishInFile ==
    /\ pc = "finish" /\ ~supports_save_file_compression
    /\ cur' = [cur EXCEPT !.file = cur.body]
    /\ file_size' = max.file - cur.body.n
    /\ Go("done")
    /\ UNCHANGED <<locations, todo, parts, asked>> /\ UNCHANGED given /\ UNCHANGED body

\* buffers[0] is NULL and its size is read.
FinishUncompressed ==
    /\ pc = "finish" /\ supports_save_file_compression /\ save.compressor = "none"
    /\ Go("killed")
    /\ UNCHANGED <<cur, locations, todo, file_size, parts, asked>>
    /\ UNCHANGED given /\ UNCHANGED body

\* Mutant: a compressor that fails is called again.
FinishCompressedAgain ==
    /\ pc = "finish" /\ home = "body_buffer"
    /\ \/ UNCHANGED <<pc, err, cur, file_size, parts, asked>>
       \/ /\ save.compressor = "lz4"
          /\ \E size \in Sizes \ {0} :
               /\ RoomBehind("file", <<4, 4>>) >= size
               /\ ~Overruns("file", <<4, 4>>, size)
               /\ Ask("file", 8 + size) /\ Go("done")
               /\ assembler("compressed", "file", <<4, 4>>, size)
               /\ file_size' = max.file - cur'.file.n
    /\ UNCHANGED <<locations, todo>> /\ UNCHANGED given /\ UNCHANGED body

\* zlib_compress always fails.  lz4_compress is told the room behind the sizes,
\* as a size_t.
FinishCompressed ==
    /\ pc = "finish" /\ home = "body_buffer"
    /\ \/ /\ Fail("CG_COMPRESS")
          /\ UNCHANGED <<cur, file_size, parts, asked>>
       \/ /\ save.compressor = "lz4"
          /\ \E size \in Sizes \ {0} :
               /\ RoomBehind("file", <<4, 4>>) >= size
               /\ Ask("file", 8 + size)
               /\ IF Overruns("file", <<4, 4>>, size)
                  THEN Go("overrun") /\ UNCHANGED <<cur, parts, file_size>>
                  ELSE /\ assembler("compressed", "file", <<4, 4>>, size)
                       /\ file_size' = max.file - cur'.file.n
                       /\ Go("done")
    /\ UNCHANGED <<locations, todo>> /\ UNCHANGED given /\ UNCHANGED body

Ended == pc \in {"done", "killed", "overrun"} /\ UNCHANGED vars

Next == \/ WriteSignature \/ WriteHeader \/ WriteSnapshot
        \/ ContinueInFile \/ LeaveRoomForSizes \/ AllocBody
        \/ WriteVersion \/ WritePlugins \/ ReserveLocations
        \/ WriteGlobal("globals1") \/ BeginGlobals2
        \/ WriteGlobal("globals2") \/ BeginChangeForms
        \/ WriteChangeForm \/ BeginGlobals3
        \/ WriteGlobal("globals3") \/ WriteFormIds
        \/ WriteWorldSpaces \/ WriteUnknown3
        \/ FinishInFile \/ FinishUncompressed \/ FinishCompressed
        \/ Ended

Spec == Init /\ [][Next]_vars /\ WF_vars(Next)
-----------------------------------------------------------------------------
\* The stores among the first k into b end at e; no store ends at the start.
EndsAt(ps, b, k, e) ==
    \/ e = 0 /\ \A i \in 1..k : ps[i].in # b
    \/ \E i \in 1..k : /\ ps[i].in = b /\ ps[i].from + ps[i].size = e
                       /\ \A j \in (i + 1)..k : ps[j].in # b

\* Each store begins where the one before it in its buffer ends: no gap and no
\* overlap.
Tiled(ps) == \A i \in 1..Len(ps) : EndsAt(ps, ps[i].in, i - 1, ps[i].from)

Written == pc = "done" /\ err = "CG_OK"

\* The file that is handed over has no byte that was not written, although the
\* location table and the sizes are filled in long after they were stepped over
\* and most stores are not checked.  (When the file was too small for header and
\* snapshot, its reported size exceeds it.)
TilesFile ==
    Written /\ file_size <= max.file =>
        /\ Tiled(parts)
        /\ EndsAt(parts, "file", Len(parts), file_size)
        /\ home = "body_buffer" =>
             EndsAt(parts, "body_buffer", Len(parts), BodyRoom - cur.body.n)

\* Store i is the first one of the table or of what follows it in the body.
Leads(ps, i, table) ==
    /\ ps[i].in = home /\ Rank[ps[i].what] >= Rank[table]
    /\ \A j \in 1..(i - 1) : ps[j].in = home => Rank[ps[j].what] < Rank[table]

\* Where the body begins in the file: the offsets of a body in the file count
\* from the start of the file, the others from where the compressed body is.
BodyBegins(at) ==
    IF home = "file" THEN at = 0
    ELSE \E i \in DOMAIN parts : parts[i].what = "compressed" /\ parts[i].from = at

\* The offsets in the location table are those of the file with its body
\* decompressed: each leads to the first block of its table, or to what follows
\* an empty table.
OffsetsLead ==
    Written /\ file_size <= max.file =>
      \A table \in Offsets : \E i \in DOMAIN parts :
        /\ Leads(parts, i, table)
        /\ BodyBegins(locations.off[table] - parts[i].from)

HowMany(what) == Cardinality({i \in DOMAIN parts : parts[i].what = what})

\* The counts in the location table make file_reader's three loops read exactly
\* the blocks that are there, with the correction by one for table 3, which
\* wraps around when the table is empty.
CountsReadBack ==
    Written =>
      /\ (locations.num["globals1"] + locations.num["globals2"]) % UintMod =
           HowMany("globals1") + HowMany("globals2")
      /\ (locations.num["globals3"] + 1) % UintMod = HowMany("globals3")
      /\ locations.num["change_forms"] = HowMany("change_forms")

\* Room decides: a save that fits its buffers is neither refused for lack of room
\* nor written past an end, and a body that does not fit is never handed over,
\* although only blocks, the location table and the very end are checked.
RoomDecides ==
    /\ err = "CG_EOF" \/ pc = "overrun" => \E b \in Buffers : asked[b] > max[b]
    /\ Written => asked[home] <= max[home]

\* Writing comes to an end.
WritingEnds == <>(pc \in {"done", "killed", "overrun"})

-----------------------------------------------------------------------------
\* What the comments of the source say, and the code does not do.

\* "Size of 'file' arg for bounds checking.": no store leaves its buffer.
BoundsAreChecked == pc # "overrun"

\* "No compression required. We will directly write to file": a save that
\* supports compression and does not use it can be written.
UncompressedIsWritten == pc # "killed"
=============================================================================

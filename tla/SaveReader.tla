------------------------------ MODULE SaveReader ------------------------------
(***************************************************************************)
(* Reading a save game: cengine_savefile_read with file_reader,            *)
(* disassembler and deserializer, and savegame_free.                       *)
(*                                                                         *)
(* Every byte of the file is read at most once, so a load that succeeds    *)
(* may deliver any value; the bytes are left out.  Of a cursor only the    *)
(* sign of its distance n is kept (module Cursor shows what that sign      *)
(* remembers).  What is kept in full is the control: which loads are       *)
(* checked and which are not, what has been allocated when an error turns  *)
(* up, and which fields of the save savegame_free trusts.                  *)
(***************************************************************************)
EXTENDS CursorOps

CONSTANTS Games,         \* signatures found at the start of the file
          FileVersions,  \* values of the file version field
          FormVersions,  \* values of the form version byte
          KnownTypes,    \* global data types with a structure of their own
          UnknownTypes,  \* global data types kept as a chunk
          CountMod       \* 2^32 scaled down: counts are 0..CountMod-1

Structured == {"misc_stats", "player_location", "global_vars", "weather",
               "favourites"}

\* Allocations of fixed names a single pointer refers to.
HeaderStrings == <<"player_name", "player_location_name", "game_time", "race_id">>
Named == {HeaderStrings[k] : k \in 1..4}
         \cup {"snapshot_data", "game_version", "data4", "unknown3"}

ASSUME ReaderAssumption ==
    /\ Games \subseteq {"SKYRIM", "FALLOUT4"}
    /\ FileVersions \subseteq Nat
    /\ FormVersions \subseteq Nat
    /\ KnownTypes \subseteq Structured
    /\ UnknownTypes \cap Named = {}
    /\ CountMod \in Nat \ {0}

Count == 0..(CountMod - 1)

\* Arrays of a save; those in Owning hold pointers to further allocations.
Owning == {"plugins", "light_plugins", "misc_stats", "change_forms"}
Arrays == Owning \cup {"global_vars", "favourites", "hotkeys", "form_ids",
                       "world_spaces"}

\* The unknown types name the slots of priv->globals.
Singles == Named \cup UnknownTypes

VARIABLES
    pc,       \* the part of the program that runs next
    err,      \* the error code it has so far
    mapped,   \* the mapping of the file
    body,     \* the decompression buffer, buffers[0]
    cur,      \* the sign of cursor->n
    save,     \* game, versions and compressor, as deserialised so far
    arr,      \* per array: is the pointer set, its length, the count field,
              \* the non-NULL elements and those that are allocated
    ptrs,     \* the single pointers that are not NULL
    left,     \* rounds left of the three loops over blocks
    ret,      \* what the caller got
    lost,     \* history: bytes that were asked for were not there
    cut,      \* history: the compressed data reached past the end of the file
    seen,     \* history: the known global data types that came
    again,    \* history: one of them came a second time
    orphaned  \* history: an allocation became unreachable

vars == <<pc, err, mapped, body, cur, save, arr, ptrs, left, ret,
          lost, cut, seen, again, orphaned>>
heap == <<arr, ptrs, seen, again, orphaned>>
outside == <<mapped, body, ret, cut>>

Failures == {"CG_EOF", "CG_CORRUPT", "CG_NO_MEM", "CG_UNSUPPORTED", "CG_COMPRESS"}

Reading == {"signature", "header", "snapshot", "body", "version", "plugins",
            "locations", "globals", "change_forms", "forms", "late_globals",
            "form_ids", "world_spaces", "unknown3"}
Leaving == {"cleanup", "unmap", "returned", "released", "killed"}

Array == [set : BOOLEAN, len : Count, num : Count, full : Count, live : Count]
NoArray == [set |-> FALSE, len |-> 0, num |-> 0, full |-> 0, live |-> 0]

Save == [game : {"none", "SKYRIM", "FALLOUT4"}, file_version : Nat,
         form_version : Nat, compressor : {"none", "zlib", "lz4"}]

\* Every count stays below CountMod, although the sums and the correction by one
\* of the location table wrap around.
TypeOK == /\ pc \in {"mmap", "alloc", "size"} \cup Reading \cup Leaving
          /\ err \in Failures \cup {"CG_OK"}
          /\ mapped \in {"no", "failed", "short", "yes", "gone"}
          /\ body \in {"none", "live", "freed"}
          /\ cur \in Place
          /\ save \in Save
          /\ arr \in [Arrays -> Array]
          /\ ptrs \subseteq Singles
          /\ left \in [globals : Count, forms : Count, late_globals : Count]
          /\ ret \in {"none", "null", "save"}
          /\ lost \in BOOLEAN /\ cut \in BOOLEAN
          /\ seen \subseteq KnownTypes /\ again \in BOOLEAN
          /\ orphaned \in BOOLEAN
-----------------------------------------------------------------------------
\* Loads from the file or the body.

Delivered == cur = "inside" /\ UNCHANGED <<cur, lost>>
Refused == cur' = "past" /\ lost' = TRUE

\* A run of loads nobody checks.
Unchecked == Delivered \/ Refused

\* c_advance over bytes nobody reads.
Skipped == cur' \in After(cur) /\ UNCHANGED lost

\* disassembler finds no complete block: its header is cut off, or it announces
\* more bytes than are left.
NoBlock == cur' \in After(cur) /\ lost' = TRUE

\* disassembler finds a block; what deserializer does with it takes place on a
\* cursor of its own.
BlockFound == cur = "inside" /\ UNCHANGED cur

-----------------------------------------------------------------------------
\* What a part of the program leaves behind.

Go(next) == pc' = next /\ UNCHANGED err
Fail(e) == err' = e /\ pc' = "cleanup"

Leave(e, next) == IF e = "CG_OK" THEN Go(next) ELSE Fail(e)

\* Mutant: nobody looks whether the block was too short.
ConcludeBlindly(e, short, next) == Leave(e, next) /\ lost' = (lost \/ short)

\* The end of deserializer: a block that was too short turns every outcome into
\* CG_EOF.
Conclude(e, short, next) ==
    /\ Leave(IF short THEN "CG_EOF" ELSE e, next)
    /\ lost' = (lost \/ short)

supports_save_file_compression(s) == s.game = "SKYRIM" /\ s.file_version >= 12

supports_light_plugins(s) ==
    /\ s.file_version >= 12
    /\ s.game = "SKYRIM" => s.form_version >= 78

\* calloc of n elements of which k have been filled in, and calloc that fails:
\* the count field has been set already.
Allocated(n, k) == [set |-> TRUE, len |-> n, num |-> n, full |-> k, live |-> k]
Unallocated(n) == [NoArray EXCEPT !.num = n]

\* The pointer of array a is overwritten.
Replace(a, r) ==
    /\ arr' = [arr EXCEPT ![a] = r]
    /\ orphaned' = (orphaned \/ arr[a].set)

-----------------------------------------------------------------------------
\* deserializer, one operator per object type.  They say what becomes of the
\* save, and go on to next unless they fail.

Result(a, e, short) == [array |-> a, e |-> e, short |-> short]

\* Mutants: calloc is not checked; the strings that are freed keep their
\* pointers.
StringArraysUnchecked ==
         {Result(NoArray, "CG_EOF", TRUE)}
    \cup {Result(Unallocated(n), "CG_OK", FALSE) : n \in Count}
    \cup {Result(Allocated(n, n), "CG_OK", FALSE) : n \in Count}

StringArraysDangling ==
         {Result(Allocated(n, n), "CG_OK", FALSE) : n \in Count}
    \cup {Result([Allocated(n, n) EXCEPT !.live = 0], "CG_EOF", TRUE) : n \in Count \ {0}}

\* A count, calloc and read_le16_str_array: when a string cannot be read, those
\* before it are freed and their pointers cleared.
StringArrays ==
         {Result(NoArray, "CG_EOF", TRUE)}
    \cup {Result(Unallocated(n), "CG_NO_MEM", FALSE) : n \in Count}
    \cup {Result(Allocated(n, 0), "CG_NO_MEM", FALSE) : n \in Count \ {0}}
    \cup {Result(Allocated(n, 0), "CG_EOF", TRUE) : n \in Count \ {0}}
    \cup {Result(Allocated(n, n), "CG_OK", FALSE) : n \in Count}

\* The strings of the header are stored in the save one by one.
file_header(next) ==
    \/ Conclude("CG_EOF", TRUE, next) /\ UNCHANGED <<save, ptrs>>
    \/ \E v \in FileVersions, k \in 0..4 :
         LET read == [save EXCEPT !.file_version = v]
             compressible == supports_save_file_compression(read)
         IN  /\ ptrs' = ptrs \cup {HeaderStrings[j] : j \in 1..k}
             /\ \/ /\ k < 4 /\ save' = read
                   /\ Conclude("CG_NO_MEM", FALSE, next)
                \/ save' = read /\ Conclude("CG_EOF", TRUE, next)
                \/ /\ k = 4 /\ ~compressible /\ save' = read
                   /\ Conclude("CG_OK", FALSE, next)
                \/ /\ k = 4 /\ compressible
                   /\ \E c \in {"none", "zlib", "lz4"} :
                        save' = [read EXCEPT !.compressor = c]
                   /\ Conclude("CG_OK", FALSE, next)
                \/ /\ k = 4 /\ compressible /\ save' = read
                   /\ Conclude("CG_CORRUPT", FALSE, next)

plugin_info(next) ==
    /\ UNCHANGED orphaned
    /\ \E p \in StringArrays :
         IF p.e = "CG_OK" /\ supports_light_plugins(save)
         THEN \E l \in StringArrays :
                /\ arr' = [arr EXCEPT !["plugins"] = p.array,
                                      !["light_plugins"] = l.array]
                /\ Conclude(l.e, l.short, next)
         ELSE /\ arr' = [arr EXCEPT !["plugins"] = p.array]
              /\ Conclude(p.e, p.short, next)

\* No allocation for a count of 0: the pointer stays what it was.
misc_stats(next) ==
    /\ UNCHANGED ptrs
    /\ \/ /\ arr' = [arr EXCEPT !["misc_stats"].num = 0]
          /\ UNCHANGED orphaned
          /\ \E short \in BOOLEAN : Conclude("CG_OK", short, next)
       \/ \E n \in Count \ {0} :
            \/ /\ Replace("misc_stats", Unallocated(n))
               /\ Conclude("CG_NO_MEM", FALSE, next)
            \/ \E k \in 0..n :
                 /\ Replace("misc_stats", Allocated(n, k))
                 /\ \/ k < n /\ Conclude("CG_NO_MEM", FALSE, next)
                    \/ Conclude("CG_EOF", TRUE, next)
                    \/ k = n /\ Conclude("CG_OK", FALSE, next)

player_location(next) ==
    /\ UNCHANGED <<arr, ptrs, orphaned>>
    /\ \E short \in BOOLEAN : Conclude("CG_OK", short, next)

\* decode_vsval of a count that is cut off or has an invalid size tag.
CountUnreadable(next) == \/ Conclude("CG_EOF", TRUE, next)
                         \/ Conclude("CG_CORRUPT", FALSE, next)

global_vars(next) ==
    /\ UNCHANGED ptrs
    /\ \/ UNCHANGED <<arr, orphaned>> /\ CountUnreadable(next)
       \/ /\ arr' = [arr EXCEPT !["global_vars"].num = 0]
          /\ UNCHANGED orphaned
          /\ Conclude("CG_OK", FALSE, next)
       \/ \E n \in Count \ {0} :
            \/ /\ Replace("global_vars", Unallocated(n))
               /\ Conclude("CG_NO_MEM", FALSE, next)
            \/ /\ Replace("global_vars", Allocated(n, 0))
               /\ \E short \in BOOLEAN : Conclude("CG_OK", short, next)

\* What is left of the block after the fixed fields becomes data4.
weather(next) ==
    /\ UNCHANGED arr
    /\ \/ /\ UNCHANGED <<ptrs, orphaned>>
          /\ \E short \in BOOLEAN : Conclude("CG_OK", short, next)
       \/ /\ ptrs' = ptrs \cup {"data4"}
          /\ orphaned' = (orphaned \/ "data4" \in ptrs)
          /\ Conclude("CG_OK", FALSE, next)
       \/ /\ ptrs' = ptrs \ {"data4"}
          /\ orphaned' = (orphaned \/ "data4" \in ptrs)
          /\ Conclude("CG_NO_MEM", FALSE, next)

\* Favourites, then hotkeys; calloc is called for a count of 0, too.
favourites(next) ==
    /\ UNCHANGED ptrs
    /\ \/ UNCHANGED <<arr, orphaned>> /\ CountUnreadable(next)
       \/ \E n \in Count :
            \/ /\ Replace("favourites", Unallocated(n))
               /\ Conclude("CG_NO_MEM", FALSE, next)
            \/ /\ Replace("favourites", Allocated(n, 0))
               /\ CountUnreadable(next)
            \/ \E h \in Count :
                 /\ orphaned' = (orphaned \/ arr["favourites"].set \/ arr["hotkeys"].set)
                 /\ \/ /\ arr' = [arr EXCEPT !["favourites"] = Allocated(n, 0),
                                             !["hotkeys"] = Unallocated(h)]
                       /\ Conclude("CG_NO_MEM", FALSE, next)
                    \/ /\ arr' = [arr EXCEPT !["favourites"] = Allocated(n, 0),
                                             !["hotkeys"] = Allocated(h, 0)]
                       /\ \E short \in BOOLEAN : Conclude("CG_OK", short, next)

\* Mutant: the slot is not looked at first.
unknown_global_replaced(u, next) ==
    /\ UNCHANGED arr
    /\ Conclude("CG_OK", FALSE, next)
    /\ ptrs' = ptrs \cup {u} /\ orphaned' = (orphaned \/ u \in ptrs)

\* Each type that is kept as a chunk has one slot.
unknown_global(u, next) ==
    /\ UNCHANGED <<arr, orphaned>>
    /\ \/ u \in ptrs /\ Conclude("CG_CORRUPT", FALSE, next) /\ UNCHANGED ptrs
       \/ u \notin ptrs /\ Conclude("CG_NO_MEM", FALSE, next) /\ UNCHANGED ptrs
       \/ u \notin ptrs /\ Conclude("CG_OK", FALSE, next) /\ ptrs' = ptrs \cup {u}

Deserialize(t, next) ==
    \/ t = "misc_stats" /\ misc_stats(next)
    \/ t = "player_location" /\ player_location(next)
    \/ t = "global_vars" /\ global_vars(next)
    \/ t = "weather" /\ weather(next)
    \/ t = "favourites" /\ favourites(next)

-----------------------------------------------------------------------------
\* cengine_savefile_read up to the call of file_reader.

Init == /\ pc = "mmap" /\ err = "CG_OK"
        /\ mapped = "no" /\ body = "none" /\ cur = "inside"
        /\ save = [game |-> "none", file_version |-> 0, form_version |-> 0,
                   compressor |-> "none"]
        /\ arr = [a \in Arrays |-> NoArray]
        /\ ptrs = {}
        /\ left = [globals |-> 0, forms |-> 0, late_globals |-> 0]
        /\ ret = "none"
        /\ lost = FALSE /\ cut = FALSE
        /\ seen = {} /\ again = FALSE /\ orphaned = FALSE

\* mmap_entire_file_r.  It fails with MAP_FAILED, which is not the NULL its
\* caller tests for: the caller goes on with a file of size 0.
MapFile ==
    /\ pc = "mmap"
    /\ mapped' \in {"failed", "short", "yes"}
    /\ Go("alloc")
    /\ UNCHANGED <<body, cur, save, left, ret, lost, cut>> /\ UNCHANGED heap

AllocSave ==
    /\ pc = "alloc"
    /\ \/ Go("size") /\ UNCHANGED <<mapped, ret>>
       \/ Go("released") /\ mapped' = "gone" /\ ret' = "null"
    /\ UNCHANGED <<body, cur, save, left, lost, cut>> /\ UNCHANGED heap

-----------------------------------------------------------------------------
\* file_reader.

\* Mutant: an empty file is not refused.
CheckSizeNever ==
    /\ pc = "size" /\ Go("signature")
    /\ UNCHANGED <<cur, save, left, lost>> /\ UNCHANGED outside /\ UNCHANGED heap

CheckSize ==
    /\ pc = "size"
    /\ IF mapped = "yes" THEN Go("signature")
       ELSE err' = "CG_CORRUPT" /\ pc' = "unmap"
    /\ UNCHANGED <<cur, save, left, lost>> /\ UNCHANGED outside /\ UNCHANGED heap

ReadSignature ==
    /\ pc = "signature"
    /\ \/ \E g \in Games : save' = [save EXCEPT !.game = g] /\ Go("header")
       \/ Fail("CG_UNSUPPORTED") /\ UNCHANGED save
    /\ UNCHANGED <<cur, left, lost>> /\ UNCHANGED outside /\ UNCHANGED heap

ReadHeader ==
    /\ pc = "header"
    /\ \/ NoBlock /\ Fail("CG_EOF") /\ UNCHANGED <<save, ptrs>>
       \/ BlockFound /\ file_header("snapshot")
    /\ UNCHANGED <<arr, left, seen, again, orphaned>> /\ UNCHANGED outside

\* The load of the pixels is not checked.
ReadSnapshot ==
    /\ pc = "snapshot"
    /\ \/ /\ save.file_version > 15 /\ Fail("CG_UNSUPPORTED")
          /\ UNCHANGED <<cur, lost, ptrs>>
       \/ /\ save.file_version <= 15 /\ Fail("CG_NO_MEM")
          /\ UNCHANGED <<cur, lost, ptrs>>
       \/ /\ save.file_version <= 15
          /\ ptrs' = ptrs \cup {"snapshot_data"}
          /\ Unchecked /\ Go("body")
    /\ UNCHANGED <<save, arr, left, seen, again, orphaned>> /\ UNCHANGED outside

\* Without compression the body follows in the file.
ContinueInFile ==
    /\ pc = "body" /\ ~supports_save_file_compression(save)
    /\ Go("version")
    /\ UNCHANGED <<cur, save, left, lost>> /\ UNCHANGED outside /\ UNCHANGED heap

\* The two sizes are loaded unchecked, then n is tested.
SizesMissing ==
    /\ pc = "body" /\ supports_save_file_compression(save)
    /\ Refused /\ Fail("CG_EOF")
    /\ UNCHANGED <<save, left>> /\ UNCHANGED outside /\ UNCHANGED heap

\* A body that is marked as not compressed starts 8 bytes behind the sizes.
SkipToBody ==
    /\ pc = "body" /\ supports_save_file_compression(save)
    /\ save.compressor = "none" /\ cur = "inside"
    /\ Skipped /\ Go("version")
    /\ UNCHANGED <<save, left>> /\ UNCHANGED outside /\ UNCHANGED heap

\* The compressed size is not compared with what is left of the file: the
\* decompressor may be sent past the end of it.  It finds the zeroes that pad
\* the last page, or nothing at all.
DecompressBody ==
    /\ pc = "body" /\ supports_save_file_compression(save)
    /\ save.compressor # "none" /\ cur = "inside"
    /\ \/ Fail("CG_NO_MEM") /\ UNCHANGED <<body, cut>>
       \/ /\ body' = "live" /\ cut' \in BOOLEAN
          /\ \/ Fail("CG_COMPRESS")
             \/ Go("version")
             \/ cut' /\ Go("killed")
    /\ UNCHANGED <<mapped, ret, cur, save, left, lost>> /\ UNCHANGED heap

\* The form version byte, and the game version of Fallout 4.
ReadVersion ==
    /\ pc = "version"
    /\ \/ Refused /\ Fail("CG_EOF") /\ UNCHANGED <<save, ptrs>>
       \/ \E v \in FormVersions :
            /\ save' = [save EXCEPT !.form_version = v]
            /\ \/ /\ save.game # "FALLOUT4" /\ Delivered
                  /\ Go("plugins") /\ UNCHANGED ptrs
               \/ /\ save.game = "FALLOUT4"
                  /\ \/ Delivered /\ Go("plugins") /\ ptrs' = ptrs \cup {"game_version"}
                     \/ Delivered /\ Fail("CG_NO_MEM") /\ UNCHANGED ptrs
                     \/ /\ cur = "inside" /\ Refused /\ Fail("CG_EOF")
                        /\ UNCHANGED ptrs
    /\ UNCHANGED <<arr, left, seen, again, orphaned>> /\ UNCHANGED outside

ReadPlugins ==
    /\ pc = "plugins"
    /\ \/ NoBlock /\ Fail("CG_EOF") /\ UNCHANGED <<arr, orphaned>>
       \/ BlockFound /\ plugin_info("locations")
    /\ UNCHANGED <<save, ptrs, left, seen, again>> /\ UNCHANGED outside

\* The counts of the location table, in the order they are stored; a count that
\* is not there is 0.  None of the loads is checked.  The third count is stored
\* one too small.
ReadLocations ==
    /\ pc = "locations"
    /\ \E n \in [1..4 -> Count], there \in 0..4 :
         LET count(k) == IF k <= there THEN n[k] ELSE 0
         IN  /\ \A k \in 1..4 : k > there => n[k] = 0
             /\ IF there = 4 THEN cur = "inside" /\ Skipped ELSE Refused
             /\ cur = "past" => there = 0
             /\ left' = [globals      |-> (count(1) + count(2)) % CountMod,
                         late_globals |-> (count(3) + 1) % CountMod,
                         forms        |-> count(4)]
             /\ arr' = [arr EXCEPT !["change_forms"].num = count(4)]
    /\ Go("globals")
    /\ UNCHANGED <<save, ptrs, seen, again, orphaned>> /\ UNCHANGED outside

\* Mutant: i <= n.
RoundTooMany(table) == left[table] >= 0 /\ left' = [left EXCEPT ![table] = @ - 1]

\* One more round of a loop over blocks.
Round(table) == left[table] > 0 /\ left' = [left EXCEPT ![table] = @ - 1]

\* The loops over global data tables 1 and 2, and over table 3.
ReadGlobal(table) ==
    /\ pc = table /\ Round(table)
    /\ \/ NoBlock /\ Fail("CG_EOF") /\ UNCHANGED heap
       \/ BlockFound /\ Fail("CG_CORRUPT") /\ UNCHANGED lost /\ UNCHANGED heap
       \/ \E t \in KnownTypes :
            /\ BlockFound /\ Deserialize(t, table)
            /\ seen' = seen \cup {t} /\ again' = (again \/ t \in seen)
       \/ \E u \in UnknownTypes :
            BlockFound /\ unknown_global(u, table) /\ UNCHANGED <<seen, again>>
    /\ UNCHANGED save /\ UNCHANGED outside

\* Mutant: an unsigned counter is counted down past 0.
EndOfTableMissed(table, next) ==
    /\ pc = table /\ left[table] = 0
    /\ left' = [left EXCEPT ![table] = CountMod - 1]
    /\ UNCHANGED <<pc, err, cur, save, lost>> /\ UNCHANGED outside /\ UNCHANGED heap

EndOfTable(table, next) ==
    /\ pc = table /\ left[table] = 0
    /\ Go(next)
    /\ UNCHANGED <<cur, save, left, lost>> /\ UNCHANGED outside /\ UNCHANGED heap

AllocChangeForms ==
    /\ pc = "change_forms"
    /\ \/ /\ Replace("change_forms", Allocated(left.forms, 0))
          /\ Go("forms")
       \/ /\ Replace("change_forms", Unallocated(left.forms))
          /\ Fail("CG_NO_MEM")
    /\ UNCHANGED <<cur, save, ptrs, left, lost, seen, again>> /\ UNCHANGED outside

\* A size type of 3 is corrupt; otherwise the data of the form is copied.
ReadChangeForm ==
    /\ pc = "forms" /\ Round("forms")
    /\ \/ NoBlock /\ Fail("CG_EOF") /\ UNCHANGED arr
       \/ BlockFound /\ UNCHANGED lost /\ Fail("CG_CORRUPT") /\ UNCHANGED arr
       \/ BlockFound /\ UNCHANGED lost /\ Fail("CG_NO_MEM") /\ UNCHANGED arr
       \/ /\ BlockFound /\ UNCHANGED lost /\ Go("forms")
          /\ arr' = [arr EXCEPT !["change_forms"].full = @ + 1,
                                !["change_forms"].live = @ + 1]
    /\ UNCHANGED <<save, ptrs, seen, again, orphaned>> /\ UNCHANGED outside

\* Mutant: calloc is not checked.
CountedArrayUnchecked(a, next) ==
    \E n \in Count : /\ cur = "inside" /\ Go(next)
                     /\ Replace(a, Unallocated(n)) \/ Replace(a, Allocated(n, 0))
                     /\ Delivered

\* A checked count, calloc, and loads nobody checks.
CountedArray(a, next) ==
    \E n \in Count :
       \/ /\ Delivered /\ Fail("CG_NO_MEM")
          /\ Replace(a, Unallocated(n))
       \/ /\ cur = "inside" /\ Go(next)
          /\ Replace(a, Allocated(n, 0))
          /\ Delivered \/ (n > 0 /\ Refused)

ReadFormIds ==
    /\ pc = "form_ids"
    /\ \/ Refused /\ Fail("CG_EOF") /\ UNCHANGED <<arr, orphaned>>
       \/ CountedArray("form_ids", "world_spaces")
    /\ UNCHANGED <<save, ptrs, left, seen, again>> /\ UNCHANGED outside

\* A missing count returns at once, past the cleanup.
ReadWorldSpaces ==
    /\ pc = "world_spaces"
    /\ \/ /\ Refused /\ err' = "CG_EOF" /\ pc' = "unmap"
          /\ UNCHANGED <<arr, orphaned>>
       \/ CountedArray("world_spaces", "unknown3")
    /\ UNCHANGED <<save, ptrs, left, seen, again>> /\ UNCHANGED outside

\* Mutant: the last load is not checked.
ReadUnknown3Unchecked ==
    /\ pc = "unknown3"
    /\ Unchecked /\ Go("cleanup") /\ ptrs' = ptrs \cup {"unknown3"}
    /\ UNCHANGED <<save, arr, left, seen, again, orphaned>> /\ UNCHANGED outside

ReadUnknown3 ==
    /\ pc = "unknown3"
    /\ \/ Refused /\ Fail("CG_EOF") /\ UNCHANGED ptrs
       \/ Delivered /\ Fail("CG_NO_MEM") /\ UNCHANGED ptrs
       \/ Delivered /\ Go("cleanup") /\ ptrs' = ptrs \cup {"unknown3"}
    /\ UNCHANGED <<save, arr, left, seen, again, orphaned>> /\ UNCHANGED outside

\* Mutant: only an error releases the buffer.
CleanupOnError ==
    /\ pc = "cleanup"
    /\ body' = IF body = "live" /\ err # "CG_OK" THEN "freed" ELSE body
    /\ Go("unmap")
    /\ UNCHANGED <<mapped, cur, save, left, ret, lost, cut>> /\ UNCHANGED heap

\* out_error, which success passes through as well.
Cleanup ==
    /\ pc = "cleanup"
    /\ body' = IF body = "live" THEN "freed" ELSE body
    /\ Go("unmap")
    /\ UNCHANGED <<mapped, cur, save, left, ret, lost, cut>> /\ UNCHANGED heap

-----------------------------------------------------------------------------
\* The rest of cengine_savefile_read, and its caller.

\* savegame_free: the elements of an array are freed as far as the count field
\* says, whatever the array's length.
savegame_free ==
    /\ arr' = [a \in Arrays |-> NoArray]
    /\ ptrs' = {}
    /\ orphaned' = (orphaned \/ \E a \in Owning : arr[a].set /\ arr[a].live > arr[a].num)
    /\ UNCHANGED <<seen, again>>

Return ==
    /\ pc = "unmap"
    /\ mapped' = "gone"
    /\ IF err = "CG_OK"
       THEN Go("returned") /\ ret' = "save" /\ UNCHANGED heap
       ELSE Go("released") /\ ret' = "null" /\ savegame_free
    /\ UNCHANGED <<body, cur, save, left, lost, cut>>

\* main frees the save when it is done with it.
Release ==
    /\ pc = "returned"
    /\ savegame_free /\ Go("released")
    /\ UNCHANGED <<cur, save, left, lost>> /\ UNCHANGED outside

Ended == pc \in {"released", "killed"} /\ UNCHANGED vars

Next == \/ MapFile \/ AllocSave
        \/ CheckSize \/ ReadSignature \/ ReadHeader \/ ReadSnapshot
        \/ ContinueInFile \/ SizesMissing \/ SkipToBody \/ DecompressBody
        \/ ReadVersion \/ ReadPlugins \/ ReadLocations
        \/ ReadGlobal("globals") \/ EndOfTable("globals", "change_forms")
        \/ AllocChangeForms
        \/ ReadChangeForm \/ EndOfTable("forms", "late_globals")
        \/ ReadGlobal("late_globals") \/ EndOfTable("late_globals", "form_ids")
        \/ ReadFormIds \/ ReadWorldSpaces \/ ReadUnknown3
        \/ Cleanup \/ Return \/ Release \/ Ended

Spec == Init /\ [][Next]_vars /\ WF_vars(Next)
-----------------------------------------------------------------------------
\* The caller gets a save only if every byte the reader asked for was there,
\* although the pixels, the location table, the form ids, the world spaces and
\* most fields of a block are loaded without a check.
CompleteOrNothing == ret = "save" => err = "CG_OK" /\ ~lost

\* A save that is returned has all that file_writer dereferences: the arrays
\* are as long as their counts, every element is there, and so are the strings
\* and chunks that are written without a NULL test.
SuccessIsWritable ==
    pc = "returned" =>
      /\ \A a \in Arrays : arr[a].num > 0 => arr[a].set /\ arr[a].num <= arr[a].len
      /\ \A a \in Owning : arr[a].num > 0 => arr[a].live >= arr[a].num
      /\ {HeaderStrings[k] : k \in 1..4} \cup {"snapshot_data", "unknown3"} \subseteq ptrs
      /\ save.game = "FALLOUT4" => "game_version" \in ptrs

\* Wherever reading stops, savegame_free may be called on what there is: it
\* never looks beyond the end of an array and never at an element that has been
\* freed, even though the counts are set before the arrays exist.
FreeableAnyTime ==
    \A a \in Arrays : /\ arr[a].set => arr[a].num <= arr[a].len
                      /\ arr[a].full = arr[a].live

\* Memory is lost in two ways only: a known global data type that comes twice,
\* and a body that ends where the world spaces should begin.
LeaksOnlyWhereKnown ==
    pc = "released" => /\ orphaned => again
                       /\ body = "live" => ret = "null" /\ err = "CG_EOF"

\* Cursors and blocks point into bytes that are there: the file is mapped for
\* as long as it is read (a failed mapping is noticed by its size of 0), and the
\* decompressed body lives as long as blocks refer to it.
ReadsLiveBytes ==
    /\ pc \in Reading => mapped = "yes"
    /\ pc \in Reading \ {"signature", "header", "snapshot", "body"} =>
         (body = "live" <=> save.compressor # "none")

\* Reading comes to an end for every file, whatever counts it claims.
ReadingEnds == <>(pc \in {"released", "killed"})

-----------------------------------------------------------------------------
\* What the comments and messages of the source say, and the code does not do.

\* "File ended too soon." is what savefile.c:804 prints for a file that is cut
\* off; no such file should be accepted.
TruncationReported == ret = "save" => ~cut

\* "Deallocate save game memory." (savefile.h:201): after savegame_free nothing
\* the reader allocated for the save is left.
FreeReleasesSave == pc = "released" => ~orphaned
=============================================================================

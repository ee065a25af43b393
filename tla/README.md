# A TLA+ model of cegse

cegse reads a save game of a Creation Engine game (Skyrim, Fallout 4) into
`struct savegame` and writes it back. It is a sequential C program: one thread,
no messages, no callbacks. What makes it hard is not interleaving but *control
over untrusted data*: long runs of loads and stores whose results nobody looks
at, tests of a cursor that come much later, counts taken from the file before
the arrays they count exist, two buffers with different origins, and an error
path that has to release whatever happens to have been allocated.

All line numbers are those of `src/src/`.

## 1. Inventory

| component | source | state | operations | modelled in |
|---|---|---|---|---|
| cursor API | `binary_stream.c`, `.h` | `struct cursor`: a pointer `pos`, a signed distance `n` to the end | `c_load_*`, `c_store_*`, `c_advance`, `c_advance2` | `CursorOps`, `Cursor`, `StickyEnd` |
| variable size values | `savefile.c` 570-628 | the octets in `b[3]`, a cursor | `encode_vsval`, `decode_vsval` | `VsvalOps`, `Vsval` |
| reader | `savefile.c` 744-1284, 1323-1624 | file mapping, file and body cursor, decompression buffer, `struct savegame` and `psavegame`, error code | `cengine_savefile_read`, `file_reader`, `disassembler`, `deserializer`, `read_le16_str_array` | `SaveReader` |
| life cycle of a save | `savefile.c` 2242-2319 | the heap a `struct savegame` owns | `savegame_alloc`, `savegame_free` | `SaveReader` |
| writer | `savefile.c` 1626-2190 | file and body cursor, body buffer, location table, `offset_var` | `file_writer`, `prepare_block`, `serializer`, `assembler` | `SaveWriter` |
| contents of a file | `savefile.c` 81-143, 452-569, 628-670, 837-1284, 1323-2190 | the octets of a file, the fields of a save | the same functions, seen as a translation | `Format`, `FormatReader`, `FormatWriter`, `RoundTrip` |
| saving to disk | `savefile.c` 2192-2240, `main.c` | the file on disk, its mapping, its size | `cengine_savefile_write`, `main` | `Saving`, `Output` |
| compression | `compression.c` | none | `lz4_*`, `zlib_*` over liblz4 and zlib | outcomes, in `SaveReader` and `SaveWriter`; constants, in `Format`, with the stand-in `Codec` for the runs |
| memory types | `mem_types.*`, `mem_type_casts.h` | `struct chunk` | `chunk_alloc`, casts | an allocation that may fail |
| field access | `binary_stream.c` 25-60, `endianness.h` | none | `store_*`, `load_*` | `Format`, on a little endian host |
| FILE stream API | `binary_stream.*` | a `FILE *` | `put_*`, `get_*` | not modelled |
| logs, dumps, tests | `log.*`, `defines.h`, `unit_tests.h`, `dump_to_file` | none the program depends on | | not modelled |

How they interact: `main` calls `cengine_savefile_read`, which maps the file,
allocates an empty save and runs `file_reader`. `file_reader` moves one cursor
over the file and, behind the snapshot, a second one over the body, which is
either the rest of the file or a decompressed buffer. Structured parts are
*blocks*: `disassembler` reads a header, checks that the announced bytes are
there and steps over them; `deserializer` walks the block with a cursor of its
own and fills the save. `main` then hands the save to
`cengine_savefile_write`, where `file_writer` goes the opposite way:
`prepare_block` leaves room for a header, `serializer` stores behind it,
`assembler` goes back and stores the header. At the end the location table and
the sizes of the compressed body are filled in.

What makes each part correct:

* *Cursors*: no byte outside the block is touched, and a failed load stays
  visible in `n` for as long as the cursor is used.
* *Variable size values*: what was encoded is decoded, from exactly its octets;
  decoding ends on any input.
* *Reader*: all or nothing. A save that is returned is complete and has
  everything the writer dereferences; a save that is not returned is freed, on
  every path, without touching memory that is not there.
* *Writer*: the output has no gaps, the location table leads to the tables and
  has the counts the reader's loops need, the room in the buffers is respected.
* *Both together*: what was read survives being written and read again, and a
  file in the form the games use comes back octet by octet.
* *Saving to disk*: success means that the save is there, failure that there is
  none of it, and no moment on the way shows a reader something that looks like a
  save and is not - as far as the code's order of stores can see to that.

`PROJECT.json` lists the hazards of this code at their lines and the properties
that would catch them going wrong.

## 2. Modules

```
CursorOps ---- Cursor --(refines)--> StickyEnd        CursorProofs
    |  \
    |   +----- SaveReader                             SaveReaderProofs
    +--------- SaveWriter -- MCSaveWriter             SaveWriterProofs   \
VsvalOps  ---- Vsval ------- MCVsval                  VsvalStreamProofs   \
    |                                                 FormatProofs         > FoldFacts
    |                                                 RoundTripProofs     /
    |                                                 SavingProofs       /
  Format --+-- FormatReader --+-- RoundTrip -- MCRoundTrip
           |                  |                     |
           +-- FormatWriter --+-- Saving  ---- MCSaving --(refines)--> Output
           |                                        |
           +-- GameFiles ---------------------------+
                   |
                 Codec
```

**CursorOps** has the cursor arithmetic as operators: `Taken` is a load or store
(`n` always shrinks, `pos` moves only if `n` stayed non-negative), `Advanced` is
`c_advance2`. `Place`, `PlaceOf` and `After` are what is left of a cursor when
only the sign of `n` is kept.

**Cursor** uses them the way `savefile.c` does: cursors over whole buffers, a
cursor copied from another one (988, 997, 1971, 1980, 2178), a cursor on one block
(`OpenBlock`: the tail of `disassembler` and the first line of `deserializer`).
`want`, `lost` and `copied` are history variables. **StickyEnd** is the abstract
specification: cursors that are inside or past the end, for good. It is what
`file_reader` and `deserializer` take for granted when they test `n` once after
many loads.

**VsvalOps** and **Vsval** are the codec: operators for the arithmetic
(`OctetCount` for the shift expression on line 596, `LoopBound` for the
condition of the loop on line 613), and a machine that encodes values into
limited room, may lose the tail of the stream, and decodes octet by octet. A
stream may also come from elsewhere, octet by octet arbitrary.

**SaveReader** is the reading side from `mmap_entire_file_r` to
`savegame_free`. `pc` names the part of `file_reader` that runs next and each
part is an action; the three loops over blocks take one step per block. Bytes
are left out: no byte of a file is read twice, so a load that succeeds may
deliver anything, and only what control depends on is kept - game, file version,
form version, compressor, counts. Of a cursor the sign of `n` is kept. For every
array of the save the model has the pointer (NULL or not), its real length, the
count field next to it, how many elements are not NULL and how many of these are
allocated; so it can tell what `savegame_free`, which believes the count fields,
would touch. `deserializer`'s cases are the operators `file_header`,
`plugin_info`, `misc_stats` ...; each ends in `Conclude`, the tail that turns a
short block into `CG_EOF`.

**SaveWriter** is the writing side, as the default build runs it: CMakeLists.txt
sets `-DNDEBUG`, so the assertions (in `assembler`, `encode_vsval`,
`c_store_le16_str`) do not stop anything. Every header and fixed field has its
real width; strings, structures and chunks have a size chosen when they are
written, because each part is written once. `parts` lists the stores with their
buffer, place and size; `asked` counts what was requested of each buffer.
Serializing a block and assembling its header is one action, `Block`, because
nothing can come between. Arithmetic that is unsigned in C (`block->buffer_size`,
`OFFSET()`, `num_globals3 - 1`) is taken modulo `UintMod`.

`SaveReader` and `SaveWriter` have the control and leave the octets out. The other
half of the model has the octets and treats reading and writing as functions:

**Format** has what both sides share: kinds of fields and their octets in memory
and in a file (`Loaded`, `Stored`), the numbering of the global data types, the
tests of game and version, a cursor that loads, and `Load` for a field, be it
single, counted or "the rest". A value in memory is the sequence of its octets,
lowest first, so the sign of a number or the bits of a float never matter, and a
string ends in its NUL, so `strlen` (`CString`) can stop early. `Number` is the value of
one, two or four octets. The constant `HighHalves` says how many values of the upper half
of a `le32` are told apart: 65536 is all of them, less keeps the numbers within the model
checker's 32 bits. The numbers that are not told apart have the value `TooMany`, which is
more than the others; with 65536 there are none, and `TooMany` is 2^32. liblz4 and zlib are the
constants `Compressed` and `Decompressed`, of which `Format` states two promises,
`DecompressorIsSafe` (it stays inside its room, whatever it is given) and
`CompressorIsUndone` (what was compressed is got back, in just the room for it). Neither
says how long a compressed body is.

**Codec** is what the runs take for them, not a model of LZ4 but of what matters here
about any such algorithm: runs of zeroes shrink, other data grow by an octet, the same
octets have several codes, and data that are cut off are refused. That its codes are undone
is an assumption TLC evaluates.

**FormatReader** lists the fields in the order of `deserializer` (`...Loads`) and puts
them together as `file_reader` does; **FormatWriter** lists them in the order of
`serializer` (`...Stores`) and yields the *sequence of stores* with their places, in
the order of the code: data before its header, location table and sizes last.
The lists are written down twice because the source writes them down twice.
`file_reader(octets)` is `[ok, save]`; `file_writer(save)` is `[end, stores, size, buffered]`,
where `buffered` is the use it makes of the body buffer. Two computations of `file_reader`
wrap around in 32 bits, and here too (`Plus`, `Times`): the size of the snapshot (911-913)
and the number of global data blocks in the first two tables (1058).

**GameFiles** builds files the way the games do, from the description of the format
and independently of both sides: seven formats, each with something of
everything ("full") or with nothing that may be missing ("bare"), and with at most
one irregularity (`Quirks`): a NUL in a string, a count in more octets than it
needs, junk in the location table, an octet too many in a structure or behind the
end, missing favourites, two weathers, a type in the wrong table, a type kept as a
chunk twice, an impossible size tag, a snapshot of 2^31 + 5 by 4 pixels (20 in 32 bits), a
count of -1 and one that makes up for it, and a body compressed with another code than
ours, to more octets.

**RoundTrip** reads a file, writes the save and reads what was written. Its parameters
are the files (`Files`; the run takes those of `GameFiles`) and the room the writer has
(`MaxFile`, 128 MiB of each buffer in the code): a save that needs more is not written
(`"no_room"`). What was written may be refused when it is read again
(`"refused_again"`): `SaveSurvives` says that it is if and only if the file has less
than `MinFileSize` octets.

**Saving** is `cengine_savefile_write` under `main`, call by call. Every call may
fail as the code expects it to; file_writer's stores reach the mapped file one by
one; and the program may be killed between any two steps or inside a store of
more than four octets (a signal, SIGBUS on a full disk). `found` is a history
variable: what `cengine_savefile_read` would make of the path now - the old
save, nothing, part of the new one, or all of it. `Saving` has reader and writer as
parameters and states in `SavingAssumption` what it relies on: `FitsInside`,
`ReadsBack` and `AtOneStroke` speak of a save and the list of its stores, not of calls,
failures or deaths; TLC evaluates them with `file_reader` and `file_writer` for the
saves of the run. **Output** is what saving promises, with no calls and no octets in it;
`Saving` refines it.

The modules named `...Proofs` hold the theorems (section 5). **FoldFacts** has what they
share: what the community modules' `FoldLeft` computes, for any operator.

Operators named as mutants are plausible bugs (a dropped check, an off-by-one,
a swapped sign); they stand before the definition they distort and nothing uses
them. PROJECT.json says which property each of them breaks.

## 3. Runs

| run | question | bounds |
|---|---|---|
| `cursor` | can any sequence of loads, stores, skips, copies and nested blocks leave its block, or forget a failure? | two cursors (one can be nested in, or copied from, the other); buffers of 0, 3, 5 bytes; widths 1, 2, 4; requests up to 9 bytes |
| `vsval` | does every value survive, whatever the room and wherever the stream is cut? does decoding end? | three values out of both sides of each boundary of the encoding; room for none, part or all; foreign streams of up to four octets with all four size tags |
| `reader_formats` | is reading right for both games, all version classes and all compressors? | versions 9 (no compression), 12 (compression, light plugins), 16 (unsupported); form versions 77 and 78; counts modulo 2; three known types and an unknown one |
| `reader_blocks` | the arrays whose elements are allocations, with blocks that come twice | counts modulo 3, so two elements with a failure at the first, between them or at the second |
| `reader_truncated` | is a file with a truncated compressed body refused? *It need not be.* | |
| `reader_repeated` | does `savegame_free` release everything? *No.* | |
| `writer` | gaps, offsets, counts and room for every format | files of 40, 150 and 260 bytes: too small for header and snapshot, too small for the body, enough; a body buffer of 165 bytes; parts of 7 bytes, or none where the code can write none; up to two change forms, form ids, world spaces |
| `writer_bounds` | does a store leave its buffer? *Yes.* | |
| `writer_uncompressed` | can a save be written that could be compressed but is not? *No.* | |
| `roundtrip` | does what was read survive being written and read again? what is refused, and what is written back as it was? | Skyrim 9, 12 (form versions 77 and 78; all compressors), Fallout 4 11 and 15; full and bare; regular and thirteen irregularities: 196 files of 313 to 654 octets; room for 900 (`MaxFile`); `HighHalves` = 8192, so that numbers of 2^29 and more are one |
| `roundtrip_identical` | is a regular Fallout 4 file written back as it was? *No.* | the same files |
| `saving` | what is on disk, and what is the user told, if a call fails or the program dies? | thirteen saves: those of the regular files that can be read, and one whose body is not compressed though it might be; a file of 900 octets for 128 MiB; stores torn after 4, 20 or 50 octets |

Why the bounds are enough. A cursor distinguishes a request that fits, fits
exactly, or does not; three sizes and four widths give all of these with room
left over, and two cursors are all the code ever has in use together. The codec
changes form at 2^6, 2^14 and 2^22 and the values are the last and first ones on
both sides of each. The reader's loops have no memory of their own but the
counter, so a count of 2 has a first, a middle and a last round, and a count that
wraps around (`CountMod`, the scaled-down 2^32) is within reach. The reader treats
global data types alike apart from their cases; the two runs split the five
structured types between them and each has one that is kept as a chunk. In the writer, three
global data tables with a structured and an optional type in the first one give
empty and non-empty tables everywhere, and the three file sizes let room run out
at every part.

A field is a place in a list: its neighbours differ in every octet (`Run`), so
fields that change places, widths or conditions show up as different octets. Each
array has zero or one to three elements, each width of a change form's length comes once,
and each kind of count is both empty and not. In `saving` every store of
`file_writer` is a step, so the program dies at every one; the three cuts end inside
a header, inside a structure and inside compressed data.

`writer` checks `TilesFile` and `OffsetsLead` for outputs whose reported size is
at most the room. There is one case beyond: when header or snapshot did not fit a
compressed save, `file_cursor.n` is not tested again and `CG_OK` comes with a
size larger than the file; the code can only get there with a header and
snapshot of more than 128 MiB.

### Properties

* `CopiesInside`, `DistanceMeansRoom`, `LossRemembered`, `ImplementsStickyEnd`
  (Cursor): see the hazards at `binary_stream.c` 65 and 74.
* `ReadsWhatWasWritten`, `StopsOnlyWhereCut`, `RoomIsExact`,
  `RewritingNeverGrows`, `DecodingEnds` (Vsval).
* `CompleteOrNothing`: the caller gets a save only if no load failed, although
  most loads are unchecked. `SuccessIsWritable`: such a save has what
  `file_writer` dereferences. `FreeableAnyTime`: wherever reading stops,
  `savegame_free` is safe. `LeaksOnlyWhereKnown`: memory is lost only in the two
  places where the code loses it (a known global data type that comes twice;
  `return CG_EOF` on line 1170, which skips the release of the body buffer).
  `ReadsLiveBytes`: the file is mapped, the body buffer alive, while cursors point
  into them - although `mmap_entire_file_r` fails with `MAP_FAILED` and its caller
  tests for NULL. `ReadingEnds`.
* `TilesFile`, `OffsetsLead`, `CountsReadBack`, `RoomDecides`, `WritingEnds`
  (SaveWriter).
* `SaveSurvives`: the save that is read from a written file is the one that was
  read from the game's file, whatever was irregular about that; strings are
  compared as C compares them - unless the file has become shorter than the 300 octets
  the reader asks for (855), which is the one way to be refused. The run has such files:
  a bare save with a snapshot of one pixel whose body another compressor had
  compressed to more octets. `RegularIsWrittenBack`: a regular Skyrim file comes
  back octet by octet. `OnlyTheseAreLost`: which files do not get through, exactly -
  a type kept as a chunk twice, an impossible size tag, zlib (read, not written),
  and a body that might be compressed and is not, which no reader finds; and only a
  compressed save becomes too short.
* `SuccessMeansSaved` (Saving): EXIT_SUCCESS means that the disk has the whole save,
  with nothing but zeroes behind it if the last truncate failed.
  `ImplementsOutput`: a compressed save appears at one stroke and stays, because its
  two sizes are stored last; a save written in place shows a reader parts of itself
  for a while (the run reaches such states: when the first global data is stored and the
  location table is still zero, a reader accepts the save with nothing else in it;
  when all but one count is there, it may even find all of it, and then again
  nothing); failure leaves the old save or none; and the user gets an answer unless
  the program dies.

### Disagreements between the source and its own words

Each of these is a run that TLC ends with a counterexample, and an entry under
`findings`.

1. `reader_truncated`. `compress_size` is not compared with the bytes left in the
   file (965). A file cut off inside its compressed body can be decompressed from
   the zeroes that pad its last page and be accepted (or the program is killed
   when the data would begin on the next page), while line 804 has a message for
   files that "ended too soon".
2. `reader_repeated`. A known global data block that comes a second time
   overwrites the pointers of the first (1446, 1485, 1516, 1532, 1548); the
   unknown types are protected by a test (1600). `savegame_free` cannot release
   the first ones.
3. `writer_bounds`. `prepare_block` computes the room of a block in an unsigned
   (1630), and a change form is copied without looking at the room (2071).
4. `writer_uncompressed`. With `NO_COMPRESSION` in a format that supports
   compression, line 2149 reads `buffers[0]->size` through NULL.
5. `roundtrip_identical`. `player_location.unknown` is loaded for Skyrim only (1473)
   and stored for every game (1693), so a Fallout 4 file comes back one octet longer
   and with other offsets, while `README.md` (line 6) and the unit test on line 2593
   have it come back as it was. No information is lost (`SaveSurvives`): the reader
   drops the octet again.

## 4. Fairness

Liveness is checked under `WF_vars(Next)` in `Vsval`, `SaveReader` and
`SaveWriter`: the program is a single thread that waits for nobody, and as long
as it is allowed to run it takes its next step. Nothing stronger is assumed; in
particular, no outcome of a load, an allocation or a compressor is promised.
`Saving` states it for the program counter and the number of stores (`GoesOn`),
which is the same thing: every step changes one of them, and until the program has
ended there is one. `RoundTrip` is three calls of functions and has no liveness of
its own. `Cursor` states no fairness: a caller may stop using its cursors. Final states
(`Ended`) stutter, so deadlock is checked everywhere.

## 5. Proofs

TLAPS proves, for every value of the constants that satisfies the `ASSUME` of
the module (and the promises of liblz4, where a theorem names them):

| theorem | says | argument |
|---|---|---|
| `TypeCorrect`, `CopiesStayInside`, `DistanceIsRoom`, `LossStaysVisible` (CursorProofs) | the four invariants of `Cursor` | one inductive invariant, `IInv` |
| `CursorImplementsStickyEnd` (CursorProofs) | `Cursor` refines `StickyEnd` | a step is a `Deliver`, `Refuse`, `Copy` or `Nest` of the abstract cursors, `IInv` as invariant |
| `CodecRoundTrip` (FormatProofs) | for all values up to 2^22 - 1: one to three octets, the decoder's loop bound is their number, and they assemble to the value | linear arithmetic over the digits of a word in base 256, one lemma for each part |
| `ReadsCompletely` (SaveReaderProofs) | `CompleteOrNothing` | `LossInv` |
| `FreeIsSafe` (SaveReaderProofs) | `FreeableAnyTime` | `HeapInv` |
| `ReadsOnlyLiveBytes` (SaveReaderProofs) | `ReadsLiveBytes` | `LiveInv` |
| `SuccessGivesWritable`, `ReaderTyped` (SaveReaderProofs) | `SuccessIsWritable` and the type invariant of `SaveReader` | `WritableInv`, `PtrInv` |
| `LeaksAreKnown` (SaveReaderProofs) | `LeaksOnlyWhereKnown` | `LeakInv`, `BodyInv` |
| `FileIsTiled`, `OffsetsDoLead`, `CountsDoReadBack`, `RoomIsDecisive`, `WriterTyped` (SaveWriterProofs) | the invariants of `SaveWriter` | `AccountInv`, `PlaceInv`, `CountInv`, `OffsetInv`; every action is a put, a skip or a stop |
| `ReadIsWritten`, `StopsWhereCut`, `RoomStaysExact`, `RewritingFits`, `StreamTyped` (VsvalStreamProofs) | the invariants of `Vsval` | `LocalsInv`, `RoomInv`, `ReadInv` |
| `LoadAllAt` (FormatProofs) | a list of fields, stored one behind the other anywhere in a file, is loaded as it was | each field is loaded from its octets and leaves the cursor at the next; induction over the list |
| `AcceptedIsWellFormed` (FormatProofs) | a save that `file_reader` accepts from a file below 4 GiB has a format, and fields that are octets of the right widths and counts | `WellFormed`, part by part of `file_reader` |
| `WriterIs` (FormatProofs) | a file `file_writer` finishes is signature, header, snapshot and body, each part at its place; one it gives up is octets all the same | `Holds`: what the stores so far make of a file, followed through each block and each store that goes back |
| `StoresFit` (RoundTripProofs) | every store of `file_writer` is inside of the size it reports, to which the file is cut: what `FitsInside` says of places | `Under`, `Inside` |
| `FileLong` (RoundTripProofs) | what is written in a format without compression has 300 octets or more | lower bounds of each part; the minimum is 300 exactly |
| `WrittenIsRead` (RoundTripProofs) | for every well formed save and the whole file below 4 GiB that `file_writer` makes of it: `file_reader` refuses the file if it has less than 300 octets, and otherwise returns the save, strings as C compares them | `FileIs`, see below |
| `RoundTripInvariant`, `RoundTripType`, `NothingIsLost` (RoundTripProofs) | the invariant, the type invariant and `SaveSurvives` of `RoundTrip`, for any set of files below 4 GiB and any room below that, if liblz4 keeps its two promises | `RoundTripInv`: what was read is well formed, what was written is its file, and a file that is refused again is too short |
| `SuccessIsSaved`, `SavingTyped` (SavingProofs) | the invariants of `Saving` | `GivenInv`, `DiskInv`, `EndInv` |
| `SavingImplementsSteps` (SavingProofs) | the safety half of `ImplementsOutput` | every step is one of `Output`'s or changes nothing there |

*Why the invariants had to be strengthened.* `CopiesInside` and `LossRemembered`
are not inductive: they need the `Ledger`, which says that `n` is the size of the
window less all that was asked for, and that the pointer stands where the caller
believes it does as long as `n` is not negative. `CompleteOrNothing` speaks of
the end; `LossInv` says where a failed load can hide on the way there: behind a
cursor that is past the end while reading goes on, behind an error code
afterwards - which is why every path that goes on must come by a checked load at
last. `FreeableAnyTime` needs `HeapInv`, which ties the rounds left in the
loop over change forms to the length of their array and says that the array does
not exist before its count is set (line 1050 sets it, line 1084 allocates).
`ReadsLiveBytes` needs `LiveInv`, because a decompressor runs where the *format* has
compression and the property asks for the *compressor* of the save: the two agree only
since the header names a compressor in no other format (1373).

`LeaksOnlyWhereKnown` needs `LeakInv`: an array of a global data type is allocated only
if a block of that type was seen, and the others are still NULL when the part begins
that allocates them; and `BodyInv`: the body buffer outlives `file_reader` only with
`CG_EOF`. `SuccessIsWritable` needs `WritableInv`: as
long as there is no error, every array has the elements its count names; and `PtrInv`:
the pointers that have no count are set behind the part that sets them.

*The writer.* Whatever it does, it puts so many bytes behind a cursor (`FilePut`,
`BodyPut`, `Compressed`), moves on without a store (`BodySkip`, `Allocated`), or stops
for good (`Stops`). The first part of the module shows that each action is one of
these, the second what they do to each invariant. `AccountInv` ties `n` of a cursor to
what was asked of its buffer; `PlaceInv` ties `pos` to the parts that are in it, which is
`TilesFile` before the end, with the gaps that will be filled last; `CountInv` and
`OffsetInv` say of each entry of the location table what it will be worth, from the
moment when its table is begun.

*Streams of values.* `RoomInv` says where in the stream the octets of each value are
(`Laid`); `ReadInv` says that the reader stands behind the octets of the values it has
returned and has loaded only octets of the next one (`Place`); then `CodecRoundTrip`
gives the bound of the loop from the first octet and the value from the last.

*Saving.* `DiskInv` says that the file is what the stores so far make of zeroes
(`FileAfter`), from ftruncate to truncate; `EndInv` what the error code says of it. Two
lemmas over lists of stores carry it: stores inside of the file keep its length
(`ContentsTyped`), and to cut a file behind all of its stores is as if it had been
short from the beginning (`CutBehindStores`). This is why the last truncate changes
nothing that is found, and why its failure does no harm.

*Round trip.* `RoundTripInv` says of what was read that it is `WellFormed`, and of what
was written that it is its file (`FileIs`). The proof has three parts. First, every
field that `deserializer` accepts is one that `serializer` stores in the same form
(`AcceptedIsWellFormed`): what a load returns are octets of its width, as many as its count
says, and a string without the octets behind its NUL is what `strlen` makes of it.
Second, what the file holds: the stores of `file_writer` overlap, because headers, the
location table and the sizes of the compressed body are stored after what is behind
them, so `Holds` follows each part through the stores that come later and shows that none
of them reaches into it (`Under`, `Inside`, `Beyond`); the outcome, `FileIs`, is a file in
plain words - signature, header, snapshot, body, where the body has its tables at the places
the location table says. Third, reading that (`WrittenIsRead`): each list of loads is
written down twice in the proof, as the source has it and as a list of names
(`ListOf`), and the two lists, of loads and of stores, agree name by name under every
condition of game, version and counts; then `LoadAllAt` carries the cursor from one block
to the next. The file must be 300 octets long, or the reader refuses it (855). A body
that is stored as it is makes it that long: `FileLong` adds up at least 62 octets in front
of the body and at least 238 in it. Of one that is compressed no such thing can be
said, so the theorem has both cases.

*The compressor.* What a file holds is described by what decompresses to the body
(`HoldsPacked`, `CompressedIs`), not by its length. `WriterIs` needs `CompressorIsUndone`
for bodies up to the size that the body buffer has, `AcceptedIsWellFormed` and `WrittenIsRead`
need `DecompressorIsSafe`. Both are hypotheses in the statements of the theorems,
so a reader of them sees where they are used.

*32 bits.* `Plus` and `Times` carry from one octet to the next and lose what is left
(`CarriedIs`). For reading only their result matters, a number that says how much to load; for
writing `EarlyCount` shows that the counts the writer stores, at most 12 and 18, do not
wrap around. That the writer stores as many pixels as the reader will look for follows from both
computing the same product of the same octets.

*Folds.* `FoldFacts` shows that `FoldLeft` gives the base for the empty sequence and
one application more for one element more, by induction over a *set* of numbers and
the least one that is not in it; `SeqInduction` is the same over a set of sequences.
The induction theorems of the library take a predicate as parameter and cannot be
used; a set can be.

Assumptions: widths, sizes and counts are natural numbers, the games and types
are those the source has (`CursorAssumption`, `ReaderAssumption`, `WriterAssumption`,
`VsvalAssumption`), and no buffer of the writer reaches 2^32 bytes (128 MiB are the most
the code asks for); the codec's theorem needs none. `FormatAssumption` says that
`HighHalves` is between 256 and 65536; the theorems hold for each, and with 65536, where
every `le32` is its own number, `TooMany` is 2^32. `RoundTripAssumption` then says that
files are sequences of octets, that the files that are read are shorter than 4 GiB, and that the
writer's room is less than 4 GiB: the code's own 128 MiB, and whatever the format's
offsets, which are `le32`, can lead to. The smaller `HighHalves` of the runs makes the
same statement about smaller files. Nothing is assumed of the sides of a snapshot,
of counts, or of the length of compressed data. The theorems about
`Saving` rest on `SavingAssumption` besides, that is on the order in which
`file_writer` stores and on what `file_reader` makes of files that are not complete. For
`file_writer` and `file_reader` themselves TLC evaluates it with the saves of the run. Of
its parts, that the stores are inside of the file is `StoresFit`, and that the whole file is
read back is `WrittenIsRead`, if it has 300 octets (no save of the run has a shorter one); that nothing is found before the last store
(`AtOneStroke`), and what is read with zeroes behind the file, are evaluated only.

Model-checked only: liveness (`DecodingEnds`, `ReadingEnds`, `WritingEnds`, the answer in
`Output`), which is beyond the prover; and `RegularIsWrittenBack` and `OnlyTheseAreLost`,
which are about the files of `GameFiles` and have no meaning without them.

## 6. Not modelled

* *The compression algorithms*: liblz4 and zlib are external. `SaveReader` and
  `SaveWriter` represent them by their outcomes, `Format` by constants with two promises,
  the runs by `Codec`. Nothing is assumed of the ratio: a save that is compressed may become
  a file of less than 300 octets, which the reader refuses (855), and `SaveSurvives` counts
  that as the one way to lose it. `compression.c` clamps sizes to `INT_MAX` and LZ4 takes no
  more than about 2 GB; with the code's 128 MiB the writer stays below that, with more room
  `CompressorIsUndone` would not be true of LZ4. When reading, a larger size makes
  `LZ4_decompress_safe` fail, which is one of the outcomes `Decompressed` may have.
* *Files of 4 GiB and more*: sizes and offsets of the format are `le32`, and the
  theorems about octets stop there.
* *Compressed data beyond the end of the file* in `FormatReader`, where it fails:
  `SaveReader` has the other outcomes (finding 1).
* *Failures for lack of room or memory* in the octet model: they are in `SaveReader`
  and `SaveWriter`; of `RoundTrip` a save without room leaves the run (`"no_room"`).
* *Power loss*: `Saving` lets the program die, not the machine, so what was stored
  into the mapping is in the file.
* *Strings of 64 KiB and more* (664) cannot come from a file, and the program has no
  other source of strings.
* `compressor` and `decompressor`: marked unused, called by nobody.
* `dump_to_file` and the FILE stream API: a debugging aid that writes
  `decompressed_save_data`; failures have no effect on reading.
* The byte swaps of a big endian host, covered by the unit tests in
  `binary_stream.c`.
* Unit test hooks in `deserializer` (`COMPILE_WITH_UNIT_TESTS`).
* The test of `argc` in `main`.

## 7. Plan

All components that hold state are modelled, and every invariant of the runs is proved
but for the two that speak of the files of one run. What is left:

1. `AtOneStroke` and `ReadsBack` for `file_writer` and `file_reader`, for all saves: that
   the files `Saving` can leave behind on the way are refused. `FileIs` describes
   the last of them; the others need the same for each prefix of the stores.
2. `RegularIsWrittenBack` for any file whose strings, counts and tables have the form the
   writer gives them, instead of the files of `GameFiles`.

------------------------------ MODULE RoundTrip ------------------------------
(***************************************************************************)
(* A file a game wrote is read, the save is written, and what was written  *)
(* is read again: main, followed by whoever reads its output.              *)
(***************************************************************************)
EXTENDS FormatReader, FormatWriter

CONSTANTS
    Files,       \* records [format, quirk, octets]
    MaxFile      \* room in the file and in the body buffer, 128 MiB of each in the code

\* Every number that counts octets of these files is told from TooMany.  That much is
\* true of all files below 4 GiB.
ASSUME RoundTripAssumption ==
    /\ MaxFile \in Nat /\ MaxFile < TooMany
    /\ \A f \in Files : f.octets \in Seq(Octet) /\ Len(f.octets) < TooMany

VARIABLES
    pc,       \* what has been done last
    given,    \* the file of the game
    file,     \* the file at hand
    save,     \* what has been read from it
    first     \* what had been read from the file of the game

vars == <<pc, given, file, save, first>>

IsValue(v) == \A i \in DOMAIN v : v[i] \in Octet

\* Every field of a save holds octets, the strings of a save that was read end in a
\* NUL, and of the four octets of a form id the highest is 0.
TypeOK ==
    /\ pc \in {"made", "read", "written", "read_again", "refused", "failed", "killed",
               "no_room", "refused_again"}
    /\ given \in Files
    /\ IsValue(file)
    /\ \A s \in {save, first} :
         /\ DOMAIN s = DOMAIN savegame_alloc
         /\ \A f \in AllFields : \A i \in DOMAIN s[f.name] : IsValue(s[f.name][i])
         /\ \A form \in ToSet(s.change_forms) : form.type < 192 /\ form.form_id[4] = 0
         /\ pc \notin {"made", "refused", "refused_again"} =>
              \A name \in {"player_name", "race_id"} : Last(s[name][1]) = 0

Init == /\ pc = "made"
        /\ given \in Files
        /\ file = given.octets
        /\ save = savegame_alloc /\ first = savegame_alloc

\* cengine_savefile_read.
Read == /\ pc = "made"
        /\ \E result \in {file_reader(file)} :
             /\ pc' = IF result.ok THEN "read" ELSE "refused"
             /\ save' = result.save /\ first' = result.save
        /\ UNCHANGED <<given, file>>

\* cengine_savefile_write; what it leaves when it fails is the subject of Saving, what
\* becomes of a save there is no room for that of SaveWriter.
Write == /\ pc = "read"
         /\ \E result \in {file_writer(save)} :
              LET fits == result.size <= MaxFile /\ result.buffered <= MaxFile
              IN  /\ pc' = CASE ~fits -> "no_room"
                             [] fits /\ result.end = "CG_OK" -> "written"
                             [] fits /\ result.end = "CG_COMPRESS" -> "failed"
                             [] fits /\ result.end = "killed" -> "killed"
                  /\ file' = IF fits THEN Contents(result.stores, result.size) ELSE <<>>
         /\ UNCHANGED <<given, save, first>>

ReadAgain == /\ pc = "written"
             /\ \E result \in {file_reader(file)} :
                  /\ pc' = IF result.ok THEN "read_again" ELSE "refused_again"
                  /\ save' = result.save
             /\ UNCHANGED <<given, file, first>>

Ended == /\ pc \in {"read_again", "refused", "failed", "killed", "no_room", "refused_again"}
         /\ UNCHANGED vars

Next == Read \/ Write \/ ReadAgain \/ Ended

Spec == Init /\ [][Next]_vars
-----------------------------------------------------------------------------
\* A file in the only form the writer has for its contents: the same save would be
\* written to no other octets.
Regular == given.quirk = "none"

\* The one format whose body the reader looks for in the wrong place.
Uncompressed == given.format.game = "SKYRIM" /\ given.format.file >= 12
                /\ given.format.compressor = 0

\* What a save says: of a string, what is in front of its first NUL.
Says(s) ==
    LET Shown(f) == [i \in DOMAIN s[f.name] |->
                       IF f.kinds[1 + ((i - 1) % Len(f.kinds))] = "str"
                       THEN CString(s[f.name][i]) ELSE s[f.name][i]]
    IN  <<[f \in AllFields |-> Shown(f)], s.game, s.snapshot_data, s.globals, s.change_forms>>

\* Nothing is lost on the way to the disk and back: whatever the reader made of a file,
\* it makes of the file written from it, although the two sides keep the order, the
\* widths and the conditions of all fields separately, and although the file itself
\* may have changed - unless it has become too short to be read at all.
SaveSurvives ==
    /\ pc \in {"read_again", "refused_again"} =>
         (pc = "refused_again" <=> Len(file) < MinFileSize)
    /\ pc = "read_again" => Says(save) = Says(first)

\* A regular Skyrim file is written back octet by octet: the offsets and counts of the
\* location table, the unused octets and the order of all blocks are those of the game.
RegularIsWrittenBack ==
    pc = "written" /\ Regular /\ given.format.game = "SKYRIM" => file = given.octets

\* Every file of a game gets through, but for those with a type kept as a chunk twice
\* or an impossible size tag, those that would need zlib, and those that might be
\* compressed and are not; no file that was read makes the writer use the NULL pointer
\* that file_writer has for the body of an uncompressed save; and no save becomes too
\* short to be read but by being compressed.
OnlyTheseAreLost ==
    /\ pc # "made" =>
         (pc = "refused" <=> Uncompressed \/ given.quirk \in {"doubled", "bad_tag"})
    /\ pc = "failed" => given.format.compressor = 1
    /\ pc \notin {"killed", "no_room"}
    /\ pc = "refused_again" => given.format.compressor = 2

-----------------------------------------------------------------------------
\* "written back without data loss", and the unit tests compare octet by octet: a
\* regular Fallout 4 file is written back as it was.
Fallout4IsWrittenBack ==
    pc = "written" /\ Regular /\ given.format.game = "FALLOUT4" => file = given.octets
=============================================================================

----------------------------- MODULE MCSaveWriter -----------------------------
(* One structured and one optional type in the first table, one of them in   *)
(* each of the others, and files from too small for the header to big enough. *)
EXTENDS SaveWriter

MCFormats == {[game |-> "SKYRIM", file_version |-> 9, compressor |-> "none"],
              [game |-> "SKYRIM", file_version |-> 12, compressor |-> "none"],
              [game |-> "SKYRIM", file_version |-> 12, compressor |-> "zlib"],
              [game |-> "SKYRIM", file_version |-> 12, compressor |-> "lz4"],
              [game |-> "FALLOUT4", file_version |-> 15, compressor |-> "none"]}

MCTables == <<<<"misc_stats", "game">>, <<"favourites">>, <<"papyrus">>>>
===============================================================================

--------------------------- MODULE SaveReaderProofs ---------------------------
(***************************************************************************)
(* What holds of reading a save for every file: whatever counts it claims, *)
(* whichever types it holds and wherever it ends.                          *)
(*                                                                         *)
(* Three invariants carry the proofs.  LossInv says where a failed load    *)
(* can hide: while reading goes on only behind a cursor that is past the   *)
(* end, afterwards only behind an error code.  HeapInv says that the       *)
(* counts, lengths and elements of the arrays agree whenever savegame_free *)
(* could be called.  LiveInv says where the file is mapped and the body    *)
(* buffer alive.                                                           *)
(***************************************************************************)
EXTENDS SaveReader, TLAPS

USE ReaderAssumption DEF ReaderAssumption

Starting == {"mmap", "alloc", "size"}

LossInv ==
    /\ pc \in Starting \cup Reading => err = "CG_OK" /\ ret = "none"
    /\ pc \in Starting => ~lost /\ cur = "inside"
    /\ pc \in Reading => (lost => cur = "past")
    /\ pc \in {"cleanup", "unmap"} => ret = "none" /\ (lost => err # "CG_OK")
    /\ ret = "save" => /\ pc \in {"returned", "released"}
                       /\ err = "CG_OK" /\ ~lost

\* Whatever deserializer does with a block ends in its common tail.
Concludes(next) == \E e \in Failures \cup {"CG_OK"}, short \in BOOLEAN : Conclude(e, short, next)

\* The file header is one such case.
LEMMA HeaderConcludes ==
  ASSUME NEW next, file_header(next) PROVE Concludes(next)
BY DEF file_header, Concludes, Failures

\* So is the plugin information, with one array of strings or with two.
LEMMA PluginsConclude ==
  ASSUME NEW next, plugin_info(next) PROVE Concludes(next)
<1>1. PICK p \in StringArrays :
        IF p.e = "CG_OK" /\ supports_light_plugins(save)
        THEN \E l \in StringArrays :
               /\ arr' = [arr EXCEPT !["plugins"] = p.array,
                                     !["light_plugins"] = l.array]
               /\ Conclude(l.e, l.short, next)
        ELSE /\ arr' = [arr EXCEPT !["plugins"] = p.array]
             /\ Conclude(p.e, p.short, next)
  BY DEF plugin_info
<1>2. \A r \in StringArrays : r.e \in Failures \cup {"CG_OK"} /\ r.short \in BOOLEAN
  <2>1. \A a, e, short : /\ Result(a, e, short).array = a
                         /\ Result(a, e, short).e = e
                         /\ Result(a, e, short).short = short
    BY DEF Result
  <2>2. ASSUME NEW r \in StringArrays
        PROVE  \E a, e, short : /\ r = Result(a, e, short)
                                /\ e \in Failures \cup {"CG_OK"} /\ short \in BOOLEAN
    <3>1. "CG_EOF" \in Failures /\ "CG_NO_MEM" \in Failures
      BY DEF Failures
    <3>2. CASE r = Result(NoArray, "CG_EOF", TRUE)
      BY <3>1, <3>2
    <3>3. CASE \E n \in Count : r = Result(Unallocated(n), "CG_NO_MEM", FALSE)
      BY <3>1, <3>3
    <3>4. CASE \E n \in Count \ {0} : r = Result(Allocated(n, 0), "CG_NO_MEM", FALSE)
      BY <3>1, <3>4
    <3>5. CASE \E n \in Count \ {0} : r = Result(Allocated(n, 0), "CG_EOF", TRUE)
      BY <3>1, <3>5
    <3>6. CASE \E n \in Count : r = Result(Allocated(n, n), "CG_OK", FALSE)
      BY <3>6
    <3>7. QED BY <3>2, <3>3, <3>4, <3>5, <3>6 DEF StringArrays
  <2>3. QED BY <2>1, <2>2
<1>3. QED BY <1>1, <1>2 DEF Concludes

\* So is every global data structure, known or unknown.
LEMMA GlobalConcludes ==
  ASSUME NEW next, NEW t, NEW u, Deserialize(t, next) \/ unknown_global(u, next)
  PROVE  Concludes(next)
BY DEF Deserialize, unknown_global, misc_stats, player_location, global_vars,
       weather, favourites, CountUnreadable, Concludes, Failures

\* The tail of deserializer reports a block that was too short.
LEMMA ConcludeKeepsLoss ==
  ASSUME LossInv, pc \in Reading, NEW next \in Reading,
         BlockFound, Concludes(next), UNCHANGED ret
  PROVE  LossInv'
BY DEF LossInv, BlockFound, Concludes, Conclude, Leave, Go, Fail, Failures,
       Reading, Starting

\* A loop, or a part of file_reader, that found no block ends with CG_EOF.
LEMMA FailKeepsLoss ==
  ASSUME LossInv, pc \in Reading, NEW e \in Failures, Fail(e), UNCHANGED ret
  PROVE  LossInv'
BY DEF LossInv, Fail, Failures, Reading, Starting

\* A part that goes on to a later one leaves a loss visible in the cursor.
LEMMA GoKeepsLoss ==
  ASSUME LossInv, pc \in Reading, NEW next \in Reading, Go(next),
         UNCHANGED ret, lost' => cur' = "past"
  PROVE  LossInv'
BY DEF LossInv, Go, Reading, Starting

\* Nothing is lost before anything is read.
LEMMA InitLoss == Init => LossInv
BY DEF Init, LossInv, Starting, Reading

\* Every step leaves a loss visible in the cursor or in the error code.
LEMMA NextLoss == LossInv /\ [Next]_vars => LossInv'
<1>1. SUFFICES ASSUME LossInv, [Next]_vars PROVE LossInv'
  OBVIOUS
<1>. USE <1>1
<1>24. CASE MapFile
  BY <1>24 DEF MapFile, Go, LossInv, Starting, Reading
<1>25. CASE AllocSave
  BY <1>25 DEF AllocSave, Go, LossInv, Starting, Reading
<1>26. CASE CheckSize
  BY <1>26 DEF CheckSize, Go, LossInv, Starting, Reading, outside
<1>2. CASE ReadSignature
  BY <1>2 DEF ReadSignature, Go, Fail, LossInv, Starting, Reading, outside
<1>3. CASE ReadHeader
  <2>1. pc \in Reading /\ UNCHANGED ret /\ "snapshot" \in Reading /\ "CG_EOF" \in Failures
    BY <1>3 DEF ReadHeader, outside, Reading, Failures
  <2>2. CASE Fail("CG_EOF")
    BY <2>1, <2>2, FailKeepsLoss
  <2>3. CASE BlockFound /\ file_header("snapshot")
    BY <2>1, <2>3, HeaderConcludes, ConcludeKeepsLoss
  <2>4. QED BY <1>3, <2>2, <2>3 DEF ReadHeader
<1>4. CASE ReadSnapshot
  BY <1>4 DEF ReadSnapshot, Unchecked, Delivered, Refused, Go, Fail, LossInv,
              Starting, Reading, outside
<1>5. CASE ContinueInFile
  BY <1>5 DEF ContinueInFile, Go, LossInv, Starting, Reading, outside
<1>6. CASE SizesMissing
  BY <1>6 DEF SizesMissing, Refused, Fail, LossInv, Starting, Reading, outside
<1>7. CASE SkipToBody
  BY <1>7 DEF SkipToBody, Skipped, Go, LossInv, Starting, Reading, outside
<1>8. CASE DecompressBody
  BY <1>8 DEF DecompressBody, Go, Fail, LossInv, Starting, Reading, outside
<1>9. CASE ReadVersion
  BY <1>9 DEF ReadVersion, Delivered, Refused, Go, Fail, LossInv, Starting,
              Reading, outside
<1>10. CASE ReadPlugins
  <2>1. pc \in Reading /\ UNCHANGED ret /\ "locations" \in Reading /\ "CG_EOF" \in Failures
    BY <1>10 DEF ReadPlugins, outside, Reading, Failures
  <2>2. CASE Fail("CG_EOF")
    BY <2>1, <2>2, FailKeepsLoss
  <2>3. CASE BlockFound /\ plugin_info("locations")
    BY <2>1, <2>3, PluginsConclude, ConcludeKeepsLoss
  <2>4. QED BY <1>10, <2>2, <2>3 DEF ReadPlugins
<1>11. CASE ReadLocations
  <2>1. pc = "locations" /\ pc' = "globals" /\ UNCHANGED <<err, ret>>
    BY <1>11 DEF ReadLocations, Go, outside
  <2>2. (cur = "inside" /\ Skipped) \/ Refused
    BY <1>11 DEF ReadLocations
  <2>3. QED BY <2>1, <2>2 DEF Skipped, Refused, LossInv, Starting, Reading
<1>12. ASSUME NEW table \in {"globals", "late_globals"}, ReadGlobal(table)
       PROVE  LossInv'
  <2>1. pc \in Reading /\ UNCHANGED ret /\ table \in Reading
        /\ "CG_EOF" \in Failures /\ "CG_CORRUPT" \in Failures
    BY <1>12 DEF ReadGlobal, outside, Reading, Failures
  <2>2. CASE Fail("CG_EOF") \/ Fail("CG_CORRUPT")
    BY <2>1, <2>2, FailKeepsLoss
  <2>3. CASE \E t \in KnownTypes : BlockFound /\ Deserialize(t, table)
    BY <2>1, <2>3, GlobalConcludes, ConcludeKeepsLoss
  <2>4. CASE \E u \in UnknownTypes : BlockFound /\ unknown_global(u, table)
    BY <2>1, <2>4, GlobalConcludes, ConcludeKeepsLoss
  <2>5. QED BY <1>12, <2>2, <2>3, <2>4 DEF ReadGlobal
<1>13. ASSUME NEW table \in Reading, NEW next \in Reading, EndOfTable(table, next)
       PROVE  LossInv'
  BY <1>13 DEF EndOfTable, Go, LossInv, Starting, Reading, outside
<1>14. CASE AllocChangeForms
  BY <1>14 DEF AllocChangeForms, Go, Fail, LossInv, Starting, Reading, outside
<1>15. CASE ReadChangeForm
  BY <1>15 DEF ReadChangeForm, NoBlock, BlockFound, After, Place, Go, Fail,
               LossInv, Starting, Reading, outside
<1>16. CASE ReadFormIds
  BY <1>16 DEF ReadFormIds, CountedArray, Delivered, Refused, Go, Fail,
               LossInv, Starting, Reading, outside
<1>17. CASE ReadWorldSpaces
  BY <1>17 DEF ReadWorldSpaces, CountedArray, Delivered, Refused, Go, Fail,
               LossInv, Starting, Reading, outside
<1>18. CASE ReadUnknown3
  BY <1>18 DEF ReadUnknown3, Delivered, Refused, Go, Fail, LossInv, Starting,
               Reading, outside
<1>19. CASE Cleanup
  BY <1>19 DEF Cleanup, Go, LossInv, Starting, Reading
<1>20. CASE Return
  BY <1>20 DEF Return, Go, LossInv, Starting, Reading
<1>21. CASE Release
  BY <1>21 DEF Release, Go, LossInv, Starting, Reading, outside
<1>22. CASE UNCHANGED vars
  BY <1>22 DEF vars, LossInv
<1>23. QED
  <2>1. {"globals", "forms", "late_globals", "change_forms", "form_ids"} \subseteq Reading
    BY DEF Reading
  <2>2. QED
    BY <2>1, <1>24, <1>25, <1>26, <1>2, <1>3, <1>4, <1>5, <1>6, <1>7, <1>8, <1>9,
       <1>10, <1>11, <1>12, <1>13, <1>14, <1>15, <1>16, <1>17, <1>18, <1>19,
       <1>20, <1>21, <1>22 DEF Next, Ended

\* Wherever reading stands, missing bytes show in the cursor or in the error code
\* that file_reader returns.
THEOREM SpecLoss == Spec => []LossInv
BY InitLoss, NextLoss, PTL DEF Spec

\* However many unchecked loads fail, and wherever, the caller never gets a save
\* with bytes missing.
THEOREM ReadsCompletely == Spec => []CompleteOrNothing
<1>1. LossInv => CompleteOrNothing BY DEF LossInv, CompleteOrNothing
<1>2. QED BY SpecLoss, <1>1, PTL

-----------------------------------------------------------------------------
\* An array that savegame_free can deal with: it does not look beyond the end,
\* and what is not NULL is allocated.
SafeArray == {r \in Array : (r.set => r.num <= r.len) /\ r.full = r.live}

Early == Starting \cup {"signature", "header", "snapshot", "body", "version",
                       "plugins", "locations"}

HeapInv ==
    /\ arr \in [Arrays -> SafeArray]
    /\ left \in [globals : Count, forms : Count, late_globals : Count]
    /\ pc \in Early => ~arr["change_forms"].set
    /\ pc = "forms" => /\ arr["change_forms"].set
                       /\ arr["change_forms"].full + left.forms = arr["change_forms"].len

\* calloc gives a safe array, whether it succeeds or not.
LEMMA CallocSafe ==
  /\ 0 \in Count
  /\ NoArray \in SafeArray /\ ~NoArray.set
  /\ \A n \in Count : /\ Unallocated(n) \in SafeArray
                      /\ ~Unallocated(n).set
  /\ \A n, k \in Count : /\ Allocated(n, k) \in SafeArray
                         /\ Allocated(n, k).set
                         /\ Allocated(n, k).full = k
                         /\ Allocated(n, k).len = n
<1>1. 0 \in Count /\ \A n \in Count : n \in Int
  BY DEF Count
<1>2. NoArray \in SafeArray /\ ~NoArray.set
  BY <1>1 DEF NoArray, SafeArray, Array
<1>3. ASSUME NEW n \in Count
      PROVE  Unallocated(n) \in SafeArray /\ ~Unallocated(n).set
  BY <1>1 DEF Unallocated, NoArray, SafeArray, Array
<1>4. ASSUME NEW n \in Count, NEW k \in Count
      PROVE  /\ Allocated(n, k) \in SafeArray /\ Allocated(n, k).set
             /\ Allocated(n, k).full = k /\ Allocated(n, k).len = n
  BY <1>1 DEF Allocated, SafeArray, Array
<1>5. QED BY <1>1, <1>2, <1>3, <1>4

\* Setting the count of an array to 0 is always safe.
LEMMA ZeroSafe ==
  ASSUME NEW r \in SafeArray PROVE [r EXCEPT !.num = 0] \in SafeArray
BY DEF SafeArray, Array, Count

\* read_le16_str_array leaves a safe array behind on every exit.
LEMMA StringArraysSafe ==
  ASSUME NEW p \in StringArrays PROVE p.array \in SafeArray
<1>1. \A a, e, short : Result(a, e, short).array = a
  BY DEF Result
<1>2. CASE p = Result(NoArray, "CG_EOF", TRUE)
  <2>1. p.array = NoArray BY <1>1, <1>2
  <2>2. QED BY <2>1, CallocSafe
<1>3. ASSUME NEW n \in Count, p = Result(Unallocated(n), "CG_NO_MEM", FALSE)
      PROVE  p.array \in SafeArray
  <2>1. p.array = Unallocated(n) BY <1>1, <1>3
  <2>2. QED BY <2>1, CallocSafe
<1>4. ASSUME NEW n \in Count, p = Result(Allocated(n, 0), "CG_NO_MEM", FALSE)
      PROVE  p.array \in SafeArray
  <2>1. p.array = Allocated(n, 0) BY <1>1, <1>4
  <2>2. QED BY <2>1, CallocSafe
<1>5. ASSUME NEW n \in Count, p = Result(Allocated(n, 0), "CG_EOF", TRUE)
      PROVE  p.array \in SafeArray
  <2>1. p.array = Allocated(n, 0) BY <1>1, <1>5
  <2>2. QED BY <2>1, CallocSafe
<1>6. ASSUME NEW n \in Count, p = Result(Allocated(n, n), "CG_OK", FALSE)
      PROVE  p.array \in SafeArray
  <2>1. p.array = Allocated(n, n) BY <1>1, <1>6
  <2>2. QED BY <2>1, CallocSafe
<1>7. QED BY <1>2, <1>3, <1>4, <1>5, <1>6 DEF StringArrays

\* Each case of deserializer keeps the arrays safe and leaves the change forms
\* alone.
HeapKept == /\ arr' \in [Arrays -> SafeArray]
            /\ arr'["change_forms"] = arr["change_forms"]

\* Overwriting the pointer of an array other than the change forms keeps the heap.
LEMMA ReplaceKeeps ==
  ASSUME arr \in [Arrays -> SafeArray], NEW a \in Arrays \ {"change_forms"},
         NEW r \in SafeArray, arr' = [arr EXCEPT ![a] = r]
  PROVE  HeapKept
BY DEF HeapKept, Arrays, Owning

\* So does setting its count to 0.
LEMMA NumZeroKeeps ==
  ASSUME arr \in [Arrays -> SafeArray], NEW a \in Arrays \ {"change_forms"},
         arr' = [arr EXCEPT ![a].num = 0]
  PROVE  HeapKept
<1>1. arr' = [arr EXCEPT ![a] = [arr[a] EXCEPT !.num = 0]]
  OBVIOUS
<1>2. QED BY <1>1, ZeroSafe, ReplaceKeeps

\* The plugin information keeps the heap on every exit.
LEMMA PluginsKeep ==
  ASSUME arr \in [Arrays -> SafeArray], NEW next, plugin_info(next)
  PROVE  HeapKept
<1>1. "plugins" \in Arrays /\ "light_plugins" \in Arrays /\ "change_forms" \in Arrays
  BY DEF Arrays, Owning
<1>2. PICK p \in StringArrays :
        \/ arr' = [arr EXCEPT !["plugins"] = p.array]
        \/ \E l \in StringArrays : arr' = [arr EXCEPT !["plugins"] = p.array,
                                                    !["light_plugins"] = l.array]
  BY DEF plugin_info
<1>3. \A q \in StringArrays : q.array \in SafeArray
  BY StringArraysSafe
<1>4. QED BY <1>1, <1>2, <1>3 DEF HeapKept

\* So do the favourites and the hotkeys.
LEMMA FavouritesKeep ==
  ASSUME arr \in [Arrays -> SafeArray], NEW next, favourites(next)
  PROVE  HeapKept
<1>1. "favourites" \in Arrays /\ "hotkeys" \in Arrays /\ "change_forms" \in Arrays
  BY DEF Arrays, Owning
<1>2. \A n \in Count : Allocated(n, 0) \in SafeArray /\ Unallocated(n) \in SafeArray
  BY CallocSafe
<1>3. \/ arr' = arr
      \/ \E r \in SafeArray : arr' = [arr EXCEPT !["favourites"] = r]
      \/ \E r, h \in SafeArray : arr' = [arr EXCEPT !["favourites"] = r, !["hotkeys"] = h]
  BY <1>2 DEF favourites, Replace
<1>4. QED BY <1>1, <1>3 DEF HeapKept

\* So do the misc stats, with as many names as could be read.
LEMMA MiscStatsKeep ==
  ASSUME arr \in [Arrays -> SafeArray], NEW next, misc_stats(next)
  PROVE  HeapKept
<1>1. "misc_stats" \in Arrays \ {"change_forms"}
  BY DEF Arrays, Owning
<1>2. CASE arr' = [arr EXCEPT !["misc_stats"].num = 0]
  BY <1>1, <1>2, NumZeroKeeps
<1>3. CASE \E n \in Count \ {0} : Replace("misc_stats", Unallocated(n))
  BY ZenonT(40), <1>1, <1>3, CallocSafe, ReplaceKeeps DEF Replace
<1>4. CASE \E n \in Count \ {0} : \E k \in 0..n : Replace("misc_stats", Allocated(n, k))
  <2>1. PICK n \in Count, k \in Count : Replace("misc_stats", Allocated(n, k))
    BY <1>4 DEF Count
  <2>2. QED BY <1>1, <2>1, CallocSafe, ReplaceKeeps DEF Replace
<1>5. QED BY <1>2, <1>3, <1>4 DEF misc_stats

\* So do the global variables.
LEMMA GlobalVarsKeep ==
  ASSUME arr \in [Arrays -> SafeArray], NEW next, global_vars(next)
  PROVE  HeapKept
<1>1. "global_vars" \in Arrays \ {"change_forms"} 
  BY DEF Arrays, Owning
<1>2. CASE arr' = arr
  BY <1>2 DEF HeapKept
<1>3. CASE arr' = [arr EXCEPT !["global_vars"].num = 0]
  BY <1>1, <1>3, NumZeroKeeps
<1>4. CASE \E n \in Count : \/ Replace("global_vars", Unallocated(n))
                            \/ Replace("global_vars", Allocated(n, 0))
  BY <1>1, <1>4, CallocSafe, ReplaceKeeps DEF Replace
<1>5. QED BY <1>2, <1>3, <1>4 DEF global_vars

\* So does every global data structure, known or unknown.
LEMMA GlobalKeeps ==
  ASSUME arr \in [Arrays -> SafeArray], NEW next, NEW t, NEW u,
         Deserialize(t, next) \/ unknown_global(u, next)
  PROVE  HeapKept
<1>1. CASE arr' = arr
  BY <1>1 DEF HeapKept
<1>2. QED BY <1>1, MiscStatsKeep, GlobalVarsKeep, FavouritesKeep
          DEF Deserialize, unknown_global, player_location, weather

-----------------------------------------------------------------------------
\* The parts of file_reader that leave the arrays alone, apart from the loops
\* over blocks.
Idle == UNCHANGED <<arr, left>> /\ pc' # "forms" /\ (pc' \in Early => pc \in Early)

\* They keep the heap.
LEMMA IdleKeepsHeap == HeapInv /\ Idle => HeapInv'
BY DEF HeapInv, Idle

\* calloc of the save leaves every pointer NULL and every count 0.
LEMMA InitHeap == Init => HeapInv
BY CallocSafe DEF Init, HeapInv, Arrays, Owning

\* Where deserializer leaves control.
LEMMA ConcludeGoes ==
  ASSUME NEW next, Concludes(next) PROVE pc' \in {next, "cleanup"}
BY DEF Concludes, Conclude, Leave, Go, Fail

\* Every step leaves a heap behind that savegame_free can walk.
LEMMA NextHeap == HeapInv /\ [Next]_vars => HeapInv'
<1>1. SUFFICES ASSUME HeapInv, [Next]_vars PROVE HeapInv'
  OBVIOUS
<1>. USE <1>1
<1>a. arr \in [Arrays -> SafeArray] /\ "change_forms" \in Arrays
  BY DEF HeapInv, Arrays, Owning
<1>2. CASE MapFile \/ AllocSave \/ CheckSize \/ ReadSignature \/ ContinueInFile
           \/ SizesMissing \/ SkipToBody \/ DecompressBody \/ Cleanup
  <2>1. Idle
    BY <1>2 DEF MapFile, AllocSave, CheckSize, ReadSignature, ContinueInFile,
         SizesMissing, SkipToBody, DecompressBody, Cleanup, Go, Fail, heap, Idle,
         Early, Starting
  <2>2. QED BY <2>1, IdleKeepsHeap
<1>3. CASE ReadHeader
  <2>1. pc = "header" /\ UNCHANGED <<arr, left>> /\ pc' \in {"snapshot", "cleanup"}
    BY <1>3, HeaderConcludes, ConcludeGoes DEF ReadHeader, Fail
  <2>2. QED BY <2>1, IdleKeepsHeap DEF Idle, Early
<1>4. CASE ReadSnapshot \/ ReadVersion \/ ReadUnknown3
  <2>1. Idle
    BY <1>4 DEF ReadSnapshot, ReadVersion, ReadUnknown3, Go, Fail, Idle, Early,
         Starting
  <2>2. QED BY <2>1, IdleKeepsHeap
<1>5. CASE ReadPlugins
  <2>1. pc' \in {"locations", "cleanup"} /\ UNCHANGED left /\ pc = "plugins"
    BY <1>5, PluginsConclude, ConcludeGoes DEF ReadPlugins, Fail
  <2>2. arr' = arr \/ HeapKept
    BY <1>5, <1>a, PluginsKeep DEF ReadPlugins
  <2>3. QED BY <2>1, <2>2 DEF HeapInv, HeapKept, Early
<1>6. CASE ReadLocations
  <2>1. pc = "locations" /\ pc' = "globals"
    BY <1>6 DEF ReadLocations, Go
  <2>2. PICK n \in [1..4 -> Count], there \in 0..4 :
          LET count(k) == IF k <= there THEN n[k] ELSE 0
          IN  /\ left' = [globals      |-> (count(1) + count(2)) % CountMod,
                          late_globals |-> (count(3) + 1) % CountMod,
                          forms        |-> count(4)]
              /\ arr' = [arr EXCEPT !["change_forms"].num = count(4)]
    BY <1>6 DEF ReadLocations
  <2>3. \A i \in Int : i % CountMod \in Count
    BY DEF Count
  <2>4. \A k \in 1..4 : n[k] \in Count /\ n[k] \in Int
    BY DEF Count
  <2>5. 0 \in Count
    BY CallocSafe
  <2>6. left' \in [globals : Count, forms : Count, late_globals : Count]
    BY <2>2, <2>3, <2>4, <2>5
  <2>7. PICK c \in Count : arr' = [arr EXCEPT !["change_forms"].num = c]
    <3> DEFINE c == IF 4 <= there THEN n[4] ELSE 0
    <3>1. c \in Count
      BY <2>4, <2>5
    <3>2. arr' = [arr EXCEPT !["change_forms"].num = c]
      BY <2>2
    <3> HIDE DEF c
    <3>3. QED BY <3>1, <3>2
  <2>8. [arr["change_forms"] EXCEPT !.num = c] \in SafeArray
    BY <1>a, <2>1 DEF HeapInv, Early, SafeArray, Array
  <2>9. arr' \in [Arrays -> SafeArray]
    BY <1>a, <2>7, <2>8
  <2>10. QED BY <2>1, <2>6, <2>9 DEF HeapInv, Early, Starting
<1>7. ASSUME NEW table \in {"globals", "late_globals"}, ReadGlobal(table)
      PROVE  HeapInv'
  <2>1. pc = table /\ pc' \in {table, "cleanup"}
    BY <1>7, GlobalConcludes, ConcludeGoes DEF ReadGlobal, Fail
  <2>2. left[table] \in Count /\ left[table] > 0 /\ left' = [left EXCEPT ![table] = @ - 1]
    BY <1>7 DEF ReadGlobal, Round, HeapInv
  <2>3. left[table] - 1 \in Count
    BY <2>2 DEF Count
  <2>4. left' \in [globals : Count, forms : Count, late_globals : Count]
    BY <2>2, <2>3 DEF HeapInv
  <2>5. arr' = arr \/ HeapKept
    BY <1>7, <1>a, GlobalKeeps DEF ReadGlobal, heap
  <2>6. QED BY <2>1, <2>4, <2>5 DEF HeapInv, HeapKept, Early, Starting
<1>8. ASSUME NEW table, NEW next \in {"change_forms", "late_globals", "form_ids"},
             EndOfTable(table, next)
      PROVE  HeapInv'
  <2>1. Idle
    BY <1>8 DEF EndOfTable, Go, heap, Idle, Early, Starting
  <2>2. QED BY <2>1, IdleKeepsHeap
<1>9. CASE AllocChangeForms
  <2>1. left.forms \in Count /\ UNCHANGED left /\ pc' \in {"forms", "cleanup"}
    BY <1>9 DEF AllocChangeForms, HeapInv, Go, Fail
  <2>2. CASE Replace("change_forms", Allocated(left.forms, 0))
    <3>1. arr' \in [Arrays -> SafeArray] /\ arr'["change_forms"] = Allocated(left.forms, 0)
      BY <1>a, <2>1, <2>2, CallocSafe DEF Replace
    <3>2. /\ arr'["change_forms"].set /\ arr'["change_forms"].full = 0
          /\ arr'["change_forms"].len = left.forms
      BY <2>1, <3>1, CallocSafe
    <3>3. 0 + left.forms = left.forms
      BY <2>1 DEF Count
    <3>4. QED BY <2>1, <3>1, <3>2, <3>3 DEF HeapInv, Early, Starting
  <2>3. CASE Replace("change_forms", Unallocated(left.forms)) /\ Fail("CG_NO_MEM")
    <3>1. arr' \in [Arrays -> SafeArray]
      BY <1>a, <2>1, <2>3, CallocSafe DEF Replace
    <3>2. QED BY <2>1, <2>3, <3>1 DEF HeapInv, Early, Starting, Fail
  <2>4. QED BY <1>9, <2>2, <2>3 DEF AllocChangeForms
<1>10. CASE ReadChangeForm
  <2>1. /\ pc = "forms" /\ pc' \in {"forms", "cleanup"}
        /\ left.forms \in Count /\ left.forms > 0 /\ left' = [left EXCEPT !.forms = @ - 1]
    BY <1>10 DEF ReadChangeForm, Round, HeapInv, Go, Fail
  <2>2. left.forms - 1 \in Count /\ left.forms - 1 + 1 = left.forms
    BY <2>1 DEF Count
  <2>3. /\ left' \in [globals : Count, forms : Count, late_globals : Count]
        /\ left'.forms = left.forms - 1
    BY <2>1, <2>2 DEF HeapInv
  <2>4. CASE arr' = arr /\ pc' = "cleanup"
    BY <2>3, <2>4 DEF HeapInv, Early, Starting
  <2>5. CASE arr' = [arr EXCEPT !["change_forms"].full = @ + 1,
                                !["change_forms"].live = @ + 1]
    <3> DEFINE r == arr["change_forms"]
               s == [r EXCEPT !.full = @ + 1, !.live = @ + 1]
    <3>1. arr' = [arr EXCEPT !["change_forms"] = s]
      BY <1>a, <2>5
    <3>2. /\ r \in SafeArray /\ r.set /\ r.full = r.live
          /\ r.full + left.forms = r.len
      BY <1>a, <2>1 DEF HeapInv, SafeArray
    <3>3. r.full \in Count /\ r.len \in Count
      BY <3>2 DEF SafeArray, Array
    <3>4. r.full + 1 \in Count
      BY <2>1, <3>2, <3>3 DEF Count
    <3>5. s \in SafeArray /\ s.set /\ s.len = r.len /\ s.full = r.full + 1
      BY <3>2, <3>4 DEF SafeArray, Array
    <3>6. s.full + left'.forms = s.len
      BY <2>1, <2>3, <3>2, <3>3, <3>5 DEF Count
    <3>7. arr' \in [Arrays -> SafeArray] /\ arr'["change_forms"] = s
      BY <1>a, <3>1, <3>5
    <3>8. QED BY <2>1, <2>3, <3>5, <3>6, <3>7 DEF HeapInv, Early, Starting
  <2>6. QED BY <1>10, <2>4, <2>5 DEF ReadChangeForm, Fail
<1>11. ASSUME NEW a \in {"form_ids", "world_spaces"}, NEW next \in {"world_spaces", "unknown3"},
              CountedArray(a, next), UNCHANGED left
       PROVE  HeapInv'
  <2>1. a \in Arrays \ {"change_forms"}
    BY DEF Arrays, Owning
  <2>2. pc' \in {next, "cleanup"}
    BY <1>11 DEF CountedArray, Go, Fail
  <2>3. PICK r \in SafeArray : arr' = [arr EXCEPT ![a] = r]
    BY <1>11, CallocSafe DEF CountedArray, Replace
  <2>4. HeapKept
    BY <1>a, <2>1, <2>3, ReplaceKeeps
  <2>5. QED BY <1>11, <2>2, <2>4 DEF HeapInv, HeapKept, Early, Starting
<1>12. CASE ReadFormIds \/ ReadWorldSpaces
  <2>1. CASE UNCHANGED arr /\ pc' \in {"cleanup", "unmap"}
    <3>1. Idle
      BY <1>12, <2>1 DEF ReadFormIds, ReadWorldSpaces, Idle, Early, Starting
    <3>2. QED BY <3>1, IdleKeepsHeap
  <2>2. QED BY <1>11, <1>12, <2>1 DEF ReadFormIds, ReadWorldSpaces, Fail
<1>13. CASE Return \/ Release
  <2>1. UNCHANGED left /\ pc' \in {"returned", "released"}
    BY <1>13 DEF Return, Release, Go
  <2>2. arr' = arr \/ arr' = [a \in Arrays |-> NoArray]
    BY <1>13 DEF Return, Release, savegame_free, heap
  <2>3. arr' \in [Arrays -> SafeArray]
    BY <1>a, <2>2, CallocSafe
  <2>4. QED BY <2>1, <2>3 DEF HeapInv, Early, Starting
<1>14. CASE UNCHANGED vars
  BY <1>14 DEF vars, HeapInv
<1>15. QED
  BY <1>2, <1>3, <1>4, <1>5, <1>6, <1>7, <1>8, <1>9, <1>10, <1>12, <1>13, <1>14
     DEF Next, Ended

\* In every reachable state of the reader each array is safe to free, and the
\* change forms have room for those that are still to come.
THEOREM SpecHeap == Spec => []HeapInv
BY InitHeap, NextHeap, PTL DEF Spec

\* Whatever the file holds and wherever reading it stops, savegame_free does not
\* run past the end of an array and does not touch an element freed before.
THEOREM FreeIsSafe == Spec => []FreeableAnyTime
<1>1. HeapInv => FreeableAnyTime
  BY DEF HeapInv, FreeableAnyTime, SafeArray
<1>2. QED BY SpecHeap, <1>1, PTL

-----------------------------------------------------------------------------
\* The parts of file_reader in front of the body, and those that read it.
Front == {"signature", "header", "snapshot", "body"}
Behind == Reading \ Front

\* There is no body buffer in front of the body; behind it there is one exactly if
\* the header named a compressor, which it does only if the format has one.
LiveInv ==
    /\ save \in Save
    /\ pc \in Starting \cup Front => body = "none"
    /\ pc \in Starting \cup {"signature", "header"} => save.compressor = "none"
    /\ pc \in {"snapshot", "body"} =>
         (supports_save_file_compression(save) \/ save.compressor = "none")
    /\ pc \in Reading => mapped = "yes"
    /\ pc \in Behind => (body = "live" <=> save.compressor # "none")

\* A step of the body's reader that leaves buffer, mapping and compressor alone.
Steady == /\ pc \in Behind /\ pc' \in Behind \cup Leaving
          /\ UNCHANGED <<mapped, body>>
          /\ save' \in Save /\ save'.compressor = save.compressor

\* Such a step keeps what it reads alive.
LEMMA SteadyKeepsLive == LiveInv /\ Steady => LiveInv'
BY DEF LiveInv, Steady, Behind, Front, Reading, Leaving, Starting

\* savegame_alloc names no compressor.
LEMMA InitLive == Init => LiveInv
BY DEF Init, LiveInv, Save, Starting, Front, Behind, Reading

\* The header names a compressor only in a format that has one.
LEMMA HeaderKeepsLive == LiveInv /\ ReadHeader => LiveInv'
<1>1. SUFFICES ASSUME LiveInv, ReadHeader PROVE LiveInv'
  OBVIOUS
<1>2. pc = "header" /\ save \in Save /\ save.compressor = "none" /\ UNCHANGED <<body, mapped>>
  BY <1>1 DEF LiveInv, ReadHeader, outside, Starting
<1>3. pc' \in {"snapshot", "cleanup"}
  BY Zenon, <1>1, HeaderConcludes, ConcludeGoes DEF ReadHeader, Fail
<1>4. save' \in Save /\ (supports_save_file_compression(save') \/ save'.compressor = "none")
  <2>1. CASE save' = save
    BY <1>2, <2>1
  <2>2. ASSUME NEW v \in FileVersions, save' = [save EXCEPT !.file_version = v]
        PROVE  save' \in Save /\ save'.compressor = "none"
    BY <1>2, <2>2 DEF Save
  <2>3. ASSUME NEW v \in FileVersions, NEW c \in {"none", "zlib", "lz4"},
               supports_save_file_compression([save EXCEPT !.file_version = v]),
               save' = [[save EXCEPT !.file_version = v] EXCEPT !.compressor = c]
        PROVE  save' \in Save /\ supports_save_file_compression(save')
    <3> DEFINE read == [save EXCEPT !.file_version = v]
    <3>1. read \in Save
      BY <1>2 DEF Save
    <3>2. save' \in Save /\ save'.game = read.game /\ save'.file_version = read.file_version
      BY <2>3, <3>1 DEF Save
    <3>3. QED BY <2>3, <3>2 DEF supports_save_file_compression
  <2>4. \/ save' = save
        \/ \E v \in FileVersions : save' = [save EXCEPT !.file_version = v]
        \/ \E v \in FileVersions, c \in {"none", "zlib", "lz4"} :
             /\ supports_save_file_compression([save EXCEPT !.file_version = v])
             /\ save' = [[save EXCEPT !.file_version = v] EXCEPT !.compressor = c]
    BY <1>1 DEF ReadHeader, file_header
  <2>5. QED BY <2>1, <2>2, <2>3, <2>4
<1>5. body = "none" /\ mapped = "yes"
  BY <1>1, <1>2 DEF LiveInv, Front, Reading
<1>6. QED BY <1>2, <1>3, <1>4, <1>5 DEF LiveInv, Starting, Front, Behind, Reading

\* Every step reads from what is there.
LEMMA NextLive == LiveInv /\ [Next]_vars => LiveInv'
<1>1. SUFFICES ASSUME LiveInv, [Next]_vars PROVE LiveInv'
  OBVIOUS
<1>. USE <1>1
<1>2. CASE MapFile \/ AllocSave \/ CheckSize
  BY <1>2 DEF MapFile, AllocSave, CheckSize, Go, outside, LiveInv, Starting, Front,
       Behind, Reading
<1>3. CASE ReadSignature
  BY <1>3 DEF ReadSignature, Go, Fail, outside, LiveInv, Save, Starting, Front, Behind,
       Reading
<1>4. CASE ReadHeader
  BY <1>4, HeaderKeepsLive
<1>5. CASE ReadSnapshot
  BY <1>5 DEF ReadSnapshot, Go, Fail, outside, LiveInv, Starting, Front, Behind, Reading
<1>6. CASE ContinueInFile \/ SizesMissing \/ SkipToBody
  BY <1>6 DEF ContinueInFile, SizesMissing, SkipToBody, Go, Fail, outside, LiveInv,
       Starting, Front, Behind, Reading
<1>7. CASE DecompressBody
  BY <1>7 DEF DecompressBody, Go, Fail, LiveInv, Starting, Front, Behind, Reading
<1>8. CASE ReadVersion
  <2>1. pc = "version" /\ pc' \in {"plugins", "cleanup"} /\ UNCHANGED <<mapped, body>>
    BY <1>8 DEF ReadVersion, Go, Fail, outside
  <2>2. save' \in Save /\ save'.compressor = save.compressor
    BY <1>8 DEF ReadVersion, LiveInv, Save
  <2>3. QED BY <2>1, <2>2, SteadyKeepsLive DEF Steady, Behind, Front, Reading, Leaving
<1>9. CASE ReadPlugins
  <2>1. pc = "plugins" /\ pc' \in {"locations", "cleanup"} /\ UNCHANGED <<mapped, body, save>>
    BY <1>9, PluginsConclude, ConcludeGoes DEF ReadPlugins, Fail, outside
  <2>2. QED BY <2>1, SteadyKeepsLive DEF Steady, LiveInv, Behind, Front, Reading, Leaving
<1>10. ASSUME NEW table \in {"globals", "late_globals"}, ReadGlobal(table)
       PROVE  LiveInv'
  <2>1. pc = table /\ pc' \in {table, "cleanup"} /\ UNCHANGED <<mapped, body, save>>
    BY <1>10, GlobalConcludes, ConcludeGoes DEF ReadGlobal, Fail, outside
  <2>2. QED BY <2>1, SteadyKeepsLive DEF Steady, LiveInv, Behind, Front, Reading, Leaving
<1>11. ASSUME NEW table \in {"globals", "forms", "late_globals"},
              NEW next \in {"change_forms", "late_globals", "form_ids"},
              EndOfTable(table, next)
       PROVE  LiveInv'
  <2>1. pc = table /\ pc' = next /\ UNCHANGED <<mapped, body, save>>
    BY <1>11 DEF EndOfTable, Go, outside
  <2>2. QED BY <2>1, SteadyKeepsLive DEF Steady, LiveInv, Behind, Front, Reading
<1>12. CASE ReadLocations \/ AllocChangeForms \/ ReadChangeForm
  <2>1. /\ pc \in {"locations", "change_forms", "forms"}
        /\ pc' \in {"globals", "forms", "cleanup"}
        /\ UNCHANGED <<mapped, body, save>>
    BY <1>12 DEF ReadLocations, AllocChangeForms, ReadChangeForm, Go, Fail, outside
  <2>2. QED BY <2>1, SteadyKeepsLive DEF Steady, LiveInv, Behind, Front, Reading, Leaving
<1>13. CASE ReadFormIds \/ ReadWorldSpaces \/ ReadUnknown3
  <2>1. /\ pc \in {"form_ids", "world_spaces", "unknown3"}
        /\ pc' \in {"world_spaces", "unknown3", "cleanup", "unmap"}
        /\ UNCHANGED <<mapped, body, save>>
    BY <1>13 DEF ReadFormIds, ReadWorldSpaces, ReadUnknown3, CountedArray, Go, Fail, outside
  <2>2. QED BY <2>1, SteadyKeepsLive DEF Steady, LiveInv, Behind, Front, Reading, Leaving
<1>14. CASE Cleanup \/ Return \/ Release
  BY <1>14 DEF Cleanup, Return, Release, Go, outside, LiveInv, Starting, Front, Behind,
       Reading
<1>15. CASE UNCHANGED vars
  BY <1>15 DEF vars, LiveInv
<1>16. QED
  BY <1>2, <1>3, <1>4, <1>5, <1>6, <1>7, <1>8, <1>9, <1>10, <1>11, <1>12, <1>13,
     <1>14, <1>15 DEF Next, Ended

\* In every reachable state the body buffer is what the save's compressor says.
THEOREM SpecLive == Spec => []LiveInv
BY InitLive, NextLive, PTL DEF Spec

\* Whatever a file claims, nothing is loaded from a mapping that failed, from a file
\* that has been unmapped, or from a body buffer that is not there or no longer there.
THEOREM ReadsOnlyLiveBytes == Spec => []ReadsLiveBytes
<1>1. LiveInv => ReadsLiveBytes
  BY DEF LiveInv, ReadsLiveBytes, Behind, Front
<1>2. QED BY SpecLive, <1>1, PTL
-----------------------------------------------------------------------------
(***************************************************************************)
(* What the reader leaves in memory, for every file: which allocations may *)
(* become unreachable, and what a save that is returned is made of.        *)
(*                                                                         *)
(* LeakInv says which pointers are still NULL while which part reads, so   *)
(* that only a global data type that comes twice overwrites one.           *)
(* WritableInv and PtrInv say what is complete as long as there was no     *)
(* error.                                                                  *)
(***************************************************************************)

\* The arrays a known global data type fills.
ArraysOf(t) == IF t = "favourites" THEN {"favourites", "hotkeys"}
               ELSE IF t \in {"misc_stats", "global_vars"} THEN {t} ELSE {}

\* savegame_free reaches every element of an array that is set.
Reached(r) == r.set => r.live <= r.num

\* The elements file_writer goes through are there.
Complete(a, r) ==
    r.num > 0 => r.set /\ r.num <= r.len /\ (a \in Owning => r.live >= r.num)

BeforeForms == Early \cup {"globals", "change_forms"}
BeforeIds == BeforeForms \cup {"forms", "late_globals", "form_ids"}
BeforeWorlds == BeforeIds \cup {"world_spaces"}

LeakInv ==
    /\ orphaned => again
    /\ ~again => \A a \in Owning : Reached(arr[a])
    /\ \A t \in Structured, a \in Arrays : a \in ArraysOf(t) /\ arr[a].set => t \in seen
    /\ "data4" \in ptrs => "weather" \in seen
    /\ pc \in BeforeForms => ~arr["change_forms"].set
    /\ pc \in BeforeIds => ~arr["form_ids"].set
    /\ pc \in BeforeWorlds => ~arr["world_spaces"].set
    /\ pc = "forms" => arr["change_forms"].num = arr["change_forms"].len

\* The body buffer outlives file_reader in one case, and never goes with a save that is
\* returned.
BodyInv ==
    /\ pc \in {"unmap", "returned", "released"} /\ body = "live" =>
         err = "CG_EOF" /\ pc # "returned"
    /\ pc = "released" /\ body = "live" => ret = "null"
    /\ pc = "returned" => err = "CG_OK"

Ending == {"cleanup", "unmap", "returned"}
BehindForms == {"late_globals", "form_ids", "world_spaces", "unknown3"} \cup Ending

WritableInv ==
    err = "CG_OK" /\ pc \in Starting \cup Reading \cup Ending =>
      /\ \A a \in Arrays \ {"change_forms"} : Complete(a, arr[a])
      /\ pc \in BehindForms => Complete("change_forms", arr["change_forms"])

Headers == {HeaderStrings[k] : k \in 1..4}
BehindHeader == (Reading \ {"signature", "header"}) \cup Ending
BehindSnapshot == BehindHeader \ {"snapshot"}
BehindVersion == BehindSnapshot \ {"body", "version"}

PtrInv ==
    err = "CG_OK" =>
      /\ pc \in BehindHeader => Headers \subseteq ptrs
      /\ pc \in BehindSnapshot => "snapshot_data" \in ptrs
      /\ pc \in BehindVersion => (save.game = "FALLOUT4" => "game_version" \in ptrs)
      /\ pc \in Ending => "unknown3" \in ptrs
-----------------------------------------------------------------------------
\* A block was deserialised without an error only if nothing went wrong in it.
LEMMA ConcludeOK ==
  ASSUME NEW e, NEW short \in BOOLEAN, NEW next, Conclude(e, short, next),
         err' = "CG_OK"
  PROVE  e = "CG_OK" /\ ~short
BY DEF Conclude, Leave, Go, Fail

\* deserializer sends file_reader to its cleanup only with an error.
LEMMA FailuresFail ==
  ASSUME NEW next, Concludes(next), pc' = "cleanup", next # "cleanup"
  PROVE  err' # "CG_OK"
BY DEF Concludes, Conclude, Leave, Go, Fail

\* calloc: what is allocated is reached, and complete if every element is there.
LEMMA CallocReached ==
  /\ Reached(NoArray) /\ NoArray.num = 0
  /\ \A n \in Count : Reached(Unallocated(n))
  /\ \A n, k \in Count : k <= n => Reached(Allocated(n, k))
  /\ \A a, n, k : k \in Count /\ n \in Count /\ (a \in Owning => k = n)
                    => Complete(a, Allocated(n, k))
<1>1. Reached(NoArray) /\ NoArray.num = 0
  BY DEF Reached, NoArray
<1>2. ASSUME NEW n \in Count PROVE Reached(Unallocated(n))
  BY DEF Reached, Unallocated, NoArray
<1>3. ASSUME NEW n \in Count, NEW k \in Count
      PROVE  /\ Allocated(n, k).num = n /\ Allocated(n, k).len = n
             /\ Allocated(n, k).live = k /\ Allocated(n, k).set
             /\ n \in Int /\ k \in Int
  BY DEF Allocated, Count
<1>4. ASSUME NEW n \in Count, NEW k \in Count, k <= n PROVE Reached(Allocated(n, k))
  BY <1>3, <1>4 DEF Reached
<1>5. ASSUME NEW a, NEW n \in Count, NEW k \in Count, a \in Owning => k = n
      PROVE  Complete(a, Allocated(n, k))
  BY <1>3, <1>5 DEF Complete
<1>6. QED BY <1>1, <1>2, <1>4, <1>5

\* Every exit of read_le16_str_array leaves an array that is reached; success, one
\* that is complete.
LEMMA StringArraysReached ==
  ASSUME NEW p \in StringArrays, NEW a
  PROVE  /\ p.array \in SafeArray
         /\ Reached(p.array)
         /\ p.e = "CG_OK" => Complete(a, p.array)
<1>1. \A r, e, short : Result(r, e, short).array = r /\ Result(r, e, short).e = e
  BY DEF Result
<1>2. CASE p = Result(NoArray, "CG_EOF", TRUE)
  <2>1. p.array = NoArray /\ p.e = "CG_EOF" BY ZenonT(60), <1>1, <1>2
  <2>2. QED BY <2>1, CallocReached, StringArraysSafe
<1>3. ASSUME NEW n \in Count, p = Result(Unallocated(n), "CG_NO_MEM", FALSE)
      PROVE  Reached(p.array) /\ p.e # "CG_OK"
  <2>1. p.array = Unallocated(n) /\ p.e = "CG_NO_MEM" BY ZenonT(60), <1>1, <1>3
  <2>2. QED BY <2>1, CallocReached
<1>4. ASSUME NEW n \in Count, NEW e \in {"CG_NO_MEM", "CG_EOF"}, NEW short \in BOOLEAN,
             p = Result(Allocated(n, 0), e, short)
      PROVE  Reached(p.array) /\ p.e # "CG_OK"
  <2>1. p.array = Allocated(n, 0) /\ p.e = e BY <1>1, <1>4
  <2>2. 0 \in Count /\ 0 <= n BY DEF Count
  <2>3. QED BY <2>1, <2>2, CallocReached
<1>5. ASSUME NEW n \in Count, p = Result(Allocated(n, n), "CG_OK", FALSE)
      PROVE  Reached(p.array) /\ Complete(a, p.array)
  <2>1. p.array = Allocated(n, n) BY <1>1, <1>5
  <2>2. n <= n BY DEF Count
  <2>3. QED BY <2>1, <2>2, CallocReached
<1>6. QED BY <1>2, <1>3, <1>4, <1>5, StringArraysSafe DEF StringArrays
-----------------------------------------------------------------------------
\* What one known global data structure may do to the save.
Outcome(t) ==
    /\ arr' \in [Arrays -> SafeArray]
    /\ \A a \in Arrays \ ArraysOf(t) : arr'[a] = arr[a]
    /\ orphaned' => \/ orphaned
                    \/ \E a \in Arrays : a \in ArraysOf(t) /\ arr[a].set
                    \/ t = "weather" /\ "data4" \in ptrs
    /\ \A a \in ArraysOf(t) \cap Owning : ~arr[a].set => Reached(arr'[a])
    /\ err' = "CG_OK" => \A a \in ArraysOf(t) : Complete(a, arr[a]) => Complete(a, arr'[a])
    /\ ptrs \ {"data4"} \subseteq ptrs' /\ ptrs' \subseteq ptrs \cup {"data4"}
    /\ "data4" \in ptrs' => "data4" \in ptrs \/ t = "weather"

\* The player location changes nothing that is allocated.
LEMMA PlayerLocationOutcome ==
  ASSUME arr \in [Arrays -> SafeArray], NEW next, player_location(next)
  PROVE  Outcome("player_location")
BY DEF player_location, Outcome, ArraysOf

\* The weather has data4 alone.
LEMMA WeatherOutcome ==
  ASSUME arr \in [Arrays -> SafeArray], NEW next, weather(next)
  PROVE  Outcome("weather")
<1>1. ArraysOf("weather") = {}
  BY DEF ArraysOf
<1>2. UNCHANGED arr
  BY DEF weather
<1>3. \/ UNCHANGED <<ptrs, orphaned>>
      \/ /\ ptrs' = ptrs \cup {"data4"} \/ ptrs' = ptrs \ {"data4"}
         /\ orphaned' = (orphaned \/ "data4" \in ptrs)
  BY DEF weather
<1>4. orphaned' => orphaned \/ "data4" \in ptrs
  BY <1>3
<1>5. ptrs \ {"data4"} \subseteq ptrs' /\ ptrs' \subseteq ptrs \cup {"data4"}
  BY <1>3
<1>6. QED BY <1>1, <1>2, <1>4, <1>5 DEF Outcome

\* The misc stats overwrite their array, or set its count to 0.
LEMMA MiscStatsOutcome ==
  ASSUME arr \in [Arrays -> SafeArray], NEW next, misc_stats(next)
  PROVE  Outcome("misc_stats")
<1>1. ArraysOf("misc_stats") = {"misc_stats"} /\ "misc_stats" \in Arrays \cap Owning
  BY DEF ArraysOf, Arrays, Owning
<1>2. arr' \in [Arrays -> SafeArray] /\ UNCHANGED ptrs
  BY MiscStatsKeep DEF HeapKept, misc_stats
<1>3. CASE arr' = [arr EXCEPT !["misc_stats"].num = 0] /\ UNCHANGED orphaned
  <2>1. arr'["misc_stats"] = [arr["misc_stats"] EXCEPT !.num = 0]
    BY <1>1, <1>3
  <2>2. arr["misc_stats"] \in SafeArray
    BY <1>1
  <2>3. arr'["misc_stats"].num = 0 /\ arr'["misc_stats"].set = arr["misc_stats"].set
    BY <2>1, <2>2 DEF SafeArray, Array
  <2>4. /\ Complete("misc_stats", arr'["misc_stats"])
        /\ ~arr["misc_stats"].set => Reached(arr'["misc_stats"])
    BY <2>3 DEF Complete, Reached
  <2>5. \A a \in Arrays \ {"misc_stats"} : arr'[a] = arr[a]
    BY <1>3
  <2>6. QED BY <1>1, <1>2, <1>3, <2>4, <2>5 DEF Outcome
<1>4. ASSUME NEW r \in SafeArray, Replace("misc_stats", r), Reached(r),
             err' = "CG_OK" => Complete("misc_stats", r)
      PROVE  Outcome("misc_stats")
  <2>1. arr'["misc_stats"] = r /\ \A a \in Arrays \ {"misc_stats"} : arr'[a] = arr[a]
    BY <1>1, <1>4 DEF Replace
  <2>2. QED BY <1>1, <1>2, <1>4, <2>1 DEF Outcome, Replace
<1>5. ASSUME NEW n \in Count, Replace("misc_stats", Unallocated(n)),
             Conclude("CG_NO_MEM", FALSE, next)
      PROVE  Outcome("misc_stats")
  <2>1. err' # "CG_OK" BY <1>5 DEF Conclude, Leave, Fail
  <2>2. QED BY <1>4, <1>5, <2>1, CallocSafe, CallocReached
<1>6. ASSUME NEW n \in Count, NEW k \in 0..n, Replace("misc_stats", Allocated(n, k)),
             \/ k < n /\ Conclude("CG_NO_MEM", FALSE, next)
             \/ Conclude("CG_EOF", TRUE, next)
             \/ k = n /\ Conclude("CG_OK", FALSE, next)
      PROVE  Outcome("misc_stats")
  <2>1. k \in Count /\ k <= n BY DEF Count
  <2>2. err' = "CG_OK" => k = n BY <1>6 DEF Conclude, Leave, Fail
  <2>3. Reached(Allocated(n, k)) /\ Allocated(n, k) \in SafeArray
    BY <2>1, CallocSafe, CallocReached
  <2>4. err' = "CG_OK" => Complete("misc_stats", Allocated(n, k))
    BY <2>1, <2>2, CallocReached
  <2>5. QED BY <1>4, <1>6, <2>3, <2>4
<1>7. QED BY <1>3, <1>5, <1>6 DEF misc_stats

\* So do the global variables, but for an unreadable count.
LEMMA GlobalVarsOutcome ==
  ASSUME arr \in [Arrays -> SafeArray], NEW next, global_vars(next)
  PROVE  Outcome("global_vars")
<1>1. /\ ArraysOf("global_vars") = {"global_vars"} /\ "global_vars" \in Arrays
      /\ "global_vars" \notin Owning
  BY DEF ArraysOf, Arrays, Owning
<1>2. arr' \in [Arrays -> SafeArray] /\ UNCHANGED ptrs
  BY GlobalVarsKeep DEF HeapKept, global_vars
<1>3. CASE UNCHANGED <<arr, orphaned>>
  BY <1>1, <1>2, <1>3 DEF Outcome
<1>4. CASE arr' = [arr EXCEPT !["global_vars"].num = 0] /\ UNCHANGED orphaned
  <2>1. arr'["global_vars"] = [arr["global_vars"] EXCEPT !.num = 0]
    BY <1>1, <1>4
  <2>2. arr["global_vars"] \in SafeArray
    BY <1>1
  <2>3. Complete("global_vars", arr'["global_vars"])
    BY <2>1, <2>2 DEF Complete, SafeArray, Array
  <2>4. \A a \in Arrays \ {"global_vars"} : arr'[a] = arr[a]
    BY <1>4
  <2>5. QED BY <1>1, <1>2, <1>4, <2>3, <2>4 DEF Outcome
<1>5. ASSUME NEW r \in SafeArray, Replace("global_vars", r),
             err' = "CG_OK" => Complete("global_vars", r)
      PROVE  Outcome("global_vars")
  <2>1. arr'["global_vars"] = r /\ \A a \in Arrays \ {"global_vars"} : arr'[a] = arr[a]
    BY <1>1, <1>5 DEF Replace
  <2>2. QED BY <1>1, <1>2, <1>5, <2>1 DEF Outcome, Replace
<1>6. ASSUME NEW n \in Count, Replace("global_vars", Unallocated(n)),
             Conclude("CG_NO_MEM", FALSE, next)
      PROVE  Outcome("global_vars")
  <2>1. err' # "CG_OK" BY <1>6 DEF Conclude, Leave, Fail
  <2>2. QED BY <1>5, <1>6, <2>1, CallocSafe
<1>7. ASSUME NEW n \in Count, Replace("global_vars", Allocated(n, 0))
      PROVE  Outcome("global_vars")
  <2>1. Complete("global_vars", Allocated(n, 0)) /\ Allocated(n, 0) \in SafeArray
    BY <1>1, CallocSafe, CallocReached
  <2>2. QED BY <1>5, <1>7, <2>1
<1>8. QED BY <1>3, <1>4, <1>6, <1>7 DEF global_vars

\* The favourites may go without the hotkeys, but then there is an error.
LEMMA FavouritesOutcome ==
  ASSUME arr \in [Arrays -> SafeArray], NEW next, favourites(next)
  PROVE  Outcome("favourites")
<1>1. /\ ArraysOf("favourites") = {"favourites", "hotkeys"}
      /\ {"favourites", "hotkeys"} \subseteq Arrays
      /\ "favourites" \notin Owning /\ "hotkeys" \notin Owning
  BY DEF ArraysOf, Arrays, Owning
<1>2. arr' \in [Arrays -> SafeArray] /\ UNCHANGED ptrs
  BY FavouritesKeep DEF HeapKept, favourites
<1>3. CASE UNCHANGED <<arr, orphaned>>
  BY <1>1, <1>2, <1>3 DEF Outcome
<1>4. \A e \in {"CG_NO_MEM", "CG_EOF", "CG_CORRUPT"}, short \in BOOLEAN :
        Conclude(e, short, next) => err' # "CG_OK"
  BY ConcludeOK
<1>5. ASSUME NEW r \in SafeArray, Replace("favourites", r), err' # "CG_OK"
      PROVE  Outcome("favourites")
  <2>1. \A a \in Arrays \ {"favourites"} : arr'[a] = arr[a]
    BY <1>5 DEF Replace
  <2>2. QED BY <1>1, <1>2, <1>5, <2>1 DEF Outcome, Replace
<1>6. ASSUME NEW r \in SafeArray, NEW h \in SafeArray,
             orphaned' = (orphaned \/ arr["favourites"].set \/ arr["hotkeys"].set),
             arr' = [arr EXCEPT !["favourites"] = r, !["hotkeys"] = h],
             err' = "CG_OK" => Complete("favourites", r) /\ Complete("hotkeys", h)
      PROVE  Outcome("favourites")
  <2>1. /\ \A a \in Arrays \ {"favourites", "hotkeys"} : arr'[a] = arr[a]
        /\ arr'["favourites"] = r /\ arr'["hotkeys"] = h
    BY <1>1, <1>6
  <2>2. QED BY <1>1, <1>2, <1>6, <2>1 DEF Outcome
<1>7. \A n \in Count : /\ Allocated(n, 0) \in SafeArray /\ Unallocated(n) \in SafeArray
                       /\ Complete("favourites", Allocated(n, 0))
                       /\ Complete("hotkeys", Allocated(n, 0))
  BY <1>1, CallocSafe, CallocReached
<1>8. CASE \E n \in Count : \/ /\ Replace("favourites", Unallocated(n))
                               /\ Conclude("CG_NO_MEM", FALSE, next)
                            \/ /\ Replace("favourites", Allocated(n, 0))
                               /\ CountUnreadable(next)
  BY <1>4, <1>5, <1>7, <1>8 DEF CountUnreadable
<1>9. ASSUME NEW n \in Count, NEW h \in Count,
             orphaned' = (orphaned \/ arr["favourites"].set \/ arr["hotkeys"].set),
             arr' = [arr EXCEPT !["favourites"] = Allocated(n, 0),
                                !["hotkeys"] = Unallocated(h)],
             Conclude("CG_NO_MEM", FALSE, next)
      PROVE  Outcome("favourites")
  BY <1>4, <1>6, <1>7, <1>9
<1>10. ASSUME NEW n \in Count, NEW h \in Count,
             orphaned' = (orphaned \/ arr["favourites"].set \/ arr["hotkeys"].set),
             arr' = [arr EXCEPT !["favourites"] = Allocated(n, 0),
                                !["hotkeys"] = Allocated(h, 0)]
      PROVE  Outcome("favourites")
  BY <1>6, <1>7, <1>10
<1>11. QED BY <1>3, <1>8, <1>9, <1>10 DEF favourites

\* Every known type has such an outcome.
LEMMA KnownOutcome ==
  ASSUME arr \in [Arrays -> SafeArray], NEW next, NEW t, Deserialize(t, next)
  PROVE  t \in Structured /\ Outcome(t)
BY PlayerLocationOutcome, WeatherOutcome, MiscStatsOutcome, GlobalVarsOutcome,
   FavouritesOutcome DEF Deserialize, Structured

\* What the plugin information may do: it fills the two arrays of strings.
PluginsOutcome ==
    /\ \A a \in Arrays \ {"plugins", "light_plugins"} : arr'[a] = arr[a]
    /\ \A a \in {"plugins", "light_plugins"} :
         /\ Reached(arr[a]) => Reached(arr'[a])
         /\ err' = "CG_OK" => (Complete(a, arr[a]) => Complete(a, arr'[a]))

\* With light plugins or without, both arrays of strings are reached.
LEMMA PluginsHaveOutcome ==
  ASSUME arr \in [Arrays -> SafeArray], NEW next, plugin_info(next)
  PROVE  PluginsOutcome
<1>1. "plugins" \in Arrays /\ "light_plugins" \in Arrays
  BY DEF Arrays, Owning
<1>2. PICK p \in StringArrays :
        IF p.e = "CG_OK" /\ supports_light_plugins(save)
        THEN \E l \in StringArrays :
               /\ arr' = [arr EXCEPT !["plugins"] = p.array,
                                     !["light_plugins"] = l.array]
               /\ Conclude(l.e, l.short, next)
        ELSE /\ arr' = [arr EXCEPT !["plugins"] = p.array]
             /\ Conclude(p.e, p.short, next)
  BY DEF plugin_info
<1>3. \A q \in StringArrays : /\ Reached(q.array)
                              /\ q.e = "CG_OK" => \A a : Complete(a, q.array)
  BY StringArraysReached
<1>4. CASE /\ arr' = [arr EXCEPT !["plugins"] = p.array]
           /\ Conclude(p.e, p.short, next)
  <2>1. err' = "CG_OK" => p.e = "CG_OK"
    BY <1>4 DEF Conclude, Leave, Fail
  <2>2. arr'["plugins"] = p.array /\ \A a \in Arrays \ {"plugins"} : arr'[a] = arr[a]
    BY <1>1, <1>4
  <2>3. QED BY <1>1, <1>3, <2>1, <2>2 DEF PluginsOutcome
<1>5. ASSUME NEW l \in StringArrays, p.e = "CG_OK",
             arr' = [arr EXCEPT !["plugins"] = p.array, !["light_plugins"] = l.array],
             Conclude(l.e, l.short, next)
      PROVE  PluginsOutcome
  <2>1. err' = "CG_OK" => l.e = "CG_OK"
    BY <1>5 DEF Conclude, Leave, Fail
  <2>2. /\ arr'["plugins"] = p.array /\ arr'["light_plugins"] = l.array
        /\ \A a \in Arrays \ {"plugins", "light_plugins"} : arr'[a] = arr[a]
    BY <1>1, <1>5
  <2>3. QED BY <1>1, <1>3, <1>5, <2>1, <2>2 DEF PluginsOutcome
<1>6. QED BY <1>2, <1>4, <1>5
-----------------------------------------------------------------------------
\* The four strings of the header have names of their own.
LEMMA HeaderNames ==
  Headers = {"player_name", "player_location_name", "game_time", "race_id"}
<1>1. 1..4 = {1, 2, 3, 4}
  OBVIOUS
<1>2. Headers = {HeaderStrings[1], HeaderStrings[2], HeaderStrings[3], HeaderStrings[4]}
  BY <1>1 DEF Headers
<1>3. QED BY <1>2 DEF HeaderStrings

\* No two types fill the same array, and none fills one of file_reader's own.
LEMMA ArraysDisjoint ==
  /\ \A t, u \in Structured : \A a \in ArraysOf(t) \cap ArraysOf(u) : t = u
  /\ \A t \in Structured :
       /\ ArraysOf(t) \subseteq Arrays
       /\ ArraysOf(t) \cap {"change_forms", "form_ids", "world_spaces", "plugins",
                            "light_plugins"} = {}
BY DEF ArraysOf, Structured, Arrays, Owning

\* No part of the program comes before one that has been passed.
Onward == /\ pc' # "forms"
          /\ pc' \in BeforeForms => pc \in BeforeForms
          /\ pc' \in BeforeIds => pc \in BeforeIds
          /\ pc' \in BeforeWorlds => pc \in BeforeWorlds

\* A step that changes at most the single pointers of file_reader's own.
Quiet == /\ Onward
         /\ UNCHANGED <<arr, seen, again, orphaned>>
         /\ "data4" \in ptrs' => "data4" \in ptrs

\* Such a step loses nothing.
LEMMA QuietLeaksNothing == LeakInv /\ Quiet => LeakInv'
BY DEF LeakInv, Quiet, Onward

\* A step that changes one array of file_reader's own, which had not been set.
LEMMA OwnArrayLeaksNothing ==
  ASSUME HeapInv, LeakInv, UNCHANGED <<ptrs, seen, again>>,
         NEW a \in {"change_forms", "form_ids", "world_spaces"}, NEW r \in SafeArray,
         ~arr[a].set, Reached(r), arr' = [arr EXCEPT ![a] = r],
         orphaned' = (orphaned \/ arr[a].set) \/ UNCHANGED orphaned,
         a = "change_forms" /\ r.set => /\ pc' \notin BeforeForms
                                        /\ pc' = "forms" => r.num = r.len,
         a = "form_ids" => pc' \notin BeforeIds,
         a = "world_spaces" => pc' \notin BeforeWorlds,
         pc' \in BeforeForms => pc \in BeforeForms,
         pc' \in BeforeIds => pc \in BeforeIds,
         pc' \in BeforeWorlds => pc \in BeforeWorlds,
         pc' = "forms" => a = "change_forms" /\ r.set
  PROVE  LeakInv'
<1>1. a \in Arrays /\ Owning \subseteq Arrays /\ arr \in [Arrays -> SafeArray]
  BY DEF Arrays, Owning, HeapInv
<1>2. arr'[a] = r /\ \A b \in Arrays \ {a} : arr'[b] = arr[b]
  BY <1>1
<1>3. orphaned' => again'
  BY DEF LeakInv
<1>4. ~again' => \A b \in Owning : Reached(arr'[b])
  BY <1>1, <1>2 DEF LeakInv
<1>5. \A t \in Structured, b \in Arrays : b \in ArraysOf(t) /\ arr'[b].set => t \in seen'
  BY <1>2, ArraysDisjoint DEF LeakInv
<1>6. "data4" \in ptrs' => "weather" \in seen'
  BY DEF LeakInv
<1>7. {"change_forms", "form_ids", "world_spaces"} \subseteq Arrays
  BY DEF Arrays, Owning
<1>8. /\ pc' \in BeforeForms => ~arr'["change_forms"].set
      /\ pc' \in BeforeIds => ~arr'["form_ids"].set
      /\ pc' \in BeforeWorlds => ~arr'["world_spaces"].set
      /\ pc' = "forms" => arr'["change_forms"].num = arr'["change_forms"].len
  BY <1>2, <1>7 DEF LeakInv
<1>9. QED BY <1>3, <1>4, <1>5, <1>6, <1>8 DEF LeakInv

\* Before anything is allocated nothing can be lost.
LEMMA InitLeak == Init => LeakInv
<1>1. ASSUME Init PROVE LeakInv
  <2>1. \A a \in Arrays : arr[a] = NoArray
    BY <1>1 DEF Init
  <2>2. \A a \in Arrays : ~arr[a].set /\ Reached(arr[a])
    BY <2>1, CallocSafe, CallocReached
  <2>3. /\ {"change_forms", "form_ids", "world_spaces"} \subseteq Arrays
        /\ Owning \subseteq Arrays
    BY DEF Arrays, Owning
  <2>4. pc = "mmap" /\ ptrs = {} /\ orphaned = FALSE
    BY <1>1 DEF Init
  <2>5. QED BY <2>2, <2>3, <2>4 DEF LeakInv
<1>2. QED BY <1>1

\* A block of a known type overwrites a pointer only if the type came before.
LEMMA KnownGlobalLeaks ==
  ASSUME HeapInv, LeakInv, NEW table \in {"globals", "late_globals"},
         pc = table, pc' \in {table, "cleanup"},
         NEW t \in KnownTypes, Outcome(t), t \in Structured,
         seen' = seen \cup {t}, again' = (again \/ t \in seen)
  PROVE  LeakInv'
<1>1. orphaned' => again'
  BY DEF LeakInv, Outcome
<1>2. ASSUME ~again', NEW a \in Owning PROVE Reached(arr'[a])
  <2>1. ~again /\ t \notin seen /\ a \in Arrays
    BY <1>2 DEF Arrays
  <2>2. CASE a \in ArraysOf(t)
    BY <2>1, <2>2 DEF LeakInv, Outcome
  <2>3. CASE a \notin ArraysOf(t)
    BY <2>1, <2>3 DEF LeakInv, Outcome
  <2>4. QED BY <2>2, <2>3
<1>3. ASSUME NEW u \in Structured, NEW a \in Arrays, a \in ArraysOf(u), arr'[a].set
      PROVE  u \in seen'
  <2>1. CASE a \in ArraysOf(t)
    BY <1>3, <2>1, ArraysDisjoint
  <2>2. CASE a \notin ArraysOf(t)
    BY <1>3, <2>2 DEF LeakInv, Outcome
  <2>3. QED BY <2>1, <2>2
<1>4. "data4" \in ptrs' => "weather" \in seen'
  BY DEF LeakInv, Outcome
<1>5. \A a \in {"change_forms", "form_ids", "world_spaces"} : arr'[a] = arr[a]
  BY ArraysDisjoint DEF Outcome, Arrays, Owning
<1>6. /\ pc' \in BeforeForms => pc \in BeforeForms
      /\ pc' \in BeforeIds => pc \in BeforeIds
      /\ pc' \in BeforeWorlds => pc \in BeforeWorlds
      /\ pc' # "forms"
  BY DEF BeforeForms, BeforeIds, BeforeWorlds, Early, Starting
<1>7. QED BY <1>1, <1>2, <1>3, <1>4, <1>5, <1>6 DEF LeakInv

\* A step loses an allocation only where a known type comes twice.
LEMMA NextLeak == HeapInv /\ LeakInv /\ [Next]_vars => LeakInv'
<1>1. SUFFICES ASSUME HeapInv, LeakInv, [Next]_vars PROVE LeakInv'
  OBVIOUS
<1>. USE <1>1
<1>a. arr \in [Arrays -> SafeArray] /\ Owning \subseteq Arrays
      /\ {"change_forms", "form_ids", "world_spaces"} \subseteq Arrays
  BY DEF HeapInv, Arrays, Owning
<1>2. CASE MapFile \/ AllocSave \/ CheckSize \/ ReadSignature \/ ContinueInFile
           \/ SizesMissing \/ SkipToBody \/ DecompressBody \/ Cleanup
  <2>1. Quiet
    BY <1>2 DEF MapFile, AllocSave, CheckSize, ReadSignature, ContinueInFile,
         SizesMissing, SkipToBody, DecompressBody, Cleanup, Go, Fail, heap, Quiet, Onward,
         BeforeForms, BeforeIds, BeforeWorlds, Early, Starting
  <2>2. QED BY <2>1, QuietLeaksNothing
<1>3. CASE ReadHeader
  <2>1. /\ pc = "header" /\ pc' \in {"snapshot", "cleanup"}
        /\ UNCHANGED <<arr, seen, again, orphaned>>
    BY <1>3, HeaderConcludes, ConcludeGoes DEF ReadHeader, Fail
  <2>2. ptrs' \subseteq ptrs \cup Headers
    <3>1. \A k \in 0..4 : {HeaderStrings[j] : j \in 1..k} \subseteq Headers
      BY SMTT(30) DEF Headers
    <3>2. ptrs' = ptrs \/ \E k \in 0..4 : ptrs' = ptrs \cup {HeaderStrings[j] : j \in 1..k}
      BY <1>3 DEF ReadHeader, file_header
    <3>3. QED BY <3>1, <3>2
  <2>3. QED BY <2>1, <2>2, HeaderNames, QuietLeaksNothing
            DEF Quiet, Onward, BeforeForms, BeforeIds, BeforeWorlds, Early, Starting
<1>4. CASE ReadSnapshot \/ ReadVersion \/ ReadUnknown3
  <2>1. Quiet
    BY <1>4 DEF ReadSnapshot, ReadVersion, ReadUnknown3, Go, Fail, Quiet, Onward,
         BeforeForms, BeforeIds, BeforeWorlds, Early, Starting
  <2>2. QED BY <2>1, QuietLeaksNothing
<1>5. CASE ReadPlugins
  <2>1. /\ pc = "plugins" /\ pc' \in {"locations", "cleanup"}
        /\ UNCHANGED <<ptrs, seen, again, orphaned>>
    BY <1>5, PluginsConclude, ConcludeGoes DEF ReadPlugins, Fail, plugin_info
  <2>2. CASE arr' = arr
    BY <2>1, <2>2, QuietLeaksNothing DEF Quiet, Onward, BeforeForms, BeforeIds,
       BeforeWorlds, Early, Starting
  <2>3. CASE PluginsOutcome
    <3>1. \A a \in Owning : Reached(arr[a]) => Reached(arr'[a])
      BY <1>a, <2>3 DEF PluginsOutcome
    <3>2. \A t \in Structured : \A a \in ArraysOf(t) : arr'[a] = arr[a]
      BY <2>3, ArraysDisjoint DEF PluginsOutcome
    <3>3. \A a \in {"change_forms", "form_ids", "world_spaces"} : arr'[a] = arr[a]
      BY <1>a, <2>3 DEF PluginsOutcome
    <3>4. pc \in BeforeForms /\ pc \in BeforeIds /\ pc \in BeforeWorlds /\ pc' # "forms"
      BY <2>1 DEF BeforeForms, BeforeIds, BeforeWorlds, Early
    <3>5. QED BY <2>1, <3>1, <3>2, <3>3, <3>4 DEF LeakInv
  <2>4. QED BY <1>a, <1>5, <2>2, <2>3, PluginsHaveOutcome DEF ReadPlugins
<1>6. CASE ReadLocations
  <2>1. pc = "locations" /\ pc' = "globals" /\ UNCHANGED <<ptrs, seen, again, orphaned>>
    BY <1>6 DEF ReadLocations, Go
  <2>2. \E c \in Int : arr' = [arr EXCEPT !["change_forms"].num = c]
    <3>1. PICK n \in [1..4 -> Count], there \in 0..4 :
            LET count(k) == IF k <= there THEN n[k] ELSE 0
            IN  arr' = [arr EXCEPT !["change_forms"].num = count(4)]
      BY <1>6 DEF ReadLocations
    <3>2. (IF 4 <= there THEN n[4] ELSE 0) \in Int
      BY DEF Count
    <3>3. QED BY <3>1, <3>2
  <2>3. PICK c \in Int : arr' = [arr EXCEPT !["change_forms"].num = c]
    BY <2>2
  <2>4. ~arr["change_forms"].set /\ arr["change_forms"] \in SafeArray
    BY <1>a, <2>1 DEF HeapInv, Early
  <2>5. /\ arr'["change_forms"] = [arr["change_forms"] EXCEPT !.num = c]
        /\ \A a \in Arrays \ {"change_forms"} : arr'[a] = arr[a]
    BY <1>a, <2>3
  <2>6. ~arr'["change_forms"].set
    BY <2>4, <2>5 DEF SafeArray, Array
  <2>7. \A a \in Owning : Reached(arr[a]) => Reached(arr'[a])
    BY <1>a, <2>5, <2>6 DEF Reached
  <2>8. \A t \in Structured : \A a \in ArraysOf(t) : arr'[a] = arr[a]
    BY <2>5, ArraysDisjoint
  <2>9. arr'["form_ids"] = arr["form_ids"] /\ arr'["world_spaces"] = arr["world_spaces"]
    BY <1>a, <2>5
  <2>10. pc \in BeforeForms /\ pc \in BeforeIds /\ pc \in BeforeWorlds /\ pc' # "forms"
    BY <2>1 DEF BeforeForms, BeforeIds, BeforeWorlds, Early
  <2>11. QED BY <2>1, <2>6, <2>7, <2>8, <2>9, <2>10 DEF LeakInv
<1>7. ASSUME NEW table \in {"globals", "late_globals"}, ReadGlobal(table)
      PROVE  LeakInv'
  <2>1. pc = table /\ pc' \in {table, "cleanup"}
    BY <1>7, GlobalConcludes, ConcludeGoes DEF ReadGlobal, Fail
  <2>2. CASE UNCHANGED heap
    BY <2>1, <2>2, QuietLeaksNothing DEF heap, Quiet, Onward, BeforeForms, BeforeIds,
       BeforeWorlds, Early, Starting
  <2>3. ASSUME NEW t \in KnownTypes, Deserialize(t, table),
               seen' = seen \cup {t}, again' = (again \/ t \in seen)
        PROVE  LeakInv'
    BY <1>a, <2>1, <2>3, KnownOutcome, KnownGlobalLeaks
  <2>4. ASSUME NEW u \in UnknownTypes, unknown_global(u, table), UNCHANGED <<seen, again>>
        PROVE  LeakInv'
    <3>1. u # "data4" BY DEF Named
    <3>2. Quiet
      BY <2>1, <2>4, <3>1 DEF unknown_global, Quiet, Onward, BeforeForms, BeforeIds,
         BeforeWorlds, Early, Starting
    <3>3. QED BY <3>2, QuietLeaksNothing
  <2>5. QED BY <1>7, <2>2, <2>3, <2>4 DEF ReadGlobal
<1>8. ASSUME NEW table, NEW next, <<table, next>> \in {<<"globals", "change_forms">>,
               <<"forms", "late_globals">>, <<"late_globals", "form_ids">>},
             EndOfTable(table, next)
      PROVE  LeakInv'
  <2>1. Quiet
    BY <1>8 DEF EndOfTable, Go, heap, Quiet, Onward, BeforeForms, BeforeIds,
         BeforeWorlds, Early, Starting
  <2>2. QED BY <2>1, QuietLeaksNothing
<1>9. CASE AllocChangeForms
  <2>1. /\ pc = "change_forms" /\ pc' \in {"forms", "cleanup"}
        /\ left.forms \in Count /\ UNCHANGED <<ptrs, seen, again>>
    BY <1>9 DEF AllocChangeForms, HeapInv, Go, Fail
  <2>2. /\ pc \in BeforeForms /\ pc \in BeforeIds /\ pc \in BeforeWorlds
        /\ pc' \notin BeforeForms
    BY <2>1 DEF BeforeForms, BeforeIds, BeforeWorlds, Early, Starting
  <2>3. ~arr["change_forms"].set
    BY <2>2 DEF LeakInv
  <2>4. CASE Replace("change_forms", Allocated(left.forms, 0))
    <3> DEFINE r == Allocated(left.forms, 0)
    <3>1. 0 \in Count /\ 0 <= left.forms
      BY <2>1 DEF Count
    <3>2. r \in SafeArray /\ r.set /\ Reached(r)
      BY <2>1, <3>1, CallocSafe, CallocReached
    <3>3. r.num = r.len
      BY DEF Allocated
    <3>4. arr' = [arr EXCEPT !["change_forms"] = r]
          /\ orphaned' = (orphaned \/ arr["change_forms"].set)
      BY <2>4 DEF Replace
    <3> HIDE DEF r
    <3>5. QED BY <2>1, <2>2, <2>3, <3>2, <3>3, <3>4, OwnArrayLeaksNothing
  <2>5. CASE Replace("change_forms", Unallocated(left.forms)) /\ Fail("CG_NO_MEM")
    <3>1. /\ Unallocated(left.forms) \in SafeArray /\ Reached(Unallocated(left.forms))
          /\ pc' = "cleanup"
      BY <2>1, <2>5, CallocSafe, CallocReached DEF Fail
    <3>2. QED BY <2>1, <2>2, <2>3, <2>5, <3>1, OwnArrayLeaksNothing DEF Replace
  <2>6. QED BY <1>9, <2>4, <2>5 DEF AllocChangeForms
<1>10. CASE ReadChangeForm
  <2>1. /\ pc = "forms" /\ left.forms \in Count /\ left.forms > 0
        /\ UNCHANGED <<ptrs, seen, again, orphaned>>
    BY <1>10 DEF ReadChangeForm, Round, HeapInv
  <2>2. CASE arr' = arr /\ pc' = "cleanup"
    BY <2>1, <2>2, QuietLeaksNothing DEF Quiet, Onward, BeforeForms, BeforeIds,
       BeforeWorlds, Early, Starting
  <2>3. CASE /\ arr' = [arr EXCEPT !["change_forms"].full = @ + 1,
                                   !["change_forms"].live = @ + 1]
             /\ pc' = "forms"
    <3> DEFINE r == arr["change_forms"]
               s == [r EXCEPT !.full = @ + 1, !.live = @ + 1]
    <3>1. arr'["change_forms"] = s /\ \A a \in Arrays \ {"change_forms"} : arr'[a] = arr[a]
      BY <1>a, <2>3
    <3>2. /\ r \in SafeArray /\ r.full = r.live /\ r.full + left.forms = r.len
          /\ r.num = r.len
      BY <1>a, <2>1 DEF HeapInv, SafeArray, LeakInv
    <3>3. r.full \in Int /\ r.len \in Int /\ left.forms \in Int
      BY <2>1, <3>2 DEF SafeArray, Array, Count
    <3>4. s.num = r.num /\ s.len = r.len /\ s.live = r.full + 1
      BY <3>2 DEF SafeArray, Array
    <3>5. s.live <= s.num
      BY <2>1, <3>2, <3>3, <3>4
    <3>6. \A a \in Owning : Reached(arr[a]) => Reached(arr'[a])
      BY <1>a, <3>1, <3>5 DEF Reached
    <3>7. \A t \in Structured : \A a \in ArraysOf(t) : arr'[a] = arr[a]
      BY <3>1, ArraysDisjoint
    <3>8. arr'["form_ids"] = arr["form_ids"] /\ arr'["world_spaces"] = arr["world_spaces"]
      BY <1>a, <3>1
    <3>9. pc' \notin BeforeForms /\ pc \in BeforeIds /\ pc \in BeforeWorlds
      BY <2>1, <2>3 DEF BeforeForms, BeforeIds, BeforeWorlds, Early, Starting
    <3>10. arr'["change_forms"].num = arr'["change_forms"].len
      BY <3>1, <3>2, <3>4
    <3>11. QED BY <2>1, <3>6, <3>7, <3>8, <3>9, <3>10 DEF LeakInv
  <2>4. QED BY <1>10, <2>2, <2>3 DEF ReadChangeForm, Fail, Go
<1>11. ASSUME NEW a, NEW next, <<a, next>> \in {<<"form_ids", "world_spaces">>,
                                                <<"world_spaces", "unknown3">>},
              pc = a, CountedArray(a, next), UNCHANGED <<ptrs, seen, again>>
       PROVE  LeakInv'
  <2>1. PICK r \in SafeArray : Reached(r) /\ Replace(a, r)
    <3>1. \A n \in Count : /\ Allocated(n, 0) \in SafeArray /\ Reached(Allocated(n, 0))
                           /\ Unallocated(n) \in SafeArray /\ Reached(Unallocated(n))
      <4>1. 0 \in Count /\ \A n \in Count : 0 <= n
        BY DEF Count
      <4>2. QED BY <4>1, CallocSafe, CallocReached
    <3>2. QED BY <1>11, <3>1 DEF CountedArray
  <2>2. pc' \in {next, "cleanup"}
    BY <1>11 DEF CountedArray, Go, Fail
  <2>3. /\ a \in {"form_ids", "world_spaces"} /\ ~arr[a].set /\ pc' # "forms"
        /\ a = "form_ids" => pc' \notin BeforeIds
        /\ a = "world_spaces" => pc' \notin BeforeWorlds
        /\ pc' \notin BeforeForms
        /\ pc' \notin BeforeIds
        /\ pc' \in BeforeWorlds => pc \in BeforeWorlds
    BY <1>11, <2>2 DEF LeakInv, BeforeForms, BeforeIds, BeforeWorlds, Early, Starting
  <2>4. QED BY <1>11, <2>1, <2>3, OwnArrayLeaksNothing DEF Replace
<1>12. CASE ReadFormIds \/ ReadWorldSpaces
  <2>1. CASE UNCHANGED <<arr, orphaned>> /\ pc' \in {"cleanup", "unmap"}
    <3>1. Quiet
      BY <1>12, <2>1 DEF ReadFormIds, ReadWorldSpaces, Quiet, Onward, BeforeForms,
         BeforeIds, BeforeWorlds, Early, Starting
    <3>2. QED BY <3>1, QuietLeaksNothing
  <2>2. QED BY <1>11, <1>12, <2>1 DEF ReadFormIds, ReadWorldSpaces, Fail
<1>13. CASE Return \/ Release
  <2>1. pc' \in {"returned", "released"}
    BY <1>13 DEF Return, Release, Go
  <2>2. CASE UNCHANGED heap
    BY <2>1, <2>2, QuietLeaksNothing DEF heap, Quiet, Onward, BeforeForms, BeforeIds,
       BeforeWorlds, Early, Starting
  <2>3. CASE savegame_free
    <3>1. \A a \in Arrays : arr'[a] = NoArray
      BY <2>3 DEF savegame_free
    <3>2. \A a \in Arrays : ~arr'[a].set /\ Reached(arr'[a])
      BY <3>1, CallocSafe, CallocReached
    <3>3. ptrs' = {} /\ UNCHANGED <<seen, again>>
      BY <2>3 DEF savegame_free
    <3>4. orphaned' => again'
      <4>1. ASSUME NEW a \in Owning, arr[a].set, arr[a].live > arr[a].num PROVE again
        <5>1. arr[a] \in SafeArray
          BY <1>a
        <5>2. arr[a].live \in Int /\ arr[a].num \in Int
          BY <5>1 DEF SafeArray, Array, Count
        <5>3. ~Reached(arr[a])
          BY <4>1, <5>2 DEF Reached
        <5>4. QED BY <5>3 DEF LeakInv
      <4>2. orphaned' => \/ orphaned
                         \/ \E a \in Owning : arr[a].set /\ arr[a].live > arr[a].num
        BY <2>3 DEF savegame_free
      <4>3. QED BY <3>3, <4>1, <4>2 DEF LeakInv
    <3>5. pc' # "forms"
      BY <2>1
    <3>6. QED BY <1>a, <3>2, <3>3, <3>4, <3>5 DEF LeakInv
  <2>4. QED BY <1>13, <2>2, <2>3 DEF Return, Release
<1>14. CASE UNCHANGED vars
  BY <1>14 DEF vars, LeakInv
<1>15. QED
  BY <1>2, <1>3, <1>4, <1>5, <1>6, <1>7, <1>8, <1>9, <1>10, <1>12, <1>13, <1>14
     DEF Next, Ended

\* In every reachable state of the reader a pointer has been overwritten only if a
\* known type came twice.
THEOREM SpecLeak == Spec => []LeakInv
BY InitLeak, NextLeak, SpecHeap, PTL DEF Spec

-----------------------------------------------------------------------------
\* At the start there is no body buffer.
LEMMA InitBody == Init => BodyInv
BY DEF Init, BodyInv

\* Where file_reader goes on to its next part, or fails in it, the body buffer is
\* still its own.
LEMMA InsideKeepsBody ==
  ASSUME pc' \in Reading \cup {"alloc", "size", "cleanup"} PROVE BodyInv'
BY DEF BodyInv, Reading

\* Only the early return in front of the world spaces leaves a body buffer behind.
LEMMA NextBody == LiveInv /\ BodyInv /\ [Next]_vars => BodyInv'
<1>1. SUFFICES ASSUME LiveInv, BodyInv, [Next]_vars PROVE BodyInv'
  OBVIOUS
<1>. USE <1>1
<1>2. CASE MapFile \/ ReadSignature \/ ReadSnapshot \/ ContinueInFile \/ SizesMissing
           \/ SkipToBody \/ ReadVersion \/ ReadLocations \/ AllocChangeForms
           \/ ReadChangeForm \/ ReadFormIds \/ ReadUnknown3
  <2>1. pc' \in Reading \cup {"alloc", "cleanup"}
    BY <1>2 DEF MapFile, ReadSignature, ReadSnapshot, ContinueInFile, SizesMissing,
       SkipToBody, ReadVersion, ReadLocations, AllocChangeForms, ReadChangeForm,
       ReadFormIds, ReadUnknown3, CountedArray, Go, Fail, Reading
  <2>2. QED BY <2>1, InsideKeepsBody
<1>3. CASE ReadHeader
  <2>1. pc' \in {"snapshot", "cleanup"}
    BY <1>3, HeaderConcludes, ConcludeGoes DEF ReadHeader, Fail
  <2>2. QED BY <2>1, InsideKeepsBody DEF Reading
<1>4. CASE ReadPlugins
  <2>1. pc' \in {"locations", "cleanup"}
    BY <1>4, PluginsConclude, ConcludeGoes DEF ReadPlugins, Fail
  <2>2. QED BY <2>1, InsideKeepsBody DEF Reading
<1>5. ASSUME NEW table \in {"globals", "late_globals"}, ReadGlobal(table)
      PROVE  BodyInv'
  <2>1. pc' \in {table, "cleanup"}
    BY <1>5, GlobalConcludes, ConcludeGoes DEF ReadGlobal, Fail
  <2>2. QED BY <2>1, InsideKeepsBody DEF Reading
<1>6. ASSUME NEW table, NEW next \in {"change_forms", "late_globals", "form_ids"},
             EndOfTable(table, next)
      PROVE  BodyInv'
  BY <1>6, InsideKeepsBody DEF EndOfTable, Go, Reading
<1>7. CASE AllocSave \/ CheckSize
  BY <1>7 DEF AllocSave, CheckSize, Go, outside, BodyInv, LiveInv, Starting
<1>8. CASE DecompressBody
  BY <1>8 DEF DecompressBody, Go, Fail, BodyInv
<1>9. CASE ReadWorldSpaces
  BY <1>9 DEF ReadWorldSpaces, CountedArray, Go, Fail, BodyInv
<1>10. CASE Cleanup \/ Return
  BY <1>10 DEF Cleanup, Return, Go, BodyInv
<1>11. CASE Release
  BY <1>11 DEF Release, Go, outside, BodyInv
<1>12. CASE UNCHANGED vars
  BY <1>12 DEF vars, BodyInv
<1>13. QED
  BY <1>2, <1>3, <1>4, <1>5, <1>6, <1>7, <1>8, <1>9, <1>10, <1>11, <1>12
     DEF Next, Ended

\* In every reachable state a body buffer that file_reader left behind goes with
\* CG_EOF.
THEOREM SpecBody == Spec => []BodyInv
BY InitBody, NextBody, SpecLive, PTL DEF Spec

\* Whatever a file holds, memory is lost in two ways only: a known type that comes
\* twice, and a body that ends in front of the world spaces.
THEOREM LeaksAreKnown == Spec => []LeaksOnlyWhereKnown
<1>1. LeakInv /\ BodyInv => LeaksOnlyWhereKnown
  BY DEF LeakInv, BodyInv, LeaksOnlyWhereKnown
<1>2. QED BY SpecLeak, SpecBody, <1>1, PTL
-----------------------------------------------------------------------------
\* savegame_alloc gives a save whose counts are all 0.
LEMMA InitWritable == Init => WritableInv
<1>1. ASSUME Init PROVE WritableInv
  <2>1. \A a \in Arrays : arr[a] = NoArray
    BY <1>1 DEF Init
  <2>2. \A a \in Arrays : Complete(a, arr[a])
    BY <2>1 DEF Complete, NoArray
  <2>3. pc = "mmap"
    BY <1>1 DEF Init
  <2>4. QED BY <2>2, <2>3 DEF WritableInv, BehindForms, Ending
<1>2. QED BY <1>1

\* A step in front of the end that changes no array, or fails.
LEMMA SameKeepsWritable ==
  ASSUME WritableInv, LossInv,
         err' = "CG_OK" => /\ UNCHANGED arr
                           /\ pc' \in BehindForms => pc \in BehindForms,
         pc \in Starting \cup Reading \/ (pc \in Ending /\ UNCHANGED err)
  PROVE  WritableInv'
BY DEF WritableInv, LossInv

\* A step that changes some arrays and leaves them complete, or fails.
LEMMA CompleteKeepsWritable ==
  ASSUME WritableInv, LossInv, pc \in Starting \cup Reading,
         NEW S \in SUBSET (Arrays \ {"change_forms"}),
         \A a \in Arrays \ S : arr'[a] = arr[a],
         err' = "CG_OK" => \A a \in S : Complete(a, arr[a]) => Complete(a, arr'[a]),
         pc' \in BehindForms => pc \in BehindForms \/ err' # "CG_OK"
  PROVE  WritableInv'
<1>1. err = "CG_OK" /\ "change_forms" \in Arrays
  BY DEF LossInv, Arrays, Owning
<1>2. \A a \in Arrays \ {"change_forms"} : Complete(a, arr[a])
  BY <1>1 DEF WritableInv
<1>3. err' = "CG_OK" => \A a \in Arrays \ {"change_forms"} : Complete(a, arr'[a])
  BY <1>2
<1>4. arr'["change_forms"] = arr["change_forms"]
  BY <1>1
<1>5. QED BY <1>1, <1>3, <1>4 DEF WritableInv

\* As long as there is no error, every array is as long as its count and has all its
\* elements, except for the change forms while they are read.
LEMMA NextWritable ==
  HeapInv /\ LeakInv /\ LossInv /\ WritableInv /\ [Next]_vars => WritableInv'
<1>1. SUFFICES ASSUME HeapInv, LeakInv, LossInv, WritableInv, [Next]_vars
               PROVE  WritableInv'
  OBVIOUS
<1>. USE <1>1
<1>a. arr \in [Arrays -> SafeArray] /\ "change_forms" \in Arrays /\ Owning \subseteq Arrays
  BY DEF HeapInv, Arrays, Owning
<1>2. CASE MapFile \/ AllocSave \/ CheckSize \/ ReadSignature \/ ContinueInFile
           \/ SizesMissing \/ SkipToBody \/ DecompressBody \/ Cleanup
           \/ ReadSnapshot \/ ReadVersion \/ ReadUnknown3
  <2>1. /\ err' = "CG_OK" => /\ UNCHANGED arr
                             /\ pc' \in BehindForms => pc \in BehindForms
        /\ pc \in Starting \cup Reading \/ (pc \in Ending /\ UNCHANGED err)
    BY <1>2 DEF MapFile, AllocSave, CheckSize, ReadSignature, ContinueInFile,
         SizesMissing, SkipToBody, DecompressBody, Cleanup, ReadSnapshot, ReadVersion,
         ReadUnknown3, Go, Fail, heap, BehindForms, Ending, Starting, Reading
  <2>2. QED BY <2>1, SameKeepsWritable
<1>3. CASE ReadHeader
  <2>1. pc = "header" /\ UNCHANGED arr /\ pc' \in {"snapshot", "cleanup"}
    BY <1>3, HeaderConcludes, ConcludeGoes DEF ReadHeader, Fail
  <2>2. pc' = "cleanup" => err' # "CG_OK"
    BY <1>3, HeaderConcludes, FailuresFail DEF ReadHeader, Fail
  <2>3. QED BY <2>1, <2>2, SameKeepsWritable DEF BehindForms, Ending, Reading
<1>4. CASE ReadPlugins
  <2>1. pc = "plugins" /\ pc' \in {"locations", "cleanup"}
    BY <1>4, PluginsConclude, ConcludeGoes DEF ReadPlugins, Fail
  <2>2. pc' = "cleanup" => err' # "CG_OK"
    BY <1>4, PluginsConclude, FailuresFail DEF ReadPlugins, Fail
  <2>3. pc \in Reading /\ (pc' \in BehindForms => err' # "CG_OK")
    BY <2>1, <2>2 DEF Reading, BehindForms, Ending
  <2>4. CASE Fail("CG_EOF")
    BY <2>3, <2>4, SameKeepsWritable DEF Fail
  <2>5. CASE PluginsOutcome
    <3>1. {"plugins", "light_plugins"} \in SUBSET (Arrays \ {"change_forms"})
      BY DEF Arrays, Owning
    <3>2. QED BY <2>3, <2>5, <3>1, CompleteKeepsWritable DEF PluginsOutcome
  <2>6. QED BY <1>a, <1>4, <2>4, <2>5, PluginsHaveOutcome DEF ReadPlugins
<1>5. CASE ReadLocations
  <2>1. pc = "locations" /\ pc' = "globals"
    BY <1>5 DEF ReadLocations, Go
  <2>2. \A a \in Arrays \ {"change_forms"} : arr'[a] = arr[a]
    BY <1>a, <1>5 DEF ReadLocations
  <2>3. err = "CG_OK" /\ pc \in Reading /\ pc' \notin BehindForms
    BY <2>1 DEF LossInv, Reading, BehindForms, Ending
  <2>4. QED BY <2>2, <2>3 DEF WritableInv
<1>6. ASSUME NEW table \in {"globals", "late_globals"}, ReadGlobal(table)
      PROVE  WritableInv'
  <2>1. pc = table /\ pc' \in {table, "cleanup"} /\ pc \in Reading
    BY <1>6, GlobalConcludes, ConcludeGoes DEF ReadGlobal, Fail, Reading
  <2>2. pc' = "cleanup" => err' # "CG_OK"
    BY <1>6, GlobalConcludes, FailuresFail DEF ReadGlobal, Fail
  <2>3. pc' \in BehindForms => pc \in BehindForms \/ err' # "CG_OK"
    BY <2>1, <2>2
  <2>4. CASE UNCHANGED arr
    BY <2>1, <2>3, <2>4, SameKeepsWritable
  <2>5. ASSUME NEW t \in KnownTypes, Deserialize(t, table) PROVE WritableInv'
    <3>1. t \in Structured /\ Outcome(t)
      BY <1>a, <2>5, KnownOutcome
    <3>2. ArraysOf(t) \in SUBSET (Arrays \ {"change_forms"})
      BY <3>1, ArraysDisjoint
    <3>3. QED BY <2>1, <2>3, <3>1, <3>2, CompleteKeepsWritable DEF Outcome
  <2>6. QED BY <1>6, <2>4, <2>5 DEF ReadGlobal, unknown_global, heap
<1>7. CASE EndOfTable("globals", "change_forms") \/ EndOfTable("late_globals", "form_ids")
  <2>1. /\ UNCHANGED arr /\ pc \in Reading
        /\ pc' \in BehindForms => pc \in BehindForms
    BY <1>7 DEF EndOfTable, Go, heap, BehindForms, Ending, Reading
  <2>2. QED BY <2>1, SameKeepsWritable
<1>8. CASE EndOfTable("forms", "late_globals")
  <2>1. pc = "forms" /\ left.forms = 0 /\ UNCHANGED <<arr, err>> /\ pc \in Reading
    BY <1>8 DEF EndOfTable, Go, heap, Reading
  <2>2. arr["change_forms"] \in SafeArray
    BY <1>a
  <2>3. /\ arr["change_forms"].set /\ arr["change_forms"].full + 0 = arr["change_forms"].len
        /\ arr["change_forms"].num = arr["change_forms"].len
        /\ arr["change_forms"].live = arr["change_forms"].full
    BY <2>1, <2>2 DEF HeapInv, LeakInv, SafeArray
  <2>4. arr["change_forms"].full \in Int /\ arr["change_forms"].len \in Int
    BY <2>2 DEF SafeArray, Array, Count
  <2>5. Complete("change_forms", arr["change_forms"])
    BY <2>3, <2>4 DEF Complete
  <2>6. QED BY <2>1, <2>5 DEF WritableInv, LossInv
<1>9. CASE AllocChangeForms \/ ReadChangeForm
  <2>1. /\ pc \in {"change_forms", "forms"}
        /\ pc' = "forms" \/ (pc' = "cleanup" /\ err' # "CG_OK")
    BY <1>9 DEF AllocChangeForms, ReadChangeForm, Go, Fail
  <2>2. \A a \in Arrays \ {"change_forms"} : arr'[a] = arr[a]
    BY <1>a, <1>9 DEF AllocChangeForms, ReadChangeForm, Replace
  <2>3. err = "CG_OK" /\ pc \in Reading /\ "forms" \notin BehindForms
    BY <2>1 DEF LossInv, Reading, BehindForms, Ending
  <2>4. QED BY <2>1, <2>2, <2>3 DEF WritableInv
<1>10. ASSUME NEW a, NEW next, <<a, next>> \in {<<"form_ids", "world_spaces">>,
                                                <<"world_spaces", "unknown3">>},
              pc = a, CountedArray(a, next)
       PROVE  WritableInv'
  <2>1. a \in Arrays \ {"change_forms"} /\ a \notin Owning
        /\ pc \in Reading \cap BehindForms
    BY <1>10 DEF Arrays, Owning, Reading, BehindForms
  <2>2. PICK r : arr' = [arr EXCEPT ![a] = r] /\ (err' = "CG_OK" => Complete(a, r))
    <3>1. \A n \in Count : Complete(a, Allocated(n, 0))
      <4>1. 0 \in Count BY DEF Count
      <4>2. QED BY <2>1, <4>1, CallocReached
    <3>2. QED BY <1>10, <3>1 DEF CountedArray, Replace, Fail
  <2>3. arr'[a] = r /\ \A b \in Arrays \ {a} : arr'[b] = arr[b]
    BY <1>a, <2>1, <2>2
  <2>4. {a} \in SUBSET (Arrays \ {"change_forms"})
    BY <2>1
  <2>5. QED BY <2>1, <2>2, <2>3, <2>4, CompleteKeepsWritable
<1>11. CASE ReadFormIds \/ ReadWorldSpaces
  <2>1. CASE err' = "CG_EOF"
    BY <2>1 DEF WritableInv
  <2>2. QED BY <1>10, <1>11, <2>1 DEF ReadFormIds, ReadWorldSpaces, Fail
<1>12. CASE Return \/ Release
  <2>1. CASE pc' = "released"
    BY <2>1 DEF WritableInv, Starting, Reading, Ending
  <2>2. CASE pc = "unmap" /\ Go("returned") /\ UNCHANGED heap
    BY <2>2, SameKeepsWritable DEF Go, heap, Ending, BehindForms
  <2>3. QED BY <1>12, <2>1, <2>2 DEF Return, Release, Go
<1>13. CASE UNCHANGED vars
  BY <1>13 DEF vars, WritableInv
<1>14. QED
  BY <1>2, <1>3, <1>4, <1>5, <1>6, <1>7, <1>8, <1>9, <1>10, <1>11, <1>12, <1>13
     DEF Next, Ended

\* In every reachable state without an error, what has been read is complete.
THEOREM SpecWritable == Spec => []WritableInv
BY InitWritable, NextWritable, SpecHeap, SpecLeak, SpecLoss, PTL DEF Spec
-----------------------------------------------------------------------------
\* At the start no part has been passed.
LEMMA InitPtr == Init => PtrInv
BY DEF Init, PtrInv, BehindHeader, BehindSnapshot, BehindVersion, Ending, Reading

\* The pointers file_writer dereferences without a test, apart from data4.
Required == Headers \cup {"snapshot_data", "game_version", "unknown3"}

\* A step that fails, or passes none of the parts that set a required pointer.
LEMMA SameKeepsPtrs ==
  ASSUME PtrInv, LossInv, save'.game = save.game \/ pc' \notin BehindVersion,
         err' = "CG_OK" => err = "CG_OK" /\ ptrs \cap Required \subseteq ptrs',
         err' = "CG_OK" => /\ pc' \in BehindHeader => pc \in BehindHeader
                           /\ pc' \in BehindSnapshot => pc \in BehindSnapshot
                           /\ pc' \in BehindVersion => pc \in BehindVersion
                           /\ pc' \in Ending => pc \in Ending
  PROVE  PtrInv'
BY DEF PtrInv, Required

\* As long as there is no error, the pointers of the parts that have been passed are set.
LEMMA NextPtr == LossInv /\ LiveInv /\ PtrInv /\ [Next]_vars => PtrInv'
<1>1. SUFFICES ASSUME LossInv, LiveInv, PtrInv, [Next]_vars PROVE PtrInv'
  OBVIOUS
<1>. USE <1>1
<1>2. CASE MapFile \/ AllocSave \/ CheckSize \/ ReadSignature \/ ContinueInFile
           \/ SizesMissing \/ SkipToBody \/ DecompressBody \/ Cleanup
           \/ ReadLocations \/ AllocChangeForms \/ ReadChangeForm
           \/ ReadFormIds \/ ReadWorldSpaces
  <2>1. UNCHANGED ptrs /\ (save'.game = save.game \/ pc' \notin BehindVersion)
    BY <1>2 DEF MapFile, AllocSave, CheckSize, ReadSignature, ContinueInFile,
       SizesMissing, SkipToBody, DecompressBody, Cleanup, ReadLocations, AllocChangeForms,
       ReadChangeForm, ReadFormIds, ReadWorldSpaces, heap, Go, Fail, BehindHeader,
       BehindSnapshot, BehindVersion, Ending, Reading
  <2>2. err' = "CG_OK" => err = "CG_OK"
    BY <1>2 DEF MapFile, AllocSave, CheckSize, ReadSignature, ContinueInFile,
       SizesMissing, SkipToBody, DecompressBody, Cleanup, ReadLocations, AllocChangeForms,
       ReadChangeForm, ReadFormIds, ReadWorldSpaces, CountedArray, Go, Fail
  <2>3. err' = "CG_OK" => /\ pc' \in BehindHeader => pc \in BehindHeader
                          /\ pc' \in BehindSnapshot => pc \in BehindSnapshot
                          /\ pc' \in BehindVersion => pc \in BehindVersion
                          /\ pc' \in Ending => pc \in Ending
    BY <1>2 DEF MapFile, AllocSave, CheckSize, ReadSignature, ContinueInFile,
       SizesMissing, SkipToBody, DecompressBody, Cleanup, ReadLocations, AllocChangeForms,
       ReadChangeForm, ReadFormIds, ReadWorldSpaces, CountedArray, Go, Fail,
       BehindHeader, BehindSnapshot, BehindVersion, Ending, Reading
  <2>4. QED BY <2>1, <2>2, <2>3, SameKeepsPtrs
<1>3. CASE ReadHeader
  <2>1. pc' \in {"snapshot", "cleanup"}
    BY <1>3, HeaderConcludes, ConcludeGoes DEF ReadHeader, Fail
  <2>2. pc' = "cleanup" => err' # "CG_OK"
    BY Zenon, <1>3, HeaderConcludes, FailuresFail DEF ReadHeader, Fail
  <2>3. err' = "CG_OK" => Headers \subseteq ptrs'
    BY <1>3 DEF ReadHeader, file_header, Conclude, Leave, Fail, Headers
  <2>4. QED BY <2>1, <2>2, <2>3 DEF PtrInv, BehindSnapshot, BehindVersion, Ending
<1>4. CASE ReadSnapshot
  <2>1. err' = "CG_OK" => /\ pc = "snapshot" /\ pc' = "body" /\ err = "CG_OK"
                          /\ ptrs' = ptrs \cup {"snapshot_data"}
    BY <1>4 DEF ReadSnapshot, Go, Fail
  <2>2. QED BY <2>1 DEF PtrInv, BehindHeader, BehindSnapshot, BehindVersion, Ending, Reading
<1>5. CASE ReadVersion
  <2>1. err' = "CG_OK" => /\ pc = "version" /\ pc' = "plugins" /\ err = "CG_OK"
                          /\ \/ ptrs' = ptrs \cup {"game_version"}
                             \/ save.game # "FALLOUT4" /\ ptrs' = ptrs
    BY <1>5 DEF ReadVersion, Go, Fail
  <2>2. save'.game = save.game \/ err' # "CG_OK"
    BY <1>5 DEF ReadVersion, Fail, LiveInv, Save
  <2>3. QED BY <2>1, <2>2
            DEF PtrInv, BehindHeader, BehindSnapshot, BehindVersion, Ending, Reading
<1>6. CASE ReadPlugins
  <2>1. /\ pc = "plugins" /\ pc' \in {"locations", "cleanup"}
        /\ UNCHANGED <<save, ptrs>>
    BY <1>6, PluginsConclude, ConcludeGoes DEF ReadPlugins, Fail
  <2>2. pc' = "cleanup" => err' # "CG_OK"
    BY <1>6, PluginsConclude, FailuresFail DEF ReadPlugins, Fail
  <2>3. err = "CG_OK"
    BY <2>1 DEF LossInv, Reading
  <2>4. QED BY <2>1, <2>2, <2>3, SameKeepsPtrs
            DEF BehindHeader, BehindSnapshot, BehindVersion, Ending, Reading
<1>7. ASSUME NEW table \in {"globals", "late_globals"}, ReadGlobal(table)
      PROVE  PtrInv'
  <2>1. pc = table /\ pc' \in {table, "cleanup"} /\ UNCHANGED save
    BY <1>7, GlobalConcludes, ConcludeGoes DEF ReadGlobal, Fail
  <2>2. pc' = "cleanup" => err' # "CG_OK"
    BY <1>7, GlobalConcludes, FailuresFail DEF ReadGlobal, Fail
  <2>3. err = "CG_OK"
    BY <2>1 DEF LossInv, Reading
  <2>4. ptrs \ {"data4"} \subseteq ptrs'
    BY <1>7 DEF ReadGlobal, heap, Deserialize, unknown_global, misc_stats, player_location,
       global_vars, weather, favourites
  <2>5. ptrs \cap Required \subseteq ptrs'
    BY <2>4, HeaderNames DEF Required
  <2>6. QED BY <2>1, <2>2, <2>3, <2>5, SameKeepsPtrs DEF Ending
<1>8. ASSUME NEW table, NEW next, <<table, next>> \in {<<"globals", "change_forms">>,
               <<"forms", "late_globals">>, <<"late_globals", "form_ids">>},
             EndOfTable(table, next)
      PROVE  PtrInv'
  <2>1. UNCHANGED <<ptrs, err, save>> /\ pc = table /\ pc' = next
    BY <1>8 DEF EndOfTable, Go, heap
  <2>2. QED BY <1>8, <2>1, SameKeepsPtrs DEF BehindHeader, BehindSnapshot, BehindVersion,
        Ending, Reading
<1>9. CASE ReadUnknown3
  <2>1. err' = "CG_OK" => /\ pc = "unknown3" /\ err = "CG_OK"
                          /\ ptrs' = ptrs \cup {"unknown3"} /\ UNCHANGED save
    BY <1>9 DEF ReadUnknown3, Go, Fail
  <2>2. QED BY <2>1 DEF PtrInv, BehindHeader, BehindSnapshot, BehindVersion, Ending, Reading
<1>10. CASE Return \/ Release
  <2>1. CASE pc' = "released"
    BY <2>1 DEF PtrInv, BehindHeader, BehindSnapshot, BehindVersion, Ending, Reading
  <2>2. CASE pc = "unmap" /\ pc' = "returned" /\ UNCHANGED <<err, save, ptrs>>
    BY <2>2, SameKeepsPtrs DEF BehindHeader, BehindSnapshot, BehindVersion, Ending
  <2>3. QED BY <1>10, <2>1, <2>2 DEF Return, Release, Go, heap
<1>11. CASE UNCHANGED vars
  BY <1>11 DEF vars, PtrInv
<1>12. QED
  BY <1>2, <1>3, <1>4, <1>5, <1>6, <1>7, <1>8, <1>9, <1>10, <1>11
     DEF Next, Ended

\* In every reachable state without an error the pointers of what was read are set.
THEOREM SpecPtr == Spec => []PtrInv
BY InitPtr, NextPtr, SpecLoss, SpecLive, PTL DEF Spec

\* Whatever file was read: a save that cengine_savefile_read returns has every array,
\* element, string and chunk that file_writer dereferences.
THEOREM SuccessGivesWritable == Spec => []SuccessIsWritable
<1>1. BodyInv /\ WritableInv /\ PtrInv => SuccessIsWritable
  <2>1. SUFFICES ASSUME BodyInv, WritableInv, PtrInv, pc = "returned"
                 PROVE  SuccessIsWritable
    BY DEF SuccessIsWritable
  <2>2. err = "CG_OK"
    BY <2>1 DEF BodyInv
  <2>3. \A a \in Arrays : Complete(a, arr[a])
    BY <2>1, <2>2 DEF WritableInv, Ending, BehindForms
  <2>4. /\ Headers \subseteq ptrs /\ "snapshot_data" \in ptrs /\ "unknown3" \in ptrs
        /\ save.game = "FALLOUT4" => "game_version" \in ptrs
    BY <2>1, <2>2 DEF PtrInv, BehindHeader, BehindSnapshot, BehindVersion, Ending
  <2>5. Owning \subseteq Arrays
    BY DEF Arrays
  <2>6. QED BY <2>3, <2>4, <2>5 DEF SuccessIsWritable, Complete, Headers
<1>2. QED BY SpecBody, SpecWritable, SpecPtr, <1>1, PTL
-----------------------------------------------------------------------------
\* The variables the other invariants say nothing of.
RestOK ==
    /\ pc \in Starting \cup Reading \cup Leaving
    /\ err \in Failures \cup {"CG_OK"}
    /\ mapped \in {"no", "failed", "short", "yes", "gone"}
    /\ body \in {"none", "live", "freed"}
    /\ cur \in Place
    /\ ptrs \subseteq Singles
    /\ ret \in {"none", "null", "save"}
    /\ lost \in BOOLEAN /\ cut \in BOOLEAN
    /\ seen \subseteq KnownTypes /\ again \in BOOLEAN
    /\ orphaned \in BOOLEAN

\* TypeOK says of them, of the heap and of the save what they can be.
LEMMA PartsTyped == RestOK /\ HeapInv /\ LiveInv => TypeOK
BY DEF RestOK, HeapInv, LiveInv, TypeOK, SafeArray, Starting

\* The first state is typed.
LEMMA InitRest == Init => RestOK
BY DEF Init, RestOK, Starting, Place

\* Going on and failing are typed.
LEMMA ControlTyped ==
  ASSUME RestOK, \/ \E next \in Reading \cup Leaving : Go(next)
                 \/ \E e \in Failures : Fail(e)
  PROVE  pc' \in Reading \cup Leaving /\ err' \in Failures \cup {"CG_OK"}
BY DEF RestOK, Go, Fail, Leaving

\* Loads are.
LEMMA LoadTyped ==
  ASSUME RestOK, \/ Delivered \/ Refused \/ NoBlock
                 \/ Skipped
                 \/ BlockFound /\ UNCHANGED lost
                 \/ UNCHANGED <<cur, lost>>
  PROVE  cur' \in Place /\ lost' \in BOOLEAN
<1>1. cur' \in Place
  BY DEF RestOK, Delivered, Refused, NoBlock, Skipped, BlockFound, After, Place
<1>2. lost' = lost \/ lost' = TRUE
  BY DEF Delivered, Refused, NoBlock, Skipped
<1>3. QED BY <1>1, <1>2 DEF RestOK

\* A conclusion of a block is.
LEMMA ConcludeTyped ==
  ASSUME RestOK, BlockFound, NEW next \in Reading, Concludes(next)
  PROVE  /\ pc' \in Reading \cup Leaving /\ err' \in Failures \cup {"CG_OK"}
         /\ cur' \in Place /\ lost' \in BOOLEAN
<1>1. PICK e \in Failures \cup {"CG_OK"}, short \in BOOLEAN : Conclude(e, short, next)
  BY DEF Concludes
<1>2. lost' \in BOOLEAN
  BY <1>1 DEF Conclude, RestOK
<1>3. Go(next) \/ \E f \in Failures : Fail(f)
  BY <1>1 DEF Conclude, Leave, Failures
<1>4. QED BY <1>2, <1>3, ControlTyped DEF RestOK, BlockFound

\* Every step is typed.
LEMMA NextRest == RestOK /\ [Next]_vars => RestOK'
<1>1. SUFFICES ASSUME RestOK, [Next]_vars PROVE RestOK'
  OBVIOUS
<1>. USE <1>1
<1>a. ASSUME pc' \in Reading \cup Leaving, err' \in Failures \cup {"CG_OK"},
             cur' \in Place, lost' \in BOOLEAN, ptrs' \subseteq Singles,
             orphaned' \in BOOLEAN, UNCHANGED <<seen, again>>, UNCHANGED outside
      PROVE  RestOK'
  BY <1>a DEF RestOK, outside
<1>2. CASE MapFile \/ AllocSave \/ CheckSize \/ Cleanup
  BY <1>2 DEF RestOK, MapFile, AllocSave, CheckSize, Cleanup, Go, heap, outside, Starting,
     Reading, Leaving, Failures
<1>b. CASE ReadSignature \/ ContinueInFile \/ SizesMissing \/ SkipToBody
  <2>1. pc' \in Reading \cup Leaving /\ err' \in Failures \cup {"CG_OK"}
    BY <1>b, ControlTyped DEF ReadSignature, ContinueInFile, SizesMissing, SkipToBody,
       Reading, Failures
  <2>2. cur' \in Place /\ lost' \in BOOLEAN
    BY <1>b, LoadTyped DEF ReadSignature, ContinueInFile, SizesMissing, SkipToBody
  <2>3. UNCHANGED heap /\ UNCHANGED outside
    BY <1>b DEF ReadSignature, ContinueInFile, SizesMissing, SkipToBody
  <2>4. QED BY <1>a, <2>1, <2>2, <2>3 DEF RestOK, heap
<1>3. CASE DecompressBody
  BY <1>3 DEF RestOK, DecompressBody, Go, Fail, heap, Reading, Leaving, Failures
<1>4. CASE ReadHeader
  <2>1. UNCHANGED <<arr, seen, again, orphaned>> /\ UNCHANGED outside
    BY <1>4 DEF ReadHeader
  <2>2. ptrs' \subseteq Singles
    <3>1. \A k \in 0..4 : {HeaderStrings[j] : j \in 1..k} \subseteq Singles
      BY SMTT(30) DEF Singles, Named
    <3>2. ptrs' = ptrs \/ \E k \in 0..4 : ptrs' = ptrs \cup {HeaderStrings[j] : j \in 1..k}
      BY <1>4 DEF ReadHeader, file_header
    <3>3. QED BY <3>1, <3>2 DEF RestOK
  <2>3. CASE NoBlock /\ Fail("CG_EOF")
    <3>1. "CG_EOF" \in Failures BY DEF Failures
    <3>2. QED BY <1>a, <2>1, <2>2, <2>3, <3>1, ControlTyped, LoadTyped DEF RestOK
  <2>4. CASE BlockFound /\ file_header("snapshot")
    <3>1. "snapshot" \in Reading BY DEF Reading
    <3>2. QED BY <1>a, <2>1, <2>2, <2>4, <3>1, HeaderConcludes, ConcludeTyped DEF RestOK
  <2>5. QED BY <1>4, <2>3, <2>4 DEF ReadHeader
<1>5. CASE ReadSnapshot \/ ReadVersion \/ ReadUnknown3
  <2>1. pc' \in Reading \cup Leaving /\ err' \in Failures \cup {"CG_OK"}
    BY <1>5, ControlTyped DEF ReadSnapshot, ReadVersion, ReadUnknown3, Reading, Leaving,
       Failures
  <2>2. cur' \in Place /\ lost' \in BOOLEAN
    BY <1>5, LoadTyped DEF ReadSnapshot, ReadVersion, ReadUnknown3, Unchecked
  <2>3. ptrs' \subseteq ptrs \cup {"snapshot_data", "game_version", "unknown3"}
    BY <1>5 DEF ReadSnapshot, ReadVersion, ReadUnknown3
  <2>4. ptrs' \subseteq Singles
    BY <2>3 DEF RestOK, Singles, Named
  <2>5. UNCHANGED <<seen, again, orphaned>> /\ UNCHANGED outside
    BY <1>5 DEF ReadSnapshot, ReadVersion, ReadUnknown3
  <2>6. QED BY <1>a, <2>1, <2>2, <2>4, <2>5 DEF RestOK
<1>7. CASE ReadPlugins
  <2>1. UNCHANGED <<ptrs, seen, again, orphaned>> /\ UNCHANGED outside
    BY <1>7 DEF ReadPlugins, plugin_info
  <2>2. CASE NoBlock /\ Fail("CG_EOF")
    <3>1. "CG_EOF" \in Failures BY DEF Failures
    <3>2. QED BY <1>a, <2>1, <2>2, <3>1, ControlTyped, LoadTyped DEF RestOK
  <2>3. CASE BlockFound /\ plugin_info("locations")
    <3>1. "locations" \in Reading BY DEF Reading
    <3>2. QED BY <1>a, <2>1, <2>3, <3>1, PluginsConclude, ConcludeTyped DEF RestOK
  <2>4. QED BY <1>7, <2>2, <2>3 DEF ReadPlugins
<1>8. CASE ReadLocations
  <2>1. (cur = "inside" /\ Skipped) \/ Refused
    BY <1>8 DEF ReadLocations
  <2>2. "globals" \in Reading BY DEF Reading
  <2>3. QED BY <1>8, <1>a, <2>1, <2>2, ControlTyped, LoadTyped DEF ReadLocations, RestOK
<1>9. ASSUME NEW table \in {"globals", "late_globals"}, ReadGlobal(table)
      PROVE  RestOK'
  <2>1. UNCHANGED outside /\ table \in Reading
    BY <1>9 DEF ReadGlobal, Reading
  <2>2. CASE /\ NoBlock \/ (BlockFound /\ UNCHANGED lost)
             /\ Fail("CG_EOF") \/ Fail("CG_CORRUPT")
             /\ UNCHANGED heap
    <3>1. "CG_EOF" \in Failures /\ "CG_CORRUPT" \in Failures BY DEF Failures
    <3>2. QED BY <1>a, <2>1, <2>2, <3>1, ControlTyped, LoadTyped DEF RestOK, heap
  <2>3. ASSUME NEW t \in KnownTypes, BlockFound, Deserialize(t, table),
               seen' = seen \cup {t}, again' = (again \/ t \in seen)
        PROVE  RestOK'
    <3>1. /\ pc' \in Reading \cup Leaving /\ err' \in Failures \cup {"CG_OK"}
          /\ cur' \in Place /\ lost' \in BOOLEAN
      BY <2>1, <2>3, GlobalConcludes, ConcludeTyped
    <3>2. orphaned' \in BOOLEAN
      BY <2>3 DEF Deserialize, misc_stats, player_location, global_vars, weather,
         favourites, Replace, RestOK
    <3>3. ptrs' \subseteq ptrs \cup {"data4"}
      BY <2>3 DEF Deserialize, misc_stats, player_location, global_vars, weather,
         favourites
    <3>4. ptrs' \subseteq Singles
      BY <3>3 DEF RestOK, Singles, Named
    <3>5. seen' \subseteq KnownTypes /\ again' \in BOOLEAN
      BY <2>3 DEF RestOK
    <3>6. QED BY <2>1, <3>1, <3>2, <3>4, <3>5 DEF RestOK, outside
  <2>4. ASSUME NEW u \in UnknownTypes, BlockFound, unknown_global(u, table),
               UNCHANGED <<seen, again>>
        PROVE  RestOK'
    <3>1. /\ pc' \in Reading \cup Leaving /\ err' \in Failures \cup {"CG_OK"}
          /\ cur' \in Place /\ lost' \in BOOLEAN
      BY <2>1, <2>4, GlobalConcludes, ConcludeTyped
    <3>2. UNCHANGED orphaned /\ ptrs' \subseteq ptrs \cup {u}
      BY <2>4 DEF unknown_global
    <3>3. QED BY <1>a, <2>1, <2>4, <3>1, <3>2 DEF RestOK, Singles
  <2>5. QED BY <1>9, <2>2, <2>3, <2>4 DEF ReadGlobal
<1>10. ASSUME NEW table, NEW next \in {"change_forms", "late_globals", "form_ids"},
              EndOfTable(table, next)
       PROVE  RestOK'
  BY <1>10 DEF RestOK, EndOfTable, Go, outside, heap, Reading
<1>11. CASE AllocChangeForms \/ ReadChangeForm
  <2>1. pc' \in Reading \cup Leaving /\ err' \in Failures \cup {"CG_OK"}
    BY <1>11, ControlTyped DEF AllocChangeForms, ReadChangeForm, Reading, Failures
  <2>2. cur' \in Place /\ lost' \in BOOLEAN
    BY <1>11, LoadTyped DEF AllocChangeForms, ReadChangeForm
  <2>3. orphaned' \in BOOLEAN
    BY <1>11 DEF AllocChangeForms, ReadChangeForm, Replace, RestOK
  <2>4. UNCHANGED <<ptrs, seen, again>> /\ UNCHANGED outside
    BY <1>11 DEF AllocChangeForms, ReadChangeForm
  <2>5. QED BY <1>a, <2>1, <2>2, <2>3, <2>4 DEF RestOK
<1>12. ASSUME NEW a, NEW next \in Reading, CountedArray(a, next)
       PROVE  /\ pc' \in Reading \cup Leaving /\ err' \in Failures \cup {"CG_OK"}
              /\ cur' \in Place /\ lost' \in BOOLEAN /\ orphaned' \in BOOLEAN
  <2>1. "CG_NO_MEM" \in Failures BY DEF Failures
  <2>2. pc' \in Reading \cup Leaving /\ err' \in Failures \cup {"CG_OK"}
    BY <1>12, <2>1, ControlTyped DEF CountedArray
  <2>3. cur' \in Place /\ lost' \in BOOLEAN
    BY <1>12, LoadTyped DEF CountedArray
  <2>4. orphaned' \in BOOLEAN
    BY <1>12 DEF CountedArray, Replace, RestOK
  <2>5. QED BY <2>2, <2>3, <2>4
<1>13. CASE ReadFormIds \/ ReadWorldSpaces
  <2>1. UNCHANGED <<ptrs, seen, again>> /\ UNCHANGED outside
    BY <1>13 DEF ReadFormIds, ReadWorldSpaces
  <2>2. CASE /\ Refused /\ UNCHANGED orphaned
             /\ err' = "CG_EOF" /\ pc' \in {"cleanup", "unmap"}
    <3>1. pc' \in Leaving /\ err' \in Failures
      BY <2>2 DEF Leaving, Failures
    <3>2. QED BY <1>a, <2>1, <2>2, <3>1, LoadTyped DEF RestOK
  <2>3. CASE \/ CountedArray("form_ids", "world_spaces")
             \/ CountedArray("world_spaces", "unknown3")
    <3>1. "world_spaces" \in Reading /\ "unknown3" \in Reading BY DEF Reading
    <3>2. QED BY <1>a, <1>12, <2>1, <2>3, <3>1 DEF RestOK
  <2>4. QED BY <1>13, <2>2, <2>3 DEF ReadFormIds, ReadWorldSpaces, Fail
<1>15. CASE Return \/ Release
  BY ZenonT(40), <1>15 DEF RestOK, Return, Release, savegame_free, Go, outside, heap, Leaving
<1>16. CASE UNCHANGED vars
  BY <1>16 DEF RestOK, vars
<1>17. QED
  BY <1>2, <1>b, <1>3, <1>4, <1>5, <1>7, <1>8, <1>9, <1>10, <1>11, <1>13, <1>15, <1>16
     DEF Next, Ended

\* The reader's state is typed for every file; in particular no count ever leaves the
\* range of its field.
THEOREM ReaderTyped == Spec => []TypeOK
<1>1. Spec => []RestOK
  BY InitRest, NextRest, PTL DEF Spec
<1>2. QED BY <1>1, SpecHeap, SpecLive, PartsTyped, PTL
=============================================================================

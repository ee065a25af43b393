-------------------------------- MODULE Saving --------------------------------
(***************************************************************************)
(* main and cengine_savefile_write: the calls that make the output file,   *)
(* file_writer's stores into its mapping, and what is on disk when one of  *)
(* the calls fails or the program is killed anywhere on the way.           *)
(***************************************************************************)
EXTENDS FormatWriter

CONSTANTS Saves,      \* saves that were read
          Reader(_),  \* file_reader: what it makes of a file, [ok, save]
          Writer(_),  \* file_writer: [end, stores, size, buffered]
          MaxFile,    \* 128 MiB scaled down
          Cuts        \* how much of a store is there when the program dies in it

\* What a reader makes of contents, compared with the save s.
Verdict(s, contents) ==
    LET result == Reader(contents)
    IN  IF ~result.ok THEN "nothing" ELSE IF result.save = s THEN "new" ELSE "part"

InBuffer(s) == supports_save_file_compression(s) /\ Number(s.compressor[1]) # 0

\* A store of up to four octets happens or does not; of others the front may be there.
Torn(store) ==
    {[store EXCEPT !.octets = SubSeq(@, 1, k)] :
       k \in {k \in Cuts : Len(store.octets) > 4 /\ k < Len(store.octets)}}

\* The file, as long as it was made, after the first k stores.
FileAfter(stores, k) == Contents(SubSeq(stores, 1, k), MaxFile)

\* Into what a reader's verdict may change while a save appears at one stroke.
Appears(before, after) == before # "part" /\ after \in {before, "new"}

\* All stores are inside of what is said to be the size, and there is room for that, and
\* for the body in its buffer.  (SaveWriter has the case that a save does not fit.)
FitsInside(plan) ==
    /\ plan.end \in {"CG_OK", "CG_COMPRESS", "killed"}
    /\ plan.size \in 1..MaxFile /\ plan.buffered \in 0..MaxFile
    /\ plan.stores \in Seq([at : Nat, octets : Seq(Octet)])
    /\ \A i \in DOMAIN plan.stores :
         plan.stores[i].at + Len(plan.stores[i].octets) <= plan.size

\* A whole save is read as what it is, zeroes behind it or not; what there is of one that
\* cannot be compressed, or that has no memory to be compressed in, is no save.  (RoundTrip
\* has saves that compression makes too short to be read; they are none of these.)
ReadsBack(s, plan) ==
    /\ plan.end = "CG_OK" =>
         \A n \in {plan.size, MaxFile} : Verdict(s, Contents(plan.stores, n)) = "new"
    /\ plan.end = "CG_COMPRESS" =>
         Verdict(s, FileAfter(plan.stores, Len(plan.stores))) = "nothing"
    /\ InBuffer(s) => Verdict(s, FileAfter(plan.stores, 4)) = "nothing"

\* Of a save with a buffer for its body nothing is found before all is.
AtOneStroke(s, plan) ==
    InBuffer(s) =>
      \A k \in 1..Len(plan.stores) : \A store \in {plan.stores[k]} \cup Torn(plan.stores[k]) :
        LET file == FileAfter(plan.stores, k - 1)
        IN  Appears(Verdict(s, file), Verdict(s, OverStore(file, store)))

\* What main and cengine_savefile_write rely on: an empty file and one of zeroes are no
\* saves, and file_writer's stores come in an order that is safe.
ASSUME SavingAssumption ==
    /\ MaxFile \in Nat /\ Cuts \subseteq Nat
    /\ \A n \in {0, MaxFile} : ~Reader(Contents(<<>>, n)).ok
    /\ \A s \in Saves :
         LET plan == Writer(s)
         IN  FitsInside(plan) /\ ReadsBack(s, plan) /\ AtOneStroke(s, plan)

VARIABLES
    pc,
    save,    \* the save that is written
    plan,    \* what file_writer does with it
    old,     \* the path still has its former contents
    file,    \* its contents since
    done,    \* stores made so far
    err,     \* what file_writer returned
    exit,    \* what main returned
    found    \* history: what cengine_savefile_read would make of the path

vars == <<pc, save, plan, old, file, done, err, exit, found>>
given == <<save, plan>>
disk == <<old, file, done, found>>

Calls == {"open", "ftruncate", "mmap", "close", "store", "munmap", "truncate", "return"}

\* The path leads to other contents, in which a reader finds something else.
Becomes(contents) == file' = contents /\ found' = Verdict(save, contents)

\* The old contents are gone before the file grows and before the first store.
TypeOK ==
    /\ pc \in Calls \cup {"exited"}
    /\ plan.end \in {"CG_OK", "CG_COMPRESS", "killed"}
    /\ old \in BOOLEAN
    /\ Len(file) <= MaxFile /\ \A i \in DOMAIN file : file[i] \in Octet
    /\ done \in 0..Len(plan.stores)
    /\ err \in {"CG_OK", "CG_COMPRESS", "CG_NO_MEM"}
    /\ exit \in {"none", "EXIT_SUCCESS", "EXIT_FAILURE", "died"}
    /\ found \in {"old", "nothing", "part", "new"}
    /\ old => file = <<>> /\ done = 0
    /\ done > 0 => Len(file) > 0

Init == /\ pc = "open"
        /\ save \in Saves /\ plan = Writer(save)
        /\ old = TRUE /\ file = <<>> /\ done = 0 /\ found = "old"
        /\ err = "CG_OK" /\ exit = "none"

Go(next) == pc' = next /\ UNCHANGED exit

\* return -1; main returns EXIT_FAILURE.
GiveUp == pc' = "exited" /\ exit' = "EXIT_FAILURE" /\ UNCHANGED disk

\* Mutant: without O_TRUNC.
OpenKeeping == /\ pc = "open"
               /\ GiveUp \/ (Go("ftruncate") /\ UNCHANGED disk)
               /\ UNCHANGED err /\ UNCHANGED given

\* With O_TRUNC.
Open == /\ pc = "open"
        /\ UNCHANGED err /\ UNCHANGED given
        /\ \/ GiveUp
           \/ Go("ftruncate") /\ old' = FALSE /\ Becomes(<<>>) /\ UNCHANGED done

Ftruncate == /\ pc = "ftruncate"
             /\ UNCHANGED err /\ UNCHANGED given
             /\ \/ GiveUp
                \/ Go("mmap") /\ Becomes(Contents(<<>>, MaxFile)) /\ UNCHANGED <<old, done>>

Mmap == /\ pc = "mmap"
        /\ GiveUp \/ (Go("close") /\ UNCHANGED disk)
        /\ UNCHANGED err /\ UNCHANGED given

\* A failure of close is printed.
Close == /\ pc = "close" /\ Go("store")
         /\ UNCHANGED err /\ UNCHANGED disk /\ UNCHANGED given

\* The next of file_writer's stores.  Those into the body buffer are not seen here.
StoreNext == /\ pc = "store" /\ done < Len(plan.stores)
             /\ done' = done + 1 /\ Becomes(OverStore(file, plan.stores[done + 1]))
             /\ UNCHANGED <<pc, exit, old, err>> /\ UNCHANGED given

\* Signature, header (two stores) and snapshot are in the file, and there is no memory
\* for the body buffer.
NoBodyBuffer == /\ pc = "store" /\ InBuffer(save) /\ done = 4
                /\ err' = "CG_NO_MEM" /\ Go("munmap")
                /\ UNCHANGED disk /\ UNCHANGED given

FileWritten == /\ pc = "store" /\ done = Len(plan.stores) /\ plan.end # "killed"
               /\ err' = plan.end /\ Go("munmap")
               /\ UNCHANGED disk /\ UNCHANGED given

\* A failure of munmap is printed.
Munmap == /\ pc = "munmap" /\ Go("truncate")
          /\ UNCHANGED err /\ UNCHANGED disk /\ UNCHANGED given

\* Mutant: *file_size_ptr becomes what is left of the file, not what is used.
FileSizeLeft == IF err = "CG_OK" THEN MaxFile - plan.size ELSE MaxFile

\* file_writer changes *file_size_ptr at its very end.
FileSize == IF err = "CG_OK" THEN plan.size ELSE MaxFile

\* A failure of truncate is printed.
Truncate == /\ pc = "truncate" /\ Go("return")
            /\ UNCHANGED <<file, found>> \/ Becomes(SubSeq(file, 1, FileSize))
            /\ UNCHANGED <<old, done, err>> /\ UNCHANGED given

\* Mutant: what file_writer returned is forgotten.
ReturnZero == /\ pc = "return" /\ pc' = "exited" /\ exit' = "EXIT_SUCCESS"
              /\ UNCHANGED err /\ UNCHANGED disk /\ UNCHANGED given

Return == /\ pc = "return" /\ pc' = "exited"
          /\ exit' = IF err = "CG_OK" THEN "EXIT_SUCCESS" ELSE "EXIT_FAILURE"
          /\ UNCHANGED err /\ UNCHANGED disk /\ UNCHANGED given

\* The program is killed: by a signal, by SIGBUS when the disk is full, or at the end
\* of file_writer by itself.
Die == /\ pc # "exited" /\ pc' = "exited" /\ exit' = "died"
       /\ \/ UNCHANGED <<file, found>>
          \/ /\ pc = "store" /\ done < Len(plan.stores)
             /\ \E torn \in Torn(plan.stores[done + 1]) : Becomes(OverStore(file, torn))
       /\ UNCHANGED <<old, done, err>> /\ UNCHANGED given

Ended == pc = "exited" /\ UNCHANGED vars

Next == \/ Open \/ Ftruncate \/ Mmap \/ Close
        \/ StoreNext \/ NoBodyBuffer \/ FileWritten
        \/ Munmap \/ Truncate \/ Return
        \/ Die \/ Ended

\* One thread that waits for nobody goes on until it has ended.  (The same as
\* WF_vars(Next), in a form that says nothing of the contents of the file.)
GoesOn == /\ pc # "exited"
          /\ pc' \in Calls \cup {"exited"} /\ done' \in 0..Len(plan.stores)

Spec == Init /\ [][Next]_vars /\ WF_<<pc, done>>(GoesOn)
-----------------------------------------------------------------------------
\* EXIT_SUCCESS means that the whole save is on disk and nothing but zeroes behind it,
\* although the failures of close, munmap and truncate are only printed.
SuccessMeansSaved ==
    exit = "EXIT_SUCCESS" =>
        /\ found = "new"
        /\ Len(file) \in {plan.size, MaxFile}
        /\ file = Contents(plan.stores, Len(file))

\* What the user is told.
Told == CASE exit = "none" -> "nothing yet"
          [] exit = "EXIT_SUCCESS" -> "success"
          [] exit = "EXIT_FAILURE" -> "failure"
          [] exit = "died" -> "died"

O == INSTANCE Output WITH in_place <- ~InBuffer(save), told <- Told

\* Wherever cengine_savefile_write fails or dies, a reader finds no part of a compressed
\* save; a failure leaves no save but the old one; a compressed save that is complete
\* stays complete; and there is an answer.  The locations and the two sizes are stored
\* last, and the zeroes that are there before must not pass for a save.
ImplementsOutput == O!Spec
=============================================================================

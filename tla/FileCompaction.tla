--------------------------- MODULE FileCompaction ---------------------------
(***************************************************************************)
(* File compaction (FileMgr::compactFiles) of one table, in three phases   *)
(* that a status file on disk names: pages are copied from the files with  *)
(* the most free pages to those with the fewest, the copies are made       *)
(* visible and the originals freed, and the files left empty are deleted.  *)
(* A crash may come between any two steps; opening the table resumes the   *)
(* phase that the status file names.                                       *)
(*                                                                         *)
(* `cache' is what the process reads, `disk' what it has handed to the     *)
(* system: a killed process may lose what lies between them.  The table is *)
(* locked for the whole of it, so no query takes part.                     *)
(***************************************************************************)
EXTENDS Integers, Sequences, FiniteSets, FiniteSetsExt

CONSTANTS Files,        \* file ids, naturals: files_ is an ordered map
          DataFiles,    \* those of them that have data pages, the others have metadata pages
          NumPages,     \* pages of a file
          MaxCrashes,   \* bound: how often the process is killed
          FreedSinceOpen, \* whether pages were freed, and checkpointed, since the table
                          \* was opened: their headers still have a size
          LosesBuffered   \* whether a killed process may lose writes of its own

ASSUME FilesAssumption ==
  /\ Files \subseteq Nat /\ IsFiniteSet(Files) /\ DataFiles \subseteq Files
ASSUME BoundsAssumption ==
  /\ NumPages \in Nat \ {0} /\ MaxCrashes \in Nat
  /\ FreedSinceOpen \in BOOLEAN /\ LosesBuffered \in BOOLEAN

VARIABLES disk,        \* the files as the system has them: file id to pages
          cache,       \* the files as the process reads them
          freePages,   \* FileInfo::freePages, by file
          status,      \* the status file: its name, and the page mappings in it
          page_mappings, \* the copies made, in memory
          loop,        \* locals of sortAndCopyFilePagesForCompaction
          todo,        \* page sizes not yet compacted
          at,          \* next mapping to make visible, or file to look at
          pc,          \* where the process is
          crashes,     \* how often it was killed
          written      \* history: what the used pages held at first

vars == <<disk, cache, freePages, status, page_mappings, loop, todo, at, pc, crashes, written>>

Pages == 0 .. NumPages - 1
PageSizes == {"metadata", "data"}
FilesOf(size) == {f \in DOMAIN cache : (f \in DataFiles) <=> (size = "data")}

(***************************************************************************)
(* A page: whether its header has a size, and all that follows the size.   *)
(* Deleted is what freePage leaves there: such a page is free in memory    *)
(* once its epoch is checkpointed, and on opening its size is set to zero. *)
(***************************************************************************)
Deleted == <<>>
Page(used, body) == [used |-> used, body |-> body]
Holds(p) == p.used /\ p.body # Deleted
UsedPages(img) == {p \in (DOMAIN img) \X Pages : Holds(img[p[1]][p[2]])}

NoStatus == [name |-> "none", mappings |-> <<>>]
NoLoop == [order |-> <<>>, destination |-> 0, source |-> 0, used |-> {}]

write(img, f, n, p) == [img EXCEPT ![f] = [@ EXCEPT ![n] = p]]

-----------------------------------------------------------------------------
(***************************************************************************)
(* Phase 1.  The status file is created; then, for each page size, the     *)
(* files are sorted and used pages are copied from the last files of the   *)
(* order into free pages of the first ones.                                *)
(***************************************************************************)
compactFiles ==
  /\ pc \in {"running", "restart"}
  /\ page_mappings' = <<>>
  /\ IF DOMAIN cache = {}
     THEN pc' = "done" /\ UNCHANGED <<status, todo>>
     ELSE /\ status' = [NoStatus EXCEPT !.name = "copy_pages"]
          /\ todo' = {s \in PageSizes : FilesOf(s) # {}}
          /\ pc' = "sort"
  /\ UNCHANGED <<disk, cache, freePages, loop, at, crashes, written>>

Full(f) == freePages[f] = {}

\* Mutant: a file with one used page counts as empty.
AlmostEmpty(f) == Cardinality(freePages[f]) >= NumPages - 1

Empty(f) == freePages[f] = Pages

\* Files in ascending order of free pages; std::sort leaves ties in any order.
SortedByFree(S) ==
  {o \in [1 .. Cardinality(S) -> S] : \A i, j \in DOMAIN o :
     i < j => o[i] # o[j] /\ Cardinality(freePages[o[i]]) <= Cardinality(freePages[o[j]])}

\* Full files are skipped in front and empty ones at the end, as long as the
\* destination and the source do not meet.
FirstDestination(order) == Min({i \in DOMAIN order : ~Full(order[i])} \cup {Len(order)})
LastSource(order, destination) ==
  Max({i \in destination .. Len(order) : ~Empty(order[i])} \cup {destination})

sortFiles ==
  /\ pc = "sort"
  /\ todo # {}
  /\ LET size == IF "metadata" \in todo THEN "metadata" ELSE "data"
     IN /\ todo' = todo \ {size}
        /\ \E order \in SortedByFree(FilesOf(size)) :
             LET destination == FirstDestination(order)
             IN loop' = [order |-> order, destination |-> destination,
                         source |-> LastSource(order, destination), used |-> {}]
  /\ pc' = "copy"
  /\ UNCHANGED <<disk, cache, freePages, status, page_mappings, at, crashes, written>>

SourceFile == loop.order[loop.source]
DestinationFile == loop.order[loop.destination]

\* source_used_pages, filled in again for each source file.
source_used_pages == IF loop.used = {} THEN Pages \ freePages[SourceFile] ELSE loop.used

\* total_free_pages: the free pages of the files before the source.
total_free_pages ==
  Cardinality(UNION {{<<i, n>> : n \in freePages[loop.order[i]]} :
                       i \in loop.destination .. loop.source - 1})

\* Mutant: a file is only emptied if that leaves a free page.
CanCopyAndSpare ==
  loop.destination < loop.source /\ total_free_pages > Cardinality(source_used_pages)

\* The next source file can be emptied.
CanCopy ==
  loop.destination < loop.source /\ total_free_pages >= Cardinality(source_used_pages)

touched_pages ==
  UNION {{page_mappings[i].source, page_mappings[i].destination} : i \in DOMAIN page_mappings}

\* Mutant: the whole page is copied, its header size included.
CopyWithHeaderSize(from, to) == from

copyPageWithoutHeaderSize(from, to) == [to EXCEPT !.body = from.body]

copySourcePageForCompaction ==
  LET n == Min(source_used_pages)
      d == Min(freePages[DestinationFile])
      source == <<SourceFile, n>>
      destination == <<DestinationFile, d>>
      left == source_used_pages \ {n}
  IN /\ pc = "copy"
     /\ CanCopy
     /\ freePages' = [freePages EXCEPT ![DestinationFile] = @ \ {d}]
     /\ IF {source, destination} \cap touched_pages # {}
        THEN pc' = "aborted" /\ UNCHANGED <<cache, page_mappings, loop>>
        ELSE /\ cache' = write(cache, DestinationFile, d,
                               copyPageWithoutHeaderSize(cache[SourceFile][n],
                                                         cache[DestinationFile][d]))
             /\ page_mappings' = Append(page_mappings, [source |-> source,
                                                        destination |-> destination])
             /\ loop' = [loop EXCEPT
                           !.used = left,
                           !.source = IF left = {} THEN @ - 1 ELSE @,
                           !.destination = IF freePages'[DestinationFile] = {} THEN @ + 1
                                           ELSE @]
             /\ pc' = pc
     /\ UNCHANGED <<disk, status, todo, at, crashes, written>>

endOfCopies ==
  /\ pc = "copy"
  /\ ~CanCopy
  /\ loop' = NoLoop
  /\ pc' = "sort"
  /\ UNCHANGED <<disk, cache, freePages, status, page_mappings, todo, at, crashes, written>>

writePageMappingsToStatusFile ==
  /\ pc = "sort"
  /\ todo = {}
  /\ status' = [status EXCEPT !.mappings = page_mappings]
  /\ pc' = "copied"
  /\ UNCHANGED <<disk, cache, freePages, page_mappings, loop, todo, at, crashes, written>>

\* Status files replace one another; the process dies if the old one is missing.
renameCompactionStatusFile(from, to) ==
  status.name = from /\ status' = [status EXCEPT !.name = to]

startVisibility ==
  /\ pc = "copied"
  /\ renameCompactionStatusFile("copy_pages", "update_page_visibility")
  /\ at' = 1
  /\ pc' = "show"
  /\ UNCHANGED <<disk, cache, freePages, page_mappings, loop, todo, crashes, written>>

-----------------------------------------------------------------------------
(***************************************************************************)
(* Phase 2, updateMappedPagesVisibility: for each mapping the header size  *)
(* of the copy is set, then that of the original is cleared, which makes   *)
(* it a free page.  All files are synced at the end.                       *)
(***************************************************************************)
showDestination ==
  /\ pc = "show"
  /\ at <= Len(page_mappings)
  /\ LET d == page_mappings[at].destination
     IN cache' = write(cache, d[1], d[2], [cache[d[1]][d[2]] EXCEPT !.used = TRUE])
  /\ pc' = "hide"
  /\ UNCHANGED <<disk, freePages, status, page_mappings, loop, todo, at, crashes, written>>

hideSource ==
  /\ pc = "hide"
  /\ LET s == page_mappings[at].source
     IN /\ cache' = write(cache, s[1], s[2], [cache[s[1]][s[2]] EXCEPT !.used = FALSE])
        /\ freePages' = [freePages EXCEPT ![s[1]] = @ \cup {s[2]}]
  /\ at' = at + 1
  /\ pc' = "show"
  /\ UNCHANGED <<disk, status, page_mappings, loop, todo, crashes, written>>

syncFiles ==
  /\ pc = "show"
  /\ at > Len(page_mappings)
  /\ disk' = cache
  /\ pc' = "synced"
  /\ UNCHANGED <<cache, freePages, status, page_mappings, loop, todo, at, crashes, written>>

startDeletion ==
  /\ pc = "synced"
  /\ renameCompactionStatusFile("update_page_visibility", "delete_empty_files")
  /\ pc' = "delete"
  /\ UNCHANGED <<disk, cache, freePages, page_mappings, loop, todo, at, crashes, written>>

-----------------------------------------------------------------------------
(***************************************************************************)
(* Phase 3, deleteEmptyFiles: files that have only free pages, by file id, *)
(* and then the status file.                                               *)
(***************************************************************************)
Without(img, f) == [g \in DOMAIN img \ {f} |-> img[g]]

deleteEmptyFile ==
  LET empty == {f \in DOMAIN cache : Empty(f)}
  IN /\ pc = "delete"
     /\ empty # {}
     /\ cache' = Without(cache, Min(empty))
     /\ disk' = Without(disk, Min(empty))
     /\ UNCHANGED <<freePages, status, page_mappings, loop, todo, at, pc, crashes, written>>

\* Mutant: the status file is left behind.
leaveStatusFile ==
  /\ pc = "delete"
  /\ \A f \in DOMAIN cache : ~Empty(f)
  /\ pc' = "done"
  /\ UNCHANGED <<disk, cache, freePages, status, page_mappings, loop, todo, at, crashes, written>>

deleteStatusFile ==
  /\ pc = "delete"
  /\ \A f \in DOMAIN cache : ~Empty(f)
  /\ status' = NoStatus
  /\ pc' = "done"
  /\ UNCHANGED <<disk, cache, freePages, page_mappings, loop, todo, at, crashes, written>>

-----------------------------------------------------------------------------
\* What the process kept in memory is gone.
Forget ==
  /\ freePages' = <<>>
  /\ page_mappings' = <<>>
  /\ loop' = NoLoop
  /\ todo' = {}
  /\ at' = 0
  /\ pc' = "down"

\* The files are closed, which hands all writes to the system: by
\* GlobalFileMgr::compactDataFiles, or by init before it reads the files again.
closeFiles ==
  /\ pc = "done"
  /\ Forget
  /\ disk' = cache
  /\ UNCHANGED <<cache, status, crashes, written>>

\* What a killed process leaves of the pages.
Images ==
  IF ~LosesBuffered THEN {cache}
  ELSE LET torn == {t \in (DOMAIN cache) \X Pages \X {"used", "body"} :
                      cache[t[1]][t[2]][t[3]] # disk[t[1]][t[2]][t[3]]}
           Left(lost, f, n, k) == IF <<f, n, k>> \in lost THEN disk[f][n][k]
                                  ELSE cache[f][n][k]
       IN {[f \in DOMAIN cache |-> [n \in Pages |->
              Page(Left(lost, f, n, "used"), Left(lost, f, n, "body"))]] : lost \in SUBSET torn}

crash ==
  /\ pc \notin {"down", "aborted"}
  /\ crashes < MaxCrashes
  /\ crashes' = crashes + 1
  /\ Forget
  /\ disk' \in Images
  /\ cache' = disk'
  /\ UNCHANGED <<status, written>>

\* Two used pages that are the same version of the same logical page: the
\* process dies when it builds the buffer they belong to.
Duplicates(img) ==
  \E p, q \in UsedPages(img) : p # q /\ img[p[1]][p[2]].body = img[q[1]][q[2]].body

\* resumeFileCompaction: where opening goes on from.
resumeFileCompaction(name) ==
  CASE name = "none" -> "running"
    [] name = "copy_pages" -> "restart"
    [] name = "update_page_visibility" -> "show"
    [] name = "delete_empty_files" -> "delete"

\* init: openFiles frees the pages marked deleted, then an interrupted
\* compaction is resumed and the files are opened again.
init ==
  LET opened == [f \in DOMAIN cache |-> [n \in Pages |->
                   [cache[f][n] EXCEPT !.used = Holds(cache[f][n])]]]
      next == resumeFileCompaction(status.name)
  IN /\ pc = "down"
     /\ cache' = opened
     /\ freePages' = [f \in DOMAIN cache |-> {n \in Pages : ~opened[f][n].used}]
     /\ page_mappings' = status.mappings
     /\ status' = IF next = "restart" THEN NoStatus ELSE status
     /\ at' = 1
     /\ pc' = IF next = "running" /\ Duplicates(opened) THEN "aborted" ELSE next
     /\ UNCHANGED <<disk, loop, todo, crashes, written>>

-----------------------------------------------------------------------------
\* Any layout of used and free pages over the files of an open table.
Init ==
  /\ \E free \in SUBSET (Files \X Pages) :
       \E marked \in IF FreedSinceOpen THEN SUBSET free ELSE {{}} :
         /\ cache = [f \in Files |-> [n \in Pages |->
                       IF <<f, n>> \notin free THEN Page(TRUE, <<f, n>>)
                       ELSE Page(<<f, n>> \in marked, Deleted)]]
         /\ freePages = [f \in Files |-> {n \in Pages : <<f, n>> \in free}]
         /\ written = (Files \X Pages) \ free
  /\ disk = cache
  /\ status = NoStatus
  /\ page_mappings = <<>>
  /\ loop = NoLoop
  /\ todo = {}
  /\ at = 1
  /\ pc = "running"
  /\ crashes = 0

Step ==
  \/ sortFiles
  \/ copySourcePageForCompaction
  \/ endOfCopies
  \/ writePageMappingsToStatusFile
  \/ startVisibility
  \/ showDestination
  \/ hideSource
  \/ syncFiles
  \/ startDeletion
  \/ deleteEmptyFile
  \/ deleteStatusFile
  \/ closeFiles
  \/ init
  \/ pc = "restart" /\ compactFiles

Next == compactFiles \/ Step \/ crash

\* The process runs on, and is started again after it was killed.
Spec == Init /\ [][Next]_vars /\ WF_vars(Step)

-----------------------------------------------------------------------------
\* Whenever the table is open, each page that was written is in exactly one used
\* page, whatever phase of the compaction was interrupted and how often.
ContentsKept ==
  pc = "running" =>
    /\ {cache[p[1]][p[2]].body : p \in UsedPages(cache)} = written
    /\ ~Duplicates(cache)

\* A compaction that comes to its end, resumed or not, leaves no file that the
\* others have room for, of either page size.
CompactedFully ==
  pc = "done" =>
    \A size \in PageSizes :
      LET used == {p \in UsedPages(cache) : p[1] \in FilesOf(size)}
      IN (Cardinality(FilesOf(size)) - 1) * NumPages < Cardinality(used)
           \/ FilesOf(size) = {}

\* The checks of the compaction code and of the table opened after it hold: no
\* page is copied or overwritten twice, no two pages claim the same place.
ChecksHold == pc # "aborted"

\* An interrupted compaction never keeps the table from being opened.
OpensAgain == pc # "running" ~> pc = "running"
=============================================================================

------------------------ MODULE FileCompactionProofs ------------------------
(***************************************************************************)
(* Proofs about FileCompaction, for every number of files, pages and       *)
(* crashes: where the pages that were freed have no size left in their     *)
(* headers and a killed process loses no write, a compaction interrupted   *)
(* anywhere, and resumed, loses no page, doubles none and fails none of    *)
(* its checks.                                                             *)
(***************************************************************************)
EXTENDS FileCompactionPageProofs

-----------------------------------------------------------------------------
(***************************************************************************)
(* IInv holds at first, and every action keeps it.                         *)
(***************************************************************************)
\* A table that was opened after its pages were freed has every page in one place, and
\* its free lists are right.
LEMMA InitInv ==
  ASSUME ~FreedSinceOpen, Init
  PROVE  IInv
<1>1. PICK free \in SUBSET (Files \X Pages) :
        /\ cache = [f \in Files |-> [n \in Pages |->
                      IF <<f, n>> \notin free THEN Page(TRUE, <<f, n>>) ELSE Page(FALSE, Deleted)]]
        /\ freePages = [f \in Files |-> {n \in Pages : <<f, n>> \in free}]
        /\ written = (Files \X Pages) \ free
  <2>1. PICK free \in SUBSET (Files \X Pages) :
          \E marked \in (IF FreedSinceOpen THEN SUBSET free ELSE {{}}) :
            /\ cache = [f \in Files |-> [n \in Pages |->
                          IF <<f, n>> \notin free THEN Page(TRUE, <<f, n>>)
                          ELSE Page(<<f, n>> \in marked, Deleted)]]
            /\ freePages = [f \in Files |-> {n \in Pages : <<f, n>> \in free}]
            /\ written = (Files \X Pages) \ free
    BY ZenonT(60) DEF Init
  <2>2. /\ cache = [f \in Files |-> [n \in Pages |->
                     IF <<f, n>> \notin free THEN Page(TRUE, <<f, n>>)
                     ELSE Page(<<f, n>> \in {}, Deleted)]]
        /\ freePages = [f \in Files |-> {n \in Pages : <<f, n>> \in free}]
        /\ written = (Files \X Pages) \ free
    BY <2>1, ZenonT(60)
  <2>3. \A f, n : (<<f, n>> \in {}) = FALSE
    OBVIOUS
  <2>4. cache = [f \in Files |-> [n \in Pages |->
                  IF <<f, n>> \notin free THEN Page(TRUE, <<f, n>>) ELSE Page(FALSE, Deleted)]]
    BY <2>2, <2>3, ZenonT(60)
  <2> QED BY <2>2, <2>4, ZenonT(60)
<1>2. DOMAIN cache = Files /\ Places(cache) = Files \X Pages
  BY <1>1 DEF Places
<1>3. \A p \in Files \X Pages : p = <<p[1], p[2]>> /\ p[1] \in Files /\ p[2] \in Pages
  OBVIOUS
<1>4. \A p \in Files \X Pages :
        At(cache, p) = IF p \notin free THEN Page(TRUE, p) ELSE Page(FALSE, Deleted)
  BY <1>1, <1>3, ZenonT(60) DEF At
<1>5. \A p \in Files \X Pages : /\ Used(cache, p) <=> p \notin free
                                /\ p \notin free => Body(cache, p) = p
  BY <1>4 DEF Used, Body, Page
<1>6. Deleted \notin written
  <2>1. \A p \in Files \X Pages : p # <<>>
    OBVIOUS
  <2> QED BY <1>1, <2>1 DEF Deleted
<1>7. cache \in [DOMAIN cache -> [Pages -> [used : BOOLEAN, body : {Deleted} \cup written]]]
  <2>1. \A f \in Files, n \in Pages :
          /\ Page(FALSE, Deleted) \in [used : BOOLEAN, body : {Deleted} \cup written]
          /\ <<f, n>> \notin free =>
               Page(TRUE, <<f, n>>) \in [used : BOOLEAN, body : {Deleted} \cup written]
    BY <1>1, ZenonT(60) DEF Page
  <2> QED BY <1>1, <2>1, ZenonT(60)
<1>8. ImageInv(cache, written)
  BY <1>1, <1>2, <1>5, <1>6, <1>7, ZenonT(60) DEF ImageInv
<1>9. Exact(cache, written)
  BY <1>1, <1>2, <1>5, ZenonT(60) DEF Exact, Covers
<1>10. FreeType(cache, freePages)
  BY <1>1, <1>2 DEF FreeType
<1>11. FreeExact(cache, freePages)
  BY <1>1, <1>2, <1>3, <1>5, ZenonT(60) DEF FreeExact, IsFree
<1>12. pc = "running" /\ status = NoStatus
  BY DEF Init
<1>13. status.name = "none" /\ status \in [name : StatusNames, mappings : Seq(Mappings)]
  BY <1>12 DEF NoStatus, StatusNames
<1> QED BY <1>8, <1>9, <1>10, <1>11, <1>12, <1>13, ZenonT(60)
        DEF IInv, DiskInv, PhaseInv, FreeInv, AtInv, Copying, Showing

\* The compaction begins, or begins again.
LEMMA CompactFilesInv ==
  ASSUME IInv, compactFiles
  PROVE  IInv'
<1>1. /\ pc \in {"running", "restart"} /\ page_mappings' = <<>> /\ cache' = cache
      /\ freePages' = freePages /\ written' = written
  BY DEF compactFiles
<1>2. /\ status.name = "none" /\ ImageInv(cache, written) /\ Exact(cache, written)
      /\ FreeType(cache, freePages) /\ FreeExact(cache, freePages)
      /\ status \in [name : StatusNames, mappings : Seq(Mappings)]
  BY <1>1 DEF IInv, DiskInv, PhaseInv, FreeInv
<1>3. CASE DOMAIN cache = {}
  <2>1. pc' = "done" /\ status' = status
    BY <1>3 DEF compactFiles
  <2> QED BY <1>1, <1>2, <2>1 DEF IInv, DiskInv, PhaseInv, FreeInv, AtInv, Copying, Showing
<1>4. CASE DOMAIN cache # {}
  <2>1. /\ pc' = "sort" /\ status' = [NoStatus EXCEPT !.name = "copy_pages"]
        /\ todo' = {s \in PageSizes : FilesOf(s) # {}}
    BY <1>4 DEF compactFiles
  <2>2. status'.name = "copy_pages" /\ status' \in [name : StatusNames, mappings : Seq(Mappings)]
    <3>1. status' = [name |-> "copy_pages", mappings |-> <<>>]
      BY <2>1 DEF NoStatus
    <3>2. <<>> \in Seq(Mappings) /\ "copy_pages" \in StatusNames
      BY DEF StatusNames
    <3> QED BY <3>1, <3>2
  <2>3. MappingsInv(cache, <<>>, written) /\ SourcesUsed(cache, <<>>)
    BY DEF MappingsInv, SourcesUsed
  <2>4. FreeCopying(cache, freePages, <<>>)
    BY <1>2 DEF FreeCopying, FreeExact, IsDestination
  <2>5. TodoInv(cache, <<>>, todo')
    BY <2>1, SMTT(60) DEF TodoInv, FilesOf, OfSize
  <2> QED BY <1>1, <1>2, <2>1, <2>2, <2>3, <2>4, <2>5, ZenonT(60)
          DEF IInv, DiskInv, PhaseInv, FreeInv, AtInv, Copying, Showing
<1> QED BY <1>3, <1>4, ZenonT(60)

\* The files of one page size are sorted.
LEMMA SortFilesInv ==
  ASSUME IInv, sortFiles
  PROVE  IInv'
<1>1. /\ pc = "sort" /\ pc' = "copy" /\ cache' = cache /\ freePages' = freePages /\ written' = written
      /\ status' = status /\ page_mappings' = page_mappings
  BY DEF sortFiles
<1>2. /\ ImageInv(cache, written) /\ DiskInv /\ status.name = "copy_pages"
      /\ MappingsInv(cache, page_mappings, written) /\ SourcesUsed(cache, page_mappings)
      /\ FreeType(cache, freePages)
      /\ FreeCopying(cache, freePages, page_mappings) /\ TodoInv(cache, page_mappings, todo)
  BY <1>1 DEF IInv, PhaseInv, FreeInv, Copying
<1>3. PICK size \in todo : /\ todo' = todo \ {size}
                           /\ \E order \in SortedByFree(FilesOf(size)) :
                                LET destination == FirstDestination(order)
                                IN loop' = [order |-> order, destination |-> destination,
                                            source |-> LastSource(order, destination), used |-> {}]
  <2>1. (IF "metadata" \in todo THEN "metadata" ELSE "data") \in todo
    BY <1>2, ZenonT(60) DEF sortFiles, TodoInv, PageSizes
  <2> QED BY <2>1, ZenonT(60) DEF sortFiles
<1>4. PICK order \in SortedByFree(FilesOf(size)) :
        loop' = [order |-> order, destination |-> FirstDestination(order),
                 source |-> LastSource(order, FirstDestination(order)), used |-> {}]
  BY <1>3, ZenonT(60)
<1>5. FilesOf(size) = {f \in DOMAIN cache : OfSize(f, size)}
  BY DEF FilesOf, OfSize
<1>6. /\ order \in [1 .. Cardinality(FilesOf(size)) -> FilesOf(size)]
      /\ \A i, j \in DOMAIN order : i < j =>
           order[i] # order[j] /\ Cardinality(freePages[order[i]]) <= Cardinality(freePages[order[j]])
  BY <1>4 DEF SortedByFree
<1>7. FirstDestination(order) = Min({i \in DOMAIN order : freePages[order[i]] # {}} \cup {Len(order)})
  BY ZenonT(60) DEF FirstDestination, Full
<1> SUFFICES ASSUME NEW S, S = FilesOf(size), NEW c, c = Cardinality(S),
                    NEW dst, dst = FirstDestination(order), NEW src, src = LastSource(order, dst)
             PROVE  IInv'
  OBVIOUS
<1>9. IsFiniteSet(S) /\ S # {} /\ S \subseteq Files
  <2>1. S \in SUBSET Files /\ IsFiniteSet(Files)
    BY <1>2, <1>5, FilesAssumption, ZenonT(60) DEF ImageInv
  <2>2. S # {}
    BY <1>2, <1>5 DEF TodoInv
  <2> QED BY <2>1, <2>2, FS_Subset, ZenonT(60)
<1>10. c \in Nat /\ c > 0
  BY <1>9, FS_CardinalityType, FS_EmptySet
<1>11. /\ order \in Seq(Files) /\ DOMAIN order = 1 .. c /\ Len(order) = c
       /\ \A i \in 1 .. c : order[i] \in S
  BY <1>6, <1>9, <1>10
<1>12. dst \in 1 .. c /\ (dst # c => freePages[order[dst]] # {})
  BY <1>7, <1>10, <1>11, FirstBound, ZenonT(60)
<1>13. src \in dst .. c /\ (src # dst => freePages[order[src]] # Pages)
  <2>1. c \in Nat /\ Len(order) = c /\ dst \in 1 .. c
    BY <1>10, <1>11, <1>12, ZenonT(60)
  <2> QED BY <2>1, LastBound
<1>14. /\ loop'.order = order /\ loop'.destination = dst /\ loop'.source = src /\ loop'.used = {}
       /\ loop' \in [order : Seq(Files), destination : Nat, source : Nat, used : SUBSET Pages]
  <2>1. dst \in Nat /\ src \in Nat
    BY ONLY <1>10, <1>12, <1>13, SMTT(60)
  <2> QED BY <1>4, <1>11, <2>1, ZenonT(60)
<1>15. /\ TodoInv(cache, page_mappings, todo \ {size})
       /\ LoopInv(cache, freePages, page_mappings, order, dst, src, {}, todo \ {size})
  <2>1. \A i \in 1 .. c : order[i] \in DOMAIN cache /\ OfSize(order[i], size)
    BY <1>5, <1>11
  <2>2. \A i, j \in 1 .. c : i < j => /\ order[i] # order[j]
                                      /\ Cardinality(freePages[order[i]]) <= Cardinality(freePages[order[j]])
    BY <1>6, <1>11
  <2>3. Sorted(cache, freePages, size, order, c)
    BY <1>10, <1>11, <2>1, <2>2 DEF Sorted
  <2>4. /\ FreeType(cache, freePages) /\ FreeCopying(cache, freePages, page_mappings)
        /\ TodoInv(cache, page_mappings, todo)
    BY <1>2, ZenonT(60)
  <2> QED BY ONLY <1>12, <1>13, <2>3, <2>4, SortLoop, SMTT(60)
<1> QED BY <1>1, <1>2, <1>3, <1>14, <1>15, ZenonT(60) DEF IInv, DiskInv, PhaseInv, FreeInv, AtInv, Copying, Showing

\* A page is copied.  The checks on the pages touched before do not fail.
LEMMA CopyInv ==
  ASSUME IInv, copySourcePageForCompaction
  PROVE  IInv'
<1>1. PICK us, n, d, left :
        /\ us = source_used_pages /\ n = Min(us) /\ d = Min(freePages[DestinationFile]) /\ left = us \ {n}
        /\ pc = "copy" /\ CanCopy
        /\ freePages' = [freePages EXCEPT ![DestinationFile] = @ \ {d}]
        /\ IF {<<SourceFile, n>>, <<DestinationFile, d>>} \cap touched_pages # {}
           THEN pc' = "aborted" /\ UNCHANGED <<cache, page_mappings, loop>>
           ELSE /\ cache' = write(cache, DestinationFile, d,
                                  copyPageWithoutHeaderSize(cache[SourceFile][n], cache[DestinationFile][d]))
                /\ page_mappings' = Append(page_mappings, [source |-> <<SourceFile, n>>,
                                                           destination |-> <<DestinationFile, d>>])
                /\ loop' = [loop EXCEPT
                              !.used = left,
                              !.source = IF left = {} THEN @ - 1 ELSE @,
                              !.destination = IF freePages'[DestinationFile] = {} THEN @ + 1 ELSE @]
                /\ pc' = pc
        /\ UNCHANGED <<disk, status, todo, at, crashes, written>>
  BY ZenonT(60) DEF copySourcePageForCompaction
<1>2. /\ ImageInv(cache, written) /\ status.name = "copy_pages" /\ Exact(cache, written)
      /\ status \in [name : StatusNames, mappings : Seq(Mappings)]
      /\ MappingsInv(cache, page_mappings, written) /\ SourcesUsed(cache, page_mappings)
      /\ FreeType(cache, freePages)
      /\ FreeCopying(cache, freePages, page_mappings) /\ TodoInv(cache, page_mappings, todo)
      /\ loop \in [order : Seq(Files), destination : Nat, source : Nat, used : SUBSET Pages]
      /\ LoopInv(cache, freePages, page_mappings,
                 loop.order, loop.destination, loop.source, loop.used, todo)
  BY <1>1 DEF IInv, DiskInv, PhaseInv, FreeInv, Copying
<1> SUFFICES ASSUME NEW sf, NEW df, sf = SourceFile, df = DestinationFile PROVE IInv'
  BY SMTT(60)
<1>3. /\ loop.destination < loop.source /\ sf = loop.order[loop.source]
      /\ df = loop.order[loop.destination]
      /\ us = IF loop.used = {} THEN Pages \ freePages[sf] ELSE loop.used
  BY <1>1, ZenonT(60) DEF CanCopy, SourceFile, DestinationFile, source_used_pages
<1>0. CopyReady(cache, page_mappings, freePages, sf, df, us)
  <2>1. loop.destination \in Nat /\ loop.source \in Nat
    BY <1>2
  <2>2. /\ FreeType(cache, freePages) /\ FreeCopying(cache, freePages, page_mappings)
        /\ LoopInv(cache, freePages, page_mappings,
                   loop.order, loop.destination, loop.source, loop.used, todo)
    BY ONLY <1>2, SMTT(60)
  <2> QED BY <1>3, <2>1, <2>2, CopyPlaces, ZenonT(60)
<1>4. /\ sf \in DOMAIN cache /\ df \in DOMAIN cache /\ sf # df
      /\ us \in SUBSET Pages /\ us # {} /\ \A m \in us : Used(cache, <<sf, m>>)
      /\ freePages[df] \in SUBSET Pages /\ freePages[df] # {}
      /\ Keeps(cache, page_mappings, df)
      /\ \A i \in DOMAIN page_mappings :
           /\ page_mappings[i].source[1] # df /\ page_mappings[i].destination[1] # sf
           /\ page_mappings[i].source[1] = sf => page_mappings[i].source[2] \notin us
  BY ONLY <1>0, SMTT(60) DEF CopyReady
<1>5. n \in us /\ d \in freePages[df] /\ n \in Pages /\ d \in Pages
  <2>1. Pages \subseteq Nat
    BY ONLY BoundsAssumption, SMTT(60) DEF Pages
  <2> QED BY <1>1, <1>4, <2>1, MinIn
<1>6. <<sf, n>> \in Places(cache) /\ <<df, d>> \in Places(cache)
  BY <1>4, <1>5, ZenonT(60) DEF Places
<1>7. ~Used(cache, <<df, d>>) /\ ~IsDestination(page_mappings, <<df, d>>) /\ Used(cache, <<sf, n>>)
  <2>1. IsFree(freePages, <<df, d>>)
    BY ONLY <1>5, SMTT(60) DEF IsFree
  <2> QED BY <1>2, <1>4, <1>5, <1>6, <2>1, ZenonT(60) DEF FreeCopying
<1>8. \A i \in DOMAIN page_mappings :
        /\ page_mappings[i].source # <<sf, n>> /\ page_mappings[i].destination # <<df, d>>
        /\ page_mappings[i].source # <<df, d>> /\ page_mappings[i].destination # <<sf, n>>
  BY ONLY <1>4, <1>5, <1>7, SMTT(60) DEF IsDestination
<1>9. {<<sf, n>>, <<df, d>>} \cap touched_pages = {}
  BY <1>8 DEF touched_pages
<1> DEFINE r == copyPageWithoutHeaderSize(cache[sf][n], cache[df][d])
<1>10. /\ cache' = write(cache, df, d, r) /\ pc' = "copy"
       /\ page_mappings' = Append(page_mappings, [source |-> <<sf, n>>, destination |-> <<df, d>>])
       /\ freePages' = [freePages EXCEPT ![df] = @ \ {d}]
       /\ loop' = [loop EXCEPT !.used = left,
                               !.source = IF left = {} THEN @ - 1 ELSE @,
                               !.destination = IF freePages'[df] = {} THEN @ + 1 ELSE @]
       /\ status' = status /\ todo' = todo /\ written' = written
  BY <1>1, <1>9
<1>11. /\ r \in [used : BOOLEAN, body : {Deleted} \cup written] /\ ~r.used
       /\ r.body = Body(cache, <<sf, n>>)
  <2>1. /\ At(cache, <<sf, n>>) \in [used : BOOLEAN, body : {Deleted} \cup written]
        /\ At(cache, <<df, d>>) \in [used : BOOLEAN, body : {Deleted} \cup written]
        /\ At(cache, <<sf, n>>) = cache[sf][n] /\ At(cache, <<df, d>>) = cache[df][d]
    BY <1>2, <1>6, PageType, ZenonT(60) DEF At
  <2> QED BY ONLY <1>7, <2>1, SMTT(60) DEF copyPageWithoutHeaderSize, Used, Body
<1> HIDE DEF r
<1>12. /\ SameBut(cache, cache', <<df, d>>) /\ At(cache', <<df, d>>) = r
       /\ ImageInv(cache', written)
  BY ONLY <1>2, <1>4, <1>5, <1>10, <1>11, WriteAt, SMTT(60) DEF SameBut
<1>13. ~Used(cache', <<df, d>>) /\ Body(cache', <<df, d>>) = Body(cache, <<sf, n>>)
  BY <1>11, <1>12 DEF Used, Body
<1>14. Appended(page_mappings, page_mappings', <<sf, n>>, <<df, d>>)
  <2>1. <<sf, n>> \in Files \X Pages /\ <<df, d>> \in Files \X Pages
    BY <1>2, <1>6, PageType, ZenonT(60)
  <2>2. page_mappings \in Seq(Mappings)
    BY <1>2 DEF MappingsInv
  <2> QED BY <1>10, <2>1, <2>2, AppendMapping, ZenonT(60)
<1>15. Exact(cache', written)
  BY <1>2, <1>7, <1>12, <1>13, UnusedExact, ZenonT(60)
<1>16. MappingsInv(cache', page_mappings', written)
  <2>1. Body(cache, <<sf, n>>) \in written
    BY <1>2, <1>6, <1>7, ZenonT(60) DEF ImageInv
  <2>2. \A i \in DOMAIN page_mappings :
          /\ page_mappings[i].source # <<sf, n>> /\ page_mappings[i].destination # <<df, d>>
          /\ page_mappings[i].source[1] # <<df, d>>[1] /\ page_mappings[i].destination[1] # <<sf, n>>[1]
    BY ONLY <1>4, <1>8, SMTT(60)
  <2>3. <<sf, n>>[1] # <<df, d>>[1] /\ Keeps(cache, page_mappings, <<df, d>>[1])
    BY ONLY <1>4, SMTT(60)
  <2> QED BY <1>2, <1>6, <1>7, <1>12, <1>13, <1>14, <2>1, <2>2, <2>3, CopyMappings, ZenonT(60)
<1>17. FreeType(cache', freePages') /\ FreeCopying(cache', freePages', page_mappings')
  <2>1. Copied(cache, cache', page_mappings, page_mappings', freePages, freePages', sf, n, df, d)
    BY <1>2, <1>7, <1>10, <1>12, <1>13, <1>14, ZenonT(60) DEF Copied
  <2>2. FreeCopying(cache, freePages, page_mappings)
    BY <1>2
  <2> QED BY ONLY <2>1, <2>2, CopyFree, SMTT(60)
<1>18. /\ loop' \in [order : Seq(Files), destination : Nat, source : Nat, used : SUBSET Pages]
       /\ LoopInv(cache', freePages', page_mappings',
                  loop'.order, loop'.destination, loop'.source, loop'.used, todo)
       /\ TodoInv(cache', page_mappings', todo)
  <2>1. /\ loop.destination \in Nat /\ loop.source \in Nat /\ loop.source - 1 \in Nat
        /\ left \in SUBSET Pages
    BY ONLY <1>1, <1>2, <1>3, <1>4, SMTT(60)
  <2> DEFINE a == IF left = {} THEN loop.source - 1 ELSE loop.source
             b == IF freePages'[df] = {} THEN loop.destination + 1 ELSE loop.destination
  <2>2. /\ loop' \in [order : Seq(Files), destination : Nat, source : Nat, used : SUBSET Pages]
        /\ loop'.order = loop.order /\ loop'.used = left /\ loop'.source = a /\ loop'.destination = b
    <3>1. loop' = [loop EXCEPT !.used = left, !.source = a, !.destination = b]
      BY <1>10
    <3>2. a \in Nat /\ b \in Nat
      BY <2>1
    <3> HIDE DEF a, b
    <3> QED BY <1>2, <2>1, <3>1, <3>2, LoopStep, ZenonT(60)
  <2>3. loop'.source \in Int /\ loop'.destination \in Int
    BY ONLY <2>2, SMTT(60)
  <2>4. Copied(cache, cache', page_mappings, page_mappings', freePages, freePages', sf, n, df, d)
    BY ONLY <1>2, <1>7, <1>10, <1>12, <1>13, <1>14, SMTT(60) DEF Copied
  <2>5. /\ n \in Pages /\ n \notin left /\ (loop.used # {} => loop.used = left \cup {n})
        /\ Used(cache, <<sf, n>>) /\ \A m \in left : Used(cache, <<sf, m>>)
    BY <1>1, <1>3, <1>4, <1>5, ZenonT(60)
  <2>6. loop'.source = a /\ loop'.destination = b
    BY <2>2, ZenonT(60)
  <2>7. /\ LoopInv(cache', freePages', page_mappings',
                   loop.order, loop'.destination, loop'.source, left, todo)
        /\ TodoInv(cache', page_mappings', todo)
    <3>1. /\ TodoInv(cache, page_mappings, todo)
          /\ LoopInv(cache, freePages, page_mappings,
                     loop.order, loop.destination, loop.source, loop.used, todo)
      BY <1>2
    <3>2. Moves(cache, freePages', loop.order, loop.destination, loop.source, loop.used,
                sf, n, df, left, loop'.destination, loop'.source)
      BY <1>3, <2>1, <2>3, <2>5, <2>6, ZenonT(60) DEF Moves
    <3> QED BY <2>4, <3>1, <3>2, CopyLoop, ZenonT(60)
  <2> QED BY <2>2, <2>7, ZenonT(60)
<1>19. SourcesUsed(cache', page_mappings')
  BY <1>2, <1>6, <1>7, <1>12, <1>14, CopySources, ZenonT(60)
<1> QED BY <1>2, <1>10, <1>12, <1>15, <1>16, <1>17, <1>18, <1>19, ZenonT(60)
        DEF IInv, DiskInv, PhaseInv, FreeInv, AtInv, Copying, Showing

\* The copies of one page size end; the mappings are written to the status file.
LEMMA EndOfCopiesInv ==
  ASSUME IInv, endOfCopies \/ writePageMappingsToStatusFile
  PROVE  IInv'
<1>1. /\ pc \in {"copy", "sort"} /\ cache' = cache /\ freePages' = freePages /\ written' = written
      /\ page_mappings' = page_mappings /\ todo' = todo
      /\ \/ pc' = "sort" /\ status' = status
         \/ pc' = "copied" /\ status' = [status EXCEPT !.mappings = page_mappings]
  BY DEF endOfCopies, writePageMappingsToStatusFile
<1>2. /\ ImageInv(cache, written) /\ status.name = "copy_pages" /\ Exact(cache, written)
      /\ status \in [name : StatusNames, mappings : Seq(Mappings)]
      /\ MappingsInv(cache, page_mappings, written) /\ SourcesUsed(cache, page_mappings)
      /\ FreeType(cache, freePages) /\ FreeCopying(cache, freePages, page_mappings)
      /\ TodoInv(cache, page_mappings, todo)
  BY <1>1 DEF IInv, DiskInv, PhaseInv, FreeInv, Copying
<1>3. /\ status' \in [name : StatusNames, mappings : Seq(Mappings)] /\ status'.name = "copy_pages"
      /\ pc' = "copied" => status'.mappings = page_mappings
  BY <1>1, <1>2, ZenonT(60) DEF MappingsInv
<1> QED BY <1>1, <1>2, <1>3 DEF IInv, DiskInv, PhaseInv, FreeInv, AtInv, Copying, Showing

\* From here on the mappings count: originals are used, copies are not.
LEMMA StartVisibilityInv ==
  ASSUME IInv, startVisibility
  PROVE  IInv'
<1>1. /\ pc = "copied" /\ pc' = "show" /\ cache' = cache /\ freePages' = freePages /\ written' = written
      /\ page_mappings' = page_mappings /\ at' = 1
      /\ status' = [status EXCEPT !.name = "update_page_visibility"]
  BY DEF startVisibility, renameCompactionStatusFile
<1>2. /\ ImageInv(cache, written) /\ status.name = "copy_pages" /\ Exact(cache, written)
      /\ status \in [name : StatusNames, mappings : Seq(Mappings)]
      /\ page_mappings = status.mappings /\ SourcesUsed(cache, page_mappings)
      /\ MappingsInv(cache, page_mappings, written) /\ FreeType(cache, freePages)
      /\ FreeCopying(cache, freePages, page_mappings)
  BY <1>1 DEF IInv, DiskInv, PhaseInv, FreeInv, Copying
<1>3. /\ status' \in [name : StatusNames, mappings : Seq(Mappings)]
      /\ status'.name = "update_page_visibility" /\ status'.mappings = page_mappings
  BY <1>1, <1>2, ZenonT(60) DEF StatusNames
<1>4. Half(cache, page_mappings, written)
  BY <1>2 DEF Half, Exact, SourcesUsed
<1>5. FreeShowing(cache, freePages, page_mappings)
  BY <1>2, ZenonT(60) DEF FreeShowing, FreeCopying
<1>6. \A i \in DOMAIN page_mappings : ~(i < 1)
  BY <1>2, SMTT(60) DEF MappingsInv
<1> QED BY ONLY <1>1, <1>2, <1>3, <1>4, <1>5, <1>6, SMTT(60) DEF IInv, DiskInv, PhaseInv, FreeInv, AtInv, Copying, Showing

\* The size of a copy is set.
LEMMA ShowInv ==
  ASSUME IInv, showDestination
  PROVE  IInv'
<1>1. PICK d : /\ d = page_mappings[at].destination /\ pc = "show" /\ pc' = "hide" /\ at <= Len(page_mappings)
               /\ cache' = write(cache, d[1], d[2], [cache[d[1]][d[2]] EXCEPT !.used = TRUE])
               /\ freePages' = freePages /\ status' = status /\ page_mappings' = page_mappings
               /\ at' = at /\ written' = written
  BY ZenonT(60) DEF showDestination
<1>2. /\ ImageInv(cache, written) /\ status.name = "update_page_visibility"
      /\ status \in [name : StatusNames, mappings : Seq(Mappings)] /\ page_mappings = status.mappings
      /\ MappingsInv(cache, page_mappings, written) /\ Half(cache, page_mappings, written)
      /\ FreeType(cache, freePages) /\ FreeShowing(cache, freePages, page_mappings)
      /\ at \in Nat \ {0} /\ \A i \in DOMAIN page_mappings : i < at => ~Used(cache, page_mappings[i].source)
  BY ZenonT(60), <1>1 DEF IInv, DiskInv, PhaseInv, FreeInv, AtInv, Showing
<1>3. at \in DOMAIN page_mappings /\ d \in Places(cache) /\ Body(cache, d) \in written
  <2>1. at \in DOMAIN page_mappings
    <3>1. page_mappings \in Seq(Mappings) /\ at \in Nat /\ 1 <= at /\ at <= Len(page_mappings)
      <4>1. page_mappings \in Seq(Mappings)
        BY <1>2, ZenonT(60)
      <4>2. at \in Nat \ {0} /\ at <= Len(page_mappings)
        BY <1>1, <1>2, ZenonT(60)
      <4> QED BY <4>1, <4>2
    <3> QED BY <3>1
  <2> QED BY <1>1, <1>2, <2>1, ZenonT(60) DEF MappingsInv
<1> DEFINE r == [cache[d[1]][d[2]] EXCEPT !.used = TRUE]
<1>4. /\ d[1] \in DOMAIN cache /\ d[2] \in Pages /\ d = <<d[1], d[2]>>
      /\ At(cache, d) \in [used : BOOLEAN, body : {Deleted} \cup written]
  BY <1>2, <1>3, PageType
<1>5. /\ r \in [used : BOOLEAN, body : {Deleted} \cup written] /\ r.used /\ r.body = Body(cache, d)
  BY <1>3, <1>4, ZenonT(60) DEF At, Body
<1>6. cache' = write(cache, d[1], d[2], r)
  BY ZenonT(60), <1>1
<1> HIDE DEF r
<1>7. SameBut(cache, cache', d) /\ At(cache', d) = r /\ ImageInv(cache', written)
  BY ONLY <1>2, <1>3, <1>4, <1>5, <1>6, WriteAt, SMTT(60) DEF SameBut
<1>8. Used(cache', d) /\ Body(cache', d) = Body(cache, d)
  BY ONLY <1>5, <1>7, SMTT(60) DEF Used, Body
<1>9. MappingsInv(cache', page_mappings, written) /\ Half(cache', page_mappings, written)
  BY <1>1, <1>2, <1>3, <1>7, <1>8, ShowKeeps, ZenonT(60)
<1>10. \A q \in Places(cache) : q # d => (Used(cache', q) <=> Used(cache, q))
  BY <1>7 DEF SameBut, Used
<1>11. FreeShowing(cache', freePages, page_mappings) /\ FreeType(cache', freePages)
  <2>1. IsDestination(page_mappings, d)
    BY <1>1, <1>3 DEF IsDestination
  <2>2. Places(cache') = Places(cache) /\ DOMAIN cache' = DOMAIN cache
    BY <1>7 DEF SameBut
  <2>3. FreeShowing(cache', freePages, page_mappings)
    BY <1>2, <1>10, <2>1, <2>2, ZenonT(60) DEF FreeShowing
  <2> QED BY <1>2, <2>2, <2>3, ZenonT(60) DEF FreeType
<1>12. \A i \in DOMAIN page_mappings : i < at => ~Used(cache', page_mappings[i].source)
  <2>1. \A i \in DOMAIN page_mappings : page_mappings[i].source \in Places(cache) /\ page_mappings[i].source # d
    BY <1>1, <1>2, <1>3, ZenonT(60) DEF MappingsInv
  <2> QED BY <1>2, <1>10, <2>1, ZenonT(60)
<1> QED BY <1>1, <1>2, <1>3, <1>7, <1>8, <1>9, <1>11, <1>12, ZenonT(60)
        DEF IInv, DiskInv, PhaseInv, FreeInv, AtInv, Copying, Showing

\* The size of an original is cleared.
LEMMA HideInv ==
  ASSUME IInv, hideSource
  PROVE  IInv'
<1>1. PICK s : /\ s = page_mappings[at].source /\ pc = "hide" /\ pc' = "show"
               /\ cache' = write(cache, s[1], s[2], [cache[s[1]][s[2]] EXCEPT !.used = FALSE])
               /\ freePages' = [freePages EXCEPT ![s[1]] = @ \cup {s[2]}]
               /\ status' = status /\ page_mappings' = page_mappings
               /\ at' = at + 1 /\ written' = written
  BY ZenonT(60) DEF hideSource
<1>2. /\ ImageInv(cache, written) /\ status.name = "update_page_visibility"
      /\ status \in [name : StatusNames, mappings : Seq(Mappings)] /\ page_mappings = status.mappings
      /\ MappingsInv(cache, page_mappings, written) /\ Half(cache, page_mappings, written)
      /\ FreeType(cache, freePages) /\ FreeShowing(cache, freePages, page_mappings)
      /\ at \in Nat \ {0} /\ \A i \in DOMAIN page_mappings : i < at => ~Used(cache, page_mappings[i].source)
      /\ at \in DOMAIN page_mappings /\ Used(cache, page_mappings[at].destination)
  BY <1>1, SMTT(60) DEF IInv, DiskInv, PhaseInv, FreeInv, AtInv, Showing
<1>3. s \in Places(cache)
  BY <1>1, <1>2, ZenonT(60) DEF MappingsInv
<1> DEFINE r == [cache[s[1]][s[2]] EXCEPT !.used = FALSE]
<1>4. /\ s[1] \in DOMAIN cache /\ s[2] \in Pages /\ s = <<s[1], s[2]>>
      /\ At(cache, s) \in [used : BOOLEAN, body : {Deleted} \cup written]
  BY <1>2, <1>3, PageType
<1>5. /\ r \in [used : BOOLEAN, body : {Deleted} \cup written] /\ ~r.used /\ r.body = Body(cache, s)
  BY <1>3, <1>4, ZenonT(60) DEF At, Body
<1>6. cache' = write(cache, s[1], s[2], r)
  BY ZenonT(60), <1>1
<1> HIDE DEF r
<1>7. SameBut(cache, cache', s) /\ At(cache', s) = r /\ ImageInv(cache', written)
  BY ONLY <1>2, <1>3, <1>4, <1>5, <1>6, WriteAt, SMTT(60) DEF SameBut
<1>8. ~Used(cache', s) /\ Body(cache', s) = Body(cache, s)
  BY <1>5, <1>7, SMTT(60) DEF Used, Body
<1>9. MappingsInv(cache', page_mappings, written) /\ Half(cache', page_mappings, written)
  BY <1>1, <1>2, <1>7, <1>8, HideKeeps, ZenonT(60)
<1>10. \A q \in Places(cache) : q # s => (Used(cache', q) <=> Used(cache, q))
  BY <1>7 DEF SameBut, Used
<1>11. Places(cache') = Places(cache) /\ DOMAIN cache' = DOMAIN cache
  BY <1>7 DEF SameBut
<1>12. FreeType(cache', freePages')
  <2>1. freePages \in [DOMAIN freePages -> SUBSET Pages] /\ DOMAIN cache \subseteq DOMAIN freePages
    BY <1>2 DEF FreeType
  <2>2. freePages[s[1]] \cup {s[2]} \in SUBSET Pages
    BY <1>4, <2>1, SMTT(60)
  <2>3. freePages' \in [DOMAIN freePages -> SUBSET Pages]
    BY <1>1, <2>1, <2>2, ZenonT(60)
  <2> QED BY <1>11, <2>1, <2>3, ZenonT(60) DEF FreeType
<1>13. FreeShowing(cache', freePages', page_mappings)
  <2> SUFFICES ASSUME NEW q \in Places(cache), IsFree(freePages', q)
               PROVE  ~Used(cache', q) \/ IsDestination(page_mappings, q)
    BY <1>11 DEF FreeShowing
  <2>1. CASE q = s
    BY <1>8, <2>1, ZenonT(60)
  <2>2. CASE q # s
    <3>1. q = <<q[1], q[2]>> /\ q[1] \in DOMAIN freePages
      BY <1>2 DEF Places, FreeType
    <3>2. freePages'[q[1]] = IF q[1] = s[1] THEN freePages[q[1]] \cup {s[2]} ELSE freePages[q[1]]
      BY <1>1, <1>2, <3>1, ZenonT(60) DEF FreeType
    <3>3. IsFree(freePages, q)
      BY <1>4, <2>2, <3>1, <3>2, SMTT(60) DEF IsFree
    <3> QED BY ONLY <1>2, <1>10, <2>2, <3>3, SMTT(60) DEF FreeShowing
  <2> QED BY <2>1, <2>2
<1>14. at + 1 \in Nat \ {0} /\ \A i \in DOMAIN page_mappings : i < at + 1 => ~Used(cache', page_mappings[i].source)
  <2> SUFFICES ASSUME NEW i \in DOMAIN page_mappings, i < at + 1 PROVE ~Used(cache', page_mappings[i].source)
    BY <1>2
  <2>1. i \in Nat /\ page_mappings[i].source \in Places(cache)
    BY ONLY <1>2, SMTT(60) DEF MappingsInv
  <2>2. i = at \/ i < at
    BY <1>2, <2>1
  <2> QED BY <1>1, <1>2, <1>8, <1>10, <2>1, <2>2, ZenonT(60)
<1> QED BY <1>1, <1>2, <1>7, <1>9, <1>12, <1>13, <1>14, ZenonT(60)
        DEF IInv, DiskInv, PhaseInv, FreeInv, AtInv, Copying, Showing

\* The files are synced, and the third phase begins.
LEMMA SyncInv ==
  ASSUME IInv, syncFiles \/ startDeletion
  PROVE  IInv'
<1>1. CASE syncFiles
  <2>1. /\ pc = "show" /\ pc' = "synced" /\ at > Len(page_mappings) /\ cache' = cache
        /\ freePages' = freePages /\ status' = status /\ page_mappings' = page_mappings
        /\ written' = written
    BY <1>1, ZenonT(60) DEF syncFiles
  <2>2. /\ ImageInv(cache, written) /\ DiskInv /\ status.name = "update_page_visibility"
        /\ page_mappings = status.mappings /\ page_mappings \in Seq(Mappings)
        /\ FreeType(cache, freePages) /\ FreeShowing(cache, freePages, page_mappings)
        /\ at \in Nat \ {0}
        /\ \A i \in DOMAIN page_mappings : i < at => ~Used(cache, page_mappings[i].source)
    BY <2>1, ZenonT(60) DEF IInv, DiskInv, PhaseInv, FreeInv, AtInv, Showing
  <2>3. \A i \in DOMAIN page_mappings : ~Used(cache, page_mappings[i].source)
    BY <2>1, <2>2
  <2> QED BY <2>1, <2>2, <2>3, ZenonT(60) DEF IInv, DiskInv, PhaseInv, FreeInv, AtInv, Copying, Showing
<1>2. CASE startDeletion
  <2>1. /\ pc = "synced" /\ pc' = "delete" /\ cache' = cache /\ freePages' = freePages
        /\ written' = written /\ status' = [status EXCEPT !.name = "delete_empty_files"]
    BY <1>2 DEF startDeletion, renameCompactionStatusFile
  <2>2. /\ ImageInv(cache, written) /\ status \in [name : StatusNames, mappings : Seq(Mappings)]
        /\ MappingsInv(cache, page_mappings, written) /\ Half(cache, page_mappings, written)
        /\ FreeType(cache, freePages) /\ FreeShowing(cache, freePages, page_mappings)
        /\ \A i \in DOMAIN page_mappings : ~Used(cache, page_mappings[i].source)
    BY <2>1 DEF IInv, DiskInv, PhaseInv, FreeInv, AtInv, Showing
  <2>3. status' \in [name : StatusNames, mappings : Seq(Mappings)] /\ status'.name = "delete_empty_files"
    BY <2>1, <2>2 DEF StatusNames
  <2>4. Exact(cache, written) /\ FreeDelete(cache, freePages)
    BY <2>2, HiddenExact, NoCopyDeleted, SMTT(60)
  <2> QED BY <2>1, <2>2, <2>3, <2>4, ZenonT(60) DEF IInv, DiskInv, PhaseInv, FreeInv, AtInv, Copying, Showing
<1> QED BY <1>1, <1>2, SMTT(60)

\* A file without used pages is deleted.
LEMMA DeleteInv ==
  ASSUME IInv, deleteEmptyFile
  PROVE  IInv'
<1>1. PICK f : /\ f = Min({g \in DOMAIN cache : Empty(g)}) /\ {g \in DOMAIN cache : Empty(g)} # {}
               /\ pc = "delete" /\ pc' = pc /\ cache' = Without(cache, f) /\ freePages' = freePages
               /\ status' = status /\ written' = written
  BY SMTT(60) DEF deleteEmptyFile
<1>2. /\ ImageInv(cache, written) /\ status \in [name : StatusNames, mappings : Seq(Mappings)]
      /\ status.name = "delete_empty_files" /\ Exact(cache, written)
      /\ FreeType(cache, freePages) /\ FreeDelete(cache, freePages)
  BY <1>1, ZenonT(60) DEF IInv, DiskInv, PhaseInv, FreeInv
<1>3. f \in DOMAIN cache /\ freePages[f] = Pages
  <2>1. {g \in DOMAIN cache : Empty(g)} \in SUBSET Nat
    BY <1>2, FilesAssumption DEF ImageInv
  <2>2. f \in {g \in DOMAIN cache : Empty(g)}
    BY <1>1, <2>1, MinIn
  <2> QED BY <2>2 DEF Empty
<1>4. /\ DOMAIN cache' = DOMAIN cache \ {f} /\ \A g \in DOMAIN cache' : cache'[g] = cache[g]
      /\ cache' \in [DOMAIN cache' -> [Pages -> [used : BOOLEAN, body : {Deleted} \cup written]]]
  BY <1>1, <1>2, ZenonT(60) DEF Without, ImageInv
<1>5. /\ Places(cache') \subseteq Places(cache)
      /\ \A q \in Places(cache') : At(cache', q) = At(cache, q)
      /\ \A q \in Places(cache) : Used(cache, q) => q \in Places(cache')
  <2>1. \A q \in Places(cache) : q = <<q[1], q[2]>> /\ q[1] \in DOMAIN cache /\ q[2] \in Pages
    BY DEF Places
  <2>2. \A n \in Pages : ~Used(cache, <<f, n>>)
    BY <1>2, <1>3 DEF FreeDelete
  <2>3. \A q \in Places(cache) : q[1] = f => ~Used(cache, q)
    BY <2>1, <2>2
  <2>4. \A q \in Places(cache) : q[1] # f => q \in Places(cache')
    BY <1>4, <2>1 DEF Places
  <2>5. Places(cache') \subseteq Places(cache) /\ \A q \in Places(cache') : q[1] \in DOMAIN cache'
    BY <1>4 DEF Places
  <2> QED BY <1>4, <2>3, <2>4, <2>5, ZenonT(60) DEF At
<1>6. \A q \in Places(cache') : Used(cache', q) = Used(cache, q) /\ Body(cache', q) = Body(cache, q)
  BY <1>5, ZenonT(60) DEF Used, Body
<1>7. ImageInv(cache', written)
  BY <1>2, <1>4, <1>5, <1>6, ZenonT(60) DEF ImageInv
<1>8. Exact(cache', written)
  BY <1>2, <1>5, <1>6 DEF Exact, Covers
<1>9. FreeType(cache', freePages)
  BY <1>2, <1>4, ZenonT(60) DEF FreeType
<1>10. FreeDelete(cache', freePages)
  <2>1. \A g \in DOMAIN cache', n \in Pages : <<g, n>> \in Places(cache') /\ g \in DOMAIN cache
    BY <1>4 DEF Places
  <2> QED BY <1>2, <1>6, <2>1, ZenonT(60) DEF FreeDelete
<1> QED BY <1>1, <1>2, <1>7, <1>8, <1>9, <1>10, ZenonT(60) DEF IInv, DiskInv, PhaseInv, FreeInv, AtInv, Copying, Showing

\* The status file is deleted, the files are closed, or the process is killed: the
\* files stay as they are.
LEMMA StopInv ==
  ASSUME ~LosesBuffered, IInv, deleteStatusFile \/ closeFiles \/ crash
  PROVE  IInv'
<1>1. CASE deleteStatusFile
  <2>1. pc = "delete" /\ pc' = "done" /\ status' = NoStatus /\ cache' = cache /\ written' = written
    BY <1>1, ZenonT(60) DEF deleteStatusFile
  <2>2. ImageInv(cache, written) /\ Exact(cache, written)
    BY <2>1, ZenonT(60) DEF IInv, DiskInv, PhaseInv
  <2>3. status' \in [name : StatusNames, mappings : Seq(Mappings)] /\ status'.name = "none"
    BY <2>1, SMTT(60) DEF NoStatus, StatusNames
  <2> QED BY <2>1, <2>2, <2>3, ZenonT(60) DEF IInv, DiskInv, PhaseInv, FreeInv, AtInv, Copying, Showing
<1>2. CASE closeFiles \/ crash
  <2>1. pc' = "down" /\ status' = status /\ cache' = cache /\ written' = written
    BY <1>2 DEF closeFiles, crash, Forget, Images
  <2> QED BY <2>1, ZenonT(60) DEF IInv, DiskInv, PhaseInv, FreeInv, AtInv, Copying, Showing
<1> QED BY <1>1, <1>2, SMTT(60)

\* Opening a table whose freed pages have no size changes none of its files.
LEMMA OpenedSame ==
  ASSUME NEW w, NEW img, ImageInv(img, w)
  PROVE  [f \in DOMAIN img |-> [n \in Pages |-> [img[f][n] EXCEPT !.used = Holds(img[f][n])]]] = img
<1>1. ASSUME NEW f \in DOMAIN img, NEW n \in Pages
      PROVE  [img[f][n] EXCEPT !.used = Holds(img[f][n])] = img[f][n]
  <2>1. img[f][n] \in [used : BOOLEAN, body : {Deleted} \cup w] /\ Deleted \notin w
    BY <1>1 DEF ImageInv
  <2>2. <<f, n>> \in Places(img) /\ At(img, <<f, n>>) = img[f][n]
    BY <1>1 DEF Places, At
  <2>3. img[f][n].used => img[f][n].body \in w
    BY <2>2 DEF ImageInv, Used, Body
  <2>4. Holds(img[f][n]) = img[f][n].used
    BY <2>1, <2>3 DEF Holds
  <2> QED BY <2>1, <2>4
<1>2. \A f \in DOMAIN img :
        [n \in Pages |-> [img[f][n] EXCEPT !.used = Holds(img[f][n])]] = img[f]
  BY <1>1, ZenonT(60) DEF ImageInv
<1> QED BY <1>2 DEF ImageInv

\* Where every page is in one place no two pages claim to be the same.
LEMMA ExactKept ==
  ASSUME NEW w, NEW img, ImageInv(img, w), Exact(img, w)
  PROVE  ~Duplicates(img) /\ {img[p[1]][p[2]].body : p \in UsedPages(img)} = w
<1>1. \A p : p \in UsedPages(img) <=> p \in Places(img) /\ Used(img, p)
  BY DEF UsedPages, Holds, Places, ImageInv, Used, Body, At
<1>2. \A p : img[p[1]][p[2]].body = Body(img, p)
  BY ZenonT(60) DEF Body, At
<1>3. ~Duplicates(img)
  BY <1>1, <1>2 DEF Duplicates, Exact
<1>4. {Body(img, p) : p \in UsedPages(img)} = w
  BY <1>1 DEF Exact, Covers, ImageInv
<1> QED BY <1>2, <1>3, <1>4, ZenonT(60)

\* The table is opened and an interrupted compaction goes on.
LEMMA OpenInv ==
  ASSUME IInv, init
  PROVE  IInv'
<1>1. ImageInv(cache, written) /\ DiskInv /\ pc = "down"
  BY DEF IInv, init
<1>2. [f \in DOMAIN cache |-> [n \in Pages |-> [cache[f][n] EXCEPT !.used = Holds(cache[f][n])]]] = cache
  BY <1>1, OpenedSame
<1>3. /\ cache' = cache /\ freePages' = [f \in DOMAIN cache |-> {n \in Pages : ~cache[f][n].used}]
      /\ page_mappings' = status.mappings /\ at' = 1 /\ written' = written
      /\ status' = IF resumeFileCompaction(status.name) = "restart" THEN NoStatus ELSE status
      /\ pc' = IF resumeFileCompaction(status.name) = "running" /\ Duplicates(cache) THEN "aborted"
               ELSE resumeFileCompaction(status.name)
  BY <1>2, ZenonT(60) DEF init
<1>4. FreeType(cache, freePages')
  BY <1>3 DEF FreeType
<1>5. FreeExact(cache, freePages')
  BY <1>3 DEF FreeExact, IsFree, Places, Used, At
<1>6. /\ status.name \in StatusNames /\ status \in [name : StatusNames, mappings : Seq(Mappings)]
      /\ status.name = "update_page_visibility" =>
           MappingsInv(cache, status.mappings, written) /\ Half(cache, status.mappings, written)
      /\ status.name # "update_page_visibility" => Exact(cache, written)
  BY <1>1 DEF DiskInv
<1>7. CASE status.name = "none"
  <2>1. pc' = "running" /\ status' = status
    BY <1>1, <1>3, <1>6, <1>7, ExactKept, ZenonT(60) DEF resumeFileCompaction
  <2> QED BY <1>1, <1>3, <1>4, <1>5, <1>6, <1>7, <2>1, ZenonT(60)
          DEF IInv, DiskInv, PhaseInv, FreeInv, AtInv, Copying, Showing
<1>8. CASE status.name = "copy_pages"
  <2>1. pc' = "restart" /\ status' = NoStatus
    BY <1>3, <1>8 DEF resumeFileCompaction
  <2>2. status' \in [name : StatusNames, mappings : Seq(Mappings)] /\ status'.name = "none"
    BY <2>1, SMTT(60) DEF NoStatus, StatusNames
  <2> QED BY <1>1, <1>3, <1>4, <1>5, <1>6, <1>8, <2>1, <2>2, ZenonT(60)
          DEF IInv, DiskInv, PhaseInv, FreeInv, AtInv, Copying, Showing
<1>9. CASE status.name = "update_page_visibility"
  <2>1. pc' = "show" /\ status' = status
    BY <1>3, <1>9 DEF resumeFileCompaction
  <2>2. FreeShowing(cache, freePages', status.mappings)
    BY <1>5 DEF FreeExact, FreeShowing
  <2>3. \A i \in DOMAIN status.mappings : ~(i < 1)
    BY ONLY <1>6, SMTT(60)
  <2>4. AtInv'
    BY <1>3, <2>1, <2>3 DEF AtInv
  <2>5. DiskInv'
    BY <1>1, <1>3, <2>1, ZenonT(60) DEF DiskInv
  <2>6. PhaseInv' /\ FreeInv'
    BY <1>3, <1>4, <1>9, <2>1, <2>2, ZenonT(60) DEF PhaseInv, FreeInv, Copying, Showing
  <2> QED BY <1>1, <1>3, <2>1, <2>4, <2>5, <2>6, ZenonT(60) DEF IInv
<1>10. CASE status.name = "delete_empty_files"
  <2>1. pc' = "delete" /\ status' = status
    BY <1>3, <1>10, ZenonT(60) DEF resumeFileCompaction
  <2>2. FreeDelete(cache, freePages')
    BY <1>5 DEF FreeExact, FreeDelete, Places, IsFree
  <2> QED BY <1>1, <1>3, <1>4, <1>6, <1>10, <2>1, <2>2, ZenonT(60)
          DEF IInv, DiskInv, PhaseInv, FreeInv, AtInv, Copying, Showing
<1> QED BY <1>6, <1>7, <1>8, <1>9, <1>10, ZenonT(60) DEF StatusNames

\* Every step keeps the invariant.
LEMMA IInvNext ==
  ASSUME ~LosesBuffered, IInv, [Next]_vars
  PROVE  IInv'
<1>1. CASE UNCHANGED vars
  BY <1>1, ZenonT(60) DEF vars, IInv, DiskInv, PhaseInv, FreeInv, AtInv
<1>2. CASE Next
  BY <1>2, CompactFilesInv, SortFilesInv, CopyInv, EndOfCopiesInv, StartVisibilityInv, ShowInv, HideInv,
     SyncInv, DeleteInv, StopInv, OpenInv DEF Next, Step
<1> QED BY <1>1, <1>2, SMTT(60)

\* If the freed pages of the table have no size left in their headers when the
\* compaction begins, and a killed process loses none of its writes, then, whatever
\* phase is interrupted and however often, an open table has each page that was
\* written in exactly one used page.
THEOREM CompactionKeepsContents ==
  ASSUME ~FreedSinceOpen, ~LosesBuffered
  PROVE  Spec => []ContentsKept
<1>1. Init => IInv
  BY InitInv
<1>2. IInv /\ [Next]_vars => IInv'
  BY IInvNext
<1>3. IInv => ContentsKept
  <2> SUFFICES ASSUME IInv, pc = "running"
               PROVE  {cache[p[1]][p[2]].body : p \in UsedPages(cache)} = written /\ ~Duplicates(cache)
    BY DEF ContentsKept
  <2>1. ImageInv(cache, written) /\ Exact(cache, written)
    BY ZenonT(60) DEF IInv, DiskInv, PhaseInv
  <2> QED BY ONLY <2>1, ExactKept, SMTT(60)
<1> QED BY <1>1, <1>2, <1>3, PTL DEF Spec

\* Under the same two conditions no check of the compaction fails, and none of the
\* table that is opened after it: no page is copied or overwritten twice.
THEOREM CompactionPassesChecks ==
  ASSUME ~FreedSinceOpen, ~LosesBuffered
  PROVE  Spec => []ChecksHold
<1>1. Init => IInv
  BY InitInv
<1>2. IInv /\ [Next]_vars => IInv'
  BY IInvNext
<1>3. IInv => ChecksHold
  BY DEF IInv, PhaseInv, ChecksHold, Copying, Showing
<1> QED BY <1>1, <1>2, <1>3, PTL DEF Spec
=============================================================================

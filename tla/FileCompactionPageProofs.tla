---------------------- MODULE FileCompactionPageProofs ----------------------
(***************************************************************************)
(* The invariant of FileCompaction, and what the writes of a compaction do *)
(* to its parts.  The predicates take the image of the files as a          *)
(* parameter, so that what copying, showing and hiding a page do to them   *)
(* are lemmas about two images.                                            *)
(***************************************************************************)
EXTENDS FileCompaction, FiniteSetTheorems, WellFoundedInduction, TLAPS

Places(img) == (DOMAIN img) \X Pages
At(img, p) == img[p[1]][p[2]]
Used(img, p) == At(img, p).used
Body(img, p) == At(img, p).body
Mappings == [source : Files \X Pages, destination : Files \X Pages]

\* Files are made of pages, and a used page holds something that was written.
ImageInv(img, w) ==
  /\ DOMAIN img \subseteq Files
  /\ img \in [DOMAIN img -> [Pages -> [used : BOOLEAN, body : {Deleted} \cup w]]]
  /\ Deleted \notin w
  /\ \A p \in Places(img) : Used(img, p) => Body(img, p) \in w

Covers(img, w) == \A b \in w : \E p \in Places(img) : Used(img, p) /\ Body(img, p) = b

\* Everything written is in one used page, and in one only.
Exact(img, w) ==
  /\ Covers(img, w)
  /\ \A p, q \in Places(img) : Used(img, p) /\ Used(img, q) /\ Body(img, p) = Body(img, q) => p = q

IsDestination(ms, p) == \E i \in DOMAIN ms : ms[i].destination = p

\* A file has a used page that nothing was copied to.
Keeps(img, ms, f) == \E n \in Pages : Used(img, <<f, n>>) /\ ~IsDestination(ms, <<f, n>>)

\* Copies that were made: no page is in two of them, no file is both copied from and
\* copied to, and a file that is copied to has a used page of its own.
MappingsInv(img, ms, w) ==
  /\ ms \in Seq(Mappings)
  /\ \A i \in DOMAIN ms : /\ ms[i].source \in Places(img) /\ ms[i].destination \in Places(img)
                          /\ Body(img, ms[i].source) \in w
                          /\ Body(img, ms[i].destination) = Body(img, ms[i].source)
                          /\ Keeps(img, ms, ms[i].destination[1])
  /\ \A i, j \in DOMAIN ms : ms[i].source[1] # ms[j].destination[1]
  /\ \A i, j \in DOMAIN ms : i # j => /\ ms[i].source # ms[j].source
                                      /\ ms[i].destination # ms[j].destination

\* Until visibility changes, the originals are the used pages.
SourcesUsed(img, ms) == \A i \in DOMAIN ms : Used(img, ms[i].source)

\* While visibility changes, what is in two used pages is a page and its copy.
Half(img, ms, w) ==
  /\ Covers(img, w)
  /\ \A i \in DOMAIN ms : Used(img, ms[i].source) \/ Used(img, ms[i].destination)
  /\ \A p, q \in Places(img) : Used(img, p) /\ Used(img, q) /\ Body(img, p) = Body(img, q) =>
       \/ p = q
       \/ \E i \in DOMAIN ms : \/ p = ms[i].source /\ q = ms[i].destination
                               \/ q = ms[i].source /\ p = ms[i].destination

StatusNames == {"none", "copy_pages", "update_page_visibility", "delete_empty_files"}

\* What the files and the status file amount to, for whoever opens the table.
DiskInv ==
  /\ status \in [name : StatusNames, mappings : Seq(Mappings)]
  /\ IF status.name = "update_page_visibility"
     THEN MappingsInv(cache, status.mappings, written) /\ Half(cache, status.mappings, written)
     ELSE Exact(cache, written)

Copying == {"sort", "copy", "copied"}
Showing == {"show", "hide", "synced"}

\* The status file names the phase the process is in.
PhaseInv ==
  /\ pc \in {"running", "restart", "done", "delete", "down"} \cup Copying \cup Showing
  /\ pc \in {"running", "restart", "done"} => status.name = "none"
  /\ pc \in Copying => /\ status.name = "copy_pages"
                       /\ MappingsInv(cache, page_mappings, written) /\ SourcesUsed(cache, page_mappings)
  /\ pc \in Showing => status.name = "update_page_visibility"
  /\ pc \in Showing \cup {"copied"} => page_mappings = status.mappings
  /\ pc = "delete" => status.name = "delete_empty_files"

FreeType(img, free) ==
  DOMAIN img \subseteq DOMAIN free /\ free \in [DOMAIN free -> SUBSET Pages]
IsFree(free, p) == p[2] \in free[p[1]]

\* The free lists are right before a compaction.
FreeExact(img, free) == \A p \in Places(img) : IsFree(free, p) <=> ~Used(img, p)

\* While pages are copied they lack the copies, which are not yet used.
FreeCopying(img, free, ms) ==
  \A p \in Places(img) :
    /\ IsFree(free, p) => ~Used(img, p) /\ ~IsDestination(ms, p)
    /\ ~IsFree(free, p) => Used(img, p) \/ IsDestination(ms, p)

\* While visibility changes they may have copies that are used by now: a process
\* that resumes reads them before it shows the copies.
FreeShowing(img, free, ms) ==
  \A p \in Places(img) : IsFree(free, p) => ~Used(img, p) \/ IsDestination(ms, p)

\* A file that has only free pages has none that is used.
FreeDelete(img, free) ==
  \A f \in DOMAIN img : free[f] = Pages => \A n \in Pages : ~Used(img, <<f, n>>)

FreeInv ==
  /\ pc \in {"running", "restart", "delete"} \cup Copying \cup Showing => FreeType(cache, freePages)
  /\ pc \in {"running", "restart"} => FreeExact(cache, freePages)
  /\ pc \in Copying => FreeCopying(cache, freePages, page_mappings)
  /\ pc \in Showing => FreeShowing(cache, freePages, page_mappings)
  /\ pc = "delete" => FreeDelete(cache, freePages)

OfSize(f, s) == (f \in DataFiles) <=> (s = "data")

\* Page sizes that are still to be compacted have files, none of them touched.
TodoInv(img, ms, td) ==
  /\ td \subseteq PageSizes
  /\ \A s \in td : \E f \in DOMAIN img : OfSize(f, s)
  /\ \A s \in td, i \in DOMAIN ms : ~OfSize(ms[i].source[1], s) /\ ~OfSize(ms[i].destination[1], s)

\* The loop that copies takes pages from the end of the order and fills it from its
\* front: files between the two have free pages and files up to the source have
\* used ones, what was copied is at or behind the source, and the copies are at or
\* before the destination.
LoopInv(img, free, ms, order, destination, source, used, td) ==
  /\ order \in Seq(Files) /\ used \in SUBSET Pages
  /\ destination \in DOMAIN order /\ source \in DOMAIN order
  /\ \A i \in DOMAIN order : order[i] \in DOMAIN img /\ \A s \in td : ~OfSize(order[i], s)
  /\ \A i, j \in DOMAIN order : order[i] = order[j] => i = j
  /\ \A i \in DOMAIN order : destination <= i /\ i < source => free[order[i]] # {}
  /\ destination < source =>
       \A i \in DOMAIN order : i <= source => Keeps(img, ms, order[i])
  /\ \A n \in used : Used(img, <<order[source], n>>)
  /\ \A m \in DOMAIN ms, i \in DOMAIN order : ms[m].source[1] = order[i] =>
       \/ i > source
       \/ i = source /\ used # {} /\ ms[m].source[2] \notin used
  /\ \A m \in DOMAIN ms, i \in DOMAIN order : ms[m].destination[1] = order[i] => i <= destination

\* Mappings before the next one are done.
AtInv ==
  /\ pc \in {"show", "hide"} =>
       /\ at \in Nat \ {0}
       /\ \A i \in DOMAIN page_mappings : i < at => ~Used(cache, page_mappings[i].source)
  /\ pc = "hide" => at \in DOMAIN page_mappings /\ Used(cache, page_mappings[at].destination)
  /\ pc = "synced" => \A i \in DOMAIN page_mappings : ~Used(cache, page_mappings[i].source)

IInv ==
  /\ ImageInv(cache, written) /\ DiskInv /\ PhaseInv /\ FreeInv
  /\ pc \in {"sort", "copy"} => TodoInv(cache, page_mappings, todo)
  /\ pc = "copy" => loop \in [order : Seq(Files), destination : Nat, source : Nat, used : SUBSET Pages]
  /\ pc = "copy" => LoopInv(cache, freePages, page_mappings,
                             loop.order, loop.destination, loop.source, loop.used, todo)
  /\ AtInv

-----------------------------------------------------------------------------
\* The least of some natural numbers is one of them: Min of a set of pages or files.
LEMMA MinIn ==
  ASSUME NEW S \in SUBSET Nat, S # {}
  PROVE  Min(S) \in S /\ \A y \in S : Min(S) <= y
<1>1. PICK x \in S : \A y \in S : <<y, x>> \notin OpToRel(<, Nat)
  BY NatLessThanWellFounded, WFMin, ZenonT(60)
<1>2. \A y \in S : ~(y < x)
  BY <1>1, Zenon DEF OpToRel
<1>3. \E z \in S : \A y \in S : z <= y
  BY <1>2
<1> QED BY <1>3, ZenonT(60) DEF Min

\* The greatest of some numbers up to a bound is one of them.
LEMMA MaxIn ==
  ASSUME NEW b \in Nat, NEW S \in SUBSET (0 .. b), S # {}
  PROVE  Max(S) \in S /\ \A y \in S : Max(S) >= y
<1> DEFINE D == {b - x : x \in S}
<1>0. \A x \in S : x \in Nat /\ b - x \in Nat
  OBVIOUS
<1>1. D \in SUBSET Nat /\ D # {}
  BY <1>0, ZenonT(60)
<1>2. PICK d \in D : \A e \in D : d <= e
  BY <1>1, MinIn, ZenonT(60)
<1>3. PICK x \in S : d = b - x
  BY <1>2
<1>4. \A y \in S : b - y \in D
  OBVIOUS
<1>5. \A y \in S : x >= y
  BY <1>2, <1>3, <1>4
<1> QED BY <1>5, ZenonT(60) DEF Max

\* A page that is written changes, and no other page does.
LEMMA WriteAt ==
  ASSUME NEW w, NEW img, ImageInv(img, w), NEW f \in DOMAIN img, NEW n \in Pages,
         NEW r \in [used : BOOLEAN, body : {Deleted} \cup w],
         r.used => r.body \in w,
         NEW new, new = write(img, f, n, r)
  PROVE  /\ Places(new) = Places(img) /\ DOMAIN new = DOMAIN img
         /\ <<f, n>> \in Places(img)
         /\ At(new, <<f, n>>) = r
         /\ \A q \in Places(img) : q # <<f, n>> => At(new, q) = At(img, q)
         /\ ImageInv(new, w)
<1>1. /\ DOMAIN new = DOMAIN img
      /\ new \in [DOMAIN new -> [Pages -> [used : BOOLEAN, body : {Deleted} \cup w]]]
      /\ new[f] = [img[f] EXCEPT ![n] = r]
      /\ \A g \in DOMAIN img : g # f => new[g] = img[g]
  BY DEF write, ImageInv
<1>2. new[f][n] = r /\ \A m \in Pages : m # n => new[f][m] = img[f][m]
  BY <1>1 DEF ImageInv
<1>3. \A q \in Places(img) : q = <<q[1], q[2]>> /\ q[1] \in DOMAIN img /\ q[2] \in Pages
  BY DEF Places
<1>4. \A q \in Places(img) : q # <<f, n>> => At(new, q) = At(img, q)
  BY <1>1, <1>2, <1>3, ZenonT(60) DEF At
<1>5. At(new, <<f, n>>) = r /\ <<f, n>> \in Places(img)
  BY <1>2 DEF At, Places
<1>6. Places(new) = Places(img)
  BY <1>1 DEF Places
<1>7. ImageInv(new, w)
  BY <1>1, <1>4, <1>5, <1>6, ZenonT(60) DEF ImageInv, Used, Body
<1> QED BY <1>1, <1>4, <1>5, <1>6, <1>7

\* What a page of an image is made of.
LEMMA PageType ==
  ASSUME NEW w, NEW img, ImageInv(img, w), NEW p \in Places(img)
  PROVE  /\ p[1] \in DOMAIN img /\ p[2] \in Pages /\ p = <<p[1], p[2]>> /\ p \in Files \X Pages
         /\ At(img, p) \in [used : BOOLEAN, body : {Deleted} \cup w]
         /\ Used(img, p) \in BOOLEAN
BY DEF Places, ImageInv, At, Used

\* The two images differ in page p only.
SameBut(img, new, p) ==
  /\ DOMAIN new = DOMAIN img /\ Places(new) = Places(img) /\ p \in Places(img)
  /\ \A q \in Places(img) : q # p => At(new, q) = At(img, q)

\* An unused page that is overwritten, and stays unused, leaves the used pages alone.
LEMMA UnusedExact ==
  ASSUME NEW w, NEW img, NEW new, NEW p, SameBut(img, new, p),
         ~Used(img, p), ~Used(new, p), Exact(img, w)
  PROVE  Exact(new, w)
<1>1. \A q \in Places(img) : /\ Used(new, q) <=> Used(img, q)
                             /\ Used(img, q) => Body(new, q) = Body(img, q)
  BY DEF Used, Body, SameBut
<1>2. Covers(new, w)
  BY <1>1 DEF Exact, Covers, SameBut
<1>3. \A q, r \in Places(new) : Used(new, q) /\ Used(new, r) /\ Body(new, q) = Body(new, r) => q = r
  BY <1>1 DEF Exact, SameBut
<1> QED BY <1>2, <1>3 DEF Exact

\* One more mapping, from s to p.
Appended(ms, more, s, p) ==
  /\ more \in Seq(Mappings)
  /\ \E k : /\ DOMAIN more = DOMAIN ms \cup {k} /\ k \notin DOMAIN ms
            /\ more[k].source = s /\ more[k].destination = p
            /\ \A i \in DOMAIN ms : more[i] = ms[i]

\* That is what Append of a page mapping gives.
LEMMA AppendMapping ==
  ASSUME NEW ms \in Seq(Mappings), NEW s \in Files \X Pages, NEW p \in Files \X Pages,
         NEW more, more = Append(ms, [source |-> s, destination |-> p])
  PROVE  Appended(ms, more, s, p)
<1> DEFINE m == [source |-> s, destination |-> p]
<1>1. m \in Mappings /\ m.source = s /\ m.destination = p
  BY DEF Mappings
<1>2. more = Append(ms, m)
  OBVIOUS
<1> HIDE DEF m
<1>3. /\ more \in Seq(Mappings) /\ Len(more) = Len(ms) + 1 /\ more[Len(ms) + 1] = m
      /\ \A i \in 1 .. Len(ms) : more[i] = ms[i]
  BY <1>1, <1>2
<1>4. DOMAIN ms = 1 .. Len(ms) /\ DOMAIN more = 1 .. (Len(ms) + 1) /\ Len(ms) \in Nat
  BY <1>3
<1>5. DOMAIN more = DOMAIN ms \cup {Len(ms) + 1} /\ Len(ms) + 1 \notin DOMAIN ms
  BY <1>4
<1> QED BY <1>1, <1>3, <1>4, <1>5 DEF Appended

\* A file that has a used page of its own keeps it when an unused page is overwritten.
LEMMA CopyKeeps ==
  ASSUME NEW img, NEW new, NEW ms, NEW more, NEW s, NEW p, Appended(ms, more, s, p),
         SameBut(img, new, p), ~Used(img, p), NEW f \in DOMAIN img, Keeps(img, ms, f)
  PROVE  Keeps(new, more, f)
<1>1. PICK n \in Pages : Used(img, <<f, n>>) /\ ~IsDestination(ms, <<f, n>>)
  BY DEF Keeps
<1>2. <<f, n>> \in Places(img) /\ <<f, n>> # p
  BY <1>1 DEF Places
<1>3. Used(new, <<f, n>>)
  BY <1>1, <1>2 DEF SameBut, Used
<1>4. ~IsDestination(more, <<f, n>>)
  BY <1>1, <1>2, ZenonT(60) DEF IsDestination, Appended
<1> QED BY <1>3, <1>4 DEF Keeps

\* Copying page s into the free page p keeps what is known of the mappings, if neither
\* was touched and p's file has a used page of its own.
LEMMA CopyMappings ==
  ASSUME NEW w, NEW img, NEW new, NEW ms, MappingsInv(img, ms, w),
         NEW s \in Places(img), NEW p, SameBut(img, new, p), ~Used(img, p),
         Body(new, p) = Body(img, s), Body(img, s) \in w,
         s[1] # p[1], Keeps(img, ms, p[1]),
         \A i \in DOMAIN ms : /\ ms[i].source # s /\ ms[i].destination # p
                              /\ ms[i].source[1] # p[1] /\ ms[i].destination[1] # s[1],
         NEW more, Appended(ms, more, s, p)
  PROVE  MappingsInv(new, more, w)
<1>1. PICK k : /\ DOMAIN more = DOMAIN ms \cup {k} /\ k \notin DOMAIN ms
               /\ more[k].source = s /\ more[k].destination = p
               /\ \A i \in DOMAIN ms : more[i] = ms[i]
  BY DEF Appended
<1>2. \A q \in Places(img) : q # p => Body(new, q) = Body(img, q)
  BY DEF Body, SameBut
<1>3. Places(new) = Places(img) /\ p \in Places(img) /\ s # p /\ \A q \in Places(img) : q[1] \in DOMAIN img
  BY DEF SameBut, Places
<1>4. \A f \in DOMAIN img : Keeps(img, ms, f) => Keeps(new, more, f)
  BY CopyKeeps
<1>5. ASSUME NEW i \in DOMAIN ms
      PROVE  /\ ms[i].source \in Places(new) /\ ms[i].destination \in Places(new)
             /\ Body(new, ms[i].source) \in w
             /\ Body(new, ms[i].destination) = Body(new, ms[i].source)
             /\ Keeps(new, more, ms[i].destination[1])
  <2>1. /\ ms[i].source \in Places(img) /\ ms[i].destination \in Places(img)
        /\ Body(img, ms[i].source) \in w
        /\ Body(img, ms[i].destination) = Body(img, ms[i].source)
        /\ Keeps(img, ms, ms[i].destination[1])
    BY <1>5 DEF MappingsInv
  <2>2. ms[i].source # p /\ ms[i].destination # p
    BY <1>5
  <2> QED BY <1>2, <1>3, <1>4, <2>1, <2>2, ZenonT(60)
<1>6. /\ s \in Places(new) /\ p \in Places(new) /\ Body(new, s) \in w
      /\ Body(new, p) = Body(new, s) /\ Keeps(new, more, p[1])
  BY <1>2, <1>3, <1>4
<1>7. \A i \in DOMAIN more : /\ more[i].source \in Places(new) /\ more[i].destination \in Places(new)
                             /\ Body(new, more[i].source) \in w
                             /\ Body(new, more[i].destination) = Body(new, more[i].source)
                             /\ Keeps(new, more, more[i].destination[1])
  BY <1>1, <1>5, <1>6, ZenonT(60)
<1>8. \A i, j \in DOMAIN more : more[i].source[1] # more[j].destination[1]
  BY <1>1 DEF MappingsInv
<1>9. \A i, j \in DOMAIN more : i # j => /\ more[i].source # more[j].source
                                         /\ more[i].destination # more[j].destination
  BY <1>1 DEF MappingsInv
<1> QED BY <1>7, <1>8, <1>9 DEF MappingsInv, Appended

\* The originals stay used.
LEMMA CopySources ==
  ASSUME NEW w, NEW img, NEW new, NEW ms, MappingsInv(img, ms, w), SourcesUsed(img, ms),
         NEW s \in Places(img), Used(img, s), NEW p, SameBut(img, new, p), ~Used(img, p),
         NEW more, Appended(ms, more, s, p)
  PROVE  SourcesUsed(new, more)
<1>1. \A q \in Places(img) : Used(img, q) => Used(new, q)
  BY DEF SameBut, Used
<1>2. \A i \in DOMAIN ms : ms[i].source \in Places(img)
  BY DEF MappingsInv
<1> QED BY <1>1, <1>2 DEF SourcesUsed, Appended

\* Page n of sf is copied to the free page d of df: what changes.
Copied(img, new, ms, more, free, less, sf, n, df, d) ==
  /\ SameBut(img, new, <<df, d>>) /\ ~Used(img, <<df, d>>) /\ ~Used(new, <<df, d>>)
  /\ Appended(ms, more, <<sf, n>>, <<df, d>>)
  /\ FreeType(img, free) /\ less = [free EXCEPT ![df] = @ \ {d}]

\* The copy is off the free list of its file.
LEMMA CopyFree ==
  ASSUME NEW img, NEW new, NEW ms, NEW more, NEW free, NEW less, NEW sf, NEW n, NEW df, NEW d,
         Copied(img, new, ms, more, free, less, sf, n, df, d), FreeCopying(img, free, ms)
  PROVE  FreeType(new, less) /\ FreeCopying(new, less, more)
<1> DEFINE p == <<df, d>>
<1>0. /\ SameBut(img, new, p) /\ ~Used(img, p) /\ ~Used(new, p) /\ Appended(ms, more, <<sf, n>>, p)
      /\ FreeType(img, free) /\ less = [free EXCEPT ![df] = @ \ {d}]
  BY DEF Copied
<1>1. \A q : IsDestination(more, q) <=> IsDestination(ms, q) \/ q = p
  BY <1>0, ZenonT(60) DEF IsDestination, Appended
<1>2. \A q \in Places(img) : Used(new, q) <=> Used(img, q)
  BY <1>0 DEF Used, SameBut
<1>3. FreeType(new, less)
  BY <1>0, ZenonT(60) DEF FreeType, SameBut
<1>4. \A q \in Places(img) : q = <<q[1], q[2]>> /\ q[1] \in DOMAIN free
  BY <1>0 DEF Places, FreeType
<1>5. p \in Places(img) /\ p = <<p[1], p[2]>> /\ p[1] \in DOMAIN free
  BY <1>0, <1>4 DEF SameBut
<1>6. \A q \in Places(img) : IsFree(less, q) <=> IsFree(free, q) /\ q # p
  <2> SUFFICES ASSUME NEW q \in Places(img) PROVE IsFree(less, q) <=> IsFree(free, q) /\ q # p
    OBVIOUS
  <2>1. q = <<q[1], q[2]>> /\ q[1] \in DOMAIN free
    BY <1>4
  <2>2. less[q[1]] = IF q[1] = p[1] THEN free[q[1]] \ {p[2]} ELSE free[q[1]]
    BY <1>0, <2>1, ZenonT(60) DEF FreeType
  <2> QED BY <1>5, <2>1, <2>2 DEF IsFree
<1>7. FreeCopying(new, less, more)
  BY <1>0, <1>1, <1>2, <1>5, <1>6, ZenonT(60) DEF FreeCopying, SameBut
<1> QED BY <1>3, <1>7

\* The pages us of sf, and the free ones of df, were not touched before, the files
\* differ, and df has a used page of its own.
CopyReady(img, ms, free, sf, df, us) ==
  /\ sf \in DOMAIN img /\ df \in DOMAIN img /\ sf # df
  /\ us \in SUBSET Pages /\ us # {} /\ \A n \in us : Used(img, <<sf, n>>)
  /\ free[df] \in SUBSET Pages /\ free[df] # {}
  /\ Keeps(img, ms, df)
  /\ \A i \in DOMAIN ms : /\ ms[i].source[1] # df /\ ms[i].destination[1] # sf
                          /\ ms[i].source[1] = sf => ms[i].source[2] \notin us

\* The loop is at a page to copy and one to copy it to.
LEMMA CopyPlaces ==
  ASSUME NEW img, NEW ms, NEW free, FreeType(img, free), FreeCopying(img, free, ms), NEW td,
         NEW order, NEW dst \in Nat, NEW src \in Nat, NEW used, dst < src,
         LoopInv(img, free, ms, order, dst, src, used, td),
         NEW sf, sf = order[src], NEW df, df = order[dst],
         NEW us, us = IF used = {} THEN Pages \ free[sf] ELSE used
  PROVE  CopyReady(img, ms, free, sf, df, us)
<1>1. used \in SUBSET Pages /\ src \in DOMAIN order /\ dst \in DOMAIN order
  BY DEF LoopInv
<1>2. sf \in DOMAIN img /\ df \in DOMAIN img /\ sf # df
  BY <1>1 DEF LoopInv
<1>3. free[df] \in SUBSET Pages /\ free[df] # {}
  BY <1>1, <1>2 DEF LoopInv, FreeType
<1>4. Keeps(img, ms, df) /\ Keeps(img, ms, sf)
  BY <1>1 DEF LoopInv
<1>5. \A i \in DOMAIN ms : /\ ms[i].source[1] # df /\ ms[i].destination[1] # sf
                           /\ ms[i].source[1] = sf => used # {} /\ ms[i].source[2] \notin used
  BY <1>1 DEF LoopInv
<1>6. \A n \in Pages : ~IsDestination(ms, <<sf, n>>)
  BY <1>5 DEF IsDestination
<1>7. us \in SUBSET Pages /\ \A n \in us : Used(img, <<sf, n>>)
  <2>1. CASE used = {}
    <3> SUFFICES ASSUME NEW n \in Pages, n \notin free[sf] PROVE Used(img, <<sf, n>>)
      BY <2>1, ZenonT(60)
    <3>1. <<sf, n>> \in Places(img) /\ ~IsFree(free, <<sf, n>>)
      BY <1>2 DEF Places, IsFree
    <3> QED BY <1>6, <3>1 DEF FreeCopying
  <2>2. CASE used # {}
    BY <1>1, <2>2 DEF LoopInv
  <2> QED BY ONLY <2>1, <2>2, SMTT(60)
<1>8. us # {}
  <2>1. PICK n \in Pages : Used(img, <<sf, n>>)
    BY <1>4 DEF Keeps
  <2>2. <<sf, n>> \in Places(img)
    BY <1>2 DEF Places
  <2>3. n \notin free[sf]
    BY <2>1, <2>2 DEF FreeCopying, IsFree
  <2> QED BY <2>3
<1> QED BY <1>2, <1>3, <1>4, <1>5, <1>7, <1>8, ZenonT(60) DEF CopyReady

\* The locals of the loop after a copy.
LEMMA LoopStep ==
  ASSUME NEW lp \in [order : Seq(Files), destination : Nat, source : Nat, used : SUBSET Pages],
         NEW left \in SUBSET Pages, NEW a \in Nat, NEW b \in Nat,
         NEW on, on = [lp EXCEPT !.used = left, !.source = a, !.destination = b]
  PROVE  /\ on \in [order : Seq(Files), destination : Nat, source : Nat, used : SUBSET Pages]
         /\ on.order = lp.order /\ on.used = left /\ on.source = a /\ on.destination = b
BY ZenonT(60)

\* How the loop moves after the copy of page n: src down once its file has no page
\* left to copy, and dst up once its file is full.
Moves(img, less, order, dst, src, used, sf, n, df, left, dst2, src2) ==
  /\ dst \in Nat /\ src \in Nat /\ dst < src /\ sf = order[src] /\ df = order[dst]
  /\ n \in Pages /\ left \in SUBSET Pages /\ n \notin left /\ (used # {} => used = left \cup {n})
  /\ Used(img, <<sf, n>>) /\ \A m \in left : Used(img, <<sf, m>>)
  /\ src2 \in Int /\ src2 = IF left = {} THEN src - 1 ELSE src
  /\ dst2 \in Int /\ dst2 = IF less[df] = {} THEN dst + 1 ELSE dst

\* The loop goes on after a copy.
LEMMA CopyLoop ==
  ASSUME NEW img, NEW new, NEW ms, NEW more, NEW free, NEW less, NEW sf, NEW n, NEW df, NEW d,
         Copied(img, new, ms, more, free, less, sf, n, df, d), NEW td, TodoInv(img, ms, td),
         NEW order, NEW dst, NEW src, NEW used, LoopInv(img, free, ms, order, dst, src, used, td),
         NEW left, NEW src2, NEW dst2,
         Moves(img, less, order, dst, src, used, sf, n, df, left, dst2, src2)
  PROVE  LoopInv(new, less, more, order, dst2, src2, left, td) /\ TodoInv(new, more, td)
<1> USE DEF Moves
<1>0. /\ SameBut(img, new, <<df, d>>) /\ ~Used(img, <<df, d>>)
      /\ Appended(ms, more, <<sf, n>>, <<df, d>>) /\ FreeType(img, free)
      /\ \A g \in DOMAIN free : g # df => less[g] = free[g]
  BY ZenonT(60) DEF Copied, FreeType
<1>1. /\ order \in Seq(Files) /\ used \in SUBSET Pages
      /\ dst \in DOMAIN order /\ src \in DOMAIN order
  BY ZenonT(60) DEF LoopInv
<1>2. DOMAIN order = 1 .. Len(order) /\ Len(order) \in Nat
  BY <1>1
<1>3. /\ src2 <= src /\ src - 1 <= src2 /\ dst <= dst2 /\ dst2 <= dst + 1
      /\ left = {} => src2 < src
  OBVIOUS
<1>4. dst2 \in DOMAIN order /\ src2 \in DOMAIN order
  BY <1>1, <1>2, <1>3, SMTT(60)
<1>5. \A i \in DOMAIN order : order[i] \in DOMAIN new /\ \A s \in td : ~OfSize(order[i], s)
  BY <1>0, ZenonT(60) DEF LoopInv, SameBut
<1>6. \A i, j \in DOMAIN order : order[i] = order[j] => i = j
  BY ZenonT(60) DEF LoopInv
<1>7. \A i \in DOMAIN order : i \in Nat
  BY <1>2
<1>8. ASSUME NEW i \in DOMAIN order, dst2 <= i, i < src2
      PROVE  less[order[i]] # {}
  <2>1. dst <= i /\ i < src
    BY <1>3, <1>7, <1>8
  <2>2. free[order[i]] # {} /\ order[i] \in DOMAIN free
    BY <1>0, <2>1, ZenonT(60) DEF LoopInv, FreeType
  <2>3. CASE order[i] = df
    <3>1. i = dst
      BY <1>1, <1>6, <2>3
    <3>2. less[df] # {}
      BY <1>7, <1>8, <3>1
    <3> QED BY <2>3, <3>2, ZenonT(60)
  <2>4. CASE order[i] # df
    BY <1>0, <2>2, <2>4, ZenonT(60)
  <2> QED BY <2>3, <2>4, ZenonT(60)
<1>9. ASSUME NEW i \in DOMAIN order, i <= src2
      PROVE  Keeps(new, more, order[i])
  <2>1. i <= src
    BY <1>3, <1>7, <1>9, SMTT(60)
  <2>2. Keeps(img, ms, order[i]) /\ order[i] \in DOMAIN img
    BY <2>1, ZenonT(60) DEF LoopInv
  <2> QED BY ONLY <1>0, <2>2, CopyKeeps, SMTT(60)
<1>10. \A m \in left : Used(new, <<order[src2], m>>)
  <2> SUFFICES ASSUME NEW m \in left PROVE Used(new, <<order[src2], m>>)
    OBVIOUS
  <2>1. src2 = src /\ m \in Pages
    BY ZenonT(60)
  <2>2. sf \in DOMAIN img /\ Used(img, <<sf, m>>)
    BY <1>1, <2>1, ZenonT(60) DEF LoopInv
  <2>3. <<sf, m>> \in Places(img) /\ <<sf, m>> # <<df, d>>
    BY <1>0, <2>1, <2>2, ZenonT(60) DEF Places
  <2>4. Used(new, <<sf, m>>)
    BY <1>0, <2>2, <2>3, ZenonT(60) DEF SameBut, Used
  <2> QED BY <2>1, <2>4, ZenonT(60)
<1>11. PICK k : /\ DOMAIN more = DOMAIN ms \cup {k} /\ k \notin DOMAIN ms
                /\ more[k].source = <<sf, n>> /\ more[k].destination = <<df, d>>
                /\ \A i \in DOMAIN ms : more[i] = ms[i]
  BY <1>0, ZenonT(60) DEF Appended
<1>12. ASSUME NEW m \in DOMAIN more, NEW i \in DOMAIN order, more[m].source[1] = order[i]
       PROVE  \/ i > src2
              \/ i = src2 /\ left # {} /\ more[m].source[2] \notin left
  <2>1. CASE m \in DOMAIN ms
    <3>1. \/ i > src
          \/ i = src /\ used # {} /\ more[m].source[2] \notin used
      BY <1>11, <1>12, <2>1, ZenonT(60) DEF LoopInv
    <3>2. i > src => i > src2
      BY <1>3, <1>7
    <3>3. used # {} /\ more[m].source[2] \notin used => more[m].source[2] \notin left
      BY ZenonT(60)
    <3>4. i = src => i > src2 \/ (i = src2 /\ left # {})
      BY <1>3, ZenonT(60)
    <3> QED BY <3>1, <3>2, <3>3, <3>4, ZenonT(60)
  <2>2. CASE m = k
    <3>1. more[m].source[1] = sf /\ more[m].source[2] = n
      BY <1>11, <2>2
    <3>2. i = src
      BY <1>1, <1>6, <1>12, <3>1, ZenonT(60)
    <3>3. i > src2 \/ (i = src2 /\ left # {})
      BY <1>3, <3>2, ZenonT(60)
    <3> QED BY <3>1, <3>3, ZenonT(60)
  <2> QED BY <1>11, <2>1, <2>2, ZenonT(60)
<1>13. ASSUME NEW m \in DOMAIN more, NEW i \in DOMAIN order, more[m].destination[1] = order[i]
       PROVE  i <= dst2
  <2>1. CASE m \in DOMAIN ms
    <3>1. i <= dst
      BY <1>11, <1>13, <2>1, ZenonT(60) DEF LoopInv
    <3> QED BY <1>3, <1>7, <3>1, SMTT(60)
  <2>2. CASE m = k
    <3>1. more[m].destination[1] = df
      BY ONLY <1>11, <2>2, SMTT(60)
    <3>2. i = dst
      BY <1>1, <1>6, <1>13, <3>1, ZenonT(60)
    <3> QED BY <1>3, <3>2, ZenonT(60)
  <2> QED BY <1>11, <2>1, <2>2, ZenonT(60)
<1>14. LoopInv(new, less, more, order, dst2, src2, left, td)
  <2>1. left \in SUBSET Pages
    OBVIOUS
  <2> QED BY <1>1, <1>4, <1>5, <1>6, <1>8, <1>9, <1>10, <1>12, <1>13, <2>1, ZenonT(60) DEF LoopInv
<1>15. \A s \in td : ~OfSize(sf, s) /\ ~OfSize(df, s)
  BY <1>1, ZenonT(60) DEF LoopInv
<1>16. TodoInv(new, more, td)
  BY <1>0, <1>11, <1>15 DEF TodoInv, SameBut
<1> QED BY <1>14, <1>16

\* Free lists are finite, so that the number of free pages tells a file that is full
\* from one that is empty.
LEMMA FreeCount ==
  ASSUME NEW S \in SUBSET Pages
  PROVE  /\ Cardinality(S) \in Nat /\ Cardinality(S) <= NumPages
         /\ Cardinality(S) = 0 <=> S = {}
         /\ Cardinality(S) = NumPages <=> S = Pages
<1>1. IsFiniteSet(Pages) /\ Cardinality(Pages) = NumPages
  BY FS_Interval, BoundsAssumption DEF Pages
<1>2. IsFiniteSet(S) /\ Cardinality(S) <= NumPages /\ (NumPages = Cardinality(S) => Pages = S)
  BY <1>1, FS_Subset
<1>3. Cardinality(S) \in Nat /\ (Cardinality(S) = 0 <=> S = {})
  BY <1>2, FS_CardinalityType, FS_EmptySet, SMTT(60)
<1> QED BY <1>1, <1>2, <1>3

\* The first destination is not full, unless it is the last file.
LEMMA FirstBound ==
  ASSUME NEW c \in Nat, c > 0, NEW order, DOMAIN order = 1 .. c, Len(order) = c, NEW free,
         NEW dst, dst = Min({i \in DOMAIN order : free[order[i]] # {}} \cup {Len(order)})
  PROVE  dst \in 1 .. c /\ (dst # c => free[order[dst]] # {})
<1> DEFINE D == {i \in DOMAIN order : free[order[i]] # {}} \cup {Len(order)}
<1>1. D \in SUBSET (1 .. c) /\ Len(order) \in D
  OBVIOUS
<1>2. D \in SUBSET Nat /\ D # {}
  BY <1>1
<1>3. dst \in D
  BY <1>2, MinIn, ZenonT(60)
<1> QED BY <1>1, <1>3, ZenonT(60)

\* The last source is not empty, unless it is the destination.
LEMMA LastBound ==
  ASSUME NEW c \in Nat, NEW order, Len(order) = c, NEW dst \in 1 .. c,
         NEW src, src = LastSource(order, dst)
  PROVE  src \in dst .. c /\ (src # dst => freePages[order[src]] # Pages)
<1> DEFINE E == {i \in dst .. c : freePages[order[i]] # Pages} \cup {dst}
<1>1. dst \in Nat /\ 1 <= dst /\ dst <= c
  OBVIOUS
<1>2. \A x \in dst .. c : x \in 0 .. c
  BY <1>1
<1>3. dst \in E /\ dst \in dst .. c
  BY <1>1
<1>4. E \in SUBSET (dst .. c)
  BY <1>3
<1>5. E \in SUBSET (0 .. c) /\ E # {}
  BY ONLY <1>2, <1>3, <1>4, SMTT(60)
<1>6. src = Max(E)
  BY DEF LastSource, Empty
<1> HIDE DEF E
<1>7. src \in E
  BY <1>5, <1>6, MaxIn, ZenonT(60)
<1> QED BY <1>4, <1>7 DEF E

\* Files in the order of their free pages: all from the destination on have free pages,
\* and none up to the source has only free pages.
LEMMA SortedFree ==
  ASSUME NEW c \in Nat, NEW order, NEW free, \A i \in 1 .. c : free[order[i]] \in SUBSET Pages,
         \A i, j \in 1 .. c :
            i < j => Cardinality(free[order[i]]) <= Cardinality(free[order[j]]),
         NEW dst \in 1 .. c, dst # c => free[order[dst]] # {},
         NEW src \in dst .. c, src # dst => free[order[src]] # Pages,
         NEW i \in 1 .. c
  PROVE  /\ dst <= i /\ i < src => free[order[i]] # {}
         /\ dst < src /\ i <= src => free[order[i]] # Pages
<1> DEFINE n(k) == Cardinality(free[order[k]])
<1>1. \A k \in 1 .. c : /\ n(k) \in Nat /\ n(k) <= NumPages
                        /\ n(k) = 0 <=> free[order[k]] = {}
                        /\ n(k) = NumPages <=> free[order[k]] = Pages
  BY FreeCount
<1>2. dst \in Nat /\ src \in Nat /\ src \in 1 .. c /\ dst <= src /\ i \in Nat /\ NumPages \in Nat
  BY BoundsAssumption
<1>3. \A k, m \in 1 .. c : k < m => n(k) <= n(m)
  OBVIOUS
<1> HIDE DEF n
<1>4. \A k, m \in 1 .. c : k <= m => n(k) <= n(m)
  BY <1>1, <1>3
<1>5. ASSUME dst <= i, i < src PROVE free[order[i]] # {}
  <2>1. dst # c
    BY <1>2, <1>5
  <2>2. n(dst) # 0 /\ n(dst) \in Nat
    BY <1>1, <2>1
  <2>3. n(dst) <= n(i)
    BY ONLY <1>4, <1>5, SMTT(60)
  <2>4. n(i) \in Nat /\ n(i) # 0
    BY ONLY <1>1, <2>2, <2>3, SMTT(60)
  <2> QED BY <1>1, <2>4
<1>6. ASSUME dst < src, i <= src PROVE free[order[i]] # Pages
  <2>1. src # dst
    BY <1>2, <1>6
  <2>2. n(src) # NumPages /\ n(src) \in Nat /\ n(src) <= NumPages
    BY <1>1, <1>2, <2>1
  <2>3. n(i) <= n(src) /\ n(i) \in Nat
    BY ONLY <1>1, <1>2, <1>4, <1>6, SMTT(60)
  <2>4. n(i) # NumPages
    BY <1>2, <2>2, <2>3
  <2> QED BY <1>1, <2>4
<1> QED BY ONLY <1>5, <1>6, SMTT(60)

\* Files of one page size in the order of their free pages.
Sorted(img, free, size, order, c) ==
  /\ c \in Nat /\ order \in Seq(Files) /\ DOMAIN order = 1 .. c
  /\ \A i \in 1 .. c : order[i] \in DOMAIN img /\ OfSize(order[i], size)
  /\ \A i, j \in 1 .. c : i < j =>
       order[i] # order[j] /\ Cardinality(free[order[i]]) <= Cardinality(free[order[j]])

\* The loop begins, with the files of a page size that no mapping touches.
LEMMA SortLoop ==
  ASSUME NEW img, NEW ms, NEW free, FreeType(img, free),
         FreeCopying(img, free, ms), NEW td, TodoInv(img, ms, td), NEW size \in td,
         NEW c, NEW order, Sorted(img, free, size, order, c),
         NEW dst \in 1 .. c, dst # c => free[order[dst]] # {},
         NEW src \in dst .. c, src # dst => free[order[src]] # Pages
  PROVE  TodoInv(img, ms, td \ {size}) /\ LoopInv(img, free, ms, order, dst, src, {}, td \ {size})
<1>0. /\ c \in Nat /\ order \in Seq(Files) /\ DOMAIN order = 1 .. c
      /\ \A i \in 1 .. c : order[i] \in DOMAIN img /\ OfSize(order[i], size)
      /\ \A i, j \in 1 .. c : i < j =>
           order[i] # order[j] /\ Cardinality(free[order[i]]) <= Cardinality(free[order[j]])
  BY DEF Sorted
<1>1. \A i \in 1 .. c : free[order[i]] \in SUBSET Pages
  BY <1>0 DEF FreeType
<1>2. \A i \in 1 .. c : /\ dst <= i /\ i < src => free[order[i]] # {}
                        /\ dst < src /\ i <= src => free[order[i]] # Pages
  BY <1>0, <1>1, SortedFree, ZenonT(60)
<1>3. src \in 1 .. c
  BY <1>0
<1>4. \A i, j \in 1 .. c : order[i] = order[j] => i = j
  <2> SUFFICES ASSUME NEW i \in 1 .. c, NEW j \in 1 .. c, order[i] = order[j], i # j PROVE FALSE
    BY ZenonT(60)
  <2>1. i < j \/ j < i
    BY <1>0
  <2> QED BY <1>0, <2>1, ZenonT(60)
<1>5. \A m \in DOMAIN ms, i \in 1 .. c : ms[m].source[1] # order[i] /\ ms[m].destination[1] # order[i]
  BY <1>0, ZenonT(60) DEF TodoInv
<1>6. ASSUME NEW i \in 1 .. c, dst < src, i <= src PROVE Keeps(img, ms, order[i])
  <2>1. PICK n \in Pages : n \notin free[order[i]]
    BY <1>1, <1>2, <1>6, ZenonT(60)
  <2>2. <<order[i], n>> \in Places(img) /\ ~IsFree(free, <<order[i], n>>)
    BY <1>0, <2>1, ZenonT(60) DEF Places, IsFree
  <2>3. ~IsDestination(ms, <<order[i], n>>)
    BY <1>5 DEF IsDestination
  <2> QED BY <2>2, <2>3, ZenonT(60) DEF FreeCopying, Keeps
<1>7. \A i \in 1 .. c, s \in td \ {size} : ~OfSize(order[i], s)
  BY <1>0, SMTT(60) DEF OfSize, PageSizes, TodoInv
<1>8. LoopInv(img, free, ms, order, dst, src, {}, td \ {size})
  BY <1>0, <1>2, <1>3, <1>4, <1>5, <1>6, <1>7, ZenonT(60) DEF LoopInv
<1>9. TodoInv(img, ms, td \ {size})
  BY ZenonT(60) DEF TodoInv
<1> QED BY <1>8, <1>9, ZenonT(60)

\* Where only the header size of a page changes, and no used page of a file that was
\* copied to is hidden, the mappings stay as they are.
LEMMA BodiesKeepMappings ==
  ASSUME NEW w, NEW img, NEW new, NEW ms, MappingsInv(img, ms, w), Places(new) = Places(img),
         \A q \in Places(img) : Body(new, q) = Body(img, q),
         \A i \in DOMAIN ms, n \in Pages :
           Used(img, <<ms[i].destination[1], n>>) => Used(new, <<ms[i].destination[1], n>>)
  PROVE  MappingsInv(new, ms, w)
<1>1. \A i \in DOMAIN ms : Keeps(new, ms, ms[i].destination[1])
  BY ZenonT(60) DEF MappingsInv, Keeps
<1> QED BY <1>1 DEF MappingsInv

\* The size of a copy is set.
LEMMA ShowKeeps ==
  ASSUME NEW w, NEW img, NEW new, NEW ms, MappingsInv(img, ms, w), Half(img, ms, w),
         NEW k \in DOMAIN ms, NEW p, p = ms[k].destination, SameBut(img, new, p),
         Used(new, p), Body(new, p) = Body(img, p)
  PROVE  MappingsInv(new, ms, w) /\ Half(new, ms, w)
<1>1. Places(new) = Places(img) /\ p \in Places(img)
  BY DEF SameBut
<1>2. \A q \in Places(img) : /\ Body(new, q) = Body(img, q)
                             /\ q # p => (Used(new, q) <=> Used(img, q))
                             /\ Used(img, q) => Used(new, q)
  BY ZenonT(60) DEF SameBut, Used, Body
<1>3. MappingsInv(new, ms, w)
  <2>1. \A i \in DOMAIN ms, n \in Pages : <<ms[i].destination[1], n>> \in Places(img)
    BY ZenonT(60) DEF MappingsInv, Places
  <2> QED BY <1>1, <1>2, <2>1, BodiesKeepMappings, ZenonT(60)
<1>4. Covers(new, w)
  BY <1>1, <1>2, ZenonT(60) DEF Half, Covers
<1>5. \A i \in DOMAIN ms : Used(new, ms[i].source) \/ Used(new, ms[i].destination)
  BY <1>2, ZenonT(60) DEF Half, MappingsInv
<1> DEFINE Pair(q, r) == \/ q = r
                         \/ \E i \in DOMAIN ms : \/ q = ms[i].source /\ r = ms[i].destination
                                                 \/ r = ms[i].source /\ q = ms[i].destination
<1>6. ASSUME NEW r \in Places(img), Used(img, r), Body(img, r) = Body(img, p), r # p, ~Used(img, p)
      PROVE  r = ms[k].source
  <2>1. /\ Used(img, ms[k].source) /\ ms[k].source \in Places(img)
        /\ Body(img, ms[k].source) = Body(img, r)
    BY <1>6, ZenonT(60) DEF Half, MappingsInv
  <2>2. \/ r = ms[k].source
        \/ \E i \in DOMAIN ms : \/ r = ms[i].source /\ ms[k].source = ms[i].destination
                                \/ ms[k].source = ms[i].source /\ r = ms[i].destination
    BY <1>6, <2>1, ZenonT(60) DEF Half
  <2>3. \A i \in DOMAIN ms : ms[k].source # ms[i].destination /\ (ms[k].source = ms[i].source => i = k)
    BY ZenonT(60) DEF MappingsInv
  <2> QED BY <1>6, <2>2, <2>3, ZenonT(60)
<1>7. ASSUME NEW q \in Places(img), NEW r \in Places(img), Used(new, q), Used(new, r),
             Body(img, q) = Body(img, r)
      PROVE  Pair(q, r)
  <2>1. CASE Used(img, q) /\ Used(img, r)
    BY <1>7, <2>1, ZenonT(60) DEF Half
  <2>2. CASE ~Used(img, q) /\ q # r
    <3>1. q = p
      BY <1>2, <1>7, <2>2, ZenonT(60)
    <3>2. r = ms[k].source
      BY <1>2, <1>6, <1>7, <2>2, <3>1, ZenonT(60)
    <3> QED BY <3>1, <3>2
  <2>3. CASE ~Used(img, r) /\ q # r
    <3>1. r = p
      BY <1>2, <1>7, <2>3, ZenonT(60)
    <3>2. q = ms[k].source
      BY <1>2, <1>6, <1>7, <2>3, <3>1, ZenonT(60)
    <3> QED BY <3>1, <3>2
  <2> QED BY <2>1, <2>2, <2>3, ZenonT(60)
<1>8. ASSUME NEW q \in Places(new), NEW r \in Places(new), Used(new, q), Used(new, r),
             Body(new, q) = Body(new, r)
      PROVE  Pair(q, r)
  <2>1. q \in Places(img) /\ r \in Places(img) /\ Body(img, q) = Body(img, r)
    BY <1>1, <1>2, <1>8, ZenonT(60)
  <2> QED BY <1>7, <1>8, <2>1, ZenonT(60)
<1>9. Half(new, ms, w)
  BY <1>4, <1>5, <1>8, ZenonT(60) DEF Half
<1> QED BY <1>3, <1>9

\* The size of an original is cleared, once its copy has one.
LEMMA HideKeeps ==
  ASSUME NEW w, NEW img, NEW new, NEW ms, MappingsInv(img, ms, w), Half(img, ms, w),
         NEW k \in DOMAIN ms, NEW s, s = ms[k].source, SameBut(img, new, s),
         Used(img, ms[k].destination), ~Used(new, s), Body(new, s) = Body(img, s)
  PROVE  MappingsInv(new, ms, w) /\ Half(new, ms, w)
<1>1. Places(new) = Places(img) /\ s \in Places(img)
  BY ZenonT(60) DEF SameBut
<1>2. \A q \in Places(img) : /\ Body(new, q) = Body(img, q)
                             /\ q # s => (Used(new, q) <=> Used(img, q))
                             /\ Used(new, q) => Used(img, q)
  BY ZenonT(60) DEF SameBut, Used, Body
<1>3. \A i \in DOMAIN ms : /\ ms[i].destination[1] # s[1] /\ ms[i].destination # s
                           /\ i # k => ms[i].source # s
                           /\ ms[i].source \in Places(img) /\ ms[i].destination \in Places(img)
  BY ZenonT(60) DEF MappingsInv
<1>4. MappingsInv(new, ms, w)
  <2>1. \A i \in DOMAIN ms, n \in Pages :
          <<ms[i].destination[1], n>> \in Places(img) /\ <<ms[i].destination[1], n>> # s
    BY <1>3, SMTT(60) DEF Places
  <2> QED BY <1>1, <1>2, <2>1, BodiesKeepMappings, ZenonT(60)
<1>5. Used(new, ms[k].destination) /\ Body(img, ms[k].destination) = Body(img, s)
  BY <1>2, <1>3, ZenonT(60) DEF MappingsInv
<1>6. Covers(new, w)
  <2> SUFFICES ASSUME NEW b \in w PROVE \E q \in Places(img) : Used(new, q) /\ Body(new, q) = b
    BY <1>1, ZenonT(60) DEF Covers
  <2>1. PICK q \in Places(img) : Used(img, q) /\ Body(img, q) = b
    BY ZenonT(60) DEF Half, Covers
  <2>2. CASE q # s
    BY <1>2, <2>1, <2>2, ZenonT(60)
  <2>3. CASE q = s
    BY <1>2, <1>3, <1>5, <2>1, <2>3, ZenonT(60)
  <2> QED BY <2>2, <2>3, ZenonT(60)
<1>7. ASSUME NEW i \in DOMAIN ms
      PROVE  Used(new, ms[i].source) \/ Used(new, ms[i].destination)
  <2>1. CASE i = k
    BY <1>5, <2>1
  <2>2. CASE i # k
    <3>1. Used(img, ms[i].source) \/ Used(img, ms[i].destination)
      BY <1>7, ZenonT(60) DEF Half
    <3> QED BY <1>2, <1>3, <1>7, <2>2, <3>1, ZenonT(60)
  <2> QED BY <2>1, <2>2, ZenonT(60)
<1>8. ASSUME NEW q \in Places(new), NEW r \in Places(new), Used(new, q), Used(new, r),
             Body(new, q) = Body(new, r)
      PROVE  \/ q = r
             \/ \E i \in DOMAIN ms : \/ q = ms[i].source /\ r = ms[i].destination
                                     \/ r = ms[i].source /\ q = ms[i].destination
  <2>1. /\ q \in Places(img) /\ r \in Places(img) /\ Body(img, q) = Body(img, r)
        /\ Used(img, q) /\ Used(img, r)
    BY <1>1, <1>2, <1>8, ZenonT(60)
  <2> QED BY <2>1, ZenonT(60) DEF Half
<1>9. Half(new, ms, w)
  BY <1>6, <1>7, <1>8, ZenonT(60) DEF Half
<1> QED BY <1>4, <1>9, ZenonT(60)

\* Once all originals are hidden there is one page for each that was written.
LEMMA HiddenExact ==
  ASSUME NEW w, NEW img, NEW ms, Half(img, ms, w), \A i \in DOMAIN ms : ~Used(img, ms[i].source)
  PROVE  Exact(img, w)
BY ZenonT(60) DEF Half, Exact

\* A file with a copy in it has a used page that is not on its free list, so that it
\* does not look empty even to a process that read the free lists before the copy
\* was shown.
LEMMA NoCopyDeleted ==
  ASSUME NEW w, NEW img, NEW ms, NEW free, MappingsInv(img, ms, w), FreeShowing(img, free, ms)
  PROVE  FreeDelete(img, free)
<1> SUFFICES ASSUME NEW f \in DOMAIN img, free[f] = Pages, NEW n \in Pages, Used(img, <<f, n>>)
             PROVE  FALSE
  BY ZenonT(60) DEF FreeDelete
<1>1. \A m \in Pages : <<f, m>> \in Places(img) /\ IsFree(free, <<f, m>>)
  BY ZenonT(60) DEF Places, IsFree
<1>2. \A m \in Pages : Used(img, <<f, m>>) => IsDestination(ms, <<f, m>>)
  BY <1>1 DEF FreeShowing
<1>3. PICK i \in DOMAIN ms : ms[i].destination = <<f, n>>
  BY <1>2, ZenonT(60) DEF IsDestination
<1>4. Keeps(img, ms, f)
  BY <1>3 DEF MappingsInv
<1> QED BY <1>2, <1>4, ZenonT(60) DEF Keeps

=============================================================================

----------------------------- MODULE FileProofs -----------------------------
(***************************************************************************)
(* What the operations of the two files of a column keep: of RM_FileHandle *)
(* on a file of N slots to a page, and of IX_IndexHandle when it opens,    *)
(* inserts and reads.  The modules proved about have these files as parts  *)
(* of their states.                                                        *)
(*                                                                         *)
(* FileSound(N, f) says of a record file that its counts agree with the    *)
(* bitmaps, and that headers and links stay in the file.                   *)
(*                                                                         *)
(* An index file is a tree when its nodes have ghosts: each level i        *)
(* written as one sequence F[i] of entries, each page with its level, its  *)
(* place among the pages of the level and the offset of its entries in F   *)
(* (Tree).  An entry of an inner node then stands for the node at its      *)
(* place one level below, a split is a cut of F, an insert one place more, *)
(* and no argument about what a tree is follows a walk: walks are read off *)
(* the ghosts (LevelIs, RightIs).  While InsertEntry splits, the file is   *)
(* no tree, but there is one on its pages in which the node next on the    *)
(* way up already has the entry it still waits for (Pending, Lacking);     *)
(* each turn of the loop hands that entry in, or one up for the level      *)
(* above (Loop).  Sparse makes the largest key of a node tell it from the  *)
(* other children of its parent: the code finds its place there by it.     *)
(***************************************************************************)
EXTENDS RecordFile, IndexTree, FiniteSetTheorems, TLAPS

\* Every set of natural numbers that is not empty has a least member.
LEMMA LeastMember ==
  ASSUME NEW T \in SUBSET Nat, T # {}
  PROVE  \E i \in T : \A j \in T : i <= j
  <1> DEFINE R == OpToRel(<, Nat)
  <1>1. IsWellFoundedOn(R, Nat)
    BY NatLessThanWellFounded, Zenon
  <1>2. \A x, y \in Nat : y < x => <<y, x>> \in R
    BY Zenon DEF OpToRel
  <1> HIDE DEF R
  <1>3. T \subseteq Nat
    OBVIOUS
  <1>4. \E x \in T : \A y \in T : ~(<<y, x>> \in R)
    BY <1>1, <1>3, WFMin, Zenon
  <1>5. PICK x \in T : \A y \in T : ~(<<y, x>> \in R)
    BY <1>4
  <1>6. ASSUME NEW j \in T
        PROVE  x <= j
    <2>1. ~(j < x)
      BY <1>2, <1>3, <1>5, Zenon
    <2> QED
      BY <1>3, <2>1
  <1> QED
    BY <1>6

Page(N) ==
  [nextFree : Int, numFreeSlots : 0 .. N, rec : [0 .. N - 1 -> Vals \cup {Free}]]
Header == [firstFree : Int, numPages : Nat]
File(N) ==
  [hdr : Header, bHdrChanged : BOOLEAN, diskHdr : Header, slots : {N}, pages : Seq(Page(N))]

\* A page of a file of n pages.
PageSound(N, pg, n) ==
  /\ pg \in Page(N)
  /\ pg.numFreeSlots = Cardinality(FreeSlots(pg))
  /\ pg.nextFree \in {RM_PAGE_LIST_END, RM_PAGE_FULLY_USED} \cup 1 .. n
  /\ pg.numFreeSlots > 0 => pg.nextFree # RM_PAGE_FULLY_USED

HeaderSound(h, n) ==
  /\ h \in Header
  /\ h.firstFree \in {RM_PAGE_LIST_END} \cup 1 .. n
  /\ h.numPages \in 1 .. n + 1

FileSound(N, f) ==
  /\ f \in File(N)
  /\ \A p \in 1 .. Len(f.pages) : PageSound(N, f.pages[p], Len(f.pages))
  /\ HeaderSound(f.hdr, Len(f.pages)) /\ HeaderSound(f.diskHdr, Len(f.pages))
  /\ f.hdr.numPages = Len(f.pages) + 1
  /\ ~f.bHdrChanged => f.diskHdr.numPages = Len(f.pages) + 1

\* What a call makes of a file, and of the records of a page.
Replaced(f, p, new, h) == [f EXCEPT !.pages = [f.pages EXCEPT ![p] = new], !.hdr = h]
Stored(pg, s, v) == [pg.rec EXCEPT ![s] = v]
FreeIn(r) == {t \in DOMAIN r : r[t] = Free}

\* Where a caller's rid may point.
RidSpace == Int \X Int

----------------------------------------------------------------------------
\* The free slots of a page are a finite set, all of them in an empty page.
LEMMA FreeSlotsFinite ==
  ASSUME NEW N \in Nat \ {0}, NEW pg \in Page(N)
  PROVE  /\ FreeSlots(pg) \subseteq 0 .. N - 1
         /\ IsFiniteSet(FreeSlots(pg))
         /\ Cardinality(FreeSlots(pg)) \in Nat
<1>1. FreeSlots(pg) \subseteq 0 .. N - 1
  BY DEF FreeSlots, Page
<1>2. IsFiniteSet(0 .. N - 1)
  BY FS_Interval
<1> QED
  BY <1>1, <1>2, FS_Subset, FS_CardinalityType

\* A new page is empty: every slot is free and counted.
LEMMA EmptyPageSound ==
  ASSUME NEW N \in Nat \ {0}, NEW n \in Nat, NEW next \in {RM_PAGE_LIST_END} \cup 1 .. n
  PROVE  /\ PageSound(N, EmptyPage(N, next), n)
         /\ EmptyPage(N, next).numFreeSlots > 0
<1> DEFINE pg == EmptyPage(N, next)
<1>1. pg \in Page(N) /\ pg.numFreeSlots = N /\ pg.nextFree = next
  BY DEF EmptyPage, Page, RM_PAGE_LIST_END
<1>2. FreeSlots(pg) = 0 .. N - 1
  BY DEF EmptyPage, FreeSlots
<1>3. Cardinality(0 .. N - 1) = N
  BY FS_Interval
<1> QED
  BY <1>1, <1>2, <1>3
     DEF PageSound, RM_PAGE_LIST_END, RM_PAGE_FULLY_USED

\* A page stays sound when the file grows.
LEMMA PageSoundLonger ==
  ASSUME NEW N \in Nat \ {0}, NEW n \in Nat, NEW pg, PageSound(N, pg, n)
  PROVE  PageSound(N, pg, n + 1)
  BY DEF PageSound

\* Storing in a free slot takes one from the count.
LEMMA FilledSlots ==
  ASSUME NEW N \in Nat \ {0}, NEW pg \in Page(N), NEW s \in FreeSlots(pg), NEW v \in Vals,
         pg.numFreeSlots = Cardinality(FreeSlots(pg)),
         NEW r, r = Stored(pg, s, v)
  PROVE  /\ r \in [0 .. N - 1 -> Vals \cup {Free}]
         /\ Cardinality(FreeIn(r)) = pg.numFreeSlots - 1
<1>1. r \in [0 .. N - 1 -> Vals \cup {Free}]
  BY DEF Page, Stored
<1>2. FreeIn(r) = FreeSlots(pg) \ {s}
  BY RecordAssumption DEF FreeSlots, Page, Stored, FreeIn
<1>3. Cardinality(FreeSlots(pg) \ {s}) = pg.numFreeSlots - 1
  <2>1. IsFiniteSet(FreeSlots(pg))
    BY FreeSlotsFinite
  <2> QED
    BY <2>1, FS_RemoveElement
<1> QED
  BY <1>1, <1>2, <1>3

\* Freeing a slot in use adds one to the count, which stays within the page.
LEMMA FreedSlots ==
  ASSUME NEW N \in Nat \ {0}, NEW pg \in Page(N), NEW s \in 0 .. N - 1, pg.rec[s] # Free,
         pg.numFreeSlots = Cardinality(FreeSlots(pg)),
         NEW r, r = Stored(pg, s, Free)
  PROVE  /\ r \in [0 .. N - 1 -> Vals \cup {Free}]
         /\ Cardinality(FreeIn(r)) = pg.numFreeSlots + 1
         /\ pg.numFreeSlots + 1 \in 0 .. N
<1> DEFINE F == FreeIn(r)
           All == 0 .. N - 1
<1>1. r \in [0 .. N - 1 -> Vals \cup {Free}]
  BY DEF Page, Stored
<1>2. F = FreeSlots(pg) \cup {s} /\ s \notin FreeSlots(pg)
  BY DEF FreeSlots, Page, Stored, FreeIn
<1>3. Cardinality(FreeSlots(pg) \cup {s}) = pg.numFreeSlots + 1
  BY <1>2, FreeSlotsFinite, FS_AddElement
<1>4. IsFiniteSet(All) /\ Cardinality(All) = N
  <2>1. 0 \in Int /\ N - 1 \in Int /\ ~(0 > N - 1) /\ (N - 1) - 0 + 1 = N
    OBVIOUS
  <2> QED
    BY <2>1, FS_Interval
<1>5. F \in SUBSET All
  BY <1>1 DEF FreeIn
<1>6. Cardinality(F) <= N
  <2> HIDE DEF F, All
  <2> QED
    BY <1>4, <1>5, FS_Subset
<1>7. Cardinality(F) = pg.numFreeSlots + 1
  BY <1>2, <1>3
<1>8. pg.numFreeSlots + 1 \in 0 .. N
  <2> HIDE DEF F
  <2> QED
    BY <1>6, <1>7 DEF Page
<1> QED
  BY <1>1, <1>7, <1>8

\* Free slots are counted, so a page that counts one has one.
LEMMA RoomIsReal ==
  ASSUME NEW N \in Nat \ {0}, NEW n, NEW pg, PageSound(N, pg, n), pg.numFreeSlots > 0
  PROVE  /\ FreeSlots(pg) # {}
         /\ First(FreeSlots(pg)) \in FreeSlots(pg)
<1>1. FreeSlots(pg) # {}
  <2>1. pg \in Page(N) /\ pg.numFreeSlots = Cardinality(FreeSlots(pg))
    BY DEF PageSound
  <2>2. Cardinality(FreeSlots(pg)) # 0
    BY <2>1 DEF Page
  <2> QED
    BY <2>2, FS_EmptySet
<1>2. FreeSlots(pg) \subseteq Nat
  BY FreeSlotsFinite DEF PageSound
<1>3. PICK s \in FreeSlots(pg) : \A t \in FreeSlots(pg) : ~ (<<t, s>> \in OpToRel(<, Nat))
  <2> DEFINE R == OpToRel(<, Nat)
  <2>1. IsWellFoundedOn(R, Nat)
    BY NatLessThanWellFounded
  <2> HIDE DEF R
  <2> QED
    BY <1>1, <1>2, <2>1, WFMin DEF R
<1>4. \A t \in FreeSlots(pg) : s <= t
  <2>1. OpToRel(<, Nat) = {ss \in Nat \X Nat : ss[1] < ss[2]}
    BY DEF OpToRel
  <2> TAKE t \in FreeSlots(pg)
  <2>2. <<t, s>> \notin {ss \in Nat \X Nat : ss[1] < ss[2]}
    BY <1>3, <2>1, Zenon
  <2>3. s \in Nat /\ t \in Nat
    BY <1>2
  <2>4. ~ (t < s)
    BY <2>2, <2>3
  <2> QED
    BY <2>3, <2>4
<1> QED
  BY <1>1, <1>4 DEF First

----------------------------------------------------------------------------
\* A file as it is created.
LEMMA NewFileSound ==
  ASSUME NEW N \in Nat \ {0}
  PROVE  FileSound(N, NewFile(N)) /\ Len(NewFile(N).pages) = 0
<1> DEFINE f == NewFile(N)
<1>1. f.pages = << >> /\ Len(f.pages) = 0 /\ f.pages \in Seq(Page(N))
  BY DEF NewFile
<1>2. f.hdr = f.diskHdr /\ f.hdr = [firstFree |-> RM_PAGE_LIST_END, numPages |-> 1]
  BY DEF NewFile
<1>3. f \in File(N)
  BY <1>1 DEF NewFile, File, Header, RM_PAGE_LIST_END
<1> QED
  BY <1>1, <1>2, <1>3 DEF FileSound, HeaderSound, Header, RM_PAGE_LIST_END

\* A closed file holds what the next OpenRMFile reads, be it the header of the
\* handle or an older one.
LEMMA CloseSound ==
  ASSUME NEW N \in Nat \ {0}, NEW f, FileSound(N, f)
  PROVE  /\ FileSound(N, CloseRM(f))
         /\ CloseRM(f).pages = f.pages
         /\ CloseRM(f).hdr = CloseRM(f).diskHdr
<1> DEFINE g == CloseRM(f)
           h == IF f.bHdrChanged THEN f.hdr ELSE f.diskHdr
<1>1. f \in File(N)
  BY DEF FileSound
<1>2. HeaderSound(h, Len(f.pages)) /\ h.numPages = Len(f.pages) + 1 /\ h \in Header
  BY DEF FileSound, HeaderSound
<1>3. g = [f EXCEPT !.hdr = h, !.diskHdr = h, !.bHdrChanged = FALSE]
  BY DEF CloseRM
<1> HIDE DEF h
<1>4. g \in File(N) /\ g.hdr = h /\ g.diskHdr = h /\ g.pages = f.pages
  BY <1>1, <1>2, <1>3 DEF File
<1> HIDE DEF g
<1>5. FileSound(N, g)
  BY <1>2, <1>4 DEF FileSound
<1> QED
  BY <1>4, <1>5 DEF g

\* A page of a sound file.
LEMMA PagesTyped ==
  ASSUME NEW N \in Nat \ {0}, NEW f, FileSound(N, f)
  PROVE  /\ Len(f.pages) \in Nat
         /\ DOMAIN f.pages = 1 .. Len(f.pages)
         /\ f.pages \in Seq(Page(N))
         /\ f.slots = N
         /\ \A p \in 1 .. Len(f.pages) : f.pages[p] \in Page(N)
<1>1. f \in File(N)
  BY DEF FileSound
<1>2. f.pages \in Seq(Page(N)) /\ f.slots = N
  BY <1>1 DEF File
<1> QED
  BY <1>2

\* Replacing one page of a sound file by a sound page, under a sound header of
\* the same length.
LEMMA ReplacedPage ==
  ASSUME NEW N \in Nat \ {0}, NEW f, FileSound(N, f),
         NEW p \in 1 .. Len(f.pages), NEW new, NEW h,
         PageSound(N, new, Len(f.pages)),
         HeaderSound(h, Len(f.pages)), h.numPages = f.hdr.numPages,
         NEW g, g = Replaced(f, p, new, h)
  PROVE  FileSound(N, g) /\ Len(g.pages) = Len(f.pages) /\ g.diskHdr = f.diskHdr
<1> DEFINE q == [f.pages EXCEPT ![p] = new]
<1>1. f \in File(N) /\ h \in Header /\ new \in Page(N)
  BY DEF FileSound, HeaderSound, PageSound
<1>2. /\ q \in Seq(Page(N))
      /\ Len(q) = Len(f.pages)
      /\ \A i \in 1 .. Len(q) : q[i] = IF i = p THEN new ELSE f.pages[i]
  BY <1>1, PagesTyped
<1> HIDE DEF q
<1>3. /\ g \in File(N) /\ g.pages = q /\ g.hdr = h
      /\ g.diskHdr = f.diskHdr /\ g.bHdrChanged = f.bHdrChanged
  <2>1. g = [f EXCEPT !.pages = q, !.hdr = h]
    BY DEF q, Replaced
  <2> QED
    BY <1>1, <1>2, <2>1 DEF File
<1>4. \A i \in 1 .. Len(g.pages) : PageSound(N, g.pages[i], Len(g.pages))
  BY <1>2, <1>3 DEF FileSound
<1>5. FileSound(N, g)
  BY <1>2, <1>3, <1>4 DEF FileSound
<1> QED
  BY <1>2, <1>3, <1>5

\* A file that grows by an empty page, which becomes the head of the chain.
LEMMA AddPageSound ==
  ASSUME NEW N \in Nat \ {0}, NEW f, FileSound(N, f)
  PROVE  /\ FileSound(N, AddPage(f))
         /\ Len(AddPage(f).pages) = Len(f.pages) + 1
         /\ AddPage(f).diskHdr = f.diskHdr
         /\ AddPage(f).hdr.firstFree = Len(f.pages) + 1
         /\ AddPage(f).pages[Len(f.pages) + 1].numFreeSlots > 0
<1> DEFINE n   == Len(f.pages)
           new == EmptyPage(f.slots, RM_PAGE_LIST_END)
           q   == Append(f.pages, new)
           h   == [firstFree |-> n + 1, numPages |-> f.hdr.numPages + 1]
           g   == AddPage(f)
<1>1. n \in Nat /\ f \in File(N)
  BY PagesTyped DEF FileSound
<1>2. PageSound(N, new, n + 1) /\ new.numFreeSlots > 0 /\ new \in Page(N)
  BY <1>1, PagesTyped, EmptyPageSound DEF PageSound
<1>3. /\ q \in Seq(Page(N)) /\ Len(q) = n + 1
      /\ \A i \in 1 .. n : q[i] = f.pages[i]
      /\ q[n + 1] = new
  BY <1>2, PagesTyped
<1>4. h \in Header /\ h.numPages = n + 2 /\ h.firstFree = n + 1 /\ HeaderSound(h, n + 1)
  BY <1>1 DEF FileSound, HeaderSound, Header
<1>5. HeaderSound(f.diskHdr, n + 1)
  BY <1>1 DEF FileSound, HeaderSound
<1>6. g = [f EXCEPT !.pages = q, !.hdr = h, !.bHdrChanged = TRUE]
  BY DEF AddPage
<1> HIDE DEF h, q, new, g
<1>7. /\ g \in File(N) /\ g.pages = q /\ g.hdr = h
      /\ g.diskHdr = f.diskHdr /\ g.bHdrChanged = TRUE
  BY <1>1, <1>3, <1>4, <1>6 DEF File
<1>8. \A i \in 1 .. n + 1 : PageSound(N, q[i], n + 1)
  <2> TAKE i \in 1 .. n + 1
  <2>1. CASE i = n + 1
    BY <2>1, <1>2, <1>3
  <2>2. CASE i \in 1 .. n
    BY <2>2, <1>1, <1>3, PageSoundLonger DEF FileSound
  <2> QED
    BY <2>1, <2>2, <1>1
<1>9. FileSound(N, g)
  BY <1>1, <1>3, <1>4, <1>5, <1>7, <1>8 DEF FileSound
<1> QED
  BY <1>2, <1>3, <1>4, <1>7, <1>9 DEF g

\* GetNextFreePage leaves a page with room at the head of the chain, however
\* stale the header it started from.
LEMMA NextFreePage ==
  ASSUME NEW N \in Nat \ {0}, NEW f, FileSound(N, f)
  PROVE  LET g == GetNextFreePage(f)
             p == g.hdr.firstFree
         IN  /\ ~BadHead(f)
             /\ FileSound(N, g) /\ g.diskHdr = f.diskHdr
             /\ p \in 1 .. Len(g.pages)
             /\ g.pages[p].numFreeSlots > 0
<1> DEFINE g == GetNextFreePage(f)
<1>1. ~BadHead(f)
  BY PagesTyped DEF BadHead, FileSound, HeaderSound
<1>2. CASE NeedsPage(f)
  <2>1. g = AddPage(f) /\ Len(f.pages) \in Nat
    BY <1>2, PagesTyped DEF GetNextFreePage
  <2> QED
    BY <2>1, <1>1, AddPageSound
<1>3. CASE ~NeedsPage(f)
  <2>1. g = f
    BY <1>3 DEF GetNextFreePage
  <2>2. f.hdr.firstFree \in 1 .. Len(f.pages)
    BY <1>3 DEF NeedsPage, FileSound, HeaderSound
  <2>3. f.pages[f.hdr.firstFree].numFreeSlots \in Nat
    <3>1. f.pages[f.hdr.firstFree] \in Page(N)
      BY <2>2, PagesTyped
    <3> QED
      BY <3>1 DEF Page
  <2> QED
    BY <2>1, <2>2, <2>3, <1>1, <1>3 DEF NeedsPage
<1> QED
  BY <1>2, <1>3

\* An insert into a page with room.
LEMMA FillSound ==
  ASSUME NEW N \in Nat \ {0}, NEW f, FileSound(N, f),
         NEW p \in 1 .. Len(f.pages), NEW v \in Vals,
         f.pages[p].numFreeSlots > 0,
         NEW s \in FreeSlots(f.pages[p])
  PROVE  /\ FileSound(N, Fill(f, p, s, v))
         /\ Len(Fill(f, p, s, v).pages) = Len(f.pages)
         /\ Fill(f, p, s, v).diskHdr = f.diskHdr
<1> DEFINE n    == Len(f.pages)
           pg   == f.pages[p]
           left == pg.numFreeSlots - 1
           r    == Stored(pg, s, v)
           new  == [nextFree     |-> IF left = 0 THEN RM_PAGE_FULLY_USED ELSE pg.nextFree,
                    numFreeSlots |-> left,
                    rec          |-> r]
           h    == [f.hdr EXCEPT !.firstFree = IF left = 0 THEN pg.nextFree ELSE p]
<1>1. pg \in Page(N) /\ PageSound(N, pg, n) /\ n \in Nat /\ f.hdr \in Header
  BY PagesTyped DEF FileSound, File
<1>2. /\ r \in [0 .. N - 1 -> Vals \cup {Free}]
      /\ Cardinality(FreeIn(r)) = left
  <2>1. pg.numFreeSlots = Cardinality(FreeSlots(pg)) /\ s \in FreeSlots(pg)
    BY <1>1 DEF PageSound
  <2> HIDE DEF pg, new, h, n, r
  <2>2. r = Stored(pg, s, v)
    BY DEF r
  <2> QED
    BY <1>1, <2>1, <2>2, FilledSlots
<1>3. left \in 0 .. N
  BY <1>1 DEF Page
<1> HIDE DEF r
<1>4. PageSound(N, new, n)
  <2>1. new \in Page(N)
    BY <1>1, <1>2, <1>3 DEF Page, RM_PAGE_FULLY_USED
  <2>2. FreeSlots(new) = FreeIn(r)
    BY DEF FreeSlots, FreeIn
  <2>3. new.nextFree \in {RM_PAGE_LIST_END, RM_PAGE_FULLY_USED} \cup 1 .. n
    BY <1>1 DEF PageSound
  <2>4. new.numFreeSlots > 0 => new.nextFree # RM_PAGE_FULLY_USED
    BY <1>1, <1>3 DEF PageSound
  <2> QED
    BY <2>1, <2>2, <2>3, <2>4, <1>2 DEF PageSound
<1>5. HeaderSound(h, n) /\ h.numPages = f.hdr.numPages
  <2>1. HeaderSound(f.hdr, n)
    BY DEF FileSound
  <2>2. pg.nextFree \in {RM_PAGE_LIST_END} \cup 1 .. n
    BY <1>1 DEF PageSound
  <2> QED
    BY <1>1, <2>1, <2>2 DEF HeaderSound, Header, RM_PAGE_LIST_END
<1>6. Fill(f, p, s, v) = Replaced(f, p, new, h)
  BY DEF Fill, Replaced, Stored, r
<1> DEFINE g == Fill(f, p, s, v)
<1>7. FileSound(N, g) /\ Len(g.pages) = Len(f.pages) /\ g.diskHdr = f.diskHdr
  <2> HIDE DEF new, h, g, left, pg
  <2>1. g = Replaced(f, p, new, h)
    BY <1>6 DEF g
  <2>2. /\ PageSound(N, new, Len(f.pages)) /\ HeaderSound(h, Len(f.pages))
        /\ h.numPages = f.hdr.numPages
    BY <1>4, <1>5
  <2> HIDE DEF n
  <2>3. /\ FileSound(N, Replaced(f, p, new, h))
        /\ Len(Replaced(f, p, new, h).pages) = Len(f.pages)
        /\ Replaced(f, p, new, h).diskHdr = f.diskHdr
    BY <2>2, ReplacedPage
  <2> QED
    BY <2>1, <2>3
<1> QED
  BY <1>7

\* A delete of a record.
LEMMA ClearSound ==
  ASSUME NEW N \in Nat \ {0}, NEW f, FileSound(N, f),
         NEW p \in 1 .. Len(f.pages),
         NEW s \in 0 .. N - 1, f.pages[p].rec[s] # Free
  PROVE  /\ FileSound(N, Clear(f, p, s))
         /\ Len(Clear(f, p, s).pages) = Len(f.pages)
         /\ Clear(f, p, s).diskHdr = f.diskHdr
<1> DEFINE n    == Len(f.pages)
           pg   == f.pages[p]
           full == pg.numFreeSlots = 0
           r    == Stored(pg, s, Free)
           new  == [nextFree     |-> IF full THEN f.hdr.firstFree ELSE pg.nextFree,
                    numFreeSlots |-> pg.numFreeSlots + 1,
                    rec          |-> r]
           h    == [f.hdr EXCEPT !.firstFree = IF full THEN p ELSE f.hdr.firstFree]
<1>1. /\ pg \in Page(N) /\ PageSound(N, pg, n) /\ n \in Nat
      /\ f.hdr \in Header /\ HeaderSound(f.hdr, n)
  BY PagesTyped DEF FileSound, File
<1>2. /\ r \in [0 .. N - 1 -> Vals \cup {Free}]
      /\ Cardinality(FreeIn(r)) = pg.numFreeSlots + 1
      /\ pg.numFreeSlots + 1 \in 0 .. N
  BY <1>1, FreedSlots DEF PageSound
<1> HIDE DEF r
<1>3. PageSound(N, new, n)
  <2>1. new \in Page(N)
    BY <1>1, <1>2 DEF Page, Header
  <2>2. FreeSlots(new) = FreeIn(r)
    BY DEF FreeSlots, FreeIn
  <2>3. new.nextFree \in {RM_PAGE_LIST_END} \cup 1 .. n
    BY <1>1 DEF PageSound, HeaderSound, Page
  <2>4. new.nextFree # RM_PAGE_FULLY_USED
    BY <2>3, <1>1 DEF RM_PAGE_LIST_END, RM_PAGE_FULLY_USED
  <2> QED
    BY <2>1, <2>2, <2>3, <2>4, <1>2 DEF PageSound
<1>4. HeaderSound(h, n) /\ h.numPages = f.hdr.numPages
  BY <1>1 DEF HeaderSound, Header
<1>5. Clear(f, p, s) = Replaced(f, p, new, h)
  BY DEF Clear, Replaced, Stored, r
<1> DEFINE g == Clear(f, p, s)
<1>6. FileSound(N, g) /\ Len(g.pages) = Len(f.pages) /\ g.diskHdr = f.diskHdr
  <2> HIDE DEF new, h, g
  <2>1. g = Replaced(f, p, new, h)
    BY <1>5 DEF g
  <2> QED
    BY <1>3, <1>4, <2>1, ReplacedPage
<1> QED
  BY <1>6

\* An update of a record leaves what is free as it was.
LEMMA UpdateSound ==
  ASSUME NEW N \in Nat \ {0}, NEW f, FileSound(N, f),
         NEW rid, HasRec(f, rid), NEW v \in Vals
  PROVE  /\ FileSound(N, UpdateRec(f, rid, v).file)
         /\ Len(UpdateRec(f, rid, v).file.pages) = Len(f.pages)
         /\ UpdateRec(f, rid, v).file.diskHdr = f.diskHdr
<1> DEFINE n   == Len(f.pages)
           p   == rid[1]
           s   == rid[2]
           pg  == f.pages[p]
           new == [pg EXCEPT !.rec = [pg.rec EXCEPT ![s] = v]]
           g   == UpdateRec(f, rid, v).file
<1>1. p \in 1 .. n /\ s \in 0 .. N - 1 /\ pg.rec[s] # Free
  BY PagesTyped DEF HasRec, IsValidRID, SlotsOf, Rec, FileSound
<1>2. pg \in Page(N) /\ PageSound(N, pg, n)
  BY <1>1, PagesTyped DEF FileSound
<1>3. /\ new \in Page(N) /\ FreeSlots(new) = FreeSlots(pg)
      /\ new.numFreeSlots = pg.numFreeSlots /\ new.nextFree = pg.nextFree
  <2> HIDE DEF pg
  <2> QED
    BY <1>1, <1>2, RecordAssumption DEF Page, FreeSlots
<1>4. PageSound(N, new, n)
  BY <1>2, <1>3 DEF PageSound
<1>5. g = [f EXCEPT !.pages = [f.pages EXCEPT ![p] = new]]
  BY DEF UpdateRec, Return, HasRec
<1>6. g = Replaced(f, p, new, f.hdr)
  BY <1>5 DEF FileSound, File, Replaced
<1>7. HeaderSound(f.hdr, n)
  BY DEF FileSound
<1>8. FileSound(N, g) /\ Len(g.pages) = Len(f.pages) /\ g.diskHdr = f.diskHdr
  <2> HIDE DEF new, g, p
  <2> QED
    BY <1>1, <1>4, <1>6, <1>7, ReplacedPage
<1> QED
  BY <1>8

\* An insert succeeds on any sound file.
LEMMA InsertSound ==
  ASSUME NEW N \in Nat \ {0}, NEW f, FileSound(N, f),
         NEW v \in Vals
  PROVE  LET g == GetNextFreePage(f)
             p == g.hdr.firstFree
             s == First(FreeSlots(g.pages[p]))
         IN  /\ InsertRec(f, v) = Return(OK, Fill(g, p, s, v))
             /\ p \in 1 .. Len(g.pages) /\ s \in FreeSlots(g.pages[p])
             /\ FileSound(N, InsertRec(f, v).file)
             /\ Len(InsertRec(f, v).file.pages) = Len(g.pages)
<1> DEFINE g == GetNextFreePage(f)
           p == g.hdr.firstFree
           S == FreeSlots(g.pages[p])
           s == First(S)
<1>1. /\ ~BadHead(f) /\ FileSound(N, g) /\ p \in 1 .. Len(g.pages)
      /\ g.pages[p].numFreeSlots > 0
  BY NextFreePage
<1>2. S # {} /\ s \in S
  <2>1. PageSound(N, g.pages[p], Len(g.pages))
    BY <1>1 DEF FileSound
  <2> QED
    BY <1>1, <2>1, RoomIsReal
<1>3. InsertRec(f, v) = Return(OK, Fill(g, p, s, v))
  BY <1>1, <1>2 DEF InsertRec
<1>4. FileSound(N, Fill(g, p, s, v)) /\ Len(Fill(g, p, s, v).pages) = Len(g.pages)
  <2> HIDE DEF s, p, g
  <2> QED
    BY <1>1, <1>2, FillSound
<1>5. InsertRec(f, v).file = Fill(g, p, s, v)
  BY <1>3 DEF Return
<1> QED
  BY <1>1, <1>2, <1>3, <1>4, <1>5

\* A delete changes nothing or clears a record.
LEMMA DeleteSound ==
  ASSUME NEW N \in Nat \ {0}, NEW f, FileSound(N, f),
         NEW rid
  PROVE  /\ FileSound(N, DeleteRec(f, rid).file)
         /\ Len(DeleteRec(f, rid).file.pages) = Len(f.pages)
<1> DEFINE g == DeleteRec(f, rid).file
<1>1. CASE ~HasRec(f, rid)
  BY <1>1 DEF HasRec, DeleteRec, Return
<1>2. CASE HasRec(f, rid)
  <2>1. g = Clear(f, rid[1], rid[2])
    BY <1>2 DEF HasRec, DeleteRec, Return
  <2>2. /\ rid[1] \in 1 .. Len(f.pages) /\ rid[2] \in 0 .. N - 1
        /\ f.pages[rid[1]].rec[rid[2]] # Free
    BY <1>2, PagesTyped DEF HasRec, IsValidRID, SlotsOf, Rec, FileSound
  <2> QED
    BY <2>1, <2>2, ClearSound
<1> QED
  BY <1>1, <1>2

----------------------------------------------------------------------------
\* A new page holds no record.
LEMMA GrownFile ==
  ASSUME NEW N \in Nat \ {0}, NEW f, FileSound(N, f),
         NEW g, g = GetNextFreePage(f)
  PROVE  /\ Used(g) = Used(f)
         /\ \A r \in Used(f) : Rec(g, r) = Rec(f, r)
<1>1. CASE ~NeedsPage(f)
  BY <1>1 DEF GetNextFreePage
<1>2. CASE NeedsPage(f)
  <2> DEFINE n   == Len(f.pages)
             new == EmptyPage(f.slots, RM_PAGE_LIST_END)
  <2>1. f \in File(N) /\ f.pages \in Seq(Page(N)) /\ n \in Nat /\ f.slots = N
    BY PagesTyped DEF FileSound
  <2>2. new \in Page(N) /\ \A s \in 0 .. N - 1 : new.rec[s] = Free
    BY <2>1, EmptyPageSound DEF PageSound, EmptyPage
  <2>3. g.pages = Append(f.pages, new) /\ g.slots = f.slots
    BY <1>2, <2>1 DEF GetNextFreePage, AddPage, File
  <2> HIDE DEF new
  <2>4. /\ Len(g.pages) = n + 1 /\ DOMAIN g.pages = 1 .. n + 1
        /\ \A i \in 1 .. n : g.pages[i] = f.pages[i]
        /\ g.pages[n + 1] = new
    BY <2>1, <2>2, <2>3
  <2>5. DOMAIN f.pages = 1 .. n
    BY PagesTyped
  <2>6. ASSUME NEW p \in 1 .. n + 1, NEW s \in 0 .. N - 1
        PROVE  g.pages[p].rec[s] # Free <=> p \in 1 .. n /\ f.pages[p].rec[s] # Free
    <3>1. CASE p = n + 1
      BY <2>1, <2>2, <2>4, <3>1
    <3>2. CASE p \in 1 .. n
      BY <2>4, <3>2
    <3> QED
      BY <2>1, <3>1, <3>2
  <2>7. Used(g) = Used(f)
    BY <2>1, <2>3, <2>4, <2>5, <2>6 DEF Used, Rec, SlotsOf
  <2>8. \A r \in Used(f) : Rec(g, r) = Rec(f, r)
    BY <2>4, <2>5 DEF Used, Rec
  <2> QED
    BY <2>7, <2>8
<1> QED
  BY <1>1, <1>2

\* File g is f but for one page, and that one has v in slot s.
SlotSet(f, g, p, s, v) ==
  /\ g.slots = f.slots
  /\ \E pg : pg.rec = Stored(f.pages[p], s, v) /\ g.pages = [f.pages EXCEPT ![p] = pg]

\* Changing what one slot of one page holds moves no record.
LEMMA ChangedSlot ==
  ASSUME NEW N \in Nat \ {0}, NEW f, FileSound(N, f),
         NEW p \in 1 .. Len(f.pages),
         NEW s \in 0 .. N - 1, NEW v,
         NEW g, SlotSet(f, g, p, s, v)
  PROVE  /\ v = Free => Used(g) = Used(f) \ {<<p, s>>}
         /\ v # Free => Used(g) = Used(f) \cup {<<p, s>>}
         /\ Rec(g, <<p, s>>) = v
         /\ \A r \in Used(f) : r # <<p, s>> => Rec(g, r) = Rec(f, r)
<1> DEFINE n  == Len(f.pages)
           pg == f.pages[p]
           All == (1 .. n) \X (0 .. N - 1)
<1>1. DOMAIN f.pages = 1 .. n /\ f.slots = N /\ pg \in Page(N)
  BY PagesTyped
<1> PICK new : new.rec = Stored(pg, s, v) /\ g.pages = [f.pages EXCEPT ![p] = new]
  BY DEF SlotSet
<1>2. new.rec[s] = v /\ \A t \in 0 .. N - 1 : t # s => new.rec[t] = pg.rec[t]
  BY <1>1 DEF Page, Stored
<1>3. DOMAIN g.pages = 1 .. n /\ g.pages[p] = new /\ \A i \in 1 .. n : i # p => g.pages[i] = f.pages[i]
  BY <1>1
<1>4. Rec(g, <<p, s>>) = v
  BY <1>2, <1>3 DEF Rec
<1>5. ASSUME NEW q \in 1 .. n, NEW t \in 0 .. N - 1, <<q, t>> # <<p, s>>
      PROVE  g.pages[q].rec[t] = f.pages[q].rec[t]
  BY <1>2, <1>3, <1>5
<1>6. \A r \in All : r # <<p, s>> => Rec(g, r) = Rec(f, r)
  BY <1>5 DEF Rec
<1>7. /\ Used(g) = {r \in All : Rec(g, r) # Free}
      /\ Used(f) = {r \in All : Rec(f, r) # Free}
  BY <1>1, <1>3 DEF Used, SlotsOf, SlotSet
<1>8. <<p, s>> \in All
  OBVIOUS
<1> HIDE DEF All
<1> QED
  BY <1>4, <1>6, <1>7, <1>8

\* InsertRec stores in a slot that was free.
LEMMA FilledFile ==
  ASSUME NEW N \in Nat \ {0}, NEW f, FileSound(N, f),
         NEW p \in 1 .. Len(f.pages), NEW v \in Vals,
         NEW s \in FreeSlots(f.pages[p]),
         NEW g, g = Fill(f, p, s, v)
  PROVE  /\ <<p, s>> \notin Used(f)
         /\ Used(g) = Used(f) \cup {<<p, s>>}
         /\ Rec(g, <<p, s>>) = v
         /\ \A r \in Used(f) : Rec(g, r) = Rec(f, r)
<1> DEFINE pg  == f.pages[p]
           new == [nextFree     |-> IF pg.numFreeSlots - 1 = 0
                                    THEN RM_PAGE_FULLY_USED ELSE pg.nextFree,
                   numFreeSlots |-> pg.numFreeSlots - 1,
                   rec          |-> [pg.rec EXCEPT ![s] = v]]
<1>1. f \in File(N) /\ pg \in Page(N)
  BY PagesTyped DEF FileSound
<1>2. s \in 0 .. N - 1 /\ pg.rec[s] = Free
  BY <1>1 DEF FreeSlots, Page
<1>3. new.rec = Stored(pg, s, v)
  BY DEF Stored
<1>4. g.pages = [f.pages EXCEPT ![p] = new] /\ g.slots = f.slots
  BY <1>1 DEF Fill, File
<1>5. <<p, s>> \notin Used(f)
  BY <1>2 DEF Used, Rec
<1>6. SlotSet(f, g, p, s, v)
  <2> HIDE DEF new
  <2> QED
    BY <1>3, <1>4 DEF SlotSet
<1>7. v # Free
  BY RecordAssumption
<1> QED
  BY <1>2, <1>5, <1>6, <1>7, ChangedSlot

\* The records of a file are where its pages have them, and a call that asks
\* for one finds it.
LEMMA RidsInUse ==
  ASSUME NEW N \in Nat \ {0}, NEW f, FileSound(N, f)
  PROVE  /\ Used(f) = {rid \in (1 .. Len(f.pages)) \X (0 .. N - 1) : Rec(f, rid) # Free}
         /\ \A rid \in RidSpace : HasRec(f, rid) <=> rid \in Used(f)
<1>1. DOMAIN f.pages = 1 .. Len(f.pages) /\ SlotsOf(f) = 0 .. N - 1
  BY PagesTyped DEF SlotsOf
<1>2. 1 .. f.hdr.numPages - 1 = 1 .. Len(f.pages)
  <2>1. f.hdr.numPages - 1 = Len(f.pages)
    BY PagesTyped DEF FileSound
  <2> QED
    BY <2>1
<1>3. Used(f) = {rid \in (1 .. Len(f.pages)) \X (0 .. N - 1) : Rec(f, rid) # Free}
  BY <1>1 DEF Used
<1>4. ASSUME NEW rid \in RidSpace
      PROVE  HasRec(f, rid) <=> rid \in Used(f)
  BY <1>1, <1>2, <1>3 DEF HasRec, IsValidRID, RidSpace
<1> QED
  BY <1>3, <1>4

\* DeleteRec takes away its record, if there is one, and no other.
LEMMA ClearedFile ==
  ASSUME NEW N \in Nat \ {0}, NEW f, FileSound(N, f),
         NEW rid \in RidSpace, NEW g, g = DeleteRec(f, rid).file
  PROVE  IF HasRec(f, rid)
         THEN /\ rid \in Used(f)
              /\ Used(g) = Used(f) \ {rid}
              /\ \A r \in Used(g) : Rec(g, r) = Rec(f, r)
         ELSE g = f
<1>1. CASE ~HasRec(f, rid)
  BY <1>1 DEF HasRec, DeleteRec, Return
<1>2. CASE HasRec(f, rid)
  <2> DEFINE p   == rid[1]
             s   == rid[2]
             pg  == f.pages[p]
             new == [nextFree     |-> IF pg.numFreeSlots = 0
                                      THEN f.hdr.firstFree ELSE pg.nextFree,
                     numFreeSlots |-> pg.numFreeSlots + 1,
                     rec          |-> [pg.rec EXCEPT ![s] = Free]]
  <2>1. g = Clear(f, p, s)
    BY <1>2 DEF HasRec, DeleteRec, Return
  <2>3. rid \in Used(f)
    BY <1>2, RidsInUse
  <2>2. p \in 1 .. Len(f.pages) /\ s \in 0 .. N - 1 /\ rid = <<p, s>>
    BY <2>3, RidsInUse
  <2>4. new.rec = Stored(pg, s, Free)
    BY DEF Stored
  <2>5. g.pages = [f.pages EXCEPT ![p] = new] /\ g.slots = f.slots
    BY <2>1 DEF Clear, FileSound, File
  <2>6. SlotSet(f, g, p, s, Free)
    <3> HIDE DEF new, p, s
    <3> QED
      BY <2>4, <2>5 DEF SlotSet
  <2> HIDE DEF p, s
  <2> QED
    BY <1>2, <2>2, <2>3, <2>6, ChangedSlot
<1> QED
  BY <1>1, <1>2

\* UpdateRec changes its record and no other.
LEMMA UpdatedFile ==
  ASSUME NEW N \in Nat \ {0}, NEW f, FileSound(N, f),
         NEW rid \in RidSpace, HasRec(f, rid), NEW v \in Vals,
         NEW g, g = UpdateRec(f, rid, v).file
  PROVE  /\ rid \in Used(f)
         /\ Used(g) = Used(f)
         /\ Rec(g, rid) = v
         /\ \A r \in Used(f) : r # rid => Rec(g, r) = Rec(f, r)
<1> DEFINE p   == rid[1]
           s   == rid[2]
           pg  == f.pages[p]
           new == [pg EXCEPT !.rec = [pg.rec EXCEPT ![s] = v]]
<1>2. rid \in Used(f)
  BY RidsInUse
<1>1. p \in 1 .. Len(f.pages) /\ s \in 0 .. N - 1 /\ rid = <<p, s>>
  BY <1>2, RidsInUse
<1>3. new.rec = Stored(pg, s, v)
  BY <1>1, PagesTyped DEF Stored, Page
<1>4. g.pages = [f.pages EXCEPT ![p] = new] /\ g.slots = f.slots
  <2>1. f \in File(N)
    BY DEF FileSound
  <2>2. g = [f EXCEPT !.pages = [f.pages EXCEPT ![p] = new]]
    BY DEF UpdateRec, Return, HasRec
  <2> HIDE DEF new
  <2> QED
    BY <2>1, <2>2 DEF File
<1>5. SlotSet(f, g, p, s, v)
  <2> HIDE DEF new, p, s
  <2> QED
    BY <1>3, <1>4 DEF SlotSet
<1>6. v # Free
  BY RecordAssumption
<1> HIDE DEF new, p, s
<1>7. /\ Used(g) = Used(f) \cup {<<p, s>>} /\ Rec(g, <<p, s>>) = v
      /\ \A r \in Used(f) : r # <<p, s>> => Rec(g, r) = Rec(f, r)
  BY <1>1, <1>5, <1>6, ChangedSlot
<1> QED
  BY <1>1, <1>2, <1>7

\* The records of a file, as HeapFile sees them.
Records(f) == [rid \in Used(f) |-> Rec(f, rid)]

\* A new file has no records.
LEMMA NoRecordsAtFirst ==
  ASSUME NEW N
  PROVE  Records(NewFile(N)) = [rid \in {} |-> {}]
<1> DEFINE f == NewFile(N)
<1>1. DOMAIN f.pages = {}
  BY DEF NewFile
<1>2. Used(f) = {}
  BY <1>1 DEF Used
<1> QED
  BY <1>2 DEF Records

----------------------------------------------------------------------------
\* Index files.  What a node holds, and the tree of a file with its ghosts.

\* What a node holds, and the nodes.
EntrySet == [key : KeyValues, rid : Nat \X (Nat \cup {-1})]
NodeSet  == [entries : Seq(EntrySet), left : Nat \cup {NoPage}, right : Nat \cup {NoPage}]
K(N, p)  == Len(N[p].entries)
W(F, i)  == Len(F[i])

\* A tree is the nodes N with some ghosts of theirs: the level lv of each page,
\* its place at among the pages of the level, the place off in the level before
\* its first entry, the entries F of each level, and for each of them the record
\* id T that the subtree under it ends with.
Typed(N, root, h, lv, at, off, F, T) ==
  /\ h \in Nat \ {0}
  /\ DOMAIN N \subseteq Nat /\ root \in DOMAIN N
  /\ N \in [DOMAIN N -> NodeSet]
  /\ lv \in [DOMAIN N -> 0 .. h - 1]
  /\ at \in [DOMAIN N -> Nat \ {0}]
  /\ off \in [DOMAIN N -> Nat]
  /\ F \in [0 .. h - 1 -> Seq(EntrySet)]
  /\ T \in [0 .. h - 1 -> Seq(Nat \X Nat)]

\* A level is what its nodes hold, one after the other.
Flat(N, root, h, lv, at, off, F) ==
  /\ \A p \in DOMAIN N : p # root \/ h > 1 => K(N, p) # 0
  /\ \A p \in DOMAIN N : off[p] + K(N, p) <= W(F, lv[p])
  /\ \A p \in DOMAIN N : \A s \in 1 .. K(N, p) : N[p].entries[s] = F[lv[p]][off[p] + s]
  /\ \A p, q \in DOMAIN N : lv[p] = lv[q] /\ at[p] < at[q] => off[p] + K(N, p) <= off[q]
  /\ \A i \in 0 .. h - 1 : \A j \in 1 .. W(F, i) :
       \E p \in DOMAIN N : lv[p] = i /\ off[p] < j /\ j <= off[p] + K(N, p)

\* Above it is an entry for each of its nodes, with the largest key.
Linked(N, root, h, lv, at, F) ==
  /\ \A p \in DOMAIN N : lv[p] = 0 => p = root
  /\ lv[root] = 0 /\ at[root] = 1
  /\ \A p \in DOMAIN N : lv[p] # 0 =>
       at[p] <= W(F, lv[p] - 1) /\ F[lv[p] - 1][at[p]] = Entry(MaxKey(N[p]), Child(p))
  /\ \A i \in 0 .. h - 2 : \A j \in 1 .. W(F, i) :
       F[i][j].rid[1] \in DOMAIN N /\ lv[F[i][j].rid[1]] = i + 1 /\ at[F[i][j].rid[1]] = j

\* How many nodes a level has.
Width(F, i) == IF i = 0 THEN 1 ELSE W(F, i - 1)

\* The right links run through the level; a left link names a node further left.
Chained(N, lv, at, F) ==
  \A p \in DOMAIN N :
    /\ IF at[p] = Width(F, lv[p]) THEN N[p].right = NoPage
       ELSE N[p].right \in DOMAIN N /\ lv[N[p].right] = lv[p] /\ at[N[p].right] = at[p] + 1
    /\ IF at[p] = 1 THEN N[p].left = NoPage
       ELSE N[p].left \in DOMAIN N /\ lv[N[p].left] = lv[p] /\ at[N[p].left] < at[p]

\* The keys of a level ascend.
Ordered(h, F) ==
  \A i \in 0 .. h - 1 : \A j, k \in 1 .. W(F, i) : j <= k => F[i][j].key <= F[i][k].key

\* The last record ids of the subtrees are all different, and belong to the keys.
Topped(N, h, off, F, T) ==
  /\ \A i \in 0 .. h - 1 : W(T, i) = W(F, i)
  /\ \A i \in 0 .. h - 1 : \A j, k \in 1 .. W(F, i) : T[i][j] = T[i][k] => j = k
  /\ \A i \in 0 .. h - 1 : \A j \in 1 .. W(F, i) : T[i][j] \in RidsOf(F[i][j].key)
  /\ \A j \in 1 .. W(F, h - 1) : T[h - 1][j] = F[h - 1][j].rid
  /\ \A i \in 0 .. h - 2 : \A j \in 1 .. W(F, i) :
       T[i][j] = T[i + 1][off[F[i][j].rid[1]] + K(N, F[i][j].rid[1])]

\* A tree.
Tree(N, root, h, lv, at, off, F, T) ==
  /\ Typed(N, root, h, lv, at, off, F, T)
  /\ Flat(N, root, h, lv, at, off, F)
  /\ Linked(N, root, h, lv, at, F)
  /\ Chained(N, lv, at, F)
  /\ Ordered(h, F)
  /\ Topped(N, h, off, F, T)

----------------------------------------------------------------------------
\* Sequences, nodes and entries.

\* An element of a sequence.
LEMMA Elem ==
  ASSUME NEW S, NEW es \in Seq(S), NEW i \in 1 .. Len(es)
  PROVE  es[i] \in S
  OBVIOUS

\* Sequences with the same elements.
LEMMA SameSequence ==
  ASSUME NEW S, NEW s \in Seq(S), NEW t \in Seq(S), Len(s) = Len(t), \A i \in 1 .. Len(s) : s[i] = t[i]
  PROVE  s = t
  OBVIOUS

\* A part of a sequence.
LEMMA Slice ==
  ASSUME NEW S, NEW es \in Seq(S), NEW a \in Nat \ {0}, NEW b \in Nat, b <= Len(es), a <= b + 1
  PROVE  /\ SubSeq(es, a, b) \in Seq(S)
         /\ Len(SubSeq(es, a, b)) = b - a + 1
         /\ \A s \in 1 .. b - a + 1 : SubSeq(es, a, b)[s] = es[a + s - 1]
  <1>1. SubSeq(es, a, b) = [i \in 1 .. b - a + 1 |-> es[i + a - 1]]
    OBVIOUS
  <1>2. \A i \in 1 .. b - a + 1 : i + a - 1 \in 1 .. Len(es) /\ i + a - 1 = a + i - 1
    OBVIOUS
  <1>3. b - a + 1 \in Nat /\ \A i \in 1 .. b - a + 1 : es[i + a - 1] \in S
    BY <1>2
  <1>4. SubSeq(es, a, b) \in Seq(S)
    BY <1>1, <1>3
  <1> QED
    BY <1>1, <1>2, <1>3, <1>4

\* The parts of a node, and a node with other entries.
LEMMA IsNode ==
  ASSUME NEW n \in NodeSet
  PROVE  /\ n.entries \in Seq(EntrySet) /\ n.left \in Nat \cup {NoPage} /\ n.right \in Nat \cup {NoPage}
         /\ Len(n.entries) \in Nat
         /\ n = [entries |-> n.entries, left |-> n.left, right |-> n.right]
         /\ \A es : [n EXCEPT !.entries = es] = [entries |-> es, left |-> n.left, right |-> n.right]
         /\ \A es, q : [n EXCEPT !.entries = es, !.right = q] = [entries |-> es, left |-> n.left, right |-> q]
  <1>1. n.entries \in Seq(EntrySet) /\ n.left \in Nat \cup {NoPage} /\ n.right \in Nat \cup {NoPage}
    BY DEF NodeSet
  <1>2. Len(n.entries) \in Nat
    BY <1>1
  <1>3. n = [entries |-> n.entries, left |-> n.left, right |-> n.right]
    BY DEF NodeSet
  <1>4. \A es : [n EXCEPT !.entries = es] = [entries |-> es, left |-> n.left, right |-> n.right]
    BY <1>3
  <1>5. \A es, q : [n EXCEPT !.entries = es, !.right = q] = [entries |-> es, left |-> n.left, right |-> q]
    <2> TAKE es, q
    <2>1. [n EXCEPT !.entries = es, !.right = q] = [[n EXCEPT !.entries = es] EXCEPT !.right = q]
      OBVIOUS
    <2>2. [[entries |-> es, left |-> n.left, right |-> n.right] EXCEPT !.right = q]
            = [entries |-> es, left |-> n.left, right |-> q]
      OBVIOUS
    <2>3. [n EXCEPT !.entries = es] = [entries |-> es, left |-> n.left, right |-> n.right]
      BY <1>4
    <2> QED
      BY <2>1, <2>2, <2>3
  <1> QED
    BY <1>1, <1>2, <1>3, <1>4, <1>5

\* A node from its parts.
LEMMA MakeNode ==
  ASSUME NEW es \in Seq(EntrySet), NEW l \in Nat \cup {NoPage}, NEW r \in Nat \cup {NoPage}
  PROVE  [entries |-> es, left |-> l, right |-> r] \in NodeSet
  BY DEF NodeSet

\* An entry of a node, and one that leads to another page.
LEMMA MakeEntry ==
  ASSUME NEW es \in Seq(EntrySet), NEW i \in 1 .. Len(es), NEW p \in Nat
  PROVE  /\ es[i] \in EntrySet /\ es[i].key \in KeyValues /\ es[i].key \in Nat
         /\ Child(p) \in Nat \X (Nat \cup {-1})
         /\ Entry(es[i].key, Child(p)) \in EntrySet
  <1>1. es[i] \in EntrySet
    BY Elem
  <1> HIDE DEF EntrySet
  <1>2. Child(p) \in Nat \X (Nat \cup {-1})
    BY DEF Child
  <1> QED
    BY <1>1, <1>2, IndexTreeAssumption DEF Entry, EntrySet

\* The entry at pos gives way to two: e, and one with its key that leads to rid.
Parted(es, pos, e, rid) ==
  [i \in 1 .. Len(es) + 1 |->
     IF i < pos THEN es[i] ELSE IF i = pos THEN e
     ELSE IF i = pos + 1 THEN Entry(es[pos].key, rid) ELSE es[i - 1]]

IsParted(s, es, n, pos, e, rid) ==
  /\ \A i \in 1 .. pos - 1 : s[i] = es[i]
  /\ s[pos] = e
  /\ s[pos + 1] = Entry(es[pos].key, rid)
  /\ \A i \in pos + 2 .. n + 1 : s[i] = es[i - 1]

\* What Parted gives.
LEMMA PartedFacts ==
  ASSUME NEW es \in Seq(EntrySet), NEW pos \in 1 .. Len(es), NEW e \in EntrySet,
         NEW rid \in Nat \X (Nat \cup {-1})
  PROVE  /\ Parted(es, pos, e, rid) \in Seq(EntrySet)
         /\ Len(Parted(es, pos, e, rid)) = Len(es) + 1
         /\ IsParted(Parted(es, pos, e, rid), es, Len(es), pos, e, rid)
  <1>1. Entry(es[pos].key, rid) \in EntrySet
    <2>1. es[pos] \in EntrySet
      BY Elem
    <2> QED
      BY <2>1 DEF Entry, EntrySet
  <1>2. \A i \in 1 .. Len(es) + 1 : i > pos + 1 => i - 1 \in 1 .. Len(es)
    OBVIOUS
  <1> DEFINE n == Len(es)
             x(i) == IF i < pos THEN es[i] ELSE IF i = pos THEN e
                     ELSE IF i = pos + 1 THEN Entry(es[pos].key, rid) ELSE es[i - 1]
  <1>3. \A i \in 1 .. n + 1 : x(i) \in EntrySet
    BY <1>1, <1>2
  <1>4. n \in Nat
    OBVIOUS
  <1>5. Parted(es, pos, e, rid) = [i \in 1 .. n + 1 |-> x(i)]
    BY DEF Parted
  <1> HIDE DEF n, x
  <1>6. Parted(es, pos, e, rid) \in Seq(EntrySet) /\ Len(Parted(es, pos, e, rid)) = n + 1
    BY <1>3, <1>4, <1>5
  <1> QED
    BY <1>6, <1>5, <1>2 DEF n, x, IsParted

\* The node on page p keeps its first m entries, and a new one on page q, to
\* its right, takes the others.
Cut(N, p, m, q, f, pos) ==
  [r \in DOMAIN N \cup {q} |->
     IF r = p THEN [entries |-> SubSeq(N[p].entries, 1, m), left |-> N[p].left, right |-> q]
     ELSE IF r = q
     THEN [entries |-> SubSeq(N[p].entries, m + 1, K(N, p)), left |-> p, right |-> N[p].right]
     ELSE IF r = f
     THEN [N[f] EXCEPT !.entries = Parted(@, pos, Entry(N[p].entries[m].key, Child(p)), Child(q))]
     ELSE N[r]]

IsCut(N2, N, p, m, q, f, pos) ==
  /\ DOMAIN N2 = DOMAIN N \cup {q}
  /\ \A r \in DOMAIN N : r # p /\ r # f => N2[r] = N[r]
  /\ K(N2, p) = m /\ K(N2, q) = K(N, p) - m /\ K(N2, f) = K(N, f) + 1
  /\ \A s \in 1 .. m : N2[p].entries[s] = N[p].entries[s]
  /\ \A s \in 1 .. K(N, p) - m : N2[q].entries[s] = N[p].entries[m + s]
  /\ IsParted(N2[f].entries, N[f].entries, K(N, f), pos, Entry(N[p].entries[m].key, Child(p)), Child(q))
  /\ N2[p].right = q /\ N2[q].right = N[p].right /\ N2[f].right = N[f].right
  /\ N2[p].left = N[p].left /\ N2[q].left = p /\ N2[f].left = N[f].left

\* What Cut gives.
LEMMA CutFacts ==
  ASSUME NEW N, N \in [DOMAIN N -> NodeSet], DOMAIN N \subseteq Nat,
         NEW p \in DOMAIN N, NEW f \in DOMAIN N, p # f, NEW q \in Nat, q \notin DOMAIN N,
         NEW m \in 1 .. K(N, p) - 1, NEW pos \in 1 .. K(N, f)
  PROVE  /\ IsCut(Cut(N, p, m, q, f, pos), N, p, m, q, f, pos)
         /\ Cut(N, p, m, q, f, pos) \in [DOMAIN Cut(N, p, m, q, f, pos) -> NodeSet]
  <1> DEFINE N2 == Cut(N, p, m, q, f, pos)
             e  == Entry(N[p].entries[m].key, Child(p))
  <1>1. N[p] \in NodeSet /\ N[f] \in NodeSet /\ K(N, p) \in Nat /\ K(N, f) \in Nat
    <2>1. N[p] \in NodeSet /\ N[f] \in NodeSet
      OBVIOUS
    <2> QED
      BY <2>1, IsNode DEF K
  <1>2. N[p].entries \in Seq(EntrySet) /\ N[f].entries \in Seq(EntrySet)
    BY <1>1, IsNode
  <1>4. e \in EntrySet /\ Child(q) \in Nat \X (Nat \cup {-1})
    <2>1. m \in 1 .. Len(N[p].entries) /\ p \in Nat
      BY <1>1 DEF K
    <2> QED
      BY <1>2, <2>1, MakeEntry
  <1> DEFINE lo == SubSeq(N[p].entries, 1, m)
             hi == SubSeq(N[p].entries, m + 1, K(N, p))
             mid == Parted(N[f].entries, pos, e, Child(q))
  <1>5. lo \in Seq(EntrySet) /\ Len(lo) = m /\ \A s \in 1 .. m : lo[s] = N[p].entries[s]
    BY <1>1, <1>2 DEF K
  <1>6. /\ hi \in Seq(EntrySet) /\ Len(hi) = K(N, p) - m
        /\ \A s \in 1 .. K(N, p) - m : hi[s] = N[p].entries[m + s]
    <2>1. m + 1 \in Nat \ {0} /\ K(N, p) <= Len(N[p].entries) /\ m + 1 <= K(N, p) + 1
      BY <1>1 DEF K
    <2>2. /\ hi \in Seq(EntrySet) /\ Len(hi) = K(N, p) - (m + 1) + 1
          /\ \A s \in 1 .. K(N, p) - (m + 1) + 1 : hi[s] = N[p].entries[m + 1 + s - 1]
      <3>1. K(N, p) \in Nat
        BY <1>1
      <3>2. N[p].entries \in Seq(EntrySet)
        BY <1>2
      <3> DEFINE a == m + 1
                 b == K(N, p)
                 es == N[p].entries
      <3>3. a \in Nat \ {0} /\ b \in Nat /\ b <= Len(es) /\ a <= b + 1 /\ es \in Seq(EntrySet)
        BY <2>1, <3>1, <3>2
      <3>4. hi = SubSeq(es, a, b)
        OBVIOUS
      <3> HIDE DEF a, b, es, hi
      <3>5. /\ hi \in Seq(EntrySet) /\ Len(hi) = b - a + 1
            /\ \A s \in 1 .. b - a + 1 : hi[s] = es[a + s - 1]
        BY <3>3, <3>4, Slice, SMTT(30)
      <3> QED
        BY <3>5 DEF a, b, es
    <2> HIDE DEF hi
    <2>3. K(N, p) - (m + 1) + 1 = K(N, p) - m /\ \A s \in 1 .. K(N, p) - m : m + 1 + s - 1 = m + s
      BY <1>1
    <2> QED
      BY <2>2, <2>3
  <1>7. mid \in Seq(EntrySet) /\ Len(mid) = K(N, f) + 1 /\ IsParted(mid, N[f].entries, K(N, f), pos, e, Child(q))
    <2>1. pos \in 1 .. Len(N[f].entries)
      BY DEF K
    <2> HIDE DEF e
    <2>2. N[f].entries \in Seq(EntrySet)
      BY <1>2
    <2> QED
      BY <1>4, <2>1, <2>2, PartedFacts DEF K
  <1> HIDE DEF lo, hi, mid, e
  <1>8. /\ N2[p] = [entries |-> lo, left |-> N[p].left, right |-> q]
        /\ N2[q] = [entries |-> hi, left |-> p, right |-> N[p].right]
        /\ N2[f] = [entries |-> mid, left |-> N[f].left, right |-> N[f].right]
        /\ DOMAIN N2 = DOMAIN N \cup {q}
        /\ \A r \in DOMAIN N : r # p /\ r # f => N2[r] = N[r]
    <2>1. N2[p] = [entries |-> lo, left |-> N[p].left, right |-> q]
      BY DEF Cut, lo
    <2>2. N2[f] = [N[f] EXCEPT !.entries = mid]
      BY DEF Cut, mid, e
    <2>3. N2[q] = [entries |-> hi, left |-> p, right |-> N[p].right]
      BY DEF Cut, hi
    <2>4. DOMAIN N2 = DOMAIN N \cup {q} /\ \A r \in DOMAIN N : r # p /\ r # f => N2[r] = N[r]
      BY DEF Cut
    <2>5. [N[f] EXCEPT !.entries = mid] = [entries |-> mid, left |-> N[f].left, right |-> N[f].right]
      BY <1>1, IsNode
    <2> QED
      BY <2>1, <2>2, <2>3, <2>4, <2>5
  <1>a. N2 = [r \in DOMAIN N2 |-> N2[r]]
    BY DEF Cut
  <1> HIDE DEF N2
  <1>9. \A r \in DOMAIN N2 : N2[r] \in NodeSet
    <2>1. \A r \in DOMAIN N : N[r] \in NodeSet
      OBVIOUS
    <2>2. N[p].left \in Nat \cup {NoPage} /\ N[p].right \in Nat \cup {NoPage} /\ p \in Nat
      BY <1>1, IsNode
    <2>3. N[f].left \in Nat \cup {NoPage} /\ N[f].right \in Nat \cup {NoPage} /\ q \in Nat
      BY <1>1, IsNode
    <2>4. N2[p] \in NodeSet /\ N2[q] \in NodeSet
      <3>1. lo \in Seq(EntrySet) /\ hi \in Seq(EntrySet) /\ q \in Nat /\ p \in Nat
        BY <1>5, <1>6, <2>2
      <3>2. N2[p] \in NodeSet
        BY <1>8, <2>2, <3>1, MakeNode
      <3>3. N2[q] \in NodeSet
        BY <1>8, <2>2, <3>1, MakeNode
      <3> QED
        BY <3>2, <3>3
    <2>5. N2[f] \in NodeSet
      BY <1>7, <1>8, <2>3, MakeNode, SMTT(30)
    <2> QED
      BY <1>8, <2>1, <2>4, <2>5
  <1>b. N2 \in [DOMAIN N2 -> NodeSet]
    BY <1>9, <1>a
  <1> QED
    BY <1>5, <1>6, <1>7, <1>8, <1>b DEF N2, K, e, IsCut

----------------------------------------------------------------------------
\* Trees, and the cut of a node in two.

\* The sequence with one more.
IsInserted(s, es, n, pos, e) ==
  /\ \A i \in 1 .. pos - 1 : s[i] = es[i]
  /\ s[pos] = e
  /\ \A i \in pos + 1 .. n + 1 : s[i] = es[i - 1]

\* What Inserted gives.
LEMMA InsertedFacts ==
  ASSUME NEW S, NEW es \in Seq(S), NEW pos \in 1 .. Len(es) + 1, NEW e \in S
  PROVE  /\ Inserted(es, pos, e) \in Seq(S) /\ Len(Inserted(es, pos, e)) = Len(es) + 1
         /\ IsInserted(Inserted(es, pos, e), es, Len(es), pos, e)
  <1>2. /\ \A i \in 1 .. Len(es) + 1 : i > pos => i - 1 \in 1 .. Len(es)
        /\ \A i \in 1 .. Len(es) + 1 : i < pos => i \in 1 .. Len(es)
    OBVIOUS
  <1> DEFINE n == Len(es)
             x(i) == IF i < pos THEN es[i] ELSE IF i = pos THEN e ELSE es[i - 1]
  <1>3. \A i \in 1 .. n + 1 : x(i) \in S
    BY <1>2
  <1>4. n \in Nat
    OBVIOUS
  <1>5. Inserted(es, pos, e) = [i \in 1 .. n + 1 |-> x(i)]
    BY DEF Inserted
  <1> HIDE DEF n, x
  <1>6. Inserted(es, pos, e) \in Seq(S) /\ Len(Inserted(es, pos, e)) = n + 1
    BY <1>3, <1>4, <1>5
  <1> QED
    BY <1>6, <1>5, <1>2 DEF n, x, IsInserted

\* The types of a tree and of its ghosts.
LEMMA TreeTypes ==
  ASSUME NEW N, NEW root, NEW h, NEW lv, NEW at, NEW off, NEW F, NEW T,
         Tree(N, root, h, lv, at, off, F, T)
  PROVE  /\ h \in Nat /\ h >= 1 /\ DOMAIN N \subseteq Nat /\ root \in DOMAIN N
         /\ \A r \in DOMAIN N : lv[r] \in 0 .. h - 1
         /\ \A r \in DOMAIN N : at[r] \in Nat /\ at[r] >= 1
         /\ \A r \in DOMAIN N : off[r] \in Nat
         /\ \A r \in DOMAIN N : K(N, r) \in Nat
         /\ \A r \in DOMAIN N : N[r] \in NodeSet
         /\ \A i \in 0 .. h - 1 : F[i] \in Seq(EntrySet)
         /\ \A i \in 0 .. h - 1 : T[i] \in Seq(Nat \X Nat)
         /\ \A i \in 0 .. h - 1 : W(F, i) \in Nat
         /\ \A i \in 0 .. h - 1 : W(T, i) = W(F, i)
  <1>1. Typed(N, root, h, lv, at, off, F, T) /\ Topped(N, h, off, F, T)
    BY DEF Tree
  <1>2. N \in [DOMAIN N -> NodeSet]
    BY <1>1 DEF Typed
  <1>3. \A r \in DOMAIN N : N[r] \in NodeSet
    BY <1>2
  <1>4. \A r \in DOMAIN N : K(N, r) \in Nat
    BY <1>3, IsNode DEF K
  <1>5. h \in Nat /\ h >= 1 /\ DOMAIN N \subseteq Nat /\ root \in DOMAIN N
    BY <1>1 DEF Typed
  <1>6. /\ \A r \in DOMAIN N : lv[r] \in 0 .. h - 1
        /\ \A r \in DOMAIN N : at[r] \in Nat /\ at[r] >= 1
        /\ \A r \in DOMAIN N : off[r] \in Nat
    BY <1>1 DEF Typed
  <1>7. /\ \A i \in 0 .. h - 1 : F[i] \in Seq(EntrySet)
        /\ \A i \in 0 .. h - 1 : T[i] \in Seq(Nat \X Nat)
    BY <1>1 DEF Typed
  <1>8. /\ \A i \in 0 .. h - 1 : W(F, i) \in Nat
        /\ \A i \in 0 .. h - 1 : W(T, i) = W(F, i)
    BY <1>1, <1>7 DEF Topped, W
  <1> QED
    BY <1>2, <1>3, <1>4, <1>5, <1>6, <1>7, <1>8

\* An entry of a node is one of its level.
LEMMA EntryAt ==
  ASSUME NEW N, NEW root, NEW h, NEW lv, NEW at, NEW off, NEW F, NEW T,
         Tree(N, root, h, lv, at, off, F, T),
         NEW p \in DOMAIN N, NEW s \in 1 .. K(N, p)
  PROVE  /\ off[p] + s \in 1 .. W(F, lv[p])
         /\ N[p].entries[s] = F[lv[p]][off[p] + s]
         /\ N[p].entries[s] \in EntrySet
  <1>1. Flat(N, root, h, lv, at, off, F)
    BY DEF Tree
  <1>2. off[p] + K(N, p) <= W(F, lv[p]) /\ N[p].entries[s] = F[lv[p]][off[p] + s]
    BY <1>1 DEF Flat
  <1>3. off[p] \in Nat /\ K(N, p) \in Nat /\ lv[p] \in 0 .. h - 1
    BY TreeTypes
  <1>4. W(F, lv[p]) \in Nat /\ F[lv[p]] \in Seq(EntrySet)
    BY <1>3, TreeTypes
  <1>5. off[p] + s \in 1 .. W(F, lv[p])
    BY <1>2, <1>3, <1>4, SMTT(30)
  <1>6. F[lv[p]][off[p] + s] \in EntrySet
    BY <1>4, <1>5, Elem DEF W
  <1> QED
    BY <1>2, <1>5, <1>6

\* The child that an entry of an inner node leads to.
LEMMA ChildAt ==
  ASSUME NEW N, NEW root, NEW h, NEW lv, NEW at, NEW off, NEW F, NEW T,
         Tree(N, root, h, lv, at, off, F, T),
         NEW f \in DOMAIN N, NEW pos \in 1 .. K(N, f), lv[f] < h - 1,
         NEW c, c = N[f].entries[pos].rid[1]
  PROVE  /\ c \in DOMAIN N /\ c # f /\ lv[c] = lv[f] + 1 /\ at[c] = off[f] + pos
         /\ N[f].entries[pos] = Entry(MaxKey(N[c]), Child(c))
  <1>1. off[f] + pos \in 1 .. W(F, lv[f]) /\ N[f].entries[pos] = F[lv[f]][off[f] + pos]
    BY EntryAt
  <1>2. lv[f] \in 0 .. h - 2
    BY TreeTypes
  <1>3. Linked(N, root, h, lv, at, F)
    BY DEF Tree
  <1>4. c \in DOMAIN N /\ lv[c] = lv[f] + 1 /\ at[c] = off[f] + pos
    BY <1>1, <1>2, <1>3 DEF Linked
  <1>5. lv[c] # 0 /\ lv[c] - 1 = lv[f]
    BY <1>2, <1>4
  <1>6. F[lv[f]][off[f] + pos] = Entry(MaxKey(N[c]), Child(c))
    BY <1>3, <1>4, <1>5 DEF Linked
  <1>7. c # f
    BY <1>2, <1>4
  <1> QED
    BY <1>1, <1>4, <1>6, <1>7, Zenon

\* A place of a level is that of one node.
LEMMA SamePlace ==
  ASSUME NEW N, NEW root, NEW h, NEW lv, NEW at, NEW off, NEW F, NEW T,
         Tree(N, root, h, lv, at, off, F, T),
         NEW p \in DOMAIN N, NEW q \in DOMAIN N, lv[p] = lv[q], at[p] = at[q]
  PROVE  p = q
  <1>1. Linked(N, root, h, lv, at, F)
    BY DEF Tree
  <1>2. CASE lv[p] = 0
    BY <1>1, <1>2 DEF Linked
  <1>3. CASE lv[p] # 0
    <2>1. Entry(MaxKey(N[p]), Child(p)) = Entry(MaxKey(N[q]), Child(q))
      BY <1>1, <1>3 DEF Linked
    <2>2. Child(p) = Child(q)
      BY <2>1, SMTT(30) DEF Entry
    <2> QED
      BY <2>2 DEF Child
  <1> QED
    BY <1>2, <1>3

\* The child that an entry of a level leads to.
LEMMA Under ==
  ASSUME NEW N, NEW root, NEW h, NEW lv, NEW at, NEW off, NEW F, NEW T,
         Tree(N, root, h, lv, at, off, F, T),
         NEW i \in 0 .. h - 2, NEW j \in 1 .. W(F, i), NEW c, c = F[i][j].rid[1]
  PROVE  /\ c \in DOMAIN N /\ lv[c] = i + 1 /\ at[c] = j
         /\ F[i][j] = Entry(MaxKey(N[c]), Child(c))
         /\ K(N, c) >= 1 /\ off[c] + K(N, c) \in 1 .. W(F, i + 1)
         /\ MaxKey(N[c]) = F[i + 1][off[c] + K(N, c)].key
         /\ T[i][j] = T[i + 1][off[c] + K(N, c)]
  <1>1. Linked(N, root, h, lv, at, F) /\ Flat(N, root, h, lv, at, off, F) /\ Topped(N, h, off, F, T)
    BY DEF Tree
  <1>2. c \in DOMAIN N /\ lv[c] = i + 1 /\ at[c] = j
    BY <1>1 DEF Linked
  <1>h. h \in Nat /\ i \in Nat
    BY TreeTypes
  <1>3. lv[c] # 0 /\ lv[c] - 1 = i /\ h > 1
    BY <1>2, <1>h
  <1>4. F[i][j] = Entry(MaxKey(N[c]), Child(c))
    BY <1>1, <1>2, <1>3 DEF Linked
  <1>5. K(N, c) # 0 /\ K(N, c) \in Nat /\ off[c] \in Nat
    <2>1. K(N, c) # 0
      BY <1>1, <1>2, <1>3 DEF Flat
    <2> QED
      BY <2>1, <1>2, TreeTypes
  <1>6. K(N, c) \in 1 .. K(N, c) /\ K(N, c) >= 1
    BY <1>5
  <1>7. off[c] + K(N, c) \in 1 .. W(F, i + 1) /\ N[c].entries[K(N, c)] = F[i + 1][off[c] + K(N, c)]
    BY <1>2, <1>6, EntryAt
  <1>8. MaxKey(N[c]) = N[c].entries[K(N, c)].key
    BY DEF MaxKey, numKeys, K
  <1>9. T[i][j] = T[i + 1][off[c] + K(N, c)]
    BY <1>1 DEF Topped
  <1> QED
    BY <1>2, <1>4, <1>6, <1>7, <1>8, <1>9, Zenon

\* A node and an entry of its parent that a cut may divide.
Divides(N, h, lv, p, f, q, m, pos) ==
  /\ p \in DOMAIN N /\ f \in DOMAIN N /\ q \in Nat /\ q \notin DOMAIN N
  /\ m \in 1 .. K(N, p) - 1 /\ pos \in 1 .. K(N, f)
  /\ lv[p] # 0 /\ lv[f] < h - 1 /\ N[f].entries[pos].rid = Child(p)

\* A cut of a node below the root, with its parent led to both halves, leaves a
\* tree with the same leaf entries.
LEMMA CutTree ==
  ASSUME NEW N, NEW root, NEW h, NEW lv, NEW at, NEW off, NEW F, NEW T,
         Tree(N, root, h, lv, at, off, F, T),
         NEW p, NEW f, NEW q, NEW m, NEW pos, Divides(N, h, lv, p, f, q, m, pos)
  PROVE  \E lv2, at2, off2, F2, T2 :
           /\ Tree(Cut(N, p, m, q, f, pos), root, h, lv2, at2, off2, F2, T2)
           /\ F2[h - 1] = F[h - 1]
           /\ \A r \in DOMAIN N : lv2[r] = lv[r]
  <1> DEFINE D  == DOMAIN N
             N2 == Cut(N, p, m, q, f, pos)
             a  == lv[p]
             b  == lv[f]
             j0 == at[p]
             x  == off[p] + m
             lv2  == [r \in D \cup {q} |-> IF r = q THEN a ELSE lv[r]]
             at2  == [r \in D \cup {q} |-> IF r = q THEN j0 + 1
                        ELSE IF lv[r] = a /\ at[r] > j0 THEN at[r] + 1 ELSE at[r]]
             off2 == [r \in D \cup {q} |-> IF r = q THEN x
                        ELSE IF lv[r] = b /\ at[r] > at[f] THEN off[r] + 1 ELSE off[r]]
             e  == Entry(F[a][x].key, Child(p))
             Fb == Parted(F[b], j0, e, Child(q))
             Tb == Inserted(T[b], j0, T[a][x])
             F2 == [i \in 0 .. h - 1 |-> IF i = b THEN Fb ELSE F[i]]
             T2 == [i \in 0 .. h - 1 |-> IF i = b THEN Tb ELSE T[i]]
  <1> HIDE DEF N2, lv2, at2, off2, F2, T2, Fb, Tb, e, a, b, j0, x
  \* What the invariant says of the pages that take part.
  <1>1. h \in Nat /\ h >= 1 /\ D \subseteq Nat /\ root \in D
    BY TreeTypes
  <1>P. /\ \A r \in D : lv[r] \in 0 .. h - 1
        /\ \A r \in D : at[r] \in Nat /\ at[r] >= 1
        /\ \A r \in D : off[r] \in Nat
        /\ \A r \in D : K(N, r) \in Nat
    BY TreeTypes
  <1>F. /\ \A i \in 0 .. h - 1 : F[i] \in Seq(EntrySet)
        /\ \A i \in 0 .. h - 1 : W(F, i) \in Nat
    BY TreeTypes
  <1>T. /\ \A i \in 0 .. h - 1 : T[i] \in Seq(Nat \X Nat)
        /\ \A i \in 0 .. h - 1 : W(T, i) = W(F, i)
    BY TreeTypes
  <1>0. p \in D /\ f \in D /\ q \in Nat /\ q \notin D
    BY DEF Divides
  <1>m. K(N, p) \in Nat /\ m \in 1 .. K(N, p) - 1 /\ K(N, f) \in Nat /\ pos \in 1 .. K(N, f)
    BY <1>0, <1>P DEF Divides
  <1>2. /\ F[b][off[f] + pos] = N[f].entries[pos] /\ off[f] + pos \in 1 .. W(F, b)
        /\ a = b + 1 /\ j0 = off[f] + pos /\ b \in 0 .. h - 2 /\ a \in 1 .. h - 1 /\ p # f
    <2>1. off[f] + pos \in 1 .. W(F, b) /\ N[f].entries[pos] = F[b][off[f] + pos]
      BY <1>0, <1>m, EntryAt DEF b
    <2>2. N[f].entries[pos].rid[1] = p
      BY DEF Child, Divides
    <2>3. lv[p] = lv[f] + 1 /\ at[p] = off[f] + pos /\ p # f
      BY <1>0, <1>m, <2>2, ChildAt DEF Divides
    <2>4. b \in 0 .. h - 1 /\ b < h - 1
      BY <1>0, <1>P DEF b, Divides
    <2> QED
      BY <1>1, <2>1, <2>3, <2>4 DEF a, b, j0
  <1>A. F[b] \in Seq(EntrySet) /\ F[a] \in Seq(EntrySet) /\ W(F, b) \in Nat /\ W(F, a) \in Nat
    BY <1>1, <1>2, <1>F
  <1>B. /\ T[b] \in Seq(Nat \X Nat) /\ T[a] \in Seq(Nat \X Nat)
        /\ W(T, b) = W(F, b) /\ W(T, a) = W(F, a)
    BY <1>1, <1>2, <1>T
  <1>3. p # f /\ q # p /\ q # f /\ f # q
    BY <1>0, <1>2
  <1>4. /\ x \in 1 .. W(F, a) /\ off[p] + K(N, p) <= W(F, a)
        /\ \A s \in 1 .. K(N, p) : N[p].entries[s] = F[a][off[p] + s]
        /\ N[p].entries[m] = F[a][x]
    <2>1. Flat(N, root, h, lv, at, off, F)
      BY DEF Tree
    <2>2. off[p] + K(N, p) <= W(F, a) /\ \A s \in 1 .. K(N, p) : N[p].entries[s] = F[a][off[p] + s]
      BY <1>0, <2>1 DEF Flat, a
    <2>3. off[p] \in Nat /\ K(N, p) \in Nat /\ W(F, a) \in Nat
      BY <1>0, <1>P, <1>A
    <2>4. m \in 1 .. K(N, p)
      BY <1>m, <2>3
    <2> QED
      BY <2>2, <2>3, <2>4 DEF x
  <1>5. e \in EntrySet /\ Child(q) \in Nat \X (Nat \cup {-1}) /\ e = Entry(N[p].entries[m].key, Child(p))
    <2>1. p \in Nat /\ q \in Nat /\ F[a] \in Seq(EntrySet)
      BY <1>0, <1>1, <1>A
    <2>2. x \in 1 .. Len(F[a])
      BY <1>4 DEF W
    <2>3. Entry(F[a][x].key, Child(p)) \in EntrySet /\ Child(q) \in Nat \X (Nat \cup {-1})
      BY <2>1, <2>2, MakeEntry
    <2> QED
      BY <1>4, <2>3 DEF e
  <1>6. T[a][x] \in Nat \X Nat /\ j0 \in 1 .. W(F, b) /\ j0 \in 1 .. W(T, b) + 1
    <2>1. T[a] \in Seq(Nat \X Nat) /\ x \in 1 .. W(T, a)
      BY <1>B, <1>4
    <2>2. T[a][x] \in Nat \X Nat
      BY <2>1, Elem DEF W
    <2> QED
      BY <1>A, <1>B, <1>2, <2>2
  <1>7. Fb \in Seq(EntrySet) /\ Len(Fb) = W(F, b) + 1 /\ IsParted(Fb, F[b], W(F, b), j0, e, Child(q))
    BY <1>5, <1>6, <1>A, PartedFacts DEF Fb, W
  <1>p. /\ \A i \in 1 .. j0 - 1 : Fb[i] = F[b][i]
        /\ Fb[j0] = e /\ Fb[j0 + 1] = Entry(F[b][j0].key, Child(q))
        /\ \A i \in j0 + 2 .. W(F, b) + 1 : Fb[i] = F[b][i - 1]
    BY <1>7 DEF IsParted
  <1>8. Tb \in Seq(Nat \X Nat) /\ Len(Tb) = W(F, b) + 1 /\ IsInserted(Tb, T[b], W(F, b), j0, T[a][x])
    <2>1. T[b] \in Seq(Nat \X Nat) /\ T[a][x] \in Nat \X Nat /\ j0 \in 1 .. Len(T[b]) + 1
      BY <1>6, <1>B DEF W
    <2>2. /\ Tb \in Seq(Nat \X Nat) /\ Len(Tb) = Len(T[b]) + 1
          /\ IsInserted(Tb, T[b], Len(T[b]), j0, T[a][x])
      BY <2>1, InsertedFacts DEF Tb
    <2> QED
      BY <1>B, <2>2 DEF W
  <1>N. /\ h \in Nat /\ h >= 1 /\ a = b + 1 /\ b \in Nat /\ a \in Nat /\ a <= h - 1
        /\ lv[p] = a /\ at[p] = j0 /\ lv[f] = b /\ x = off[p] + m /\ j0 = off[f] + pos
        /\ off[p] \in Nat /\ off[f] \in Nat /\ at[f] \in Nat /\ at[f] >= 1 /\ j0 \in Nat
        /\ x \in Nat /\ m \in Nat /\ 1 <= m /\ m <= K(N, p) - 1
        /\ pos \in Nat /\ 1 <= pos /\ pos <= K(N, f)
        /\ K(N, p) \in Nat /\ K(N, f) \in Nat /\ W(F, a) \in Nat /\ W(F, b) \in Nat
        /\ off[p] + K(N, p) <= W(F, a) /\ off[f] + K(N, f) <= W(F, b)
    <2>1. off[f] + K(N, f) <= W(F, b)
      BY <1>0 DEF Tree, Flat, b
    <2>2. off[p] \in Nat /\ off[f] \in Nat /\ at[f] \in Nat /\ at[f] >= 1
      BY <1>0, <1>P
    <2>3. W(F, a) \in Nat /\ W(F, b) \in Nat
      BY <1>A
    <2>4. lv[p] = a /\ at[p] = j0 /\ lv[f] = b /\ x = off[p] + m
      BY DEF a, b, j0, x
    <2> QED
      BY <1>m, <1>1, <1>2, <1>4, <2>1, <2>2, <2>3, <2>4
  <1>9. IsCut(N2, N, p, m, q, f, pos) /\ N2 \in [DOMAIN N2 -> NodeSet]
    <2>1. N \in [DOMAIN N -> NodeSet] /\ DOMAIN N \subseteq Nat
      BY DEF Tree, Typed
    <2> QED
      BY <1>0, <1>m, <1>3, <2>1, CutFacts DEF N2
  <1>b. \A r \in D : r # p /\ r # f => K(N2, r) = K(N, r)
    BY <1>9 DEF K, IsCut
  <1>k. K(N2, p) = m /\ K(N2, q) = K(N, p) - m /\ K(N2, f) = K(N, f) + 1
    BY <1>9 DEF IsCut
  <1>c. /\ lv2[q] = a /\ at2[q] = j0 + 1 /\ off2[q] = x
        /\ \A r \in D : lv2[r] = lv[r]
        /\ \A r \in D : at2[r] = IF lv[r] = a /\ at[r] > j0 THEN at[r] + 1 ELSE at[r]
        /\ \A r \in D : off2[r] = IF lv[r] = b /\ at[r] > at[f] THEN off[r] + 1 ELSE off[r]
        /\ F2[b] = Fb /\ T2[b] = Tb
        /\ \A i \in 0 .. h - 1 : i # b => F2[i] = F[i]
        /\ \A i \in 0 .. h - 1 : i # b => T2[i] = T[i]
        /\ W(F2, b) = W(F, b) + 1 /\ W(T2, b) = W(F, b) + 1
        /\ \A i \in 0 .. h - 1 : i # b => W(F2, i) = W(F, i)
    <2>1. b \in 0 .. h - 1
      BY <1>1, <1>2
    <2> QED
      BY <1>0, <1>7, <1>8, <2>1 DEF lv2, at2, off2, F2, T2, W
  <1>d. Typed(N2, root, h, lv2, at2, off2, F2, T2)
    <2>1. \A r \in D \cup {q} : lv2[r] \in 0 .. h - 1 /\ at2[r] \in Nat \ {0} /\ off2[r] \in Nat
      <3>1. a \in 0 .. h - 1 /\ x \in Nat /\ j0 \in Nat
        BY <1>N
      <3>2. \A r \in D : lv2[r] \in 0 .. h - 1 /\ at2[r] \in Nat \ {0} /\ off2[r] \in Nat
        BY <1>P, <1>c
      <3>3. lv2[q] \in 0 .. h - 1 /\ at2[q] \in Nat \ {0} /\ off2[q] \in Nat
        BY <3>1, <1>c
      <3> QED
        BY <3>2, <3>3
    <2>2. \A i \in 0 .. h - 1 : F2[i] \in Seq(EntrySet) /\ T2[i] \in Seq(Nat \X Nat)
      BY <1>F, <1>T, <1>7, <1>8, <1>c
    <2>3. /\ lv2 = [r \in D \cup {q} |-> lv2[r]] /\ at2 = [r \in D \cup {q} |-> at2[r]]
          /\ off2 = [r \in D \cup {q} |-> off2[r]]
      BY DEF lv2, at2, off2
    <2>4. F2 = [i \in 0 .. h - 1 |-> F2[i]] /\ T2 = [i \in 0 .. h - 1 |-> T2[i]]
      BY DEF F2, T2
    <2>6. /\ lv2 \in [D \cup {q} -> 0 .. h - 1] /\ at2 \in [D \cup {q} -> Nat \ {0}]
          /\ off2 \in [D \cup {q} -> Nat]
      BY <2>1, <2>3
    <2>7. F2 \in [0 .. h - 1 -> Seq(EntrySet)] /\ T2 \in [0 .. h - 1 -> Seq(Nat \X Nat)]
      BY <2>2, <2>4
    <2>8. h \in Nat \ {0} /\ DOMAIN N2 = D \cup {q} /\ DOMAIN N2 \subseteq Nat /\ root \in DOMAIN N2
      BY <1>0, <1>1, <1>9 DEF IsCut
    <2> QED
      BY <1>9, <2>6, <2>7, <2>8 DEF Typed
  \* The pages besides p on its level, and besides f on its level.
  <1>M. \A r, t \in D : lv[r] = lv[t] /\ at[r] < at[t] => off[r] + K(N, r) <= off[t]
    BY DEF Tree, Flat
  <1>Y. /\ \A r \in D : lv[r] = a /\ r # p => at[r] < j0 \/ at[r] > j0
        /\ \A r \in D : lv[r] = a /\ at[r] < j0 => off[r] + K(N, r) <= off[p]
        /\ \A r \in D : lv[r] = a /\ at[r] > j0 => off[p] + K(N, p) <= off[r]
    <2>1. \A r \in D : lv[r] = a /\ r # p => at[r] # j0
      BY <1>0, <1>N, SamePlace
    <2>2. \A r \in D : lv[r] = a /\ r # p => at[r] < j0 \/ at[r] > j0
      BY <2>1, <1>P, <1>N
    <2>3. \A r \in D : lv[r] = a /\ at[r] < j0 => off[r] + K(N, r) <= off[p]
      BY <1>M, <1>0, <1>N
    <2>4. \A r \in D : lv[r] = a /\ at[r] > j0 => off[p] + K(N, p) <= off[r]
      BY <1>M, <1>0, <1>P, <1>N
    <2> QED
      BY <2>2, <2>3, <2>4
  <1>Z. /\ \A r \in D : lv[r] = b /\ r # f => at[r] < at[f] \/ at[r] > at[f]
        /\ \A r \in D : lv[r] = b /\ at[r] < at[f] => off[r] + K(N, r) <= off[f]
        /\ \A r \in D : lv[r] = b /\ at[r] > at[f] => off[f] + K(N, f) <= off[r]
    <2>1. \A r \in D : lv[r] = b /\ r # f => at[r] # at[f]
      BY <1>0, <1>N, SamePlace
    <2>2. \A r \in D : lv[r] = b /\ r # f => at[r] < at[f] \/ at[r] > at[f]
      BY <2>1, <1>P, <1>N
    <2>3. \A r \in D : lv[r] = b /\ at[r] < at[f] => off[r] + K(N, r) <= off[f]
      BY <1>M, <1>0, <1>N
    <2>4. \A r \in D : lv[r] = b /\ at[r] > at[f] => off[f] + K(N, f) <= off[r]
      BY <1>M, <1>0, <1>P, <1>N
    <2> QED
      BY <2>2, <2>3, <2>4
  <1>e. Flat(N2, root, h, lv2, at2, off2, F2)
    <2>1. \A r \in D \cup {q} : r # root \/ h > 1 => K(N2, r) # 0
      <3>1. \A r \in D : r # root \/ h > 1 => K(N, r) # 0
        BY DEF Tree, Flat
      <3>2. K(N2, p) # 0 /\ K(N2, q) # 0 /\ K(N2, f) # 0
        BY <1>m, <1>N, <1>9, <1>k DEF IsCut
      <3> QED
        BY <1>b, <3>1, <3>2
    <2>2. \A r \in D \cup {q} : off2[r] + K(N2, r) <= W(F2, lv2[r])
      <3>1. \A r \in D : off[r] + K(N, r) <= W(F, lv[r])
        BY DEF Tree, Flat
      <3>2. ASSUME NEW r \in D, lv[r] # b, r # p
            PROVE  off2[r] + K(N2, r) <= W(F2, lv2[r])
        BY <3>1, <3>2, <1>b, <1>c, <1>P, <1>N
      <3>3. ASSUME NEW r \in D, lv[r] = b
            PROVE  off2[r] + K(N2, r) <= W(F2, lv2[r])
        <4>1. off[r] + K(N, r) <= W(F, b) /\ r # p
          BY <3>1, <3>3, <1>N, <1>2
        <4>2. off[r] \in Nat /\ K(N, r) \in Nat /\ W(F, b) \in Nat
          BY <1>P, <1>N
        <4>3. CASE r = f
          BY <4>1, <4>2, <4>3, <3>3, <1>c, <1>k, <1>N
        <4>4. CASE r # f /\ at[r] < at[f]
          BY <4>1, <4>2, <4>4, <3>3, <1>c, <1>b, <1>P, <1>N
        <4>5. CASE r # f /\ at[r] > at[f]
          BY <4>1, <4>2, <4>5, <3>3, <1>c, <1>b, <1>P, <1>N
        <4> QED
          BY <4>3, <4>4, <4>5, <3>3, <1>Z
      <3>4. off2[p] + K(N2, p) <= W(F2, lv2[p]) /\ off2[q] + K(N2, q) <= W(F2, lv2[q])
        BY <1>0, <1>c, <1>k, <1>N
      <3> QED
        BY <3>2, <3>3, <3>4
    <2>3. \A r \in D \cup {q} : \A s \in 1 .. K(N2, r) : N2[r].entries[s] = F2[lv2[r]][off2[r] + s]
      <3>1. \A r \in D : \A s \in 1 .. K(N, r) : N[r].entries[s] = F[lv[r]][off[r] + s]
        BY DEF Tree, Flat
      <3>2. ASSUME NEW r \in D, lv[r] # b, r # p, NEW s \in 1 .. K(N2, r)
            PROVE  N2[r].entries[s] = F2[lv2[r]][off2[r] + s]
        <4>1. r # f /\ K(N2, r) = K(N, r) /\ N2[r] = N[r]
          BY <3>2, <1>b, <1>9, <1>N DEF IsCut
        <4>2. F2[lv2[r]] = F[lv[r]] /\ off2[r] = off[r]
          BY <3>2, <1>c, <1>P
        <4> QED
          BY <3>1, <3>2, <4>1, <4>2
      <3>3. ASSUME NEW r \in D, lv[r] = b, r # f, NEW s \in 1 .. K(N2, r)
            PROVE  N2[r].entries[s] = F2[lv2[r]][off2[r] + s]
        <4>1. r # p /\ K(N2, r) = K(N, r) /\ N2[r] = N[r]
          BY <3>3, <1>b, <1>9, <1>N, <1>2 DEF IsCut
        <4>2. F2[lv2[r]] = Fb /\ off[r] \in Nat /\ K(N, r) \in Nat /\ N2[r].entries[s] = F[b][off[r] + s]
          BY <3>1, <3>3, <4>1, <1>c, <1>P
        <4>3. CASE at[r] < at[f]
          <5>1. off2[r] = off[r] /\ off[r] + K(N, r) <= off[f]
            BY <3>3, <4>3, <1>c, <1>Z, <1>P, <1>N
          <5>2. off[r] + s \in 1 .. j0 - 1
            BY <5>1, <4>1, <4>2, <1>N
          <5> QED
            BY <4>2, <5>1, <5>2, <1>7 DEF IsParted
        <4>4. CASE at[r] > at[f]
          <5>1. off2[r] = off[r] + 1 /\ off[f] + K(N, f) <= off[r]
            BY <3>3, <4>4, <1>c, <1>Z
          <5>2. off[r] + K(N, r) <= W(F, b)
            BY <3>3 DEF Tree, Flat
          <5>3. off[r] + 1 + s \in j0 + 2 .. W(F, b) + 1 /\ off[r] + 1 + s - 1 = off[r] + s
            BY <5>1, <5>2, <4>1, <4>2, <1>N
          <5> QED
            BY <4>2, <5>1, <5>3, <1>7 DEF IsParted
        <4> QED
          BY <3>3, <4>3, <4>4, <1>Z
      <3>4. ASSUME NEW s \in 1 .. K(N2, f)
            PROVE  N2[f].entries[s] = F2[lv2[f]][off2[f] + s]
        <4>1. F2[lv2[f]] = Fb /\ off2[f] = off[f]
          BY <1>0, <1>c, <1>N
        <4>2. IsParted(N2[f].entries, N[f].entries, K(N, f), pos, e, Child(q))
          BY <1>5, <1>9 DEF IsCut
        <4>3. CASE s < pos
          <5>1. s \in 1 .. pos - 1 /\ off[f] + s \in 1 .. j0 - 1 /\ s \in 1 .. K(N, f)
            BY <4>3, <1>N
          <5> QED
            BY <5>1, <4>1, <4>2, <3>1, <1>0, <1>7, <1>N, ZenonT(40) DEF IsParted
        <4>4. CASE s = pos
          BY <4>1, <4>2, <4>4, <1>7, <1>N DEF IsParted
        <4>5. CASE s = pos + 1
          <5>1. off[f] + s = j0 + 1
            BY <4>5, <1>N
          <5> QED
            BY <5>1, <4>1, <4>2, <4>5, <1>7, <1>2 DEF IsParted
        <4>6. CASE s > pos + 1
          <5>1. s \in pos + 2 .. K(N, f) + 1 /\ s - 1 \in 1 .. K(N, f)
            BY <4>6, <1>k, <1>m, <1>N
          <5>2. off[f] + s \in j0 + 2 .. W(F, b) + 1 /\ off[f] + s - 1 = off[f] + (s - 1)
            BY <5>1, <1>N
          <5>3. N2[f].entries[s] = N[f].entries[s - 1]
            BY <5>1, <4>2 DEF IsParted
          <5>4. N[f].entries[s - 1] = F[b][off[f] + (s - 1)]
            BY <5>1, <3>1, <1>0, <1>N
          <5>5. Fb[off[f] + s] = F[b][off[f] + s - 1]
            <6>1. off[f] \in Nat /\ s \in Nat
              BY <1>N, <5>1
            <6> QED
              BY <5>2, <6>1, <1>p
          <5> QED
            BY <5>2, <5>3, <5>4, <5>5, <4>1
        <4> QED
          BY <4>3, <4>4, <4>5, <4>6, <1>m, <1>k, <1>N
      <3>5. ASSUME NEW s \in 1 .. K(N2, p)
            PROVE  N2[p].entries[s] = F2[lv2[p]][off2[p] + s]
        <4>1. F2[lv2[p]] = F[a] /\ off2[p] = off[p]
          BY <1>0, <1>1, <1>c, <1>N, <1>2
        <4>2. s \in 1 .. m /\ s \in 1 .. K(N, p)
          BY <1>k, <1>m, <1>N
        <4> QED
          BY <4>1, <4>2, <1>4, <1>9 DEF IsCut
      <3>6. ASSUME NEW s \in 1 .. K(N2, q)
            PROVE  N2[q].entries[s] = F2[lv2[q]][off2[q] + s]
        <4>1. F2[lv2[q]] = F[a] /\ off2[q] = off[p] + m
          BY <1>1, <1>c, <1>N, <1>2
        <4>2. s \in 1 .. K(N, p) - m /\ m + s \in 1 .. K(N, p) /\ off[p] + (m + s) = off[p] + m + s
          BY <1>k, <1>m, <1>N
        <4> QED
          BY <4>1, <4>2, <1>4, <1>9 DEF IsCut
      <3> QED
        BY <3>2, <3>3, <3>4, <3>5, <3>6
    <2>4. \A r, t \in D \cup {q} : lv2[r] = lv2[t] /\ at2[r] < at2[t] => off2[r] + K(N2, r) <= off2[t]
      <3>1. ASSUME NEW r \in D, NEW t \in D, lv[r] = lv[t], at2[r] < at2[t], lv[r] # a, lv[r] # b
            PROVE  off2[r] + K(N2, r) <= off2[t]
        <4>1. at2[r] = at[r] /\ at2[t] = at[t] /\ off2[r] = off[r] /\ off2[t] = off[t] /\ r # p /\ r # f
          BY <3>1, <1>c, <1>N
        <4> QED
          BY <3>1, <4>1, <1>M, <1>b
      <3>2. ASSUME NEW r \in D, NEW t \in D, lv[r] = b, lv[t] = b, at2[r] < at2[t]
            PROVE  off2[r] + K(N2, r) <= off2[t]
        <4>1. /\ at2[r] = at[r] /\ at2[t] = at[t] /\ r # p /\ at[r] \in Nat /\ at[t] \in Nat
              /\ off[r] \in Nat /\ off[t] \in Nat /\ K(N, r) \in Nat
          BY <3>2, <1>c, <1>N, <1>P
        <4>2. at[r] < at[t] /\ off[r] + K(N, r) <= off[t]
          BY <3>2, <4>1, <1>M
        <4>3. CASE r = f
          <5>1. off2[r] = off[r] /\ off2[t] = off[t] + 1 /\ K(N2, r) = K(N, r) + 1
            BY <3>2, <4>1, <4>2, <4>3, <1>c, <1>k, <1>N
          <5> QED
            BY <4>1, <4>2, <5>1
        <4>4. CASE r # f
          <5>1. K(N2, r) = K(N, r)
            BY <4>1, <4>4, <1>b
          <5>2. off2[r] = off[r] \/ (off2[r] = off[r] + 1 /\ off2[t] = off[t] + 1)
            BY <3>2, <4>1, <4>2, <1>c, <1>N
          <5>3. off2[t] = off[t] \/ off2[t] = off[t] + 1
            BY <3>2, <1>c
          <5> QED
            BY <4>1, <4>2, <5>1, <5>2, <5>3
        <4> QED
          BY <4>3, <4>4
      <3>3. ASSUME NEW r \in D, NEW t \in D, lv[r] = a, lv[t] = a, at2[r] < at2[t]
            PROVE  off2[r] + K(N2, r) <= off2[t]
        <4>1. /\ off2[r] = off[r] /\ off2[t] = off[t] /\ r # f /\ at[r] \in Nat /\ at[t] \in Nat
              /\ off[r] \in Nat /\ off[t] \in Nat /\ K(N, r) \in Nat
          BY <3>3, <1>c, <1>N, <1>P
        <4>2. at[r] < at[t]
          BY <3>3, <4>1, <1>c, <1>N
        <4>3. off[r] + K(N, r) <= off[t]
          BY <3>3, <4>2, <1>M
        <4>4. K(N2, r) <= K(N, r) /\ K(N2, r) \in Nat
          BY <4>1, <1>b, <1>k, <1>N
        <4> QED
          BY <4>1, <4>3, <4>4
      <3>4. ASSUME NEW r \in D, lv[r] = a, at2[r] < at2[q]
            PROVE  off2[r] + K(N2, r) <= off2[q]
        <4>1. off2[r] = off[r] /\ off2[q] = x /\ r # f /\ at[r] \in Nat /\ off[r] \in Nat /\ K(N, r) \in Nat
          BY <3>4, <1>c, <1>N, <1>P
        <4>2. at[r] <= j0
          BY <3>4, <4>1, <1>c, <1>N
        <4>3. CASE r = p
          BY <4>1, <4>3, <1>k, <1>N
        <4>4. CASE r # p
          <5>1. off[r] + K(N, r) <= off[p] /\ K(N2, r) = K(N, r)
            BY <3>4, <4>1, <4>2, <4>4, <1>Y, <1>b, <1>N
          <5> QED
            BY <5>1, <4>1, <1>N
        <4> QED
          BY <4>3, <4>4
      <3>5. ASSUME NEW t \in D, lv[t] = a, at2[q] < at2[t]
            PROVE  off2[q] + K(N2, q) <= off2[t]
        <4>1. off2[t] = off[t] /\ off2[q] = x /\ at[t] \in Nat /\ off[t] \in Nat
          BY <3>5, <1>c, <1>N, <1>P
        <4>2. at[t] > j0
          BY <3>5, <4>1, <1>c, <1>N
        <4>3. off[p] + K(N, p) <= off[t]
          BY <3>5, <4>2, <1>Y
        <4> QED
          BY <4>1, <4>3, <1>k, <1>N
      <3>6. lv2[q] = a /\ \A r \in D : lv2[r] = lv[r]
        BY <1>c
      <3>7. at2[q] \in Nat
        BY <1>c, <1>N
      <3> QED
        BY <3>1, <3>2, <3>3, <3>4, <3>5, <3>6, <3>7
    <2>5. \A i \in 0 .. h - 1 : \A j \in 1 .. W(F2, i) :
            \E r \in D \cup {q} : lv2[r] = i /\ off2[r] < j /\ j <= off2[r] + K(N2, r)
      <3>0. \A i \in 0 .. h - 1 : \A j \in 1 .. W(F, i) :
              \E r \in D : lv[r] = i /\ off[r] < j /\ j <= off[r] + K(N, r)
        BY DEF Tree, Flat
      <3>1. ASSUME NEW i \in 0 .. h - 1, i # b, NEW j \in 1 .. W(F2, i)
            PROVE  \E r \in D \cup {q} : lv2[r] = i /\ off2[r] < j /\ j <= off2[r] + K(N2, r)
        <4>1. W(F2, i) = W(F, i)
          BY <3>1, <1>c
        <4>2. PICK r \in D : lv[r] = i /\ off[r] < j /\ j <= off[r] + K(N, r)
          BY <3>0, <4>1
        <4>3. lv2[r] = i /\ off2[r] = off[r] /\ r # f /\ off[r] \in Nat /\ K(N, r) \in Nat /\ j \in Nat
          BY <3>1, <4>1, <4>2, <1>c, <1>N, <1>P
        <4>4. CASE r # p
          BY <4>2, <4>3, <4>4, <1>b
        <4>5. CASE r = p
          <5>1. j <= off[p] + m \/ (x < j /\ j <= x + K(N2, q) /\ lv2[q] = i /\ off2[q] = x)
            BY <4>2, <4>3, <4>5, <1>N, <1>k, <1>c
          <5> QED
            BY <5>1, <4>2, <4>3, <4>5, <1>k
        <4> QED
          BY <4>4, <4>5
      <3>2. ASSUME NEW j \in 1 .. W(F2, b)
            PROVE  \E r \in D \cup {q} : lv2[r] = b /\ off2[r] < j /\ j <= off2[r] + K(N2, r)
        <4>1. j \in 1 .. W(F, b) + 1 /\ j \in Nat
          BY <1>c, <1>N
        <4>2. CASE off[f] < j /\ j <= off[f] + K(N, f) + 1
          <5>1. lv2[f] = b /\ off2[f] = off[f] /\ K(N2, f) = K(N, f) + 1
            BY <1>0, <1>c, <1>k, <1>N
          <5> QED
            BY <5>1, <4>1, <4>2, <1>0, <1>N
        <4>3. CASE j <= off[f]
          <5>1. j \in 1 .. W(F, b) /\ b \in 0 .. h - 1
            BY <4>1, <4>3, <1>N
          <5>2. PICK r \in D : lv[r] = b /\ off[r] < j /\ j <= off[r] + K(N, r)
            BY <5>1, <3>0
          <5>3. off[r] \in Nat /\ K(N, r) \in Nat /\ at[r] \in Nat /\ r # p
            BY <5>2, <1>P, <1>N
          <5>4. r # f
            BY <4>3, <5>2, <5>3, <4>1, <1>N
          <5>5. ~ (at[r] > at[f])
            BY <4>1, <4>3, <5>2, <5>3, <1>Z, <1>N
          <5>6. lv2[r] = b /\ off2[r] = off[r] /\ K(N2, r) = K(N, r)
            BY <5>2, <5>3, <5>4, <5>5, <1>b, <1>c
          <5> QED
            BY <5>2, <5>6
        <4>4. CASE off[f] + K(N, f) + 1 < j
          <5>1. j - 1 \in 1 .. W(F, b) /\ b \in 0 .. h - 1
            BY <4>1, <4>4, <1>N
          <5>2. PICK r \in D : lv[r] = b /\ off[r] < j - 1 /\ j - 1 <= off[r] + K(N, r)
            BY <5>1, <3>0
          <5>3. off[r] \in Nat /\ K(N, r) \in Nat /\ at[r] \in Nat /\ r # p
            BY <5>2, <1>P, <1>N
          <5>4. r # f
            BY <4>4, <5>2, <5>3, <4>1, <1>N
          <5>5. ~ (at[r] < at[f])
            BY <4>1, <4>4, <5>2, <5>3, <1>Z, <1>N
          <5>6. lv2[r] = b /\ off2[r] = off[r] + 1 /\ K(N2, r) = K(N, r)
            BY <5>2, <5>3, <5>4, <5>5, <1>b, <1>c, <1>Z
          <5> QED
            BY <5>2, <5>3, <5>6, <4>1
        <4> QED
          BY <4>1, <4>2, <4>3, <4>4, <1>N
      <3> QED
        BY <3>1, <3>2
    <2> QED
      BY <1>9, <2>1, <2>2, <2>3, <2>4, <2>5 DEF Flat, IsCut
  <1>f. Linked(N2, root, h, lv2, at2, F2)
    <2>0. /\ \A r \in D : lv[r] = 0 => r = root
          /\ lv[root] = 0 /\ at[root] = 1
          /\ \A r \in D : lv[r] # 0 =>
               at[r] <= W(F, lv[r] - 1) /\ F[lv[r] - 1][at[r]] = Entry(MaxKey(N[r]), Child(r))
      BY DEF Tree, Linked
    <2>1. \A r \in D \cup {q} : lv2[r] = 0 => r = root
      BY <2>0, <1>c, <1>N
    <2>2. lv2[root] = 0 /\ at2[root] = 1
      BY <2>0, <1>1, <1>c, <1>N
    <2>3. ASSUME NEW r \in D, r # p
          PROVE  MaxKey(N2[r]) = MaxKey(N[r])
      <3>1. CASE r # f
        BY <3>1, <2>3, <1>9 DEF IsCut
      <3>2. CASE r = f
        <4>1. IsParted(N2[f].entries, N[f].entries, K(N, f), pos, e, Child(q))
          BY <1>5, <1>9 DEF IsCut
        <4>2. CASE pos = K(N, f)
          <5>1. N2[f].entries[pos + 1] = Entry(N[f].entries[pos].key, Child(q))
            BY <4>1 DEF IsParted
          <5> QED
            BY <5>1, <4>2, <3>2, <1>k DEF MaxKey, numKeys, K, Entry
        <4>3. CASE pos # K(N, f)
          <5>1. K(N, f) + 1 \in pos + 2 .. K(N, f) + 1 /\ K(N, f) + 1 - 1 = K(N, f)
            BY <4>3, <1>N
          <5>2. N2[f].entries[K(N, f) + 1] = N[f].entries[K(N, f)]
            BY <5>1, <4>1, <1>N DEF IsParted
          <5> QED
            BY <5>2, <3>2, <1>k DEF MaxKey, numKeys, K
        <4> QED
          BY <4>2, <4>3
      <3> QED
        BY <3>1, <3>2
    <2>4. MaxKey(N2[p]) = F[a][x].key
      <3>1. N2[p].entries[m] = N[p].entries[m]
        BY <1>9, <1>N DEF IsCut
      <3>2. MaxKey(N2[p]) = N2[p].entries[m].key
        BY <1>k DEF MaxKey, numKeys, K
      <3> QED
        BY <3>1, <3>2, <1>4
    <2>5. MaxKey(N2[q]) = MaxKey(N[p])
      <3>1. K(N, p) - m \in 1 .. K(N, p) - m /\ m + (K(N, p) - m) = K(N, p)
        BY <1>N
      <3>2. N2[q].entries[K(N, p) - m] = N[p].entries[K(N, p)]
        BY <3>1, <1>9 DEF IsCut
      <3>3. MaxKey(N2[q]) = N2[q].entries[K(N, p) - m].key
        BY <1>k DEF MaxKey, numKeys, K
      <3> QED
        BY <3>2, <3>3 DEF MaxKey, numKeys, K
    <2>6. F[b][j0] = Entry(MaxKey(N[p]), Child(p))
      BY <2>0, <1>0, <1>N
    <2>7. \A r \in D \cup {q} : lv2[r] # 0 =>
            at2[r] <= W(F2, lv2[r] - 1) /\ F2[lv2[r] - 1][at2[r]] = Entry(MaxKey(N2[r]), Child(r))
      <3>1. ASSUME NEW r \in D, lv[r] # 0, lv[r] # a
            PROVE  at2[r] <= W(F2, lv2[r] - 1) /\ F2[lv2[r] - 1][at2[r]] = Entry(MaxKey(N2[r]), Child(r))
        <4>1. r # p /\ at2[r] = at[r] /\ lv2[r] = lv[r] /\ lv[r] - 1 # b /\ lv[r] - 1 \in 0 .. h - 1
          BY <3>1, <1>c, <1>N, <1>P
        <4>2. F2[lv[r] - 1] = F[lv[r] - 1] /\ W(F2, lv[r] - 1) = W(F, lv[r] - 1)
          BY <4>1, <1>c
        <4> QED
          BY <4>1, <4>2, <3>1, <2>0, <2>3
      <3>2. ASSUME NEW r \in D, lv[r] = a, r # p
            PROVE  at2[r] <= W(F2, a - 1) /\ F2[a - 1][at2[r]] = Entry(MaxKey(N2[r]), Child(r))
        <4>1. a - 1 = b /\ F2[b] = Fb /\ W(F2, b) = W(F, b) + 1 /\ at[r] \in Nat /\ at[r] >= 1
          BY <1>c, <1>N, <1>P
        <4>2. at[r] <= W(F, b) /\ F[b][at[r]] = Entry(MaxKey(N2[r]), Child(r))
          BY <4>1, <3>2, <2>0, <2>3, <1>N
        <4>3. CASE at[r] < j0
          <5>1. at2[r] = at[r] /\ at[r] \in 1 .. j0 - 1
            BY <3>2, <4>1, <4>3, <1>c, <1>N
          <5> QED
            BY <5>1, <4>1, <4>2, <1>p, <1>N
        <4>4. CASE at[r] > j0
          <5>1. at2[r] = at[r] + 1 /\ at[r] + 1 \in j0 + 2 .. W(F, b) + 1 /\ at[r] + 1 - 1 = at[r]
            BY <3>2, <4>1, <4>2, <4>4, <1>c, <1>N
          <5>2. Fb[at[r] + 1] = F[b][at[r]]
            BY <5>1, <4>1, <1>p
          <5> QED
            BY <5>1, <5>2, <4>1, <4>2, <1>N
        <4> QED
          BY <3>2, <4>3, <4>4, <1>Y
      <3>3. at2[p] <= W(F2, a - 1) /\ F2[a - 1][at2[p]] = Entry(MaxKey(N2[p]), Child(p))
        <4>1. a - 1 = b /\ F2[b] = Fb /\ W(F2, b) = W(F, b) + 1 /\ at2[p] = j0 /\ j0 <= W(F, b)
          BY <1>c, <1>N, <1>0
        <4> QED
          BY <4>1, <2>4, <1>p, <1>N DEF e
      <3>4. at2[q] <= W(F2, a - 1) /\ F2[a - 1][at2[q]] = Entry(MaxKey(N2[q]), Child(q))
        <4>1. a - 1 = b /\ F2[b] = Fb /\ W(F2, b) = W(F, b) + 1 /\ at2[q] = j0 + 1 /\ j0 <= W(F, b)
          BY <1>c, <1>N
        <4> QED
          BY <4>1, <2>5, <2>6, <1>p, <1>N DEF Entry
      <3>5. lv2[q] = a /\ \A r \in D : lv2[r] = lv[r]
        BY <1>c
      <3> QED
        BY <3>1, <3>2, <3>3, <3>4, <3>5
    <2>8. ASSUME NEW i \in 0 .. h - 2, NEW j \in 1 .. W(F2, i)
          PROVE  F2[i][j].rid[1] \in D \cup {q} /\ lv2[F2[i][j].rid[1]] = i + 1 /\ at2[F2[i][j].rid[1]] = j
      <3>1. CASE i # b
        <4>1. i \in 0 .. h - 1 /\ i \in Nat
          BY <1>N
        <4>2. F2[i] = F[i] /\ j \in 1 .. W(F, i)
          BY <4>1, <3>1, <1>c
        <4> DEFINE c == F[i][j].rid[1]
        <4>3. c \in D /\ lv[c] = i + 1 /\ at[c] = j
          BY <4>2, Under
        <4> HIDE DEF c
        <4>4. lv2[c] = i + 1 /\ at2[c] = j
          BY <4>1, <4>3, <3>1, <1>c, <1>N
        <4> QED
          BY <4>2, <4>3, <4>4 DEF c
      <3>2. CASE i = b
        <4>1. F2[i] = Fb /\ j \in Nat /\ j >= 1 /\ j <= W(F, b) + 1
          BY <3>2, <1>c, <1>N
        <4>2. ASSUME NEW g \in 1 .. W(F, b)
              PROVE  /\ F[b][g].rid[1] \in D /\ lv2[F[b][g].rid[1]] = i + 1
                     /\ at2[F[b][g].rid[1]] = IF g > j0 THEN g + 1 ELSE g
          <5>1. b \in 0 .. h - 2
            BY <1>N
          <5> DEFINE c == F[b][g].rid[1]
          <5>2. c \in D /\ lv[c] = b + 1 /\ at[c] = g
            BY <5>1, Under
          <5> HIDE DEF c
          <5>3. lv2[c] = i + 1 /\ at2[c] = IF g > j0 THEN g + 1 ELSE g
            BY <5>2, <3>2, <1>c, <1>N
          <5> QED
            BY <5>2, <5>3 DEF c
        <4>3. CASE j < j0
          <5>1. j \in 1 .. j0 - 1 /\ j \in 1 .. W(F, b) /\ ~(j > j0)
            BY <4>1, <4>3, <1>N
          <5>2. Fb[j] = F[b][j]
            BY <5>1, <1>p
          <5> QED
            BY <5>1, <5>2, <4>1, <4>2
        <4>4. CASE j = j0
          <5>1. Fb[j].rid[1] = p /\ lv2[p] = i + 1 /\ at2[p] = j
            BY <4>4, <3>2, <1>0, <1>p, <1>c, <1>N DEF e, Entry, Child
          <5> QED
            BY <5>1, <4>1, <1>0
        <4>5. CASE j = j0 + 1
          <5>1. Fb[j].rid[1] = q /\ lv2[q] = i + 1 /\ at2[q] = j
            BY <4>5, <3>2, <1>p, <1>c, <1>N DEF Entry, Child
          <5> QED
            BY <5>1, <4>1
        <4>6. CASE j > j0 + 1
          <5>1. j \in j0 + 2 .. W(F, b) + 1 /\ j - 1 \in 1 .. W(F, b) /\ j - 1 > j0 /\ j - 1 + 1 = j
            BY <4>1, <4>6, <1>N
          <5>2. Fb[j] = F[b][j - 1]
            BY <5>1, <1>p
          <5> QED
            BY <5>1, <5>2, <4>1, <4>2
        <4> QED
          BY <4>1, <4>3, <4>4, <4>5, <4>6, <1>N
      <3> QED
        BY <3>1, <3>2
    <2> QED
      BY <1>9, <2>1, <2>2, <2>7, <2>8 DEF Linked, IsCut
  <1>g. Chained(N2, lv2, at2, F2)
    <2>0. \A r \in D :
            /\ IF at[r] = Width(F, lv[r]) THEN N[r].right = NoPage
               ELSE N[r].right \in D /\ lv[N[r].right] = lv[r] /\ at[N[r].right] = at[r] + 1
            /\ IF at[r] = 1 THEN N[r].left = NoPage
               ELSE N[r].left \in D /\ lv[N[r].left] = lv[r] /\ at[N[r].left] < at[r]
      BY DEF Tree, Chained
    <2>1. /\ Width(F, a) = W(F, b) /\ Width(F2, a) = W(F, b) + 1
          /\ \A i \in 0 .. h - 1 : i # a => Width(F2, i) = Width(F, i)
      <3>1. a # 0 /\ a - 1 = b
        BY <1>N
      <3>2. ASSUME NEW i \in 0 .. h - 1, i # a
            PROVE  Width(F2, i) = Width(F, i)
        <4>1. CASE i = 0
          BY <4>1 DEF Width
        <4>2. CASE i # 0
          <5>1. i - 1 \in 0 .. h - 1 /\ i - 1 # b
            BY <3>2, <4>2, <1>N
          <5> QED
            BY <5>1, <4>2, <1>c DEF Width
        <4> QED
          BY <4>1, <4>2
      <3> QED
        BY <3>1, <3>2, <1>c DEF Width
    <2> HIDE DEF Width
    <2>2. \A r \in D : r # p => N2[r].right = N[r].right /\ N2[r].left = N[r].left
      BY <1>9 DEF IsCut
    <2>3. \A r \in D : at[r] \in Nat /\ at[r] >= 1 /\ lv[r] \in 0 .. h - 1
      BY <1>P
    <2>4. /\ \A r \in D : lv2[r] = lv[r]
          /\ \A r \in D : at2[r] = IF lv[r] = a /\ at[r] > j0 THEN at[r] + 1 ELSE at[r]
          /\ lv2[q] = a /\ at2[q] = j0 + 1
      BY <1>c
    <2>5. ASSUME NEW r \in D, r # p
          PROVE  IF at2[r] = Width(F2, lv2[r]) THEN N2[r].right = NoPage
                 ELSE N2[r].right \in D \cup {q} /\ lv2[N2[r].right] = lv2[r] /\ at2[N2[r].right] = at2[r] + 1
      <3> DEFINE t == N[r].right
      <3>1. IF at[r] = Width(F, lv[r]) THEN t = NoPage ELSE t \in D /\ lv[t] = lv[r] /\ at[t] = at[r] + 1
        BY <2>0
      <3>2. N2[r].right = t
        BY <2>5, <2>2
      <3> HIDE DEF t
      <3>3. at[r] \in Nat /\ (t \in D => at[t] \in Nat) /\ lv2[r] = lv[r] /\ (t \in D => lv2[t] = lv[t])
        BY <2>3, <2>4
      <3>4. CASE lv[r] # a
        <4>1. Width(F2, lv2[r]) = Width(F, lv[r]) /\ at2[r] = at[r]
          BY <3>3, <3>4, <2>1, <2>3, <2>4
        <4>2. t \in D /\ lv[t] = lv[r] => at2[t] = at[t]
          BY <3>4, <2>4
        <4> QED
          BY <3>1, <3>2, <3>3, <4>1, <4>2
      <3>5. CASE lv[r] = a /\ at[r] < j0
        <4>1. at2[r] = at[r] /\ at[r] # Width(F, a) /\ at2[r] # Width(F2, lv2[r])
          BY <3>3, <3>5, <2>1, <2>4, <1>N
        <4>2. t \in D /\ lv[t] = lv[r] /\ at[t] = at[r] + 1
          BY <3>1, <3>5, <4>1
        <4>3. at2[t] = at2[r] + 1
          BY <3>3, <3>5, <4>1, <4>2, <2>4, <1>N
        <4> QED
          BY <3>2, <3>3, <4>1, <4>2, <4>3
      <3>6. CASE lv[r] = a /\ at[r] > j0
        <4>1. at2[r] = at[r] + 1 /\ (at[r] = Width(F, a) <=> at2[r] = Width(F2, lv2[r]))
          BY <3>3, <3>6, <2>1, <2>4, <1>N
        <4>2. CASE at[r] = Width(F, a)
          BY <4>1, <4>2, <3>1, <3>2, <3>6
        <4>3. CASE at[r] # Width(F, a)
          <5>1. t \in D /\ lv[t] = lv[r] /\ at[t] = at[r] + 1
            BY <3>1, <3>6, <4>3
          <5>2. at2[t] = at2[r] + 1
            BY <3>3, <3>6, <4>1, <5>1, <2>4, <1>N
          <5> QED
            BY <3>2, <3>3, <4>1, <4>3, <5>1, <5>2
        <4> QED
          BY <4>2, <4>3
      <3> QED
        BY <3>4, <3>5, <3>6, <2>5, <1>Y
    <2>6. ASSUME NEW r \in D
          PROVE  IF at2[r] = 1 THEN N2[r].left = NoPage
                 ELSE N2[r].left \in D \cup {q} /\ lv2[N2[r].left] = lv2[r] /\ at2[N2[r].left] < at2[r]
      <3> DEFINE t == N[r].left
      <3>1. IF at[r] = 1 THEN t = NoPage ELSE t \in D /\ lv[t] = lv[r] /\ at[t] < at[r]
        BY <2>0
      <3>2. N2[r].left = t
        BY <2>2, <1>9 DEF IsCut
      <3> HIDE DEF t
      <3>3. at[r] \in Nat /\ at[r] >= 1 /\ (t \in D => at[t] \in Nat) /\ lv2[r] = lv[r] /\ (t \in D => lv2[t] = lv[t])
        BY <2>3, <2>4
      <3>4. at2[r] = 1 <=> at[r] = 1
        BY <3>3, <2>4, <1>N
      <3>5. t \in D /\ lv[t] = lv[r] /\ at[t] < at[r] => at2[t] < at2[r]
        BY <3>3, <2>4, <1>N
      <3> QED
        BY <3>1, <3>2, <3>3, <3>4, <3>5
    <2>7. at2[p] # Width(F2, lv2[p]) /\ N2[p].right = q /\ lv2[q] = lv2[p] /\ at2[q] = at2[p] + 1
      <3>1. at2[p] = j0 /\ lv2[p] = a /\ j0 <= W(F, b)
        BY <1>0, <2>4, <1>N
      <3> QED
        BY <3>1, <2>1, <2>4, <1>9, <1>N DEF IsCut
    <2>8. IF at2[q] = Width(F2, lv2[q]) THEN N2[q].right = NoPage
          ELSE N2[q].right \in D \cup {q} /\ lv2[N2[q].right] = lv2[q] /\ at2[N2[q].right] = at2[q] + 1
      <3> DEFINE t == N[p].right
      <3>1. IF at[p] = Width(F, lv[p]) THEN t = NoPage ELSE t \in D /\ lv[t] = lv[p] /\ at[t] = at[p] + 1
        BY <2>0, <1>0
      <3>2. N2[q].right = t
        BY <1>9 DEF IsCut
      <3> HIDE DEF t
      <3>3. at2[q] = j0 + 1 /\ (at2[q] = Width(F2, lv2[q]) <=> at[p] = Width(F, lv[p]))
        BY <2>1, <2>4, <1>N
      <3>4. t \in D /\ lv[t] = lv[p] /\ at[t] = at[p] + 1 => lv2[t] = lv2[q] /\ at2[t] = at2[q] + 1
        BY <2>3, <2>4, <1>N
      <3> QED
        BY <3>1, <3>2, <3>3, <3>4
    <2>9. at2[q] # 1 /\ N2[q].left = p /\ p \in D /\ lv2[p] = lv2[q] /\ at2[p] < at2[q]
      BY <1>0, <2>4, <1>9, <1>N DEF IsCut
    <2> QED
      <3>1. DOMAIN N2 = D \cup {q}
        BY <1>9 DEF IsCut
      <3> HIDE DEF D
      <3> QED
        BY <3>1, <2>5, <2>6, <2>7, <2>8, <2>9, <1>0 DEF Chained
  \* The order of the keys, and where the new entry stands in it.
  <1>K. \A i \in 0 .. h - 1 : \A j, k \in 1 .. W(F, i) : j <= k => F[i][j].key <= F[i][k].key
    BY DEF Tree, Ordered
  <1>Q. \A i \in 0 .. h - 1 : \A j \in 1 .. W(F, i) : F[i][j].key \in Nat
    <2>1. ASSUME NEW i \in 0 .. h - 1, NEW j \in 1 .. W(F, i)
          PROVE  F[i][j].key \in Nat
      <3>1. F[i] \in Seq(EntrySet) /\ j \in 1 .. Len(F[i])
        BY <1>F DEF W
      <3> QED
        BY <3>1, MakeEntry, <1>0, <1>1
    <2> QED
      BY <2>1
  <1>U. ASSUME NEW j \in 1 .. W(F, b), NEW c, c = F[b][j].rid[1]
        PROVE  /\ c \in D /\ lv[c] = a /\ at[c] = j /\ K(N, c) >= 1 /\ off[c] + K(N, c) \in 1 .. W(F, a)
               /\ F[b][j].key = F[a][off[c] + K(N, c)].key
               /\ T[b][j] = T[a][off[c] + K(N, c)]
    <2>1. b \in 0 .. h - 2 /\ b + 1 = a
      BY <1>N
    <2>2. /\ c \in D /\ lv[c] = b + 1 /\ at[c] = j /\ K(N, c) >= 1 /\ off[c] + K(N, c) \in 1 .. W(F, b + 1)
          /\ F[b][j] = Entry(MaxKey(N[c]), Child(c))
          /\ MaxKey(N[c]) = F[b + 1][off[c] + K(N, c)].key
          /\ T[b][j] = T[b + 1][off[c] + K(N, c)]
      BY <2>1, <1>U, Under
    <2>3. F[b][j].key = MaxKey(N[c])
      BY <2>2 DEF Entry
    <2> QED
      BY <2>1, <2>2, <2>3
  <1>V. ASSUME NEW j \in 1 .. W(F, b), NEW c, c = F[b][j].rid[1]
        PROVE  IF j < j0 THEN off[c] + K(N, c) < x ELSE x < off[c] + K(N, c)
    <2>1. c \in D /\ lv[c] = a /\ at[c] = j /\ K(N, c) >= 1
      BY <1>V, <1>U
    <2>2. off[c] \in Nat /\ K(N, c) \in Nat
      BY <2>1, <1>P
    <2>3. CASE j < j0
      <3>1. off[c] + K(N, c) <= off[p]
        BY <2>1, <2>3, <1>Y
      <3> QED
        BY <3>1, <2>2, <2>3, <1>N
    <2>4. CASE j = j0
      <3>1. c = p
        BY <2>1, <2>4, <1>0, <1>N, SamePlace
      <3> QED
        BY <3>1, <2>4, <1>N
    <2>5. CASE j > j0
      <3>1. off[p] + K(N, p) <= off[c]
        BY <2>1, <2>5, <1>Y
      <3> QED
        BY <3>1, <2>1, <2>2, <2>5, <1>N
    <2> QED
      BY <2>3, <2>4, <2>5, <1>N
  <1>S. \A j \in 1 .. W(F2, b) : j # j0 =>
          \E g \in 1 .. W(F, b) :
            /\ g = IF j < j0 THEN j ELSE j - 1
            /\ Fb[j].key = F[b][g].key /\ Tb[j] = T[b][g]
    <2> SUFFICES ASSUME NEW j \in 1 .. W(F2, b), j # j0
                 PROVE  \E g \in 1 .. W(F, b) :
                          /\ g = IF j < j0 THEN j ELSE j - 1
                          /\ Fb[j].key = F[b][g].key /\ Tb[j] = T[b][g]
      OBVIOUS
    <2>0. j \in 1 .. W(F, b) + 1 /\ j \in Nat
      BY <1>c, <1>N
    <2>t. /\ \A i \in 1 .. j0 - 1 : Tb[i] = T[b][i]
          /\ \A i \in j0 + 1 .. W(F, b) + 1 : Tb[i] = T[b][i - 1]
      BY <1>8 DEF IsInserted
    <2>1. CASE j < j0
      <3>1. j \in 1 .. j0 - 1 /\ j \in 1 .. W(F, b)
        BY <2>0, <2>1, <1>N
      <3> QED
        BY <3>1, <2>1, <2>t, <1>p
    <2>2. CASE j = j0 + 1
      <3>1. j \in j0 + 1 .. W(F, b) + 1 /\ j - 1 = j0 /\ j0 \in 1 .. W(F, b) /\ ~(j < j0)
        BY <2>0, <2>2, <1>N
      <3>2. Fb[j].key = F[b][j0].key
        BY <2>2, <1>p DEF Entry
      <3>3. Tb[j] = T[b][j - 1]
        BY <3>1, <2>0, <2>t
      <3> QED
        BY <3>1, <3>2, <3>3
    <2>3. CASE j > j0 + 1
      <3>1. j \in j0 + 1 .. W(F, b) + 1 /\ j \in j0 + 2 .. W(F, b) + 1 /\ j - 1 \in 1 .. W(F, b) /\ ~(j < j0)
        BY <2>0, <2>3, <1>N
      <3>2. Fb[j] = F[b][j - 1]
        BY <3>1, <2>0, <1>p
      <3>3. Tb[j] = T[b][j - 1]
        BY <3>1, <2>0, <2>t
      <3> QED
        BY <3>1, <3>2, <3>3
    <2> QED
      BY <2>0, <2>1, <2>2, <2>3, <1>N
  <1>h. Ordered(h, F2)
    <2>1. ASSUME NEW i \in 0 .. h - 1, i # b, NEW j \in 1 .. W(F2, i), NEW k \in 1 .. W(F2, i), j <= k
          PROVE  F2[i][j].key <= F2[i][k].key
      BY <2>1, <1>c, <1>K
    <2>2. e.key = F[a][x].key /\ Fb[j0] = e
      BY <1>p DEF e, Entry
    <2>3. b \in 0 .. h - 1 /\ a \in 0 .. h - 1
      BY <1>N
    <2>4. ASSUME NEW j \in 1 .. W(F, b)
          PROVE  IF j < j0 THEN F[b][j].key <= e.key ELSE e.key <= F[b][j].key
      <3> DEFINE c == F[b][j].rid[1]
      <3>1. off[c] + K(N, c) \in 1 .. W(F, a) /\ F[b][j].key = F[a][off[c] + K(N, c)].key
        BY <1>U
      <3>2. IF j < j0 THEN off[c] + K(N, c) < x ELSE x < off[c] + K(N, c)
        BY <1>V
      <3>3. x \in 1 .. W(F, a)
        BY <1>4
      <3> HIDE DEF c
      <3> DEFINE y == off[c] + K(N, c)
      <3>4. y \in 1 .. W(F, a) /\ F[b][j].key = F[a][y].key /\ (IF j < j0 THEN y < x ELSE x < y)
        BY <3>1, <3>2
      <3> HIDE DEF y
      <3>5. IF j < j0 THEN y <= x ELSE x <= y
        BY <3>3, <3>4, <1>N
      <3> QED
        BY <3>3, <3>4, <3>5, <2>2, <2>3, <1>K
    <2>5. ASSUME NEW j \in 1 .. W(F2, b), NEW k \in 1 .. W(F2, b), j <= k
          PROVE  Fb[j].key <= Fb[k].key
      <3>0. j \in Nat /\ k \in Nat /\ j <= k
        BY <2>5, <1>c, <1>N
      <3>1. CASE j # j0 /\ k # j0
        <4>1. PICK g \in 1 .. W(F, b) : g = (IF j < j0 THEN j ELSE j - 1) /\ Fb[j].key = F[b][g].key
          BY <3>1, <1>S
        <4>2. PICK g2 \in 1 .. W(F, b) : g2 = (IF k < j0 THEN k ELSE k - 1) /\ Fb[k].key = F[b][g2].key
          BY <3>1, <1>S
        <4>3. g <= g2
          BY <3>0, <3>1, <4>1, <4>2, <1>N
        <4> QED
          BY <4>1, <4>2, <4>3, <2>3, <1>K
      <3>2. CASE j # j0 /\ k = j0
        <4>1. PICK g \in 1 .. W(F, b) : g = (IF j < j0 THEN j ELSE j - 1) /\ Fb[j].key = F[b][g].key
          BY <3>2, <1>S
        <4>2. g < j0
          BY <3>0, <3>2, <4>1, <1>N
        <4> QED
          BY <3>2, <4>1, <4>2, <2>2, <2>4
      <3>3. CASE j = j0 /\ k # j0
        <4>1. PICK g \in 1 .. W(F, b) : g = (IF k < j0 THEN k ELSE k - 1) /\ Fb[k].key = F[b][g].key
          BY <3>3, <1>S
        <4>2. ~(g < j0)
          BY <3>0, <3>3, <4>1, <1>N
        <4> QED
          BY <3>3, <4>1, <4>2, <2>2, <2>4
      <3>4. CASE j = j0 /\ k = j0
        <4>1. F[a][x].key \in Nat
          BY <1>4, <1>Q, <2>3
        <4> QED
          BY <3>4, <4>1, <2>2
      <3> QED
        BY <3>1, <3>2, <3>3, <3>4
    <2> QED
      BY <2>1, <2>5, <1>c DEF Ordered
  <1>i. Topped(N2, h, off2, F2, T2)
    <2>0. /\ \A i \in 0 .. h - 1 : \A j, k \in 1 .. W(F, i) : T[i][j] = T[i][k] => j = k
          /\ \A i \in 0 .. h - 1 : \A j \in 1 .. W(F, i) : T[i][j] \in RidsOf(F[i][j].key)
          /\ \A j \in 1 .. W(F, h - 1) : T[h - 1][j] = F[h - 1][j].rid
      BY DEF Tree, Topped
    <2>b. b \in 0 .. h - 1 /\ a \in 0 .. h - 1 /\ h - 1 \in 0 .. h - 1 /\ h - 1 # b
      BY <1>N
    <2>t. /\ \A i \in 1 .. j0 - 1 : Tb[i] = T[b][i]
          /\ Tb[j0] = T[a][x]
          /\ \A i \in j0 + 1 .. W(F, b) + 1 : Tb[i] = T[b][i - 1]
      BY <1>8 DEF IsInserted
    <2>1. \A i \in 0 .. h - 1 : W(T2, i) = W(F2, i)
      <3>1. \A i \in 0 .. h - 1 : i # b => W(T2, i) = W(T, i)
        BY <1>c DEF W
      <3> QED
        BY <3>1, <1>c, <1>T
    <2>2. ASSUME NEW j \in 1 .. W(F, b)
          PROVE  T[b][j] # T[a][x]
      <3> DEFINE c == F[b][j].rid[1]
      <3>1. off[c] + K(N, c) \in 1 .. W(F, a) /\ T[b][j] = T[a][off[c] + K(N, c)]
        BY <1>U
      <3>2. IF j < j0 THEN off[c] + K(N, c) < x ELSE x < off[c] + K(N, c)
        BY <1>V
      <3> HIDE DEF c
      <3> DEFINE y == off[c] + K(N, c)
      <3>3. y \in 1 .. W(F, a) /\ T[b][j] = T[a][y] /\ (y < x \/ x < y)
        BY <3>1, <3>2
      <3> HIDE DEF y
      <3>4. y # x
        BY <3>3, <1>N
      <3> QED
        BY <3>3, <3>4, <2>0, <2>b, <1>4
    <2>3. ASSUME NEW i \in 0 .. h - 1, NEW j \in 1 .. W(F2, i), NEW k \in 1 .. W(F2, i), T2[i][j] = T2[i][k]
          PROVE  j = k
      <3>1. CASE i # b
        BY <3>1, <2>3, <2>0, <1>c
      <3>2. CASE i = b
        <4>0. Tb[j] = Tb[k] /\ j \in Nat /\ k \in Nat
          BY <3>2, <2>3, <1>c, <1>N
        <4>1. CASE j # j0 /\ k # j0
          <5>1. PICK g \in 1 .. W(F, b) : g = (IF j < j0 THEN j ELSE j - 1) /\ Tb[j] = T[b][g]
            BY <3>2, <4>1, <1>S
          <5>2. PICK g2 \in 1 .. W(F, b) : g2 = (IF k < j0 THEN k ELSE k - 1) /\ Tb[k] = T[b][g2]
            BY <3>2, <4>1, <1>S
          <5>3. g = g2
            BY <4>0, <5>1, <5>2, <2>0, <2>b
          <5> QED
            BY <4>0, <4>1, <5>1, <5>2, <5>3, <1>N
        <4>2. CASE j # j0 /\ k = j0
          <5>1. PICK g \in 1 .. W(F, b) : Tb[j] = T[b][g]
            BY <3>2, <4>2, <1>S
          <5> QED
            BY <4>0, <4>2, <5>1, <2>2, <2>t
        <4>3. CASE j = j0 /\ k # j0
          <5>1. PICK g \in 1 .. W(F, b) : Tb[k] = T[b][g]
            BY <3>2, <4>3, <1>S
          <5> QED
            BY <4>0, <4>3, <5>1, <2>2, <2>t
        <4> QED
          BY <4>1, <4>2, <4>3
      <3> QED
        BY <3>1, <3>2
    <2>4. ASSUME NEW i \in 0 .. h - 1, NEW j \in 1 .. W(F2, i)
          PROVE  T2[i][j] \in RidsOf(F2[i][j].key)
      <3>1. CASE i # b
        BY <3>1, <2>0, <1>c
      <3>2. CASE i = b /\ j = j0
        <4>1. e.key = F[a][x].key /\ Fb[j0] = e
          BY <1>p DEF e, Entry
        <4>2. T[a][x] \in RidsOf(F[a][x].key)
          BY <2>0, <2>b, <1>4
        <4> QED
          BY <3>2, <4>1, <4>2, <2>t, <1>c
      <3>3. CASE i = b /\ j # j0
        <4>1. PICK g \in 1 .. W(F, b) : Fb[j].key = F[b][g].key /\ Tb[j] = T[b][g]
          BY <3>3, <1>S
        <4> QED
          BY <3>3, <4>1, <2>0, <2>b, <1>c
      <3> QED
        BY <3>1, <3>2, <3>3
    <2>5. \A j \in 1 .. W(F2, h - 1) : T2[h - 1][j] = F2[h - 1][j].rid
      BY <2>0, <2>b, <1>c
    <2>6. ASSUME NEW i \in 0 .. h - 2, NEW j \in 1 .. W(F2, i), i # b
          PROVE  T2[i][j] = T2[i + 1][off2[F2[i][j].rid[1]] + K(N2, F2[i][j].rid[1])]
      <3>0. i \in 0 .. h - 1 /\ i \in Nat /\ i + 1 \in 0 .. h - 1 /\ i + 1 # a
        BY <2>6, <1>N
      <3>1. F2[i] = F[i] /\ T2[i] = T[i] /\ W(F2, i) = W(F, i)
        BY <3>0, <2>6, <1>c
      <3> DEFINE c == F[i][j].rid[1]
      <3>2. /\ c \in D /\ lv[c] = i + 1 /\ off[c] + K(N, c) \in 1 .. W(F, i + 1)
            /\ T[i][j] = T[i + 1][off[c] + K(N, c)]
        BY <3>1, Under
      <3> HIDE DEF c
      <3>3. c # p /\ off[c] \in Nat /\ K(N, c) \in Nat /\ at[c] \in Nat
        BY <3>0, <3>2, <1>P, <1>N
      <3>4. CASE i + 1 # b
        <4>1. off2[c] = off[c] /\ K(N2, c) = K(N, c) /\ T2[i + 1] = T[i + 1]
          BY <3>0, <3>2, <3>3, <3>4, <1>b, <1>c, <1>N
        <4> QED
          BY <4>1, <3>1, <3>2 DEF c
      <3>5. CASE i + 1 = b
        <4>1. T2[i + 1] = Tb /\ off[c] + K(N, c) \in 1 .. W(F, b) /\ lv[c] = b /\ T[i][j] = T[b][off[c] + K(N, c)]
          BY <3>2, <3>5, <1>c
        <4>2. CASE c # f /\ at[c] < at[f]
          <5>1. off2[c] = off[c] /\ K(N2, c) = K(N, c) /\ off[c] + K(N, c) <= off[f]
            BY <3>2, <3>3, <4>1, <4>2, <1>b, <1>c, <1>N, <1>Z
          <5>2. off[c] + K(N, c) \in 1 .. j0 - 1
            BY <4>1, <5>1, <3>3, <1>N
          <5>3. Tb[off[c] + K(N, c)] = T[b][off[c] + K(N, c)]
            BY <5>2, <3>3, <2>t
          <5> QED
            BY <5>1, <5>3, <4>1, <3>1 DEF c
        <4>3. CASE c = f
          <5>1. off2[c] = off[f] /\ K(N2, c) = K(N, f) + 1
            BY <3>2, <4>1, <4>3, <1>k, <1>c, <1>N
          <5>2. off[f] + (K(N, f) + 1) \in j0 + 1 .. W(F, b) + 1 /\ off[f] + (K(N, f) + 1) - 1 = off[f] + K(N, f)
            BY <1>N
          <5>3. Tb[off[f] + (K(N, f) + 1)] = T[b][off[f] + K(N, f)]
            BY <5>2, <1>N, <2>t
          <5> QED
            BY <5>1, <5>3, <4>1, <4>3, <3>1 DEF c
        <4>4. CASE c # f /\ at[c] > at[f]
          <5>1. off2[c] = off[c] + 1 /\ K(N2, c) = K(N, c) /\ off[f] + K(N, f) <= off[c]
            BY <3>2, <3>3, <4>1, <4>4, <1>b, <1>c, <1>N, <1>Z
          <5>2. off[c] + 1 + K(N, c) \in j0 + 1 .. W(F, b) + 1 /\ off[c] + 1 + K(N, c) - 1 = off[c] + K(N, c)
            BY <4>1, <5>1, <3>3, <1>N
          <5>3. Tb[off[c] + 1 + K(N, c)] = T[b][off[c] + K(N, c)]
            BY <5>2, <3>3, <2>t
          <5> QED
            BY <5>1, <5>3, <4>1, <3>1 DEF c
        <4> QED
          BY <4>1, <4>2, <4>3, <4>4, <3>2, <1>Z
      <3> QED
        BY <3>4, <3>5
    <2>7. ASSUME NEW j \in 1 .. W(F2, b)
          PROVE  T2[b][j] = T2[b + 1][off2[F2[b][j].rid[1]] + K(N2, F2[b][j].rid[1])]
      <3>0. T2[b] = Tb /\ T2[b + 1] = T[a] /\ F2[b] = Fb /\ j \in Nat /\ j >= 1 /\ j <= W(F, b) + 1
        BY <2>b, <1>c, <1>N
      <3>1. ASSUME NEW g \in 1 .. W(F, b), g # j0
            PROVE  T[b][g] = T[a][off2[F[b][g].rid[1]] + K(N2, F[b][g].rid[1])]
        <4> DEFINE c == F[b][g].rid[1]
        <4>1. c \in D /\ lv[c] = a /\ at[c] = g /\ T[b][g] = T[a][off[c] + K(N, c)]
          BY <1>U
        <4> HIDE DEF c
        <4>2. c # p /\ c # f
          BY <3>1, <4>1, <1>N
        <4>3. off2[c] = off[c] /\ K(N2, c) = K(N, c)
          BY <4>1, <4>2, <1>b, <1>c, <1>N
        <4> QED
          BY <4>1, <4>3 DEF c
      <3>2. CASE j < j0
        <4>1. j \in 1 .. j0 - 1 /\ j \in 1 .. W(F, b) /\ j # j0
          BY <3>0, <3>2, <1>N
        <4>2. Fb[j] = F[b][j] /\ Tb[j] = T[b][j]
          BY <4>1, <1>p, <2>t
        <4> QED
          BY <4>1, <4>2, <3>0, <3>1
      <3>3. CASE j = j0
        <4>1. Fb[j].rid[1] = p /\ Tb[j] = T[a][x] /\ off2[p] = off[p] /\ K(N2, p) = m
          BY <3>3, <1>0, <1>p, <1>c, <1>k, <1>N, <2>t DEF e, Entry, Child
        <4> QED
          BY <4>1, <3>0, <1>N
      <3>4. CASE j = j0 + 1
        <4>1. Fb[j].rid[1] = q /\ off2[q] = x /\ K(N2, q) = K(N, p) - m
          BY <3>4, <1>p, <1>c, <1>k DEF Entry, Child
        <4>2. j0 \in 1 .. W(F, b) /\ j0 + 1 \in j0 + 1 .. W(F, b) + 1 /\ j0 + 1 - 1 = j0
          BY <1>N
        <4>3. Tb[j] = T[b][j0]
          BY <3>4, <4>2, <2>t
        <4> DEFINE c == F[b][j0].rid[1]
        <4>4. c \in D /\ lv[c] = a /\ at[c] = j0 /\ T[b][j0] = T[a][off[c] + K(N, c)]
          BY <4>2, <1>U
        <4> HIDE DEF c
        <4>5. c = p
          BY <4>4, <1>0, <1>N, SamePlace
        <4>6. x + (K(N, p) - m) = off[p] + K(N, p)
          BY <1>N
        <4>7. T2[b + 1][off2[q] + K(N2, q)] = T[b][j0]
          BY <4>1, <4>4, <4>5, <4>6, <3>0
        <4> QED
          BY <4>1, <4>3, <4>7, <3>0
      <3>5. CASE j > j0 + 1
        <4>1. /\ j \in j0 + 1 .. W(F, b) + 1 /\ j \in j0 + 2 .. W(F, b) + 1
              /\ j - 1 \in 1 .. W(F, b) /\ j - 1 # j0
          BY <3>0, <3>5, <1>N
        <4>2. Fb[j] = F[b][j - 1] /\ Tb[j] = T[b][j - 1]
          BY <4>1, <3>0, <1>p, <2>t
        <4> QED
          BY <4>1, <4>2, <3>0, <3>1
      <3> QED
        BY <3>0, <3>2, <3>3, <3>4, <3>5, <1>N
    <2> QED
      BY <2>1, <2>3, <2>4, <2>5, <2>6, <2>7 DEF Topped
  <1> QED
    <2>1. Tree(N2, root, h, lv2, at2, off2, F2, T2)
      BY <1>d, <1>e, <1>f, <1>g, <1>h, <1>i DEF Tree
    <2>2. F2[h - 1] = F[h - 1] /\ \A r \in DOMAIN N : lv2[r] = lv[r]
      BY <1>1, <1>2, <1>c
    <2> QED
      BY <2>1, <2>2 DEF N2

----------------------------------------------------------------------------
\* An entry more in a leaf, with the bounds above it raised.

\* A sequence with the key of its last entry set to k when b holds.
Bumped(es, n, b, k) == [j \in 1 .. n |-> IF b /\ j = n THEN Entry(k, es[j].rid) ELSE es[j]]

\* Setting the key of the last entry of a node.
LEMMA BumpedFacts ==
  ASSUME NEW es \in Seq(EntrySet), NEW n \in Nat, n = Len(es), NEW b, NEW k \in KeyValues
  PROVE  /\ Bumped(es, n, b, k) \in Seq(EntrySet) /\ Len(Bumped(es, n, b, k)) = n
         /\ \A j \in 1 .. n : Bumped(es, n, b, k)[j] = IF b /\ j = n THEN Entry(k, es[j].rid) ELSE es[j]
  <1> DEFINE x(j) == IF b /\ j = n THEN Entry(k, es[j].rid) ELSE es[j]
  <1>1. \A j \in 1 .. n : x(j) \in EntrySet
    <2>1. \A j \in 1 .. n : es[j] \in EntrySet
      BY Elem
    <2> QED
      BY <2>1 DEF EntrySet, Entry
  <1>2. Bumped(es, n, b, k) = [j \in 1 .. n |-> x(j)]
    BY DEF Bumped
  <1> HIDE DEF x
  <1>3. Bumped(es, n, b, k) \in Seq(EntrySet) /\ Len(Bumped(es, n, b, k)) = n
    BY <1>1, <1>2
  <1> QED
    BY <1>2, <1>3 DEF x

\* The same as the code does it.
LEMMA SetLastKey ==
  ASSUME NEW n \in NodeSet, Len(n.entries) # 0, NEW k \in KeyValues
  PROVE  SetKey(n, numKeys(n), k)
           = [entries |-> Bumped(n.entries, Len(n.entries), TRUE, k), left |-> n.left, right |-> n.right]
  <1> DEFINE es == n.entries
             l == Len(es)
             s == [es EXCEPT ![l] = Entry(k, @.rid)]
  <1>1. es \in Seq(EntrySet) /\ l \in Nat
    BY IsNode
  <1>2. SetKey(n, numKeys(n), k) = [n EXCEPT !.entries = s]
    BY DEF SetKey, numKeys
  <1>3. es = [j \in 1 .. l |-> es[j]]
    BY <1>1
  <1> HIDE DEF es
  <1>4. s = Bumped(es, l, TRUE, k)
    BY <1>1, <1>3 DEF Bumped
  <1> HIDE DEF s
  <1>5. [n EXCEPT !.entries = s] = [entries |-> s, left |-> n.left, right |-> n.right]
    BY IsNode
  <1> QED
    BY <1>2, <1>4, <1>5 DEF es

\* A page is the last of its level when its entries are.
LEMMA LastPage ==
  ASSUME NEW N, NEW root, NEW h, NEW lv, NEW at, NEW off, NEW F, NEW T,
         Tree(N, root, h, lv, at, off, F, T), NEW r \in DOMAIN N
  PROVE  /\ at[r] <= Width(F, lv[r])
         /\ at[r] = Width(F, lv[r]) <=> off[r] + K(N, r) = W(F, lv[r])
  <1> DEFINE i == lv[r]
  <1>1. Linked(N, root, h, lv, at, F) /\ Flat(N, root, h, lv, at, off, F) /\ Chained(N, lv, at, F)
    BY DEF Tree
  <1>2. /\ h \in Nat /\ h >= 1 /\ i \in 0 .. h - 1 /\ off[r] \in Nat /\ K(N, r) \in Nat
        /\ at[r] \in Nat /\ at[r] >= 1 /\ W(F, i) \in Nat /\ off[r] + K(N, r) <= W(F, i)
    <2>1. i \in 0 .. h - 1
      BY TreeTypes
    <2> QED
      BY <1>1, <2>1, TreeTypes DEF Flat
  <1>3. at[r] <= Width(F, i)
    <2>1. CASE i = 0
      BY <1>1, <2>1, <1>2 DEF Linked, Width
    <2>2. CASE i # 0
      BY <1>1, <2>2 DEF Linked, Width
    <2> QED
      BY <2>1, <2>2
  <1>4. ASSUME at[r] # Width(F, i)
        PROVE  off[r] + K(N, r) # W(F, i)
    <2>1. PICK t \in DOMAIN N : lv[t] = i /\ at[t] = at[r] + 1
      BY <1>1, <1>4 DEF Chained
    <2>2. at[r] < at[t]
      BY <2>1, <1>2
    <2>3. off[r] + K(N, r) <= off[t] /\ off[t] + K(N, t) <= W(F, i)
      BY <1>1, <2>1, <2>2 DEF Flat
    <2>4. t # root \/ h > 1
      <3>1. CASE i = 0
        BY <1>1, <2>1, <2>2, <3>1 DEF Linked
      <3>2. CASE i # 0
        BY <3>2, <1>2
      <3> QED
        BY <3>1, <3>2
    <2>5. K(N, t) # 0 /\ K(N, t) \in Nat /\ off[t] \in Nat
      BY <1>1, <2>4, TreeTypes DEF Flat
    <2> QED
      BY <2>3, <2>5, <1>2
  <1>5. ASSUME at[r] = Width(F, i), off[r] + K(N, r) # W(F, i)
        PROVE  FALSE
    <2>1. W(F, i) \in 1 .. W(F, i) /\ off[r] + K(N, r) < W(F, i)
      BY <1>2, <1>5
    <2>2. PICK t \in DOMAIN N : lv[t] = i /\ off[t] < W(F, i) /\ W(F, i) <= off[t] + K(N, t)
      BY <1>1, <1>2, <2>1 DEF Flat
    <2>3. at[t] <= Width(F, i) /\ at[t] \in Nat /\ off[t] \in Nat /\ K(N, t) \in Nat
      <3>1. CASE i = 0
        BY <1>1, <2>2, <3>1, TreeTypes DEF Linked, Width
      <3>2. CASE i # 0
        BY <1>1, <2>2, <3>2, TreeTypes DEF Linked, Width
      <3> QED
        BY <3>1, <3>2
    <2>4. t # r
      BY <2>1, <2>2, <2>3, <1>2
    <2>5. at[t] # at[r]
      BY <2>2, <2>4, SamePlace
    <2>6. at[t] < at[r]
      BY <2>3, <2>5, <1>2, <1>5
    <2>7. off[t] + K(N, t) <= off[r]
      BY <1>1, <2>2, <2>6 DEF Flat
    <2> QED
      BY <2>1, <2>2, <2>3, <2>7, <1>2
  <1> QED
    BY <1>3, <1>4, <1>5

\* Where an entry may go: before the entries with larger keys, and behind all
\* only on the last leaf.
Grows(N, h, lv, at, off, F, p, pos, e) ==
  /\ p \in DOMAIN N /\ lv[p] = h - 1 /\ pos \in 1 .. K(N, p) + 1
  /\ e \in EntrySet /\ e.rid \in Nat \X Nat /\ e.rid \in RidsOf(e.key)
  /\ \A j \in 1 .. W(F, h - 1) : F[h - 1][j].rid # e.rid
  /\ \A j \in 1 .. W(F, h - 1) :
       IF j < off[p] + pos THEN F[h - 1][j].key <= e.key ELSE e.key <= F[h - 1][j].key
  /\ pos = K(N, p) + 1 =>
       at[p] = Width(F, h - 1) /\ \A i \in 0 .. h - 1 : \A j \in 1 .. W(F, i) : F[i][j].key < e.key

\* The inner pages that have to be raised.
Top(N, h, lv, at, F, p, pos, r) == pos = K(N, p) + 1 /\ lv[r] # h - 1 /\ at[r] = Width(F, lv[r])

Plus(N, h, lv, at, F, p, pos, e) ==
  [r \in DOMAIN N |->
     IF r = p THEN [N[p] EXCEPT !.entries = Inserted(@, pos, e)]
     ELSE [N[r] EXCEPT !.entries = Bumped(@, K(N, r), Top(N, h, lv, at, F, p, pos, r), e.key)]]

IsPlus(N2, N, h, lv, at, F, p, pos, e) ==
  /\ DOMAIN N2 = DOMAIN N
  /\ \A r \in DOMAIN N : N2[r].left = N[r].left /\ N2[r].right = N[r].right
  /\ K(N2, p) = K(N, p) + 1
  /\ IsInserted(N2[p].entries, N[p].entries, K(N, p), pos, e)
  /\ \A r \in DOMAIN N : r # p => K(N2, r) = K(N, r)
  /\ \A r \in DOMAIN N : r # p => \A s \in 1 .. K(N, r) :
       N2[r].entries[s] = IF Top(N, h, lv, at, F, p, pos, r) /\ s = K(N, r)
                          THEN Entry(e.key, N[r].entries[s].rid) ELSE N[r].entries[s]

\* What Plus gives.
LEMMA PlusFacts ==
  ASSUME NEW N, N \in [DOMAIN N -> NodeSet], NEW h, NEW lv, NEW at, NEW F, NEW p \in DOMAIN N,
         NEW pos \in 1 .. K(N, p) + 1, NEW e \in EntrySet
  PROVE  /\ IsPlus(Plus(N, h, lv, at, F, p, pos, e), N, h, lv, at, F, p, pos, e)
         /\ Plus(N, h, lv, at, F, p, pos, e) \in [DOMAIN N -> NodeSet]
  <1> DEFINE N2 == Plus(N, h, lv, at, F, p, pos, e)
             ins == Inserted(N[p].entries, pos, e)
             top(r) == Top(N, h, lv, at, F, p, pos, r)
             bum(r) == Bumped(N[r].entries, K(N, r), top(r), e.key)
  <1>1. \A r \in DOMAIN N : N[r] \in NodeSet
    OBVIOUS
  <1>2. \A r \in DOMAIN N : N[r].entries \in Seq(EntrySet) /\ K(N, r) \in Nat
    BY <1>1, IsNode DEF K
  <1>3. \A r \in DOMAIN N : N[r].left \in Nat \cup {NoPage} /\ N[r].right \in Nat \cup {NoPage}
    BY <1>1, IsNode
  <1>k. e.key \in KeyValues
    BY DEF EntrySet
  <1>4. ins \in Seq(EntrySet) /\ Len(ins) = K(N, p) + 1 /\ IsInserted(ins, N[p].entries, K(N, p), pos, e)
    <2>1. N[p].entries \in Seq(EntrySet) /\ pos \in 1 .. Len(N[p].entries) + 1
      BY <1>2 DEF K
    <2> HIDE DEF ins
    <2>2. /\ ins \in Seq(EntrySet) /\ Len(ins) = Len(N[p].entries) + 1
          /\ IsInserted(ins, N[p].entries, Len(N[p].entries), pos, e)
      BY <2>1, InsertedFacts DEF ins
    <2> QED
      BY <2>2 DEF K
  <1> HIDE DEF top
  <1>5. ASSUME NEW r \in DOMAIN N
        PROVE  /\ bum(r) \in Seq(EntrySet) /\ Len(bum(r)) = K(N, r)
               /\ \A s \in 1 .. K(N, r) :
                    bum(r)[s] = IF top(r) /\ s = K(N, r) THEN Entry(e.key, N[r].entries[s].rid)
                                ELSE N[r].entries[s]
    <2>1. N[r].entries \in Seq(EntrySet) /\ K(N, r) \in Nat /\ K(N, r) = Len(N[r].entries)
      BY <1>2 DEF K
    <2> DEFINE es == N[r].entries
               n == K(N, r)
               b == top(r)
    <2>2. es \in Seq(EntrySet) /\ n \in Nat /\ n = Len(es)
      BY <2>1
    <2>3. bum(r) = Bumped(es, n, b, e.key)
      OBVIOUS
    <2> HIDE DEF es, n, b, bum
    <2>4. /\ bum(r) \in Seq(EntrySet) /\ Len(bum(r)) = n
          /\ \A s \in 1 .. n : bum(r)[s] = IF b /\ s = n THEN Entry(e.key, es[s].rid) ELSE es[s]
      BY <2>2, <2>3, <1>k, BumpedFacts
    <2> QED
      BY <2>4 DEF es, n, b
  <1> HIDE DEF ins, bum
  <1>6. N2[p] = [entries |-> ins, left |-> N[p].left, right |-> N[p].right]
    <2>1. N2[p] = [N[p] EXCEPT !.entries = ins]
      BY DEF Plus, ins
    <2> QED
      BY <2>1, <1>1, IsNode
  <1>7. ASSUME NEW r \in DOMAIN N, r # p
        PROVE  N2[r] = [entries |-> bum(r), left |-> N[r].left, right |-> N[r].right]
    <2>1. N2[r] = [N[r] EXCEPT !.entries = bum(r)]
      BY <1>7 DEF Plus, bum, top
    <2> QED
      BY <2>1, <1>1, IsNode
  <1>8. DOMAIN N2 = DOMAIN N /\ N2 = [r \in DOMAIN N |-> N2[r]]
    BY DEF Plus
  <1> HIDE DEF N2
  <1>9. \A r \in DOMAIN N : N2[r] \in NodeSet
    <2>1. N2[p] \in NodeSet
      BY <1>3, <1>4, <1>6, MakeNode
    <2>2. ASSUME NEW r \in DOMAIN N, r # p
          PROVE  N2[r] \in NodeSet
      BY <1>3, <1>5, <1>7, <2>2, MakeNode, ZenonT(40)
    <2> QED
      BY <2>1, <2>2
  <1>a. N2 \in [DOMAIN N -> NodeSet]
    BY <1>8, <1>9
  <1>b. \A r \in DOMAIN N : N2[r].left = N[r].left /\ N2[r].right = N[r].right
    <2>1. ASSUME NEW r \in DOMAIN N, r # p
          PROVE  N2[r].left = N[r].left /\ N2[r].right = N[r].right
      <3>1. N2[r] = [entries |-> bum(r), left |-> N[r].left, right |-> N[r].right]
        BY <1>7, <2>1
      <3> QED
        BY <3>1
    <2>2. N2[p].left = N[p].left /\ N2[p].right = N[p].right
      BY <1>6
    <2> QED
      BY <2>1, <2>2
  <1>c. K(N2, p) = K(N, p) + 1 /\ N2[p].entries = ins
    BY <1>4, <1>6 DEF K
  <1>d. ASSUME NEW r \in DOMAIN N, r # p
        PROVE  K(N2, r) = K(N, r) /\ N2[r].entries = bum(r)
    <2>1. N2[r] = [entries |-> bum(r), left |-> N[r].left, right |-> N[r].right]
      BY <1>7, <1>d
    <2>2. N2[r].entries = bum(r)
      BY <2>1
    <2>3. Len(bum(r)) = K(N, r)
      BY <1>5
    <2> QED
      BY <2>2, <2>3 DEF K
  <1> QED
    <2>1. IsPlus(N2, N, h, lv, at, F, p, pos, e)
      BY <1>4, <1>5, <1>8, <1>b, <1>c, <1>d, ZenonT(40) DEF IsPlus, top
    <2> QED
      BY <2>1, <1>a DEF N2

\* An entry put into a leaf leaves a tree, with the keys above it raised.
LEMMA PlusTree ==
  ASSUME NEW N, NEW root, NEW h, NEW lv, NEW at, NEW off, NEW F, NEW T,
         Tree(N, root, h, lv, at, off, F, T),
         NEW p, NEW pos, NEW e, Grows(N, h, lv, at, off, F, p, pos, e)
  PROVE  \E off2, F2, T2 :
           /\ Tree(Plus(N, h, lv, at, F, p, pos, e), root, h, lv, at, off2, F2, T2)
           /\ F2[h - 1] = Inserted(F[h - 1], off[p] + pos, e)
           /\ \A i \in 0 .. h - 1 : i # h - 1 => W(F2, i) = W(F, i)
  <1> DEFINE D  == DOMAIN N
             N2 == Plus(N, h, lv, at, F, p, pos, e)
             a  == h - 1
             ap == pos = K(N, p) + 1
             x  == off[p] + pos
             off2 == [r \in D |-> IF lv[r] = a /\ at[r] > at[p] THEN off[r] + 1 ELSE off[r]]
             Fa == Inserted(F[a], x, e)
             Ta == Inserted(T[a], x, e.rid)
             Tb(i) == [j \in 1 .. W(F, i) |-> IF ap /\ j = W(F, i) THEN e.rid ELSE T[i][j]]
             F2 == [i \in 0 .. h - 1 |-> IF i = a THEN Fa ELSE Bumped(F[i], W(F, i), ap, e.key)]
             T2 == [i \in 0 .. h - 1 |-> IF i = a THEN Ta ELSE Tb(i)]
  <1> HIDE DEF N2, off2, F2, T2, Fa, Ta, Tb, a, ap, x
  <1>1. h \in Nat /\ h >= 1 /\ D \subseteq Nat /\ root \in D
    BY TreeTypes
  <1>P. /\ \A r \in D : lv[r] \in 0 .. h - 1
        /\ \A r \in D : at[r] \in Nat /\ at[r] >= 1
        /\ \A r \in D : off[r] \in Nat
        /\ \A r \in D : K(N, r) \in Nat
    BY TreeTypes
  <1>F. /\ \A i \in 0 .. h - 1 : F[i] \in Seq(EntrySet)
        /\ \A i \in 0 .. h - 1 : W(F, i) \in Nat
    BY TreeTypes
  <1>T. /\ \A i \in 0 .. h - 1 : T[i] \in Seq(Nat \X Nat)
        /\ \A i \in 0 .. h - 1 : W(T, i) = W(F, i)
    BY TreeTypes
  <1>0. p \in D /\ e \in EntrySet /\ e.rid \in Nat \X Nat /\ e.rid \in RidsOf(e.key)
    BY DEF Grows
  <1>N. /\ h \in Nat /\ h >= 1 /\ a = h - 1 /\ a \in Nat /\ lv[p] = a /\ at[p] \in Nat /\ at[p] >= 1
        /\ x = off[p] + pos /\ off[p] \in Nat /\ K(N, p) \in Nat /\ pos \in Nat /\ 1 <= pos /\ pos <= K(N, p) + 1
        /\ W(F, a) \in Nat /\ off[p] + K(N, p) <= W(F, a) /\ x \in Nat
    <2>1. lv[p] = a /\ pos \in 1 .. K(N, p) + 1
      BY DEF Grows, a
    <2>2. off[p] + K(N, p) <= W(F, a)
      BY <2>1, <1>0 DEF Tree, Flat
    <2>3. a = h - 1 /\ a \in Nat /\ a \in 0 .. h - 1
      BY <1>1 DEF a
    <2>4. off[p] \in Nat /\ K(N, p) \in Nat /\ at[p] \in Nat /\ at[p] >= 1 /\ W(F, a) \in Nat
      BY <2>3, <1>0, <1>P, <1>F
    <2>5. x = off[p] + pos
      BY DEF x
    <2> QED
      BY <1>1, <2>1, <2>2, <2>3, <2>4, <2>5
  <1>2. a \in 0 .. h - 1 /\ F[a] \in Seq(EntrySet) /\ T[a] \in Seq(Nat \X Nat) /\ W(T, a) = W(F, a)
    <2>1. a \in 0 .. h - 1
      BY <1>N
    <2> QED
      BY <2>1, <1>F, <1>T
  <1>3. /\ Fa \in Seq(EntrySet) /\ Len(Fa) = W(F, a) + 1
        /\ IsInserted(Fa, F[a], W(F, a), x, e)
    <2>1. x \in 1 .. Len(F[a]) + 1
      BY <1>N, SMTT(30) DEF W
    <2>2. /\ Fa \in Seq(EntrySet) /\ Len(Fa) = Len(F[a]) + 1
          /\ IsInserted(Fa, F[a], Len(F[a]), x, e)
      BY <2>1, <1>0, <1>2, InsertedFacts DEF Fa
    <2> QED
      BY <2>2 DEF W
  <1>4. /\ Ta \in Seq(Nat \X Nat) /\ Len(Ta) = W(F, a) + 1
        /\ IsInserted(Ta, T[a], W(F, a), x, e.rid)
    <2>1. x \in 1 .. Len(T[a]) + 1
      <3>1. W(T, a) = W(F, a)
        BY <1>2
      <3> QED
        BY <3>1, <1>N, SMTT(30) DEF W
    <2>2. /\ Ta \in Seq(Nat \X Nat) /\ Len(Ta) = Len(T[a]) + 1
          /\ IsInserted(Ta, T[a], Len(T[a]), x, e.rid)
      BY <2>1, <1>0, <1>2, InsertedFacts, SMTT(30) DEF Ta
    <2> QED
      BY <2>2, <1>2 DEF W
  <1>5. /\ \A j \in 1 .. x - 1 : Fa[j] = F[a][j] /\ Ta[j] = T[a][j]
        /\ Fa[x] = e /\ Ta[x] = e.rid
        /\ \A j \in x + 1 .. W(F, a) + 1 : Fa[j] = F[a][j - 1] /\ Ta[j] = T[a][j - 1]
    BY <1>3, <1>4 DEF IsInserted
  <1>6. /\ F2[a] = Fa /\ T2[a] = Ta /\ W(F2, a) = W(F, a) + 1
        /\ \A i \in 0 .. h - 1 : i # a => W(F2, i) = W(F, i) /\ F2[i] \in Seq(EntrySet)
        /\ \A i \in 0 .. h - 1 : i # a => \A j \in 1 .. W(F, i) :
             F2[i][j] = IF ap /\ j = W(F, i) THEN Entry(e.key, F[i][j].rid) ELSE F[i][j]
    <2>1. F2[a] = Fa /\ T2[a] = Ta
      BY <1>2 DEF F2, T2
    <2>2. W(F2, a) = W(F, a) + 1
      BY <2>1, <1>3 DEF W
    <2>3. ASSUME NEW i \in 0 .. h - 1, i # a
          PROVE  /\ W(F2, i) = W(F, i) /\ F2[i] \in Seq(EntrySet)
                 /\ \A j \in 1 .. W(F, i) :
                      F2[i][j] = IF ap /\ j = W(F, i) THEN Entry(e.key, F[i][j].rid) ELSE F[i][j]
      <3>1. F2[i] = Bumped(F[i], W(F, i), ap, e.key)
        BY <2>3 DEF F2
      <3> DEFINE es == F[i]
                 n == W(F, i)
                 k == e.key
      <3>2. es \in Seq(EntrySet) /\ n \in Nat /\ n = Len(es) /\ k \in KeyValues
        BY <1>F, <1>0 DEF W, EntrySet
      <3>3. F2[i] = Bumped(es, n, ap, k)
        BY <3>1
      <3> HIDE DEF es, n, k
      <3>4. /\ Bumped(es, n, ap, k) \in Seq(EntrySet) /\ Len(Bumped(es, n, ap, k)) = n
            /\ \A j \in 1 .. n : Bumped(es, n, ap, k)[j] = IF ap /\ j = n THEN Entry(k, es[j].rid) ELSE es[j]
        BY <3>2, BumpedFacts
      <3>5. W(F2, i) = n /\ F2[i] \in Seq(EntrySet)
        BY <3>3, <3>4 DEF W
      <3> QED
        BY <3>3, <3>4, <3>5 DEF es, n, k
    <2> QED
      BY <2>1, <2>2, <2>3
  <1>7. \A i \in 0 .. h - 1 : i # a =>
          /\ T2[i] \in Seq(Nat \X Nat) /\ W(T2, i) = W(F, i)
          /\ \A j \in 1 .. W(F, i) : T2[i][j] = IF ap /\ j = W(F, i) THEN e.rid ELSE T[i][j]
    <2> SUFFICES ASSUME NEW i \in 0 .. h - 1, i # a
                 PROVE  /\ T2[i] \in Seq(Nat \X Nat) /\ W(T2, i) = W(F, i)
                        /\ \A j \in 1 .. W(F, i) : T2[i][j] = IF ap /\ j = W(F, i) THEN e.rid ELSE T[i][j]
      OBVIOUS
    <2>1. \A j \in 1 .. W(F, i) : T[i][j] \in Nat \X Nat
      <3>1. T[i] \in Seq(Nat \X Nat) /\ W(F, i) = Len(T[i])
        BY <1>T DEF W
      <3> QED
        BY <3>1, Elem
    <2>2. W(F, i) \in Nat
      BY <1>F
    <2> DEFINE y(j) == IF ap /\ j = W(F, i) THEN e.rid ELSE T[i][j]
               n == W(F, i)
    <2>3. n \in Nat /\ \A j \in 1 .. n : y(j) \in Nat \X Nat
      BY <2>1, <2>2, <1>0
    <2>4. T2[i] = [j \in 1 .. n |-> y(j)]
      BY DEF T2, Tb
    <2> HIDE DEF y, n
    <2>5. T2[i] \in Seq(Nat \X Nat) /\ Len(T2[i]) = n
      BY <2>3, <2>4
    <2>6. \A j \in 1 .. n : T2[i][j] = y(j)
      BY <2>4
    <2> QED
      BY <2>5, <2>6 DEF y, n, W
  <1>8. IsPlus(N2, N, h, lv, at, F, p, pos, e) /\ N2 \in [D -> NodeSet]
    <2>1. N \in [DOMAIN N -> NodeSet]
      BY DEF Tree, Typed
    <2>2. pos \in 1 .. K(N, p) + 1
      BY <1>N
    <2> QED
      BY <2>1, <2>2, <1>0, PlusFacts DEF N2
  <1>k. K(N2, p) = K(N, p) + 1 /\ \A r \in D : r # p => K(N2, r) = K(N, r)
    BY <1>8 DEF IsPlus
  <1>o. \A r \in D : off2[r] = IF lv[r] = a /\ at[r] > at[p] THEN off[r] + 1 ELSE off[r]
    BY DEF off2
  <1>L. \A r \in D : (at[r] = Width(F, lv[r])) <=> (off[r] + K(N, r) = W(F, lv[r]))
    BY LastPage
  <1>G. /\ \A i \in 0 .. h - 1 : i # a => Width(F2, i) = Width(F, i)
        /\ Width(F2, a) = Width(F, a)
    <2>1. ASSUME NEW i \in 0 .. h - 1
          PROVE  Width(F2, i) = Width(F, i)
      <3>1. CASE i = 0
        BY <3>1 DEF Width
      <3>2. CASE i # 0
        <4>1. i - 1 \in 0 .. h - 1 /\ i - 1 # a
          BY <2>1, <3>2, <1>N
        <4> QED
          BY <3>2, <4>1, <1>6 DEF Width
      <3> QED
        BY <3>1, <3>2
    <2> QED
      BY <2>1, <1>2
  <1>A. /\ ap => pos = K(N, p) + 1 /\ at[p] = Width(F, a) /\ off[p] + K(N, p) = W(F, a)
        /\ ~ap => pos <= K(N, p)
        /\ ap => \A i \in 0 .. h - 1 : \A j \in 1 .. W(F, i) : F[i][j].key < e.key
    <2>1. ap => pos = K(N, p) + 1
      BY DEF ap
    <2>2. ~ap => pos <= K(N, p)
      BY <1>N DEF ap
    <2>3. pos = K(N, p) + 1 => at[p] = Width(F, a) /\ \A i \in 0 .. h - 1 : \A j \in 1 .. W(F, i) : F[i][j].key < e.key
      BY DEF Grows, a
    <2>4. at[p] = Width(F, a) => off[p] + K(N, p) = W(F, a)
      BY <1>L, <1>0, <1>N
    <2> QED
      BY <2>1, <2>2, <2>3, <2>4
  <1>d. Typed(N2, root, h, lv, at, off2, F2, T2)
    <2>1. /\ h \in Nat \ {0} /\ D \subseteq Nat /\ root \in D /\ lv \in [D -> 0 .. h - 1] /\ at \in [D -> Nat \ {0}]
      BY DEF Tree, Typed
    <2>2. off2 \in [D -> Nat]
      BY <1>P DEF off2
    <2>3. F2 \in [0 .. h - 1 -> Seq(EntrySet)]
      <3>1. \A i \in 0 .. h - 1 : F2[i] \in Seq(EntrySet)
        BY <1>3, <1>6
      <3> QED
        BY <3>1 DEF F2
    <2>4. T2 \in [0 .. h - 1 -> Seq(Nat \X Nat)]
      <3>1. \A i \in 0 .. h - 1 : T2[i] \in Seq(Nat \X Nat)
        BY <1>4, <1>6, <1>7
      <3> QED
        BY <3>1 DEF T2
    <2>5. DOMAIN N2 = D
      BY <1>8
    <2> HIDE DEF D
    <2> QED
      BY <2>1, <2>2, <2>3, <2>4, <2>5, <1>8 DEF Typed
  <1>M. \A r, t \in D : lv[r] = lv[t] /\ at[r] < at[t] => off[r] + K(N, r) <= off[t]
    BY DEF Tree, Flat
  <1>Y. /\ \A r \in D : lv[r] = a /\ r # p => at[r] < at[p] \/ at[r] > at[p]
        /\ \A r \in D : lv[r] = a /\ at[r] < at[p] => off[r] + K(N, r) <= off[p]
        /\ \A r \in D : lv[r] = a /\ at[r] > at[p] => off[p] + K(N, p) <= off[r]
    <2>1. \A r \in D : lv[r] = a /\ r # p => at[r] # at[p]
      BY <1>0, <1>N, SamePlace
    <2>2. \A r \in D : lv[r] = a /\ r # p => at[r] < at[p] \/ at[r] > at[p]
      BY <2>1, <1>P, <1>N
    <2>3. \A r \in D : lv[r] = a /\ at[r] < at[p] => off[r] + K(N, r) <= off[p]
      BY <1>M, <1>0, <1>N
    <2>4. \A r \in D : lv[r] = a /\ at[r] > at[p] => off[p] + K(N, p) <= off[r]
      BY <1>M, <1>0, <1>N
    <2> QED
      BY <2>2, <2>3, <2>4
  \* Where an old position of the leaf level is now.
  <1>S. \A j \in 1 .. W(F, a) : Fa[IF j < x THEN j ELSE j + 1] = F[a][j] /\ Ta[IF j < x THEN j ELSE j + 1] = T[a][j]
    <2> TAKE j \in 1 .. W(F, a)
    <2>0. j \in Nat
      OBVIOUS
    <2>1. CASE j < x
      <3>1. j \in 1 .. x - 1
        BY <2>1, <1>N
      <3> QED
        BY <3>1, <2>1, <1>5
    <2>2. CASE ~(j < x)
      <3>1. j + 1 \in x + 1 .. W(F, a) + 1 /\ j + 1 - 1 = j
        BY <2>2, <1>N
      <3>2. Fa[j + 1] = F[a][j] /\ Ta[j + 1] = T[a][j]
        BY <3>1, <2>0, <1>5
      <3> QED
        BY <3>2, <2>2
    <2> QED
      BY <2>1, <2>2
  <1>B. \A j \in 1 .. W(F2, a) : j # x =>
          \E g \in 1 .. W(F, a) :
            /\ g = IF j < x THEN j ELSE j - 1
            /\ Fa[j] = F[a][g] /\ Ta[j] = T[a][g]
    <2> SUFFICES ASSUME NEW j \in 1 .. W(F2, a), j # x
                 PROVE  \E g \in 1 .. W(F, a) :
                          /\ g = IF j < x THEN j ELSE j - 1
                          /\ Fa[j] = F[a][g] /\ Ta[j] = T[a][g]
      OBVIOUS
    <2>0. j \in 1 .. W(F, a) + 1 /\ j \in Nat
      BY <1>6, <1>N
    <2>1. CASE j < x
      <3>1. j \in 1 .. x - 1 /\ j \in 1 .. W(F, a)
        BY <2>0, <2>1, <1>N
      <3> QED
        BY <3>1, <2>1, <1>5
    <2>2. CASE ~(j < x)
      <3>1. j \in x + 1 .. W(F, a) + 1 /\ j - 1 \in 1 .. W(F, a)
        BY <2>0, <2>2, <1>N
      <3>2. Fa[j] = F[a][j - 1] /\ Ta[j] = T[a][j - 1]
        BY <3>1, <2>0, <1>5
      <3> QED
        BY <3>1, <3>2, <2>2
    <2> QED
      BY <2>1, <2>2
  <1>e. Flat(N2, root, h, lv, at, off2, F2)
    <2>1. \A r \in D : r # root \/ h > 1 => K(N2, r) # 0
      <3>1. \A r \in D : r # root \/ h > 1 => K(N, r) # 0
        BY DEF Tree, Flat
      <3>2. K(N2, p) # 0
        BY <1>k, <1>N
      <3> QED
        BY <3>1, <3>2, <1>k
    <2>o. \A r \in D : off[r] + K(N, r) <= W(F, lv[r])
      BY DEF Tree, Flat
    <2>e. \A r \in D : \A s \in 1 .. K(N, r) : N[r].entries[s] = F[lv[r]][off[r] + s]
      BY DEF Tree, Flat
    <2>2. ASSUME NEW r \in D
          PROVE  off2[r] + K(N2, r) <= W(F2, lv[r])
      <3>0. off[r] + K(N, r) <= W(F, lv[r]) /\ off[r] \in Nat /\ K(N, r) \in Nat /\ lv[r] \in 0 .. h - 1
        BY <2>o, <1>P
      <3>1. CASE lv[r] # a
        BY <3>0, <3>1, <1>o, <1>k, <1>6, <1>N
      <3>2. CASE r = p
        <4>1. off2[p] = off[p] /\ K(N2, p) = K(N, p) + 1 /\ W(F2, a) = W(F, a) + 1
          BY <1>0, <1>o, <1>k, <1>6, <1>N
        <4> QED
          BY <4>1, <3>2, <1>N
      <3>3. CASE lv[r] = a /\ r # p
        <4>1. (off2[r] = off[r] \/ off2[r] = off[r] + 1) /\ K(N2, r) = K(N, r) /\ W(F2, a) = W(F, a) + 1
          BY <3>3, <1>o, <1>k, <1>6
        <4> QED
          BY <4>1, <3>0, <3>3, <1>N
      <3> QED
        BY <3>1, <3>2, <3>3
    <2>3. ASSUME NEW r \in D, NEW s \in 1 .. K(N2, r)
          PROVE  N2[r].entries[s] = F2[lv[r]][off2[r] + s]
      <3>0. off[r] + K(N, r) <= W(F, lv[r]) /\ off[r] \in Nat /\ K(N, r) \in Nat /\ lv[r] \in 0 .. h - 1 /\ s \in Nat
        BY <2>o, <1>P, <1>k, <1>N
      <3>1. CASE lv[r] # a
        <4>1. r # p /\ s \in 1 .. K(N, r) /\ off2[r] = off[r]
          BY <3>1, <1>k, <1>o, <1>N
        <4>2. N2[r].entries[s] = IF Top(N, h, lv, at, F, p, pos, r) /\ s = K(N, r)
                                 THEN Entry(e.key, N[r].entries[s].rid) ELSE N[r].entries[s]
          BY <4>1, <1>8 DEF IsPlus
        <4>3. off[r] + s \in 1 .. W(F, lv[r])
          BY <3>0, <4>1, <1>F
        <4>4. F2[lv[r]][off[r] + s] = IF ap /\ off[r] + s = W(F, lv[r])
                                      THEN Entry(e.key, F[lv[r]][off[r] + s].rid) ELSE F[lv[r]][off[r] + s]
          BY <3>0, <3>1, <4>3, <1>6
        <4>5. (Top(N, h, lv, at, F, p, pos, r) /\ s = K(N, r)) <=> (ap /\ off[r] + s = W(F, lv[r]))
          <5>1. (s = K(N, r) /\ off[r] + K(N, r) = W(F, lv[r])) <=> (off[r] + s = W(F, lv[r]))
            BY <3>0, <4>1, <1>F
          <5>2. Top(N, h, lv, at, F, p, pos, r) <=> ap /\ at[r] = Width(F, lv[r])
            BY <3>1 DEF Top, ap, a
          <5>3. (at[r] = Width(F, lv[r])) <=> (off[r] + K(N, r) = W(F, lv[r]))
            BY <1>L
          <5> QED
            BY <5>1, <5>2, <5>3
        <4>6. N[r].entries[s] = F[lv[r]][off[r] + s]
          BY <4>1, <2>e
        <4> QED
          BY <4>1, <4>2, <4>4, <4>5, <4>6
      <3>2. CASE lv[r] = a /\ r # p
        <4>1. s \in 1 .. K(N, r) /\ N[r].entries[s] = F[a][off[r] + s] /\ off[r] + s \in 1 .. W(F, a)
          BY <3>0, <3>2, <1>k, <2>e, <1>N
        <4>2. N2[r].entries[s] = N[r].entries[s]
          BY <3>2, <4>1, <1>8 DEF IsPlus, Top, a
        <4>3. CASE at[r] < at[p]
          <5>1. off2[r] = off[r] /\ off[r] + s < x
            BY <3>0, <3>2, <4>1, <4>3, <1>o, <1>P, <1>Y, <1>N
          <5> QED
            BY <5>1, <4>1, <4>2, <3>2, <1>S, <1>6
        <4>4. CASE at[r] > at[p]
          <5>1. off2[r] = off[r] + 1 /\ ~(off[r] + s < x) /\ off[r] + 1 + s = off[r] + s + 1
            BY <3>0, <3>2, <4>1, <4>4, <1>o, <1>P, <1>Y, <1>N
          <5>2. Fa[off[r] + s + 1] = F[a][off[r] + s]
            BY <5>1, <4>1, <1>S
          <5> QED
            BY <5>1, <5>2, <4>1, <4>2, <3>2, <1>6
        <4> QED
          BY <3>2, <4>3, <4>4, <1>Y
      <3>3. CASE r = p
        <4>0. /\ off2[p] = off[p] /\ F2[lv[r]] = Fa /\ s \in 1 .. K(N, p) + 1
              /\ \A g \in 1 .. K(N, p) : N[p].entries[g] = F[a][off[p] + g]
          <5>1. off2[p] = off[p] /\ K(N2, p) = K(N, p) + 1 /\ lv[p] = a
            BY <1>0, <1>o, <1>k, <1>N
          <5>2. F2[lv[r]] = Fa
            BY <5>1, <3>3, <1>6
          <5>3. \A g \in 1 .. K(N, p) : N[p].entries[g] = F[a][off[p] + g]
            BY <5>1, <1>0, <2>e
          <5> QED
            BY <5>1, <5>2, <5>3, <3>3
        <4>i. /\ \A g \in 1 .. pos - 1 : N2[p].entries[g] = N[p].entries[g]
              /\ N2[p].entries[pos] = e
              /\ \A g \in pos + 1 .. K(N, p) + 1 : N2[p].entries[g] = N[p].entries[g - 1]
          BY <1>8 DEF IsPlus, IsInserted
        <4>1. CASE s < pos
          <5>1. s \in 1 .. pos - 1 /\ s \in 1 .. K(N, p) /\ off[p] + s \in 1 .. x - 1
            BY <4>0, <4>1, <3>0, <1>N
          <5> QED
            BY <5>1, <4>0, <4>i, <3>3, <1>5
        <4>2. CASE s = pos
          BY <4>0, <4>2, <4>i, <3>3, <1>5, <1>N
        <4>3. CASE s > pos
          <5>1. /\ s \in pos + 1 .. K(N, p) + 1 /\ s - 1 \in 1 .. K(N, p)
                /\ off[p] + s \in x + 1 .. W(F, a) + 1 /\ off[p] + s - 1 = off[p] + (s - 1)
            BY <4>0, <4>3, <3>0, <1>N
          <5>2. Fa[off[p] + s] = F[a][off[p] + (s - 1)]
            <6>1. off[p] + s \in Nat /\ off[p] \in Nat /\ s \in Nat
              BY <3>0, <1>N
            <6>2. Fa[off[p] + s] = F[a][off[p] + s - 1]
              BY <5>1, <6>1, <1>5
            <6> QED
              BY <5>1, <6>2
          <5>3. N2[p].entries[s] = N[p].entries[s - 1]
            BY <5>1, <3>0, <4>i
          <5>4. N[p].entries[s - 1] = F[a][off[p] + (s - 1)]
            BY <5>1, <4>0
          <5> QED
            BY <5>2, <5>3, <5>4, <4>0, <3>3
        <4> QED
          BY <4>1, <4>2, <4>3, <3>0, <1>N
      <3> QED
        BY <3>1, <3>2, <3>3
    <2>4. ASSUME NEW r \in D, NEW t \in D, lv[r] = lv[t], at[r] < at[t]
          PROVE  off2[r] + K(N2, r) <= off2[t]
      <3>0. /\ off[r] + K(N, r) <= off[t] /\ off[r] \in Nat /\ off[t] \in Nat /\ K(N, r) \in Nat
            /\ at[r] \in Nat /\ at[t] \in Nat
        BY <2>4, <1>M, <1>P
      <3>1. CASE r = p
        <4>1. off2[t] = off[t] + 1 /\ off2[r] = off[r] /\ K(N2, r) = K(N, r) + 1
          BY <3>0, <3>1, <2>4, <1>o, <1>k, <1>N
        <4> QED
          BY <3>0, <4>1
      <3>2. CASE r # p
        <4>1. K(N2, r) = K(N, r)
          BY <3>2, <1>k
        <4>2. off2[r] = off[r] \/ (off2[r] = off[r] + 1 /\ off2[t] = off[t] + 1)
          BY <3>0, <2>4, <1>o, <1>N
        <4>3. off2[t] = off[t] \/ off2[t] = off[t] + 1
          BY <1>o
        <4> QED
          BY <3>0, <4>1, <4>2, <4>3
      <3> QED
        BY <3>1, <3>2
    <2>5. ASSUME NEW i \in 0 .. h - 1, NEW j \in 1 .. W(F2, i)
          PROVE  \E r \in D : lv[r] = i /\ off2[r] < j /\ j <= off2[r] + K(N2, r)
      <3>0. \A g \in 0 .. h - 1 : \A t \in 1 .. W(F, g) :
              \E r \in D : lv[r] = g /\ off[r] < t /\ t <= off[r] + K(N, r)
        BY DEF Tree, Flat
      <3>1. CASE i # a
        <4>1. j \in 1 .. W(F, i)
          BY <3>1, <1>6
        <4>2. PICK r \in D : lv[r] = i /\ off[r] < j /\ j <= off[r] + K(N, r)
          BY <3>0, <4>1
        <4>3. r # p /\ off2[r] = off[r] /\ K(N2, r) = K(N, r)
          BY <3>1, <4>2, <1>o, <1>k, <1>N
        <4> QED
          BY <4>2, <4>3
      <3>2. CASE i = a
        <4>0. j \in 1 .. W(F, a) + 1 /\ j \in Nat /\ a \in 0 .. h - 1
          BY <3>2, <1>6, <1>N
        <4>1. CASE off[p] < j /\ j <= off[p] + K(N, p) + 1
          <5>1. off2[p] = off[p] /\ K(N2, p) = K(N, p) + 1
            BY <1>0, <1>o, <1>k, <1>N
          <5> QED
            BY <5>1, <4>0, <4>1, <3>2, <1>0, <1>N
        <4>2. CASE j <= off[p]
          <5>1. j \in 1 .. W(F, a)
            BY <4>0, <4>2, <1>N
          <5>2. PICK r \in D : lv[r] = a /\ off[r] < j /\ j <= off[r] + K(N, r)
            BY <3>0, <4>0, <5>1
          <5>3. off[r] \in Nat /\ K(N, r) \in Nat /\ at[r] \in Nat
            BY <1>P
          <5>4. r # p /\ ~(at[r] > at[p])
            BY <4>0, <4>2, <5>2, <5>3, <1>Y, <1>N
          <5>5. off2[r] = off[r] /\ K(N2, r) = K(N, r)
            BY <5>4, <1>o, <1>k
          <5> QED
            BY <5>2, <5>5, <3>2
        <4>3. CASE j > off[p] + K(N, p) + 1
          <5>1. j - 1 \in 1 .. W(F, a)
            BY <4>0, <4>3, <1>N
          <5>2. PICK r \in D : lv[r] = a /\ off[r] < j - 1 /\ j - 1 <= off[r] + K(N, r)
            BY <3>0, <4>0, <5>1
          <5>3. off[r] \in Nat /\ K(N, r) \in Nat /\ at[r] \in Nat
            BY <1>P
          <5>4. r # p /\ ~(at[r] < at[p])
            BY <4>0, <4>3, <5>2, <5>3, <1>Y, <1>N
          <5>5. off2[r] = off[r] + 1 /\ K(N2, r) = K(N, r)
            BY <5>2, <5>4, <1>o, <1>k, <1>Y
          <5> QED
            BY <5>2, <5>3, <5>5, <3>2, <4>0
        <4> QED
          BY <4>0, <4>1, <4>2, <4>3, <1>N
      <3> QED
        BY <3>1, <3>2
    <2>6. DOMAIN N2 = D
      BY <1>8
    <2> QED
      BY <2>1, <2>2, <2>3, <2>4, <2>5, <2>6 DEF Flat
  <1>f. Linked(N2, root, h, lv, at, F2)
    <2>0. /\ \A r \in D : lv[r] = 0 => r = root
          /\ lv[root] = 0 /\ at[root] = 1
          /\ \A r \in D : lv[r] # 0 =>
               at[r] <= W(F, lv[r] - 1) /\ F[lv[r] - 1][at[r]] = Entry(MaxKey(N[r]), Child(r))
      BY DEF Tree, Linked
    <2>1. ASSUME NEW r \in D, lv[r] # 0
          PROVE  at[r] <= W(F2, lv[r] - 1) /\ F2[lv[r] - 1][at[r]] = Entry(MaxKey(N2[r]), Child(r))
      <3> DEFINE i == lv[r] - 1
      <3>1. i \in 0 .. h - 1 /\ i # a /\ h > 1 /\ at[r] \in Nat /\ at[r] >= 1 /\ K(N, r) \in Nat
        BY <2>1, <1>P, <1>N
      <3>2. at[r] <= W(F, i) /\ F[i][at[r]] = Entry(MaxKey(N[r]), Child(r)) /\ Width(F, lv[r]) = W(F, i)
        BY <2>0, <2>1 DEF Width
      <3>3. K(N, r) # 0
        BY <3>1 DEF Tree, Flat
      <3> HIDE DEF i
      <3>4. at[r] \in 1 .. W(F, i) /\ W(F2, i) = W(F, i)
        BY <3>1, <3>2, <1>6, <1>F
      <3>5. F2[i][at[r]] = IF ap /\ at[r] = W(F, i) THEN Entry(e.key, F[i][at[r]].rid) ELSE F[i][at[r]]
        BY <3>1, <3>4, <1>6
      <3>6. MaxKey(N2[r]) = IF ap /\ at[r] = W(F, i) THEN e.key ELSE MaxKey(N[r])
        <4>1. CASE r # p
          <5>1. K(N, r) \in 1 .. K(N, r)
            BY <3>1, <3>3
          <5>2. N2[r].entries[K(N, r)] = IF Top(N, h, lv, at, F, p, pos, r)
                                         THEN Entry(e.key, N[r].entries[K(N, r)].rid) ELSE N[r].entries[K(N, r)]
            BY <4>1, <5>1, <1>8 DEF IsPlus
          <5>3. MaxKey(N2[r]) = N2[r].entries[K(N, r)].key /\ MaxKey(N[r]) = N[r].entries[K(N, r)].key
            BY <4>1, <1>k DEF MaxKey, numKeys, K
          <5>4. Top(N, h, lv, at, F, p, pos, r) <=> ap /\ at[r] = W(F, i)
            <6>1. CASE lv[r] # a
              BY <3>2, <6>1 DEF Top, ap, a
            <6>2. CASE lv[r] = a
              <7>1. at[r] # at[p]
                BY <4>1, <6>2, <1>0, <1>N, SamePlace
              <7>2. ~Top(N, h, lv, at, F, p, pos, r)
                BY <6>2 DEF Top, a
              <7> QED
                BY <7>1, <7>2, <3>2, <6>2, <1>A
            <6> QED
              BY <6>1, <6>2
          <5> QED
            BY <5>2, <5>3, <5>4 DEF Entry
        <4>2. CASE r = p
          <5>i. /\ N2[p].entries[pos] = e
                /\ \A g \in pos + 1 .. K(N, p) + 1 : N2[p].entries[g] = N[p].entries[g - 1]
            BY <1>8 DEF IsPlus, IsInserted
          <5>1. MaxKey(N2[p]) = N2[p].entries[K(N, p) + 1].key /\ MaxKey(N[p]) = N[p].entries[K(N, p)].key
            BY <1>k DEF MaxKey, numKeys, K
          <5>2. CASE ap
            BY <4>2, <5>1, <5>2, <5>i, <1>A, <3>2, <1>N
          <5>3. CASE ~ap
            <6>1. K(N, p) + 1 \in pos + 1 .. K(N, p) + 1 /\ K(N, p) + 1 - 1 = K(N, p)
              BY <5>3, <1>A, <1>N
            <6>2. N2[p].entries[K(N, p) + 1] = N[p].entries[K(N, p)]
              BY <6>1, <5>i, <1>N
            <6> QED
              BY <6>2, <4>2, <5>1, <5>3
          <5> QED
            BY <5>2, <5>3
        <4> QED
          BY <4>1, <4>2
      <3> QED
        BY <3>2, <3>4, <3>5, <3>6 DEF i, Entry
    <2>2. ASSUME NEW i \in 0 .. h - 2, NEW j \in 1 .. W(F2, i)
          PROVE  F2[i][j].rid[1] \in D /\ lv[F2[i][j].rid[1]] = i + 1 /\ at[F2[i][j].rid[1]] = j
      <3>1. i \in 0 .. h - 1 /\ i # a
        BY <1>N
      <3>2. j \in 1 .. W(F, i) /\ F2[i][j] = IF ap /\ j = W(F, i) THEN Entry(e.key, F[i][j].rid) ELSE F[i][j]
        BY <3>1, <1>6
      <3>3. F2[i][j].rid = F[i][j].rid
        BY <3>2 DEF Entry
      <3> QED
        BY <3>2, <3>3, Under
    <2>3. DOMAIN N2 = D
      BY <1>8
    <2> QED
      BY <2>0, <2>1, <2>2, <2>3 DEF Linked
  <1>g. Chained(N2, lv, at, F2)
    <2>1. \A r \in D : Width(F2, lv[r]) = Width(F, lv[r])
      BY <1>G, <1>P
    <2>2. \A r \in D : N2[r].left = N[r].left /\ N2[r].right = N[r].right
      BY <1>8 DEF IsPlus
    <2>3. DOMAIN N2 = D
      BY <1>8
    <2> HIDE DEF D
    <2>4. Chained(N, lv, at, F)
      BY DEF Tree
    <2> QED
      BY <2>1, <2>2, <2>3, <2>4 DEF Chained, D
  <1>K. \A i \in 0 .. h - 1 : \A j, k \in 1 .. W(F, i) : j <= k => F[i][j].key <= F[i][k].key
    BY DEF Tree, Ordered
  <1>Q. e.key \in Nat
    BY <1>0, IndexTreeAssumption DEF EntrySet
  <1>q. \A i \in 0 .. h - 1 : \A j \in 1 .. W(F, i) : F[i][j].key \in Nat
    <2>1. ASSUME NEW i \in 0 .. h - 1, NEW j \in 1 .. W(F, i)
          PROVE  F[i][j].key \in Nat
      <3>1. F[i] \in Seq(EntrySet) /\ j \in 1 .. Len(F[i])
        BY <1>F DEF W
      <3> QED
        BY <3>1, MakeEntry, <1>0, <1>1
    <2> QED
      BY <2>1
  <1>b. \A j \in 1 .. W(F, a) : IF j < x THEN F[a][j].key <= e.key ELSE e.key <= F[a][j].key
    BY DEF Grows, a, x
  <1>r. \A i \in 0 .. h - 1 : i # a => \A j \in 1 .. W(F, i) :
          /\ F2[i][j].key = IF ap /\ j = W(F, i) THEN e.key ELSE F[i][j].key
          /\ F2[i][j].rid = F[i][j].rid
    <2> SUFFICES ASSUME NEW i \in 0 .. h - 1, i # a, NEW j \in 1 .. W(F, i)
                 PROVE  /\ F2[i][j].key = IF ap /\ j = W(F, i) THEN e.key ELSE F[i][j].key
                        /\ F2[i][j].rid = F[i][j].rid
      OBVIOUS
    <2>1. F2[i][j] = IF ap /\ j = W(F, i) THEN Entry(e.key, F[i][j].rid) ELSE F[i][j]
      BY <1>6
    <2> QED
      BY <2>1 DEF Entry
  <1>h. Ordered(h, F2)
    <2>1. ASSUME NEW i \in 0 .. h - 1, i # a, NEW j \in 1 .. W(F2, i), NEW k \in 1 .. W(F2, i), j <= k
          PROVE  F2[i][j].key <= F2[i][k].key
      <3>1. j \in 1 .. W(F, i) /\ k \in 1 .. W(F, i) /\ W(F, i) \in Nat
        BY <2>1, <1>6, <1>F
      <3>2. /\ F2[i][j].key = IF ap /\ j = W(F, i) THEN e.key ELSE F[i][j].key
            /\ F2[i][k].key = IF ap /\ k = W(F, i) THEN e.key ELSE F[i][k].key
        BY <2>1, <3>1, <1>r
      <3>3. F[i][j].key <= F[i][k].key /\ F[i][j].key \in Nat /\ F[i][k].key \in Nat
        BY <2>1, <3>1, <1>K, <1>q
      <3>4. ap => F[i][j].key < e.key
        BY <3>1, <1>A
      <3>5. j = W(F, i) => k = W(F, i)
        BY <2>1, <3>1
      <3> HIDE DEF D
      <3> QED
        BY <3>2, <3>3, <3>4, <3>5, <1>Q
    <2>2. ASSUME NEW j \in 1 .. W(F2, a), NEW k \in 1 .. W(F2, a), j <= k
          PROVE  Fa[j].key <= Fa[k].key
      <3>0. j \in Nat /\ k \in Nat
        BY <1>6, <1>N
      <3>1. CASE j # x /\ k # x
        <4>1. PICK g \in 1 .. W(F, a) : g = (IF j < x THEN j ELSE j - 1) /\ Fa[j] = F[a][g]
          BY <3>1, <1>B
        <4>2. PICK g2 \in 1 .. W(F, a) : g2 = (IF k < x THEN k ELSE k - 1) /\ Fa[k] = F[a][g2]
          BY <3>1, <1>B
        <4>3. g <= g2
          BY <3>0, <3>1, <4>1, <4>2, <2>2, <1>N
        <4> QED
          BY <4>1, <4>2, <4>3, <1>2, <1>K
      <3>2. CASE j # x /\ k = x
        <4>1. PICK g \in 1 .. W(F, a) : g = (IF j < x THEN j ELSE j - 1) /\ Fa[j] = F[a][g]
          BY <3>2, <1>B
        <4>2. g < x
          BY <3>0, <3>2, <4>1, <2>2, <1>N
        <4> QED
          BY <3>2, <4>1, <4>2, <1>5, <1>b
      <3>3. CASE j = x /\ k # x
        <4>1. PICK g \in 1 .. W(F, a) : g = (IF k < x THEN k ELSE k - 1) /\ Fa[k] = F[a][g]
          BY <3>3, <1>B
        <4>2. ~(g < x)
          BY <3>0, <3>3, <4>1, <2>2, <1>N
        <4> QED
          BY <3>3, <4>1, <4>2, <1>5, <1>b
      <3>4. CASE j = x /\ k = x
        BY <3>4, <1>5, <1>Q
      <3> QED
        BY <3>1, <3>2, <3>3, <3>4
    <2> QED
      BY <2>1, <2>2, <1>6 DEF Ordered
  <1>i. Topped(N2, h, off2, F2, T2)
    <2>0. /\ \A i \in 0 .. h - 1 : \A j, k \in 1 .. W(F, i) : T[i][j] = T[i][k] => j = k
          /\ \A i \in 0 .. h - 1 : \A j \in 1 .. W(F, i) : T[i][j] \in RidsOf(F[i][j].key)
          /\ \A j \in 1 .. W(F, h - 1) : T[h - 1][j] = F[h - 1][j].rid
      BY DEF Tree, Topped
    <2>1. \A i \in 0 .. h - 1 : W(T2, i) = W(F2, i)
      <3>1. W(T2, a) = W(F, a) + 1
        BY <1>4, <1>6 DEF W
      <3> QED
        BY <3>1, <1>6, <1>7
    <2>2. ASSUME NEW g \in 1 .. W(F, a)
          PROVE  T[a][g] # e.rid
      BY <2>0 DEF Grows, a
    <2>3. ASSUME NEW i \in 0 .. h - 1, NEW j \in 1 .. W(F, i), ap
          PROVE  T[i][j] # e.rid
      <3>1. T[i][j] \in RidsOf(F[i][j].key) /\ F[i][j].key < e.key
        BY <2>0, <2>3, <1>A
      <3>2. F[i][j].key # e.key
        BY <3>1, <1>Q, <1>q
      <3>3. T[i][j][1] = F[i][j].key /\ e.rid[1] = e.key
        BY <3>1, <1>0 DEF RidsOf
      <3> QED
        BY <3>2, <3>3
    <2>4. ASSUME NEW i \in 0 .. h - 1, NEW j \in 1 .. W(F2, i), NEW k \in 1 .. W(F2, i), T2[i][j] = T2[i][k]
          PROVE  j = k
      <3>1. CASE i # a
        <4>1. j \in 1 .. W(F, i) /\ k \in 1 .. W(F, i)
          BY <3>1, <1>6
        <4>2. /\ T2[i][j] = IF ap /\ j = W(F, i) THEN e.rid ELSE T[i][j]
              /\ T2[i][k] = IF ap /\ k = W(F, i) THEN e.rid ELSE T[i][k]
          BY <3>1, <4>1, <1>7
        <4>3. (ap => T[i][j] # e.rid /\ T[i][k] # e.rid) /\ (T[i][j] = T[i][k] => j = k)
          BY <4>1, <2>0, <2>3
        <4> QED
          BY <4>2, <4>3, <2>4
      <3>2. CASE i = a
        <4>0. Ta[j] = Ta[k] /\ j \in Nat /\ k \in Nat
          BY <3>2, <2>4, <1>6, <1>N
        <4>1. CASE j # x /\ k # x
          <5>1. PICK g \in 1 .. W(F, a) : g = (IF j < x THEN j ELSE j - 1) /\ Ta[j] = T[a][g]
            BY <3>2, <4>1, <1>B
          <5>2. PICK g2 \in 1 .. W(F, a) : g2 = (IF k < x THEN k ELSE k - 1) /\ Ta[k] = T[a][g2]
            BY <3>2, <4>1, <1>B
          <5>3. g = g2
            BY <4>0, <5>1, <5>2, <2>0, <1>2
          <5> QED
            BY <4>0, <4>1, <5>1, <5>2, <5>3, <1>N
        <4>2. CASE j # x /\ k = x
          <5>1. PICK g \in 1 .. W(F, a) : Ta[j] = T[a][g]
            BY <3>2, <4>2, <1>B
          <5> QED
            BY <4>0, <4>2, <5>1, <2>2, <1>5
        <4>3. CASE j = x /\ k # x
          <5>1. PICK g \in 1 .. W(F, a) : Ta[k] = T[a][g]
            BY <3>2, <4>3, <1>B
          <5> QED
            BY <4>0, <4>3, <5>1, <2>2, <1>5
        <4> QED
          BY <4>1, <4>2, <4>3
      <3> QED
        BY <3>1, <3>2
    <2>5. ASSUME NEW i \in 0 .. h - 1, NEW j \in 1 .. W(F2, i)
          PROVE  T2[i][j] \in RidsOf(F2[i][j].key)
      <3>1. CASE i # a
        <4>1. j \in 1 .. W(F, i)
          BY <3>1, <1>6
        <4>2. /\ T2[i][j] = IF ap /\ j = W(F, i) THEN e.rid ELSE T[i][j]
              /\ F2[i][j].key = IF ap /\ j = W(F, i) THEN e.key ELSE F[i][j].key
          BY <3>1, <4>1, <1>r, <1>7
        <4>3. T[i][j] \in RidsOf(F[i][j].key)
          BY <4>1, <2>0
        <4> QED
          BY <4>2, <4>3, <1>0
      <3>2. CASE i = a /\ j = x
        BY <3>2, <1>0, <1>5, <1>6
      <3>3. CASE i = a /\ j # x
        <4>1. PICK g \in 1 .. W(F, a) : Fa[j] = F[a][g] /\ Ta[j] = T[a][g]
          BY <3>3, <1>B
        <4> QED
          BY <3>3, <4>1, <2>0, <1>2, <1>6
      <3> QED
        BY <3>1, <3>2, <3>3
    <2>6. ASSUME NEW j \in 1 .. W(F2, a)
          PROVE  T2[a][j] = F2[a][j].rid
      <3>1. CASE j = x
        BY <3>1, <1>5, <1>6
      <3>2. CASE j # x
        <4>1. PICK g \in 1 .. W(F, a) : Fa[j] = F[a][g] /\ Ta[j] = T[a][g]
          BY <3>2, <1>B
        <4>2. T[a][g] = F[a][g].rid
          BY <2>0 DEF a
        <4> QED
          BY <4>1, <4>2, <1>6
      <3> QED
        BY <3>1, <3>2
    <2>7. ASSUME NEW i \in 0 .. h - 2, NEW j \in 1 .. W(F2, i)
          PROVE  T2[i][j] = T2[i + 1][off2[F2[i][j].rid[1]] + K(N2, F2[i][j].rid[1])]
      <3>0. i \in 0 .. h - 1 /\ i # a /\ i + 1 \in 0 .. h - 1 /\ i \in Nat
        BY <1>N
      <3>1. /\ j \in 1 .. W(F, i) /\ T2[i][j] = IF ap /\ j = W(F, i) THEN e.rid ELSE T[i][j]
            /\ F2[i][j].rid = F[i][j].rid
        <4>1. j \in 1 .. W(F, i)
          BY <3>0, <1>6
        <4> QED
          BY <3>0, <4>1, <1>r, <1>7
      <3> DEFINE c == F[i][j].rid[1]
      <3>2. /\ c \in D /\ lv[c] = i + 1 /\ at[c] = j /\ off[c] + K(N, c) \in 1 .. W(F, i + 1)
            /\ T[i][j] = T[i + 1][off[c] + K(N, c)]
        BY <3>1, Under
      <3>w. Width(F, i + 1) = W(F, i)
        BY <3>0 DEF Width
      <3>c. F2[i][j].rid[1] = c
        BY <3>1
      <3> HIDE DEF c
      <3>n. off[c] \in Nat /\ K(N, c) \in Nat /\ at[c] \in Nat
        BY <3>2, <1>P
      <3>3. (j = W(F, i)) <=> (off[c] + K(N, c) = W(F, i + 1))
        BY <3>2, <3>w, <1>L
      <3>4. T2[i][j] = T2[i + 1][off2[c] + K(N2, c)]
        <4>1. CASE i + 1 # a
          <5>1. off2[c] = off[c] /\ K(N2, c) = K(N, c)
            BY <3>2, <4>1, <1>o, <1>k, <1>N
          <5>2. T2[i + 1][off[c] + K(N, c)] = IF ap /\ off[c] + K(N, c) = W(F, i + 1) THEN e.rid
                                              ELSE T[i + 1][off[c] + K(N, c)]
            BY <3>0, <3>2, <4>1, <1>7
          <5> QED
            BY <3>1, <3>2, <3>3, <5>1, <5>2
        <4>2. CASE i + 1 = a /\ c = p
          <5>1. off2[c] + K(N2, c) = off[p] + K(N, p) + 1 /\ T2[i + 1] = Ta
            <6>1. off2[p] = off[p] /\ K(N2, p) = K(N, p) + 1
              BY <1>0, <1>o, <1>k, <1>N
            <6>2. off[p] + (K(N, p) + 1) = off[p] + K(N, p) + 1
              BY <1>N
            <6> QED
              BY <6>1, <6>2, <4>2, <1>6
          <5>2. CASE ap
            <6>1. off[p] + K(N, p) + 1 = x
              BY <5>2, <1>A, <1>N
            <6>2. j = W(F, i)
              BY <5>2, <4>2, <3>2, <3>w, <1>A
            <6> QED
              BY <5>1, <5>2, <6>1, <6>2, <3>1, <1>5
          <5>3. CASE ~ap
            <6>1. off[p] + K(N, p) + 1 \in x + 1 .. W(F, a) + 1 /\ off[p] + K(N, p) + 1 - 1 = off[p] + K(N, p)
              BY <5>3, <1>A, <1>N
            <6>2. Ta[off[p] + K(N, p) + 1] = T[a][off[p] + K(N, p)]
              BY <6>1, <1>N, <1>5
            <6> QED
              BY <5>1, <5>3, <6>2, <3>1, <3>2, <4>2
          <5> QED
            BY <5>2, <5>3
        <4>3. CASE i + 1 = a /\ c # p /\ at[c] < at[p]
          <5>1. off2[c] = off[c] /\ K(N2, c) = K(N, c) /\ off[c] + K(N, c) < x /\ T2[i + 1] = Ta
            <6>1. off[c] + K(N, c) <= off[p]
              BY <3>2, <4>3, <1>Y
            <6>2. off2[c] = off[c] /\ K(N2, c) = K(N, c)
              BY <3>2, <3>n, <4>3, <1>o, <1>k, <1>N
            <6>3. off[c] + K(N, c) < x
              BY <6>1, <3>n, <1>N
            <6> QED
              BY <6>2, <6>3, <4>3, <1>6
          <5>2. ap => j # W(F, i)
            BY <3>2, <3>w, <3>n, <4>3, <1>A, <1>N
          <5>3. Ta[off[c] + K(N, c)] = T[a][off[c] + K(N, c)]
            BY <5>1, <3>2, <4>3, <1>S
          <5> QED
            BY <5>1, <5>2, <5>3, <3>1, <3>2, <4>3
        <4>4. CASE i + 1 = a /\ c # p /\ at[c] > at[p]
          <5>1. off[p] + K(N, p) <= off[c] /\ K(N, c) >= 1
            <6>1. K(N, c) >= 1
              BY <3>1, Under DEF c
            <6> QED
              BY <6>1, <3>2, <4>4, <1>Y
          <5>2. /\ off2[c] = off[c] + 1 /\ K(N2, c) = K(N, c) /\ ~(off[c] + K(N, c) < x) /\ T2[i + 1] = Ta
                /\ off[c] + 1 + K(N, c) = off[c] + K(N, c) + 1
            <6>1. off2[c] = off[c] + 1 /\ K(N2, c) = K(N, c)
              BY <3>2, <3>n, <4>4, <1>o, <1>k, <1>N
            <6>2. ~(off[c] + K(N, c) < x) /\ off[c] + 1 + K(N, c) = off[c] + K(N, c) + 1
              BY <5>1, <3>n, <1>N
            <6> QED
              BY <6>1, <6>2, <4>4, <1>6
          <5>3. ~ap
            <6>1. off[c] + K(N, c) <= W(F, a)
              BY <3>2, <4>4
            <6> QED
              BY <6>1, <5>1, <3>n, <1>A, <1>N
          <5>4. Ta[off[c] + K(N, c) + 1] = T[a][off[c] + K(N, c)]
            BY <5>2, <3>2, <4>4, <1>S
          <5> QED
            BY <5>2, <5>3, <5>4, <3>1, <3>2, <4>4
        <4> QED
          BY <4>1, <4>2, <4>3, <4>4, <3>2, <1>Y
      <3> QED
        BY <3>4, <3>c
    <2> QED
      BY <2>1, <2>4, <2>5, <2>6, <2>7 DEF Topped, a
  <1> QED
    <2>1. Tree(N2, root, h, lv, at, off2, F2, T2)
      BY <1>d, <1>e, <1>f, <1>g, <1>h, <1>i DEF Tree
    <2>2. F2[h - 1] = Inserted(F[h - 1], off[p] + pos, e)
      BY <1>6 DEF Fa, a, x
    <2>3. \A i \in 0 .. h - 1 : i # h - 1 => W(F2, i) = W(F, i)
      BY <1>6 DEF a
    <2> QED
      BY <2>1, <2>2, <2>3 DEF N2

----------------------------------------------------------------------------
\* A new root.

\* A new root over the old one.
Above(N, root, q) ==
  [r \in DOMAIN N \cup {q} |->
     IF r = q THEN [entries |-> <<Entry(MaxKey(N[root]), Child(root))>>, left |-> NoPage, right |-> NoPage]
     ELSE N[r]]

\* A new root above a root leaves a tree.
LEMMA AboveTree ==
  ASSUME NEW N, NEW root, NEW h, NEW lv, NEW at, NEW off, NEW F, NEW T,
         Tree(N, root, h, lv, at, off, F, T),
         K(N, root) # 0, NEW q \in Nat, q \notin DOMAIN N
  PROVE  \E lv2, at2, off2, F2, T2 :
           /\ Tree(Above(N, root, q), q, h + 1, lv2, at2, off2, F2, T2)
           /\ F2[h] = F[h - 1]
           /\ lv2[q] = 0 /\ \A r \in DOMAIN N : lv2[r] = lv[r] + 1
  <1> DEFINE D  == DOMAIN N
             N2 == Above(N, root, q)
             e  == Entry(MaxKey(N[root]), Child(root))
             y  == off[root] + K(N, root)
             lv2  == [r \in D \cup {q} |-> IF r = q THEN 0 ELSE lv[r] + 1]
             at2  == [r \in D \cup {q} |-> IF r = q THEN 1 ELSE at[r]]
             off2 == [r \in D \cup {q} |-> IF r = q THEN 0 ELSE off[r]]
             F2 == [i \in 0 .. (h + 1) - 1 |-> IF i = 0 THEN <<e>> ELSE F[i - 1]]
             T2 == [i \in 0 .. (h + 1) - 1 |-> IF i = 0 THEN <<T[0][y]>> ELSE T[i - 1]]
  <1> HIDE DEF N2, lv2, at2, off2, F2, T2, e, y
  <1>1. h \in Nat /\ h >= 1 /\ D \subseteq Nat /\ root \in D
    BY TreeTypes
  <1>P. /\ \A r \in D : lv[r] \in 0 .. h - 1
        /\ \A r \in D : at[r] \in Nat /\ at[r] >= 1
        /\ \A r \in D : off[r] \in Nat
        /\ \A r \in D : K(N, r) \in Nat
        /\ \A r \in D : N[r] \in NodeSet
    BY TreeTypes
  <1>F. /\ \A i \in 0 .. h - 1 : F[i] \in Seq(EntrySet)
        /\ \A i \in 0 .. h - 1 : W(F, i) \in Nat
    BY TreeTypes
  <1>T. /\ \A i \in 0 .. h - 1 : T[i] \in Seq(Nat \X Nat)
        /\ \A i \in 0 .. h - 1 : W(T, i) = W(F, i)
    BY TreeTypes
  <1>R. lv[root] = 0 /\ at[root] = 1 /\ \A r \in D : lv[r] = 0 => r = root
    BY DEF Tree, Linked
  <1>y. y \in 1 .. W(F, 0) /\ MaxKey(N[root]) = F[0][y].key /\ e \in EntrySet /\ T[0][y] \in Nat \X Nat
    <2>1. K(N, root) \in 1 .. K(N, root)
      BY <1>1, <1>P
    <2>2. y \in 1 .. W(F, 0) /\ N[root].entries[K(N, root)] = F[0][y] /\ F[0][y] \in EntrySet
      BY <2>1, <1>1, <1>R, EntryAt DEF y
    <2>3. MaxKey(N[root]) = F[0][y].key
      BY <2>2 DEF MaxKey, numKeys, K
    <2>4. F[0][y].key \in KeyValues /\ Child(root) \in Nat \X (Nat \cup {-1})
      BY <2>2, <1>1 DEF EntrySet, Child
    <2>5. e \in EntrySet
      BY <2>3, <2>4 DEF e, Entry, EntrySet
    <2>6. T[0] \in Seq(Nat \X Nat) /\ W(T, 0) = W(F, 0)
      BY <1>1, <1>T
    <2>7. T[0][y] \in Nat \X Nat
      BY <2>2, <2>6, Elem DEF W
    <2> QED
      BY <2>2, <2>3, <2>5, <2>7
  <1>2. /\ DOMAIN N2 = D \cup {q} /\ \A r \in D : N2[r] = N[r]
        /\ N2[q] = [entries |-> <<e>>, left |-> NoPage, right |-> NoPage]
        /\ N2 \in [DOMAIN N2 -> NodeSet]
    <2>1. DOMAIN N2 = D \cup {q} /\ \A r \in D : N2[r] = N[r]
      BY DEF N2, Above
    <2>2. N2[q] = [entries |-> <<e>>, left |-> NoPage, right |-> NoPage]
      BY DEF N2, Above, e
    <2>3. <<e>> \in Seq(EntrySet) /\ NoPage \in Nat \cup {NoPage}
      BY <1>y
    <2>4. [entries |-> <<e>>, left |-> NoPage, right |-> NoPage] \in NodeSet
      BY <2>3, MakeNode
    <2>5. \A r \in D \cup {q} : N2[r] \in NodeSet
      BY <2>1, <2>2, <2>4, <1>P
    <2>6. N2 = [r \in D \cup {q} |-> N2[r]]
      BY DEF N2, Above
    <2> QED
      BY <2>1, <2>2, <2>5, <2>6
  <1>k. K(N2, q) = 1 /\ N2[q].entries[1] = e /\ \A r \in D : K(N2, r) = K(N, r)
    BY <1>2 DEF K
  <1>3. /\ lv2[q] = 0 /\ at2[q] = 1 /\ off2[q] = 0
        /\ \A r \in D : lv2[r] = lv[r] + 1 /\ at2[r] = at[r] /\ off2[r] = off[r]
    BY DEF lv2, at2, off2
  <1>4. /\ F2[0] = <<e>> /\ T2[0] = <<T[0][y]>>
        /\ \A i \in 0 .. h - 1 : F2[i + 1] = F[i] /\ T2[i + 1] = T[i]
        /\ W(F2, 0) = 1 /\ W(T2, 0) = 1 /\ F2[0][1] = e /\ T2[0][1] = T[0][y]
        /\ \A i \in 0 .. h - 1 : W(F2, i + 1) = W(F, i) /\ W(T2, i + 1) = W(F, i)
    <2>1. F2[0] = <<e>> /\ T2[0] = <<T[0][y]>>
      BY <1>1 DEF F2, T2
    <2>2. ASSUME NEW i \in 0 .. h - 1
          PROVE  F2[i + 1] = F[i] /\ T2[i + 1] = T[i]
      <3>1. i + 1 \in 0 .. (h + 1) - 1 /\ i + 1 # 0 /\ i + 1 - 1 = i
        BY <1>1
      <3> QED
        BY <3>1 DEF F2, T2
    <2>3. \A i \in 0 .. h - 1 : W(F2, i + 1) = W(F, i) /\ W(T2, i + 1) = W(F, i)
      <3>1. \A i \in 0 .. h - 1 : W(F2, i + 1) = W(F, i) /\ W(T2, i + 1) = W(T, i)
        BY <2>2 DEF W
      <3> QED
        BY <3>1, <1>T
    <2>4. W(F2, 0) = 1 /\ W(T2, 0) = 1 /\ F2[0][1] = e /\ T2[0][1] = T[0][y]
      BY <2>1 DEF W
    <2> QED
      BY <2>1, <2>2, <2>3, <2>4
  <1>L. \A i \in 0 .. h : i = 0 \/ \E g \in 0 .. h - 1 : i = g + 1
    <2> TAKE i \in 0 .. h
    <2>1. CASE i # 0
      <3>1. i - 1 \in 0 .. h - 1 /\ i = (i - 1) + 1
        BY <2>1, <1>1
      <3> QED
        BY <3>1
    <2> QED
      BY <2>1
  <1>s. (h + 1) - 1 = h /\ (h + 1) - 2 = h - 1 /\ h + 1 > 1 /\ h + 1 \in Nat \ {0} /\ h = h - 1 + 1 /\ h - 1 \in 0 .. h - 1
        /\ \A i \in 0 .. h - 1 : i + 1 # 0 /\ i + 1 - 1 = i /\ i + 1 \in 0 .. h /\ 0 + 1 = 1
    BY <1>1
  <1>d. Typed(N2, q, h + 1, lv2, at2, off2, F2, T2)
    <2>1. D \cup {q} \subseteq Nat /\ DOMAIN N2 = D \cup {q}
      BY <1>1, <1>2
    <2>2. \A r \in D \cup {q} : lv2[r] \in 0 .. (h + 1) - 1 /\ at2[r] \in Nat \ {0} /\ off2[r] \in Nat
      <3>1. \A r \in D : lv2[r] \in 0 .. (h + 1) - 1 /\ at2[r] \in Nat \ {0} /\ off2[r] \in Nat
        BY <1>P, <1>3, <1>s
      <3> QED
        BY <3>1, <1>3, <1>1
    <2>3. /\ lv2 = [r \in D \cup {q} |-> lv2[r]] /\ at2 = [r \in D \cup {q} |-> at2[r]]
          /\ off2 = [r \in D \cup {q} |-> off2[r]]
      BY DEF lv2, at2, off2
    <2>4. lv2 \in [D \cup {q} -> 0 .. (h + 1) - 1] /\ at2 \in [D \cup {q} -> Nat \ {0}] /\ off2 \in [D \cup {q} -> Nat]
      BY <2>2, <2>3
    <2>5. \A i \in 0 .. h : F2[i] \in Seq(EntrySet) /\ T2[i] \in Seq(Nat \X Nat)
      <3>1. F2[0] \in Seq(EntrySet) /\ T2[0] \in Seq(Nat \X Nat)
        BY <1>4, <1>y
      <3>2. \A i \in 0 .. h - 1 : F2[i + 1] \in Seq(EntrySet) /\ T2[i + 1] \in Seq(Nat \X Nat)
        BY <1>4, <1>F, <1>T
      <3> QED
        BY <3>1, <3>2, <1>L
    <2>6. F2 \in [0 .. (h + 1) - 1 -> Seq(EntrySet)] /\ T2 \in [0 .. (h + 1) - 1 -> Seq(Nat \X Nat)]
      BY <2>5, <1>s DEF F2, T2
    <2>7. h + 1 \in Nat \ {0} /\ DOMAIN N2 \subseteq Nat /\ q \in DOMAIN N2 /\ N2 \in [DOMAIN N2 -> NodeSet]
      BY <2>1, <1>2, <1>s
    <2>8. lv2 \in [DOMAIN N2 -> 0 .. (h + 1) - 1] /\ at2 \in [DOMAIN N2 -> Nat \ {0}] /\ off2 \in [DOMAIN N2 -> Nat]
      BY <2>1, <2>4
    <2> QED
      BY <2>6, <2>7, <2>8 DEF Typed
  <1>e. Flat(N2, q, h + 1, lv2, at2, off2, F2)
    <2>0. Flat(N, root, h, lv, at, off, F)
      BY DEF Tree
    <2>1. \A r \in D \cup {q} : K(N2, r) # 0
      <3>1. ASSUME NEW r \in D
            PROVE  K(N, r) # 0
        <4>1. CASE r = root
          BY <4>1
        <4>2. CASE r # root
          BY <4>2, <2>0 DEF Flat
        <4> QED
          BY <4>1, <4>2
      <3> QED
        BY <3>1, <1>k
    <2>2. \A r \in D \cup {q} : off2[r] + K(N2, r) <= W(F2, lv2[r])
      <3>1. \A r \in D : off2[r] + K(N2, r) <= W(F2, lv2[r])
        BY <2>0, <1>k, <1>3, <1>4, <1>P DEF Flat
      <3> QED
        BY <3>1, <1>k, <1>3, <1>4
    <2>3. \A r \in D \cup {q} : \A s \in 1 .. K(N2, r) : N2[r].entries[s] = F2[lv2[r]][off2[r] + s]
      <3>1. ASSUME NEW r \in D, NEW s \in 1 .. K(N2, r)
            PROVE  N2[r].entries[s] = F2[lv2[r]][off2[r] + s]
        <4>1. F2[lv2[r]] = F[lv[r]] /\ off2[r] = off[r] /\ N2[r] = N[r] /\ K(N2, r) = K(N, r)
          BY <1>2, <1>k, <1>3, <1>4, <1>P
        <4> QED
          BY <4>1, <2>0 DEF Flat
      <3>2. ASSUME NEW s \in 1 .. K(N2, q)
            PROVE  N2[q].entries[s] = F2[lv2[q]][off2[q] + s]
        <4>1. s = 1 /\ 0 + s = 1
          BY <1>k
        <4> QED
          BY <4>1, <1>k, <1>3, <1>4
      <3> QED
        BY <3>1, <3>2
    <2>4. \A r, t \in D \cup {q} : lv2[r] = lv2[t] /\ at2[r] < at2[t] => off2[r] + K(N2, r) <= off2[t]
      <3>1. ASSUME NEW r \in D, NEW t \in D, lv2[r] = lv2[t], at2[r] < at2[t]
            PROVE  off2[r] + K(N2, r) <= off2[t]
        <4>1. lv[r] = lv[t] /\ at[r] < at[t]
          BY <3>1, <1>3, <1>P
        <4> QED
          BY <4>1, <2>0, <1>3, <1>k DEF Flat
      <3>2. \A r \in D : lv2[r] # lv2[q]
        BY <1>3, <1>P, <1>s
      <3>3. ~(at2[q] < at2[q])
        BY <1>3
      <3> QED
        BY <3>1, <3>2, <3>3
    <2>5. \A i \in 0 .. h : \A j \in 1 .. W(F2, i) :
            \E r \in D \cup {q} : lv2[r] = i /\ off2[r] < j /\ j <= off2[r] + K(N2, r)
      <3>1. ASSUME NEW j \in 1 .. W(F2, 0)
            PROVE  lv2[q] = 0 /\ off2[q] < j /\ j <= off2[q] + K(N2, q)
        BY <1>k, <1>3, <1>4
      <3>2. ASSUME NEW i \in 0 .. h - 1, NEW j \in 1 .. W(F2, i + 1)
            PROVE  \E r \in D \cup {q} : lv2[r] = i + 1 /\ off2[r] < j /\ j <= off2[r] + K(N2, r)
        <4>1. j \in 1 .. W(F, i)
          BY <1>4
        <4>2. PICK r \in D : lv[r] = i /\ off[r] < j /\ j <= off[r] + K(N, r)
          BY <4>1, <2>0 DEF Flat
        <4> QED
          BY <4>2, <1>3, <1>k
      <3> QED
        BY <3>1, <3>2, <1>L
    <2> QED
      BY <2>1, <2>2, <2>3, <2>4, <2>5, <1>2, <1>s DEF Flat
  <1>f. Linked(N2, q, h + 1, lv2, at2, F2)
    <2>0. /\ \A r \in D : lv[r] # 0 =>
               at[r] <= W(F, lv[r] - 1) /\ F[lv[r] - 1][at[r]] = Entry(MaxKey(N[r]), Child(r))
          /\ \A i \in 0 .. h - 2 : \A j \in 1 .. W(F, i) :
               F[i][j].rid[1] \in D /\ lv[F[i][j].rid[1]] = i + 1 /\ at[F[i][j].rid[1]] = j
      BY DEF Tree, Linked
    <2>1. \A r \in D \cup {q} : lv2[r] = 0 => r = q
      BY <1>3, <1>P, <1>s
    <2>2. ASSUME NEW r \in D
          PROVE  at2[r] <= W(F2, lv2[r] - 1) /\ F2[lv2[r] - 1][at2[r]] = Entry(MaxKey(N2[r]), Child(r))
      <3>0. lv2[r] - 1 = lv[r] /\ at2[r] = at[r] /\ N2[r] = N[r] /\ lv[r] \in 0 .. h - 1
        BY <1>2, <1>3, <1>P
      <3>1. CASE lv[r] = 0
        <4>1. r = root /\ at[r] = 1
          BY <3>1, <1>R
        <4> QED
          BY <3>0, <3>1, <4>1, <1>4 DEF e
      <3>2. CASE lv[r] # 0
        <4>1. lv[r] - 1 \in 0 .. h - 1 /\ lv[r] - 1 + 1 = lv[r]
          BY <3>0, <3>2, <1>1
        <4>2. F2[lv[r]] = F[lv[r] - 1] /\ W(F2, lv[r]) = W(F, lv[r] - 1)
          <5>1. F2[lv[r] - 1 + 1] = F[lv[r] - 1] /\ W(F2, lv[r] - 1 + 1) = W(F, lv[r] - 1)
            BY <4>1, <1>4
          <5> QED
            BY <4>1, <5>1
        <4> QED
          BY <3>0, <3>2, <4>2, <2>0
      <3> QED
        BY <3>1, <3>2
    <2>3. \A i \in 0 .. h - 1 : \A j \in 1 .. W(F2, i) :
            F2[i][j].rid[1] \in D \cup {q} /\ lv2[F2[i][j].rid[1]] = i + 1 /\ at2[F2[i][j].rid[1]] = j
      <3>1. ASSUME NEW j \in 1 .. W(F2, 0)
            PROVE  F2[0][j].rid[1] \in D \cup {q} /\ lv2[F2[0][j].rid[1]] = 0 + 1 /\ at2[F2[0][j].rid[1]] = j
        <4>1. j = 1
          BY <1>4
        <4>2. F2[0][j].rid[1] = root
          BY <4>1, <1>4 DEF e, Entry, Child
        <4> QED
          BY <4>1, <4>2, <1>1, <1>3, <1>R
      <3>2. ASSUME NEW i \in 0 .. h - 1, i + 1 \in 0 .. h - 1, NEW j \in 1 .. W(F2, i + 1)
            PROVE  F2[i + 1][j].rid[1] \in D \cup {q} /\ lv2[F2[i + 1][j].rid[1]] = i + 1 + 1 /\ at2[F2[i + 1][j].rid[1]] = j
        <4>1. i \in 0 .. h - 2
          BY <3>2, <1>1
        <4>2. F2[i + 1] = F[i] /\ j \in 1 .. W(F, i)
          BY <1>4
        <4>3. F[i][j].rid[1] \in D /\ lv[F[i][j].rid[1]] = i + 1 /\ at[F[i][j].rid[1]] = j
          BY <4>1, <4>2, <2>0
        <4> QED
          BY <4>2, <4>3, <1>3
      <3>3. \A i \in 0 .. h - 1 : i \in 0 .. h
        BY <1>1
      <3> QED
        BY <3>1, <3>2, <3>3, <1>L
    <2> QED
      BY <2>1, <2>2, <2>3, <1>2, <1>3, <1>s DEF Linked
  <1>g. Chained(N2, lv2, at2, F2)
    <2>0. \A r \in D :
            /\ IF at[r] = Width(F, lv[r]) THEN N[r].right = NoPage
               ELSE N[r].right \in D /\ lv[N[r].right] = lv[r] /\ at[N[r].right] = at[r] + 1
            /\ IF at[r] = 1 THEN N[r].left = NoPage
               ELSE N[r].left \in D /\ lv[N[r].left] = lv[r] /\ at[N[r].left] < at[r]
      BY DEF Tree, Chained
    <2>1. \A r \in D : Width(F2, lv2[r]) = Width(F, lv[r])
      <3> TAKE r \in D
      <3>0. lv2[r] # 0 /\ lv2[r] - 1 = lv[r] /\ lv[r] \in 0 .. h - 1
        BY <1>3, <1>P
      <3>1. CASE lv[r] = 0
        BY <3>0, <3>1, <1>4 DEF Width
      <3>2. CASE lv[r] # 0
        <4>1. lv[r] - 1 \in 0 .. h - 1 /\ lv[r] - 1 + 1 = lv[r]
          BY <3>0, <3>2, <1>1
        <4>2. W(F2, lv[r] - 1 + 1) = W(F, lv[r] - 1)
          BY <4>1, <1>4
        <4> QED
          BY <3>0, <3>2, <4>1, <4>2 DEF Width
      <3> QED
        BY <3>1, <3>2
    <2>2. ASSUME NEW r \in D
          PROVE  /\ IF at2[r] = Width(F2, lv2[r]) THEN N2[r].right = NoPage
                    ELSE N2[r].right \in D \cup {q} /\ lv2[N2[r].right] = lv2[r] /\ at2[N2[r].right] = at2[r] + 1
                 /\ IF at2[r] = 1 THEN N2[r].left = NoPage
                    ELSE N2[r].left \in D \cup {q} /\ lv2[N2[r].left] = lv2[r] /\ at2[N2[r].left] < at2[r]
      BY <2>0, <2>1, <1>2, <1>3
    <2>3. at2[q] = 1 /\ Width(F2, lv2[q]) = 1 /\ N2[q].right = NoPage /\ N2[q].left = NoPage
      BY <1>2, <1>3 DEF Width
    <2> QED
      BY <2>2, <2>3, <1>2 DEF Chained
  <1>h. Ordered(h + 1, F2)
    <2>1. \A i \in 0 .. h - 1 : \A j, k \in 1 .. W(F, i) : j <= k => F[i][j].key <= F[i][k].key
      BY DEF Tree, Ordered
    <2>2. \A j, k \in 1 .. W(F2, 0) : j <= k => F2[0][j].key <= F2[0][k].key
      <3>1. \A j \in 1 .. W(F2, 0) : j = 1
        BY <1>4
      <3>2. e.key \in Nat
        BY <1>y, IndexTreeAssumption DEF EntrySet
      <3> QED
        BY <3>1, <3>2, <1>4
    <2>3. \A i \in 0 .. h - 1 : \A j, k \in 1 .. W(F2, i + 1) : j <= k => F2[i + 1][j].key <= F2[i + 1][k].key
      BY <2>1, <1>4
    <2> QED
      BY <2>2, <2>3, <1>L, <1>s DEF Ordered
  <1>i. Topped(N2, h + 1, off2, F2, T2)
    <2>0. /\ \A i \in 0 .. h - 1 : \A j, k \in 1 .. W(F, i) : T[i][j] = T[i][k] => j = k
          /\ \A i \in 0 .. h - 1 : \A j \in 1 .. W(F, i) : T[i][j] \in RidsOf(F[i][j].key)
          /\ \A j \in 1 .. W(F, h - 1) : T[h - 1][j] = F[h - 1][j].rid
      BY DEF Tree, Topped
    <2>1. \A i \in 0 .. h : W(T2, i) = W(F2, i)
      BY <1>4, <1>L
    <2>2. \A i \in 0 .. h : \A j, k \in 1 .. W(F2, i) : T2[i][j] = T2[i][k] => j = k
      <3>1. \A j \in 1 .. W(F2, 0) : j = 1
        BY <1>4
      <3>2. \A i \in 0 .. h - 1 : \A j, k \in 1 .. W(F2, i + 1) : T2[i + 1][j] = T2[i + 1][k] => j = k
        BY <2>0, <1>4
      <3> QED
        BY <3>1, <3>2, <1>L
    <2>3. \A i \in 0 .. h : \A j \in 1 .. W(F2, i) : T2[i][j] \in RidsOf(F2[i][j].key)
      <3>1. \A j \in 1 .. W(F2, 0) : T2[0][j] \in RidsOf(F2[0][j].key)
        <4>1. \A j \in 1 .. W(F2, 0) : j = 1
          BY <1>4
        <4>2. e.key = F[0][y].key /\ T[0][y] \in RidsOf(F[0][y].key)
          BY <2>0, <1>y, <1>1 DEF e, Entry
        <4> QED
          BY <4>1, <4>2, <1>4
      <3>2. \A i \in 0 .. h - 1 : \A j \in 1 .. W(F2, i + 1) : T2[i + 1][j] \in RidsOf(F2[i + 1][j].key)
        BY <2>0, <1>4
      <3> QED
        BY <3>1, <3>2, <1>L
    <2>4. \A j \in 1 .. W(F2, h) : T2[h][j] = F2[h][j].rid
      <3>1. F2[h - 1 + 1] = F[h - 1] /\ T2[h - 1 + 1] = T[h - 1] /\ W(F2, h - 1 + 1) = W(F, h - 1)
        BY <1>s, <1>4
      <3> QED
        BY <3>1, <1>s, <2>0
    <2>5. \A i \in 0 .. h - 1 : \A j \in 1 .. W(F2, i) :
            T2[i][j] = T2[i + 1][off2[F2[i][j].rid[1]] + K(N2, F2[i][j].rid[1])]
      <3>1. ASSUME NEW j \in 1 .. W(F2, 0)
            PROVE  T2[0][j] = T2[0 + 1][off2[F2[0][j].rid[1]] + K(N2, F2[0][j].rid[1])]
        <4>1. j = 1
          BY <1>4
        <4>2. F2[0][j].rid[1] = root
          BY <4>1, <1>4 DEF e, Entry, Child
        <4>3. off2[root] + K(N2, root) = y /\ T2[0 + 1] = T[0]
          BY <1>1, <1>3, <1>4, <1>k DEF y
        <4> QED
          BY <4>1, <4>2, <4>3, <1>4
      <3>2. ASSUME NEW i \in 0 .. h - 1, i + 1 \in 0 .. h - 1, NEW j \in 1 .. W(F2, i + 1)
            PROVE  T2[i + 1][j] = T2[i + 1 + 1][off2[F2[i + 1][j].rid[1]] + K(N2, F2[i + 1][j].rid[1])]
        <4>1. i \in 0 .. h - 2
          BY <3>2, <1>1
        <4>2. F2[i + 1] = F[i] /\ T2[i + 1] = T[i] /\ T2[i + 1 + 1] = T[i + 1] /\ j \in 1 .. W(F, i)
          BY <3>2, <1>4
        <4>3. F[i][j].rid[1] \in D /\ T[i][j] = T[i + 1][off[F[i][j].rid[1]] + K(N, F[i][j].rid[1])]
          BY <4>1, <4>2, Under
        <4> QED
          BY <4>2, <4>3, <1>3, <1>k
      <3>3. \A i \in 0 .. h - 1 : i \in 0 .. h
        BY <1>1
      <3> QED
        BY <3>1, <3>2, <3>3, <1>L
    <2> QED
      BY <2>1, <2>2, <2>3, <2>4, <2>5, <1>s DEF Topped
  <1> QED
    <2>1. Tree(N2, q, h + 1, lv2, at2, off2, F2, T2)
      BY <1>d, <1>e, <1>f, <1>g, <1>h, <1>i DEF Tree
    <2>2. F2[h] = F[h - 1]
      BY <1>s, <1>4
    <2> QED
      BY <2>1, <2>2, <1>3 DEF N2

----------------------------------------------------------------------------
\* The way from the root to a key, and the bounds that InsertEntry raises on it.

\* The position pos that FindKey is to name in a node with c entries.
Finds(n, c, k, pos) ==
  /\ pos \in 1 .. c + 1
  /\ pos <= c => n.entries[pos].key >= k
  /\ \A q \in 1 .. pos - 1 : n.entries[q].key < k

\* There is one such position, and FindKey names it.
LEMMA FindKeyFacts ==
  ASSUME NEW n, NEW c \in Nat, c = numKeys(n), \A q \in 1 .. c : n.entries[q].key \in Nat,
         NEW k \in Nat
  PROVE  /\ Finds(n, c, k, FindKey(n, k))
         /\ \A pos : Finds(n, c, k, pos) => FindKey(n, k) = pos
  <1> DEFINE S == {pos \in 1 .. c + 1 : pos <= c => n.entries[pos].key >= k}
  <1>1. S \in SUBSET Nat /\ c + 1 \in S
    OBVIOUS
  <1>2. PICK pos \in S : \A q \in S : pos <= q
    <2> HIDE DEF S
    <2> QED
      BY <1>1, LeastMember
  <1>3. Finds(n, c, k, pos)
    <2>1. \A q \in 1 .. pos - 1 : n.entries[q].key < k
      <3> TAKE q \in 1 .. pos - 1
      <3>1. q \in 1 .. c /\ q \notin S
        BY <1>2
      <3> QED
        BY <3>1
    <2> QED
      BY <2>1 DEF Finds
  <1>4. ASSUME NEW a, NEW b, Finds(n, c, k, a), Finds(n, c, k, b), a < b
        PROVE  FALSE
    <2>1. a \in Nat /\ b \in Nat /\ a \in 1 .. c /\ a \in 1 .. b - 1
      BY <1>4 DEF Finds
    <2>2. n.entries[a].key >= k /\ n.entries[a].key < k
      BY <1>4, <2>1 DEF Finds
    <2> QED
      BY <2>1, <2>2
  <1>5. ASSUME NEW a, NEW b, Finds(n, c, k, a), Finds(n, c, k, b)
        PROVE  a = b
    <2>1. a \in Nat /\ b \in Nat
      BY <1>5 DEF Finds
    <2>2. ~(a < b)
      BY <1>4, <1>5
    <2>3. ~(b < a)
      BY <1>4, <1>5
    <2> QED
      BY <2>1, <2>2, <2>3
  <1>6. FindKey(n, k) = CHOOSE p \in 1 .. c + 1 : Finds(n, c, k, p)
    BY DEF FindKey, Finds
  <1>7. Finds(n, c, k, FindKey(n, k))
    <2>1. pos \in 1 .. c + 1
      OBVIOUS
    <2> HIDE DEF S
    <2> QED
      BY <1>3, <1>6, <2>1
  <1> QED
    BY <1>5, <1>7

\* The child that the way down for k takes from page p.
Below1(N, k, p) == N[p].entries[PosIn(N[p], k)].rid[1]

IsPath(page, N, root, k, n) ==
  page[0] = root /\ \A i \in 0 .. n : i # 0 => page[i] = Below1(N, k, page[i - 1])

\* There is such a path of every length.
LEMMA PathExists ==
  ASSUME NEW N, NEW root, NEW k, NEW n \in Nat
  PROVE  \E page : IsPath(page, N, root, k, n)
  <1> DEFINE Solves(g, m) == IsPath(g, N, root, k, m)
             S == {m \in Nat : \A g : ~Solves(g, m)}
  <1>0. \A m \in Nat : m \in S <=> \A g : ~Solves(g, m)
    <2> HIDE DEF Solves
    <2> QED
      OBVIOUS
  <1>1. ASSUME n \in S PROVE FALSE
    <2>1. PICK m \in S : \A j \in S : m <= j
      <3>1. S \in SUBSET Nat /\ S # {}
        BY <1>1
      <3> HIDE DEF S
      <3> QED
        BY <3>1, LeastMember
    <2>2. m \in Nat /\ m # 0
      <3> DEFINE g == [i \in 0 .. 0 |-> root]
      <3>1. Solves(g, 0)
        BY DEF IsPath
      <3> QED
        BY <1>0, <2>1, <3>1
    <2>3. PICK g : Solves(g, m - 1)
      <3> HIDE DEF Solves, S
      <3>2. m - 1 \in Nat /\ m - 1 \notin S
        BY <2>1, <2>2
      <3> QED
        BY <1>0, <3>2
    <2> DEFINE f == [i \in 0 .. m |-> IF i = m THEN Below1(N, k, g[m - 1]) ELSE g[i]]
    <2>4. g[0] = root /\ \A i \in 0 .. m - 1 : i # 0 => g[i] = Below1(N, k, g[i - 1])
      BY <2>3 DEF IsPath
    <2>5. \A i \in 0 .. m : i # 0 => i - 1 \in 0 .. m /\ i - 1 # m /\ (i # m => i \in 0 .. m - 1)
      BY <2>2
    <2>6. \A i \in 0 .. m : i # 0 => f[i] = Below1(N, k, f[i - 1])
      BY <2>4, <2>5
    <2>7. f[0] = root
      BY <2>2, <2>4
    <2>8. Solves(f, m)
      BY <2>6, <2>7 DEF IsPath
    <2> QED
      BY <1>0, <2>1, <2>2, <2>8
  <1> QED
    BY <1>0, <1>1

\* PathPage is one.
LEMMA PathPageIs ==
  ASSUME NEW f, f.hdr.height \in Nat, f.hdr.height >= 1, NEW k
  PROVE  /\ IsPath(PathPage(f, k), f.node, f.hdr.rootPage, k, f.hdr.height - 1)
         /\ PathPage(f, k) = [i \in 0 .. f.hdr.height - 1 |-> PathPage(f, k)[i]]
  <1> DEFINE h == f.hdr.height
             root == f.hdr.rootPage
             N == f.node
             Solves(g) == g = [i \in 0 .. h - 1 |-> IF i = 0 THEN root ELSE Below1(N, k, g[i - 1])]
  <1>1. h \in Nat /\ h >= 1 /\ h - 1 \in Nat
    OBVIOUS
  <1>2. PathPage(f, k) = CHOOSE g : Solves(g)
    BY DEF PathPage, Below1
  <1> HIDE DEF h, root, N
  <1>3. PICK p : IsPath(p, N, root, k, h - 1)
    BY <1>1, PathExists
  <1> DEFINE g == [i \in 0 .. h - 1 |-> p[i]]
  <1>4. Solves(g)
    <2>1. \A i \in 0 .. h - 1 : i # 0 => i - 1 \in 0 .. h - 1
      BY <1>1
    <2>2. 0 \in 0 .. h - 1
      BY <1>1
    <2>3. p[0] = root /\ \A i \in 0 .. h - 1 : i # 0 => p[i] = Below1(N, k, p[i - 1])
      BY <1>3 DEF IsPath
    <2> QED
      BY <2>1, <2>2, <2>3
  <1> HIDE DEF g
  <1>5. Solves(PathPage(f, k))
    <2> HIDE DEF Solves
    <2> QED
      BY <1>2, <1>4
  <1> DEFINE pp == PathPage(f, k)
  <1> HIDE DEF pp
  <1>6. Solves(pp)
    BY <1>5 DEF pp
  <1>7. 0 \in 0 .. h - 1
    BY <1>1
  <1>8. \A i \in 0 .. h - 1 : pp[i] = IF i = 0 THEN root ELSE Below1(N, k, pp[i - 1])
    BY <1>6
  <1>9. pp = [i \in 0 .. h - 1 |-> pp[i]]
    BY <1>6
  <1>a. IsPath(pp, N, root, k, h - 1)
    BY <1>7, <1>8 DEF IsPath
  <1> QED
    BY <1>9, <1>a DEF pp, h, root, N

\* The entries of a level and their order.
LEMMA KeyAt ==
  ASSUME NEW N, NEW root, NEW h, NEW lv, NEW at, NEW off, NEW F, NEW T,
         Tree(N, root, h, lv, at, off, F, T), NEW i \in 0 .. h - 1
  PROVE  /\ \A j \in 1 .. W(F, i) : F[i][j] \in EntrySet /\ F[i][j].key \in Nat
         /\ \A j, l \in 1 .. W(F, i) : j <= l => F[i][j].key <= F[i][l].key
  <1>1. F[i] \in Seq(EntrySet)
    BY TreeTypes
  <1>2. \A j \in 1 .. W(F, i) : F[i][j] \in EntrySet
    BY <1>1, Elem DEF W
  <1>3. \A e \in EntrySet : e.key \in Nat
    BY IndexTreeAssumption DEF EntrySet
  <1>4. Ordered(h, F)
    BY DEF Tree
  <1> QED
    BY <1>2, <1>3, <1>4 DEF Ordered

\* All keys are below k.
Beyond(F, k) == \A j \in 1 .. W(F, 0) : F[0][j].key < k

\* Page p of level i is where the way down for k belongs: what is to its left
\* is below k, and so is all of it only when everything is.
OnWay(N, lv, at, off, F, k, i, p) ==
  /\ p \in DOMAIN N /\ lv[p] = i
  /\ IF Beyond(F, k) THEN at[p] = Width(F, i) /\ \A j \in 1 .. W(F, i) : F[i][j].key < k
     ELSE /\ \A j \in 1 .. off[p] : F[i][j].key < k
          /\ K(N, p) >= 1 /\ F[i][off[p] + K(N, p)].key >= k

\* Where k belongs in such a page, it belongs in the level.
Turns(N, lv, off, F, k, p, x) ==
  /\ x \in 1 .. K(N, p) + 1
  /\ Beyond(F, k) <=> x = K(N, p) + 1
  /\ \A j \in 1 .. W(F, lv[p]) : j < off[p] + x => F[lv[p]][j].key < k
  /\ \A j \in 1 .. W(F, lv[p]) : off[p] + x <= j => F[lv[p]][j].key >= k

\* The way down to a key takes a turn at the place of the key in the level.
LEMMA TurnsAt ==
  ASSUME NEW N, NEW root, NEW h, NEW lv, NEW at, NEW off, NEW F, NEW T,
         Tree(N, root, h, lv, at, off, F, T), NEW k \in Nat, NEW i \in 0 .. h - 1,
         NEW p, OnWay(N, lv, at, off, F, k, i, p)
  PROVE  Turns(N, lv, off, F, k, p, FindKey(N[p], k))
  <1> DEFINE x == FindKey(N[p], k)
             c == K(N, p)
             o == off[p]
             w == W(F, i)
  <1>0. p \in DOMAIN N /\ lv[p] = i
    BY DEF OnWay
  <1>N. c \in Nat /\ o \in Nat /\ w \in Nat /\ o + c <= w /\ k \in Nat
    <2>1. o + c <= w
      BY <1>0 DEF Tree, Flat
    <2> QED
      BY <1>0, <2>1, TreeTypes
  <1>1. \A s \in 1 .. c : o + s \in 1 .. w /\ N[p].entries[s] = F[i][o + s]
    BY <1>0, EntryAt
  <1>2. \A j \in 1 .. w : F[i][j].key \in Nat
    BY KeyAt
  <1>3. \A j, l \in 1 .. w : j <= l => F[i][j].key <= F[i][l].key
    BY KeyAt
  <1>4. Finds(N[p], c, k, x)
    <2>1. c = numKeys(N[p])
      BY DEF K, numKeys
    <2>2. \A q \in 1 .. c : N[p].entries[q].key \in Nat
      BY <1>1, <1>2
    <2> QED
      BY <1>N, <2>1, <2>2, FindKeyFacts
  <1>5. /\ IF Beyond(F, k) THEN o + c = w /\ \A j \in 1 .. w : F[i][j].key < k
           ELSE /\ \A j \in 1 .. o : F[i][j].key < k
                /\ c >= 1 /\ F[i][o + c].key >= k
    <2>1. at[p] = Width(F, i) => o + c = w
      BY <1>0, LastPage
    <2> QED
      BY <2>1 DEF OnWay
  <1> HIDE DEF x, c, o, w
  <1>6. /\ x \in 1 .. c + 1
        /\ x <= c => F[i][o + x].key >= k
        /\ \A s \in 1 .. x - 1 : F[i][o + s].key < k
    <2>1. x \in 1 .. c + 1
      BY <1>4 DEF Finds
    <2>2. x <= c => F[i][o + x].key >= k
      BY <1>1, <1>4, <2>1 DEF Finds
    <2>3. \A s \in 1 .. x - 1 : F[i][o + s].key < k
      <3> TAKE s \in 1 .. x - 1
      <3>1. s \in 1 .. c
        BY <2>1, <1>N
      <3> QED
        BY <1>1, <1>4, <3>1 DEF Finds
    <2> QED
      BY <2>1, <2>2, <2>3
  <1>7. Beyond(F, k) <=> x = c + 1
    <2>1. CASE Beyond(F, k)
      <3>1. ASSUME x <= c PROVE FALSE
        <4>1. o + x \in 1 .. w
          BY <1>1, <1>6, <1>N, <3>1
        <4>2. F[i][o + x].key < k /\ F[i][o + x].key >= k /\ F[i][o + x].key \in Nat
          BY <1>2, <1>5, <1>6, <2>1, <3>1, <4>1
        <4> QED
          BY <1>N, <4>2
      <3> QED
        BY <1>6, <1>N, <2>1, <3>1
    <2>2. CASE ~Beyond(F, k)
      <3>1. ASSUME x = c + 1 PROVE FALSE
        <4>1. c \in 1 .. x - 1 /\ o + c \in 1 .. w
          BY <1>5, <1>N, <2>2, <3>1
        <4>2. F[i][o + c].key < k /\ F[i][o + c].key >= k /\ F[i][o + c].key \in Nat
          BY <1>2, <1>5, <1>6, <2>2, <4>1
        <4> QED
          BY <1>N, <4>2
      <3> QED
        BY <2>2, <3>1
    <2> QED
      BY <2>1, <2>2
  <1>8. ASSUME NEW j \in 1 .. w, j < o + x
        PROVE  F[i][j].key < k
    <2>1. CASE Beyond(F, k)
      BY <1>5, <2>1
    <2>2. CASE ~Beyond(F, k)
      <3>1. CASE j <= o
        BY <1>5, <1>N, <2>2, <3>1
      <3>2. CASE ~(j <= o)
        <4>1. j - o \in 1 .. x - 1 /\ o + (j - o) = j
          BY <1>6, <1>8, <1>N, <3>2
        <4> QED
          BY <1>6, <4>1
      <3> QED
        BY <3>1, <3>2
    <2> QED
      BY <2>1, <2>2
  <1>9. ASSUME NEW j \in 1 .. w, o + x <= j
        PROVE  F[i][j].key >= k
    <2>1. x <= c
      <3>1. ASSUME x = c + 1 PROVE FALSE
        BY <1>5, <1>6, <1>7, <1>9, <1>N, <3>1
      <3> QED
        BY <1>6, <1>N, <3>1
    <2>2. o + x \in 1 .. w
      BY <1>6, <1>9, <1>N, <2>1
    <2>3. F[i][o + x].key >= k /\ F[i][o + x].key <= F[i][j].key
      BY <1>3, <1>6, <1>9, <2>1, <2>2
    <2>4. F[i][o + x].key \in Nat /\ F[i][j].key \in Nat
      BY <1>2, <2>2
    <2> QED
      BY <2>3, <2>4, <1>N
  <1> QED
    BY <1>0, <1>6, <1>7, <1>8, <1>9 DEF Turns, x, c, o, w

\* The entry that leads on, in a page on the way.
LEMMA Posted ==
  ASSUME NEW N, NEW root, NEW h, NEW lv, NEW at, NEW off, NEW F, NEW T,
         Tree(N, root, h, lv, at, off, F, T), NEW k \in Nat, NEW i \in 0 .. h - 2,
         NEW p, OnWay(N, lv, at, off, F, k, i, p)
  PROVE  LET x == PosIn(N[p], k) IN
         /\ x \in 1 .. K(N, p) /\ off[p] + x \in 1 .. W(F, i)
         /\ N[p].entries[x] = F[i][off[p] + x]
         /\ Beyond(F, k) => off[p] + x = W(F, i)
         /\ ~Beyond(F, k) => x = FindKey(N[p], k)
         /\ \A j \in 1 .. W(F, i) : j < off[p] + x => F[i][j].key < k
         /\ IF Beyond(F, k) THEN F[i][off[p] + x].key < k ELSE F[i][off[p] + x].key >= k
  <1> DEFINE x == FindKey(N[p], k)
             y == PosIn(N[p], k)
             c == K(N, p)
             o == off[p]
             w == W(F, i)
  <1>0. p \in DOMAIN N /\ lv[p] = i /\ h \in Nat /\ h > 1 /\ i \in 0 .. h - 1
    BY TreeTypes DEF OnWay
  <1>1. Turns(N, lv, off, F, k, p, x)
    BY <1>0, TurnsAt
  <1>N. c \in Nat /\ c >= 1 /\ o \in Nat /\ w \in Nat /\ o + c <= w
    <2>1. o + c <= w /\ c # 0
      BY <1>0 DEF Tree, Flat
    <2> QED
      BY <1>0, <2>1, TreeTypes
  <1>2. \A s \in 1 .. c : o + s \in 1 .. w /\ N[p].entries[s] = F[i][o + s]
    BY <1>0, EntryAt
  <1>3. y = IF x > c THEN c ELSE x
    BY DEF PosIn, numKeys, K
  <1>4. Beyond(F, k) => o + c = w
    BY <1>0, LastPage DEF OnWay
  <1>5. /\ x \in 1 .. c + 1
        /\ Beyond(F, k) <=> x = c + 1
        /\ \A j \in 1 .. w : j < o + x => F[i][j].key < k
        /\ \A j \in 1 .. w : o + x <= j => F[i][j].key >= k
    BY <1>0, <1>1 DEF Turns
  <1> HIDE DEF x, y, c, o, w
  <1>6. y \in 1 .. c /\ (Beyond(F, k) => y = c) /\ (~Beyond(F, k) => y = x)
    BY <1>3, <1>5, <1>N
  <1>7. o + y \in 1 .. w /\ N[p].entries[y] = F[i][o + y] /\ (Beyond(F, k) => o + y = w)
    BY <1>2, <1>4, <1>6
  <1>8. \A j \in 1 .. w : j < o + y => F[i][j].key < k
    BY <1>5, <1>6, <1>N
  <1>9. IF Beyond(F, k) THEN F[i][o + y].key < k ELSE F[i][o + y].key >= k
    <2>1. CASE Beyond(F, k)
      <3>1. o + y < o + x
        BY <1>5, <1>6, <1>N, <2>1
      <3> QED
        BY <1>5, <1>7, <2>1, <3>1
    <2>2. CASE ~Beyond(F, k)
      <3>1. o + x <= o + y
        BY <1>5, <1>6, <1>N, <2>2
      <3> QED
        BY <1>5, <1>7, <2>2, <3>1
    <2> QED
      BY <2>1, <2>2
  <1> QED
    BY <1>6, <1>7, <1>8, <1>9 DEF x, y, c, o, w

\* From a page on the way, the way down leads to one.
LEMMA Descends ==
  ASSUME NEW N, NEW root, NEW h, NEW lv, NEW at, NEW off, NEW F, NEW T,
         Tree(N, root, h, lv, at, off, F, T), NEW k \in Nat, NEW i \in 0 .. h - 2,
         NEW p, OnWay(N, lv, at, off, F, k, i, p)
  PROVE  OnWay(N, lv, at, off, F, k, i + 1, Below1(N, k, p))
  <1> DEFINE x == PosIn(N[p], k)
             J == off[p] + x
             c == Below1(N, k, p)
             w == W(F, i)
  <1>h. h \in Nat
    BY TreeTypes
  <1>0. p \in DOMAIN N /\ lv[p] = i /\ h \in Nat /\ h > 1 /\ i \in 0 .. h - 1 /\ i \in Nat /\ i + 1 \in 0 .. h - 1
        /\ i + 1 # 0 /\ (i + 1) - 1 = i
    <2>1. p \in DOMAIN N /\ lv[p] = i
      BY DEF OnWay
    <2> QED
      BY <1>h, <2>1
  <1>1. /\ J \in 1 .. w /\ c = F[i][J].rid[1]
        /\ Beyond(F, k) => J = w
        /\ \A j \in 1 .. w : j < J => F[i][j].key < k
        /\ IF Beyond(F, k) THEN F[i][J].key < k ELSE F[i][J].key >= k
    BY Posted DEF Below1
  <1> HIDE DEF c, J
  <1>2. /\ c \in DOMAIN N /\ lv[c] = i + 1 /\ at[c] = J
        /\ F[i][J] = Entry(MaxKey(N[c]), Child(c))
        /\ K(N, c) >= 1 /\ off[c] + K(N, c) \in 1 .. W(F, i + 1)
        /\ MaxKey(N[c]) = F[i + 1][off[c] + K(N, c)].key
    BY <1>1, Under
  <1>3. F[i][J].key = F[i + 1][off[c] + K(N, c)].key
    <2>1. F[i][J].key = MaxKey(N[c])
      BY <1>2 DEF Entry
    <2> QED
      BY <1>2, <2>1
  <1>N. /\ J \in Nat /\ w \in Nat /\ off[c] \in Nat /\ K(N, c) \in Nat /\ W(F, i + 1) \in Nat
        /\ K(N, c) >= 1 /\ off[c] + K(N, c) <= W(F, i + 1)
    <2>1. w \in Nat /\ W(F, i + 1) \in Nat
      BY <1>0, TreeTypes
    <2>2. J \in Nat
      BY <1>1, <2>1
    <2> QED
      BY <1>2, <2>1, <2>2, TreeTypes
  <1>4. /\ \A j \in 1 .. W(F, i + 1) : F[i + 1][j].key \in Nat
        /\ \A j, l \in 1 .. W(F, i + 1) : j <= l => F[i + 1][j].key <= F[i + 1][l].key
        /\ \A j \in 1 .. w : F[i][j].key \in Nat
    BY <1>0, KeyAt
  <1>5. Width(F, i + 1) = w
    BY <1>0 DEF Width
  <1> HIDE DEF x, J, w, c
  <1>6. CASE Beyond(F, k)
    <2>1. at[c] = Width(F, i + 1)
      BY <1>1, <1>2, <1>5, <1>6, Zenon
    <2>2. off[c] + K(N, c) = W(F, i + 1)
      BY <1>2, <2>1, LastPage, SMTT(30)
    <2>3. F[i + 1][W(F, i + 1)].key < k /\ W(F, i + 1) \in 1 .. W(F, i + 1)
      BY <1>1, <1>2, <1>3, <1>6, <2>2, Zenon
    <2>4. \A j \in 1 .. W(F, i + 1) : F[i + 1][j].key < k
      <3> TAKE j \in 1 .. W(F, i + 1)
      <3>1. F[i + 1][j].key <= F[i + 1][W(F, i + 1)].key
        BY <1>4, <1>N, <2>3
      <3>2. F[i + 1][j].key \in Nat /\ F[i + 1][W(F, i + 1)].key \in Nat
        BY <1>4, <2>3
      <3> QED
        BY <2>3, <3>1, <3>2
    <2> QED
      BY <1>2, <1>6, <2>1, <2>4, SMTT(30) DEF OnWay, c
  <1>7. CASE ~Beyond(F, k)
    <2>1. ASSUME NEW j \in 1 .. off[c]
          PROVE  F[i + 1][j].key < k
      <3>1. off[c] \in 1 .. W(F, i + 1) /\ j \in 1 .. W(F, i + 1) /\ j <= off[c]
        BY <1>N, <2>1
      <3>2. PICK t \in DOMAIN N : lv[t] = i + 1 /\ off[t] < off[c] /\ off[c] <= off[t] + K(N, t)
        BY <1>0, <3>1 DEF Tree, Flat
      <3>3. /\ off[t] \in Nat /\ K(N, t) \in Nat /\ at[t] \in Nat /\ at[t] >= 1
            /\ off[t] + K(N, t) <= W(F, i + 1) /\ at[t] <= w
        <4>1. off[t] + K(N, t) <= W(F, i + 1)
          BY <3>2 DEF Tree, Flat
        <4>2. at[t] <= Width(F, i + 1)
          BY <3>2, LastPage
        <4> QED
          BY <4>1, <4>2, <1>5, TreeTypes
      <3>4. at[t] < J
        <4>1. at[t] # J
          <5>1. t # c
            BY <3>2, <1>N
          <5> QED
            BY <1>2, <3>2, <5>1, SamePlace
        <4>2. ~(J < at[t])
          <5>1. J < at[t] => off[c] + K(N, c) <= off[t]
            BY <1>2, <3>2 DEF Tree, Flat
          <5> QED
            BY <3>2, <3>3, <5>1, <1>N
        <4>3. at[t] \in Nat /\ J \in Nat
          BY <3>3, <1>N
        <4> QED
          BY <4>1, <4>2, <4>3
      <3>5. F[i][at[t]].key = F[i + 1][off[t] + K(N, t)].key /\ off[t] + K(N, t) \in 1 .. W(F, i + 1)
        <4>1. at[t] \in 1 .. W(F, i) /\ F[i][at[t]].rid[1] = t /\ F[i][at[t]].key = MaxKey(N[t])
          <5>1. at[t] \in 1 .. W(F, i)
            BY <3>3, <1>N DEF w
          <5>2. F[i][at[t]] = Entry(MaxKey(N[t]), Child(t))
            BY <1>0, <3>2 DEF Tree, Linked
          <5>3. Entry(MaxKey(N[t]), Child(t)).rid[1] = t /\ Entry(MaxKey(N[t]), Child(t)).key = MaxKey(N[t])
            BY DEF Entry, Child
          <5> QED
            BY <5>1, <5>2, <5>3
        <4>2. MaxKey(N[t]) = F[i + 1][off[t] + K(N, t)].key /\ off[t] + K(N, t) \in 1 .. W(F, i + 1)
          BY <4>1, Under
        <4> QED
          BY <4>1, <4>2
      <3>6. F[i][at[t]].key < k /\ F[i][at[t]].key \in Nat
        BY <1>1, <1>4, <3>3, <3>4, <1>N
      <3>7. F[i + 1][j].key <= F[i + 1][off[t] + K(N, t)].key
        BY <1>4, <3>1, <3>2, <3>3, <3>5
      <3>8. F[i + 1][j].key \in Nat
        BY <1>4, <3>1, SMTT(30)
      <3> QED
        BY <3>5, <3>6, <3>7, <3>8
    <2>2. F[i + 1][off[c] + K(N, c)].key >= k
      BY <1>1, <1>3, <1>7
    <2> QED
      BY <1>2, <1>7, <2>1, <2>2 DEF OnWay, c
  <1> QED
    BY <1>6, <1>7

\* The whole way down.
LEMMA PathOnWay ==
  ASSUME NEW N, NEW root, NEW h, NEW lv, NEW at, NEW off, NEW F, NEW T,
         Tree(N, root, h, lv, at, off, F, T), NEW k \in Nat,
         NEW page, IsPath(page, N, root, k, h - 1)
  PROVE  \A i \in 0 .. h - 1 : OnWay(N, lv, at, off, F, k, i, page[i])
  <1> DEFINE S == {i \in 0 .. h - 1 : ~OnWay(N, lv, at, off, F, k, i, page[i])}
  <1>1. h \in Nat /\ h >= 1 /\ root \in DOMAIN N /\ K(N, root) \in Nat /\ W(F, 0) \in Nat
    BY TreeTypes
  <1>2. ASSUME S # {} PROVE FALSE
    <2>1. PICK m \in S : \A j \in S : m <= j
      <3>1. S \in SUBSET Nat
        BY <1>1
      <3> HIDE DEF S
      <3> QED
        BY <1>2, <3>1, LeastMember
    <2>2. m \in 0 .. h - 1 /\ ~OnWay(N, lv, at, off, F, k, m, page[m])
      BY <2>1
    <2>3. m # 0
      <3>1. page[0] = root
        BY DEF IsPath
      <3>2. lv[root] = 0 /\ at[root] = 1 /\ Width(F, 0) = 1
        BY DEF Tree, Linked, Width
      <3>3. off[root] + K(N, root) = W(F, 0)
        BY <1>1, <3>2, LastPage
      <3>4. CASE Beyond(F, k)
        BY <1>1, <3>1, <3>2, <3>4 DEF OnWay, Beyond
      <3>5. CASE ~Beyond(F, k)
        <4>1. PICK j \in 1 .. W(F, 0) : ~(F[0][j].key < k)
          BY <3>5 DEF Beyond
        <4>2. /\ \A l \in 1 .. W(F, 0) : F[0][l].key \in Nat
              /\ \A l, g \in 1 .. W(F, 0) : l <= g => F[0][l].key <= F[0][g].key
          BY <1>1, KeyAt
        <4>3. W(F, 0) \in 1 .. W(F, 0) /\ j <= W(F, 0)
          BY <1>1, <4>1
        <4>4. F[0][j].key <= F[0][W(F, 0)].key /\ F[0][j].key \in Nat /\ F[0][W(F, 0)].key \in Nat
          BY <4>2, <4>3
        <4>5. F[0][W(F, 0)].key >= k
          BY <4>1, <4>4
        <4>6. off[root] = 0 /\ K(N, root) >= 1
          <5>1. off[root] \in Nat
            BY <1>1, TreeTypes
          <5>2. 1 \in 1 .. W(F, 0)
            BY <1>1, <4>3
          <5>3. PICK t \in DOMAIN N : lv[t] = 0 /\ off[t] < 1 /\ 1 <= off[t] + K(N, t)
            BY <1>1, <5>2 DEF Tree, Flat
          <5>4. t = root
            BY <5>3 DEF Tree, Linked
          <5> QED
            BY <1>1, <5>1, <5>3, <5>4
        <4>7. \A l \in 1 .. off[root] : F[0][l].key < k
          BY <4>6
        <4> QED
          BY <1>1, <3>1, <3>2, <3>3, <3>5, <4>5, <4>6, <4>7, <2>2 DEF OnWay
      <3> QED
        BY <2>2, <3>4, <3>5
    <2>4. m - 1 \in 0 .. h - 2 /\ m - 1 \in 0 .. h - 1 /\ m - 1 < m /\ m \in 0 .. h - 1 /\ (m - 1) + 1 = m
      BY <1>1, <2>2, <2>3
    <2>5. OnWay(N, lv, at, off, F, k, m - 1, page[m - 1])
      <3>1. m - 1 \notin S
        <4>1. ~(m <= m - 1)
          BY <2>4, <2>2
        <4> HIDE DEF S
        <4> QED
          BY <2>1, <4>1
      <3> QED
        BY <2>4, <3>1
    <2>6. page[m] = Below1(N, k, page[m - 1])
      BY <2>2, <2>3 DEF IsPath
    <2> QED
      BY <2>2, <2>4, <2>5, <2>6, Descends
  <1> QED
    BY <1>2

\* What the proofs need to know of a file as a record.
IsIndex(f) ==
  /\ f = [hdr |-> f.hdr, hdrChanged |-> f.hdrChanged, page0 |-> f.page0,
          node |-> f.node, free |-> f.free, pinned |-> f.pinned]
  /\ f.hdr \in [rootPage : Nat \cup {-1}, numPages : Nat, height : Nat]

\* The nodes with those raised that are on the way for a new largest key.
RaisedNodes(N, h, lv, at, F, p, pos, k) ==
  [r \in DOMAIN N |-> [N[r] EXCEPT !.entries = Bumped(@, K(N, r), Top(N, h, lv, at, F, p, pos, r), k)]]

RaiseOf(f, lv, at, F, k) ==
  LET p == PathPage(f, k)[f.hdr.height - 1]
  IN  RaisedNodes(f.node, f.hdr.height, lv, at, F, p, FindKey(f.node[p], k), k)

\* The pages on the way down are raised as Plus raises them.
LEMMA RaiseIs ==
  ASSUME NEW f, IsIndex(f), NEW lv, NEW at, NEW off, NEW F, NEW T,
         Tree(f.node, f.hdr.rootPage, f.hdr.height, lv, at, off, F, T),
         NEW k \in KeyValues
  PROVE  Raise(f, k).node = RaiseOf(f, lv, at, F, k)
  <1> DEFINE N == f.node
             h == f.hdr.height
             p == PathPage(f, k)[h - 1]
             page == PathPage(f, k)
             root == f.hdr.rootPage
             D == DOMAIN N
             inner == {page[i] : i \in 0 .. h - 2}
             x == FindKey(N[p], k)
             top(r) == Top(N, h, lv, at, F, p, x, r)
  <1>1. h \in Nat /\ h >= 1 /\ k \in Nat
    BY TreeTypes, IndexTreeAssumption
  <1>9. Tree(N, root, h, lv, at, off, F, T)
    OBVIOUS
  <1>2. IsPath(page, N, root, k, h - 1)
    BY <1>1, PathPageIs
  <1>3. \A i \in 0 .. h - 1 : OnWay(N, lv, at, off, F, k, i, page[i])
    BY <1>1, <1>2, <1>9, PathOnWay
  <1>4. Raise(f, k).node = [r \in D |-> IF r \in inner THEN Raised(N[r], k) ELSE N[r]]
    BY DEF Raise, IsIndex
  <1>5. h - 1 \in 0 .. h - 1 /\ p = page[h - 1]
    BY <1>1
  <1> HIDE DEF page, root, inner, D, N, h, p
  <1>6. Beyond(F, k) <=> x = K(N, p) + 1
    <2>1. OnWay(N, lv, at, off, F, k, h - 1, p)
      BY <1>3, <1>5
    <2>2. Turns(N, lv, off, F, k, p, x)
      BY <1>1, <1>5, <2>1, <1>9, TurnsAt
    <2> QED
      BY <2>2 DEF Turns
  <1> HIDE DEF x
  <1>7. \A r \in D : top(r) <=> Beyond(F, k) /\ lv[r] # h - 1 /\ at[r] = Width(F, lv[r])
    BY <1>6 DEF Top
  <1> HIDE DEF top
  <1>8. ASSUME NEW r \in D
        PROVE  (IF r \in inner THEN Raised(N[r], k) ELSE N[r])
                 = [N[r] EXCEPT !.entries = Bumped(@, K(N, r), top(r), k)]
    <2>1. N[r] \in NodeSet /\ K(N, r) \in Nat /\ lv[r] \in 0 .. h - 1
      BY <1>8, <1>9, TreeTypes DEF D
    <2> DEFINE n == N[r]
               es == n.entries
               c == K(N, r)
    <2>2. es \in Seq(EntrySet) /\ c = Len(es) /\ n = [entries |-> es, left |-> n.left, right |-> n.right]
      BY <2>1, IsNode DEF K
    <2>3. es = [j \in 1 .. c |-> es[j]]
      BY <2>2
    <2>4. [n EXCEPT !.entries = Bumped(@, c, top(r), k)]
            = [entries |-> Bumped(es, c, top(r), k), left |-> n.left, right |-> n.right]
      <3> DEFINE b == Bumped(es, c, top(r), k)
      <3>1. [n EXCEPT !.entries = b] = [entries |-> b, left |-> n.left, right |-> n.right]
        <4> HIDE DEF b
        <4> QED
          BY <2>1, IsNode
      <3> QED
        BY <3>1
    <2>5. CASE top(r)
      <3>1. Beyond(F, k) /\ lv[r] # h - 1 /\ at[r] = Width(F, lv[r])
        BY <1>7, <2>5
      <3>2. lv[r] \in 0 .. h - 2
        BY <1>1, <2>1, <3>1
      <3> DEFINE q == page[lv[r]]
      <3>3. OnWay(N, lv, at, off, F, k, lv[r], q)
        BY <1>3, <2>1
      <3>4. q \in D /\ lv[q] = lv[r] /\ at[q] = Width(F, lv[r])
        BY <3>1, <3>3 DEF OnWay, D
      <3>5. q = r
        BY <3>1, <3>4, <1>9, SamePlace DEF D
      <3>6. r \in inner
        BY <3>2, <3>5 DEF inner
      <3>7. FindKey(n, k) = c + 1
        <4>1. Turns(N, lv, off, F, k, r, FindKey(N[r], k))
          BY <1>1, <2>1, <3>3, <3>5, <1>9, TurnsAt
        <4> QED
          BY <3>1, <4>1 DEF Turns
      <3>8. Len(es) # 0
        <4>1. K(N, r) # 0
          BY <1>1, <1>9, <3>2 DEF Tree, Flat, D
        <4> QED
          BY <4>1 DEF K
      <3>9. Raised(n, k) = SetKey(n, numKeys(n), k)
        BY <2>1, <2>2, <3>7 DEF Raised, numKeys
      <3>a. SetKey(n, numKeys(n), k)
              = [entries |-> Bumped(es, c, TRUE, k), left |-> n.left, right |-> n.right]
        BY <2>1, <2>2, <3>8, SetLastKey
      <3>b. Bumped(es, c, TRUE, k) = Bumped(es, c, top(r), k)
        BY <2>5 DEF Bumped
      <3> QED
        BY <2>4, <3>6, <3>9, <3>a, <3>b
    <2>6. CASE ~top(r)
      <3>1. Bumped(es, c, top(r), k) = es
        BY <2>3, <2>6 DEF Bumped
      <3>2. ASSUME r \in inner
            PROVE  Raised(n, k) = n
        <4>1. PICK i \in 0 .. h - 2 : r = page[i]
          BY <3>2 DEF inner
        <4>2. i \in 0 .. h - 1
          BY <1>1
        <4>3. OnWay(N, lv, at, off, F, k, i, r)
          BY <1>3, <4>1, <4>2
        <4>4. lv[r] = i /\ lv[r] # h - 1 /\ (Beyond(F, k) => at[r] = Width(F, lv[r]))
          BY <1>1, <4>1, <4>3 DEF OnWay
        <4>5. ~Beyond(F, k)
          BY <1>7, <2>6, <4>4
        <4>6. Turns(N, lv, off, F, k, r, FindKey(N[r], k))
          BY <1>1, <4>2, <4>3, <1>9, TurnsAt
        <4>7. FindKey(n, k) \in 1 .. c + 1 /\ FindKey(n, k) # c + 1
          BY <4>5, <4>6 DEF Turns
        <4>8. ~(FindKey(n, k) > numKeys(n))
          <5>1. numKeys(n) = c
            BY DEF numKeys, K
          <5> QED
            BY <2>1, <4>7, <5>1
        <4> QED
          BY <4>8 DEF Raised
      <3> QED
        BY <2>2, <2>4, <3>1, <3>2
    <2> QED
      BY <2>5, <2>6
  <1> QED
    <2>1. Raise(f, k).node = [r \in D |-> [N[r] EXCEPT !.entries = Bumped(@, K(N, r), top(r), k)]]
      BY <1>4, <1>8
    <2> QED
      BY <2>1 DEF D, top, x, N, h, p, RaisedNodes, RaiseOf

GoesLow(es, c, m, x, e) ==
  /\ Inserted(SubSeq(es, 1, m), x, e) = SubSeq(Inserted(es, x, e), 1, m + 1)
  /\ SubSeq(es, m + 1, c) = SubSeq(Inserted(es, x, e), m + 2, c + 1)
GoesHigh(es, c, m, x, e) ==
  /\ SubSeq(es, 1, m) = SubSeq(Inserted(es, x, e), 1, m)
  /\ Inserted(SubSeq(es, m + 1, c), x - m, e) = SubSeq(Inserted(es, x, e), m + 1, c + 1)

\* An entry goes into the lower half: the parts of the longer sequence.
LEMMA InsertedLow ==
  ASSUME NEW es \in Seq(EntrySet), NEW c \in Nat, c = Len(es), NEW m \in Nat, m <= c,
         NEW x \in 1 .. m + 1, NEW e \in EntrySet
  PROVE  GoesLow(es, c, m, x, e)
  <1> DEFINE lo == SubSeq(es, 1, m)
             hi == SubSeq(es, m + 1, c)
             all == Inserted(es, x, e)
             a == Inserted(lo, x, e)
             b == SubSeq(all, 1, m + 1)
             d == SubSeq(all, m + 2, c + 1)
  <1>1. lo \in Seq(EntrySet) /\ Len(lo) = m /\ \A s \in 1 .. m : lo[s] = es[s]
    <2>1. 1 \in Nat \ {0} /\ 1 <= m + 1 /\ (m - 1) + 1 = m /\ \A s \in 1 .. m : 1 + s - 1 = s
      OBVIOUS
    <2>2. /\ lo \in Seq(EntrySet) /\ Len(lo) = m - 1 + 1
          /\ \A s \in 1 .. m - 1 + 1 : lo[s] = es[1 + s - 1]
      BY <2>1, Slice
    <2> HIDE DEF lo
    <2> QED
      BY <2>1, <2>2
  <1>2. hi \in Seq(EntrySet) /\ Len(hi) = c - m /\ \A s \in 1 .. c - m : hi[s] = es[m + s]
    <2>1. /\ m + 1 \in Nat \ {0} /\ m + 1 <= c + 1 /\ c - (m + 1) + 1 = c - m
          /\ \A s \in 1 .. c - m : m + 1 + s - 1 = m + s
      OBVIOUS
    <2> DEFINE g == m + 1
    <2>2. g \in Nat \ {0} /\ c \in Nat /\ c <= Len(es) /\ g <= c + 1
      BY <2>1
    <2> HIDE DEF g
    <2>3. /\ SubSeq(es, g, c) \in Seq(EntrySet) /\ Len(SubSeq(es, g, c)) = c - g + 1
          /\ \A s \in 1 .. c - g + 1 : SubSeq(es, g, c)[s] = es[g + s - 1]
      BY <2>2, Slice
    <2> QED
      BY <2>1, <2>3 DEF g
  <1>3. /\ all \in Seq(EntrySet) /\ Len(all) = c + 1 /\ IsInserted(all, es, c, x, e)
    <2>1. x \in 1 .. Len(es) + 1
      OBVIOUS
    <2> QED
      BY <2>1, InsertedFacts
  <1> HIDE DEF lo, hi, all
  <1>4. a \in Seq(EntrySet) /\ Len(a) = m + 1 /\ IsInserted(a, lo, m, x, e)
    <2>1. x \in 1 .. Len(lo) + 1
      BY <1>1
    <2> QED
      BY <1>1, <2>1, InsertedFacts
  <1>5. b \in Seq(EntrySet) /\ Len(b) = m + 1 /\ \A s \in 1 .. m + 1 : b[s] = all[s]
    <2> DEFINE g == m + 1
    <2>1. 1 \in Nat \ {0} /\ g \in Nat /\ g <= Len(all) /\ 1 <= g + 1 /\ (g - 1) + 1 = g /\ \A s \in 1 .. g : 1 + s - 1 = s
      BY <1>3
    <2> HIDE DEF g
    <2>2. /\ SubSeq(all, 1, g) \in Seq(EntrySet) /\ Len(SubSeq(all, 1, g)) = g - 1 + 1
          /\ \A s \in 1 .. g - 1 + 1 : SubSeq(all, 1, g)[s] = all[1 + s - 1]
      BY <1>3, <2>1, Slice
    <2> QED
      BY <2>1, <2>2 DEF g
  <1>6. d \in Seq(EntrySet) /\ Len(d) = c - m /\ \A s \in 1 .. c - m : d[s] = all[m + 1 + s]
    <2> DEFINE g == m + 2
               w == c + 1
    <2>1. /\ g \in Nat \ {0} /\ w \in Nat /\ w <= Len(all) /\ g <= w + 1 /\ w - g + 1 = c - m
          /\ \A s \in 1 .. c - m : g + s - 1 = m + 1 + s
      BY <1>3
    <2> HIDE DEF g, w
    <2>2. /\ SubSeq(all, g, w) \in Seq(EntrySet) /\ Len(SubSeq(all, g, w)) = w - g + 1
          /\ \A s \in 1 .. w - g + 1 : SubSeq(all, g, w)[s] = all[g + s - 1]
      BY <1>3, <2>1, Slice
    <2> QED
      BY <2>1, <2>2 DEF g, w
  <1> HIDE DEF a, b, d
  <1>7. /\ \A i \in 1 .. x - 1 : all[i] = es[i]
        /\ all[x] = e
        /\ \A i \in x + 1 .. c + 1 : all[i] = es[i - 1]
    BY <1>3 DEF IsInserted
  <1>8. /\ \A i \in 1 .. x - 1 : a[i] = lo[i]
        /\ a[x] = e
        /\ \A i \in x + 1 .. m + 1 : a[i] = lo[i - 1]
    BY <1>4 DEF IsInserted
  <1>9. \A s \in 1 .. m + 1 : a[s] = b[s]
    <2> TAKE s \in 1 .. m + 1
    <2>1. CASE s < x
      <3>1. s \in 1 .. x - 1 /\ s \in 1 .. m
        BY <2>1
      <3> QED
        BY <3>1, <1>1, <1>5, <1>7, <1>8
    <2>2. CASE s = x
      BY <2>2, <1>5, <1>7, <1>8
    <2>3. CASE s > x
      <3>1. s \in x + 1 .. m + 1 /\ s \in x + 1 .. c + 1 /\ s - 1 \in 1 .. m
        BY <2>3
      <3> QED
        BY <3>1, <1>1, <1>5, <1>7, <1>8
    <2> QED
      BY <2>1, <2>2, <2>3
  <1>a. a = b
    BY <1>4, <1>5, <1>9, SameSequence
  <1>b. \A s \in 1 .. c - m : hi[s] = d[s]
    <2> TAKE s \in 1 .. c - m
    <2>1. m + 1 + s \in x + 1 .. c + 1 /\ m + 1 + s - 1 = m + s
      OBVIOUS
    <2> QED
      BY <2>1, <1>2, <1>6, <1>7
  <1>c. hi = d
    BY <1>2, <1>6, <1>b, SameSequence
  <1> QED
    BY <1>a, <1>c DEF a, b, d, lo, hi, all, GoesLow

\* An entry goes into the upper half.
LEMMA InsertedHigh ==
  ASSUME NEW es \in Seq(EntrySet), NEW c \in Nat, c = Len(es), NEW m \in Nat, m <= c,
         NEW x \in m + 1 .. c + 1, NEW e \in EntrySet
  PROVE  GoesHigh(es, c, m, x, e)
  <1> DEFINE lo == SubSeq(es, 1, m)
             hi == SubSeq(es, m + 1, c)
             all == Inserted(es, x, e)
             y == x - m
             a == Inserted(hi, y, e)
             b == SubSeq(all, 1, m)
             d == SubSeq(all, m + 1, c + 1)
  <1>1. lo \in Seq(EntrySet) /\ Len(lo) = m /\ \A s \in 1 .. m : lo[s] = es[s]
    <2>1. 1 \in Nat \ {0} /\ 1 <= m + 1 /\ (m - 1) + 1 = m /\ \A s \in 1 .. m : 1 + s - 1 = s
      OBVIOUS
    <2>2. /\ lo \in Seq(EntrySet) /\ Len(lo) = m - 1 + 1
          /\ \A s \in 1 .. m - 1 + 1 : lo[s] = es[1 + s - 1]
      BY <2>1, Slice
    <2> HIDE DEF lo
    <2> QED
      BY <2>1, <2>2
  <1>2. hi \in Seq(EntrySet) /\ Len(hi) = c - m /\ \A s \in 1 .. c - m : hi[s] = es[m + s]
    <2>1. /\ m + 1 \in Nat \ {0} /\ m + 1 <= c + 1 /\ c - (m + 1) + 1 = c - m
          /\ \A s \in 1 .. c - m : m + 1 + s - 1 = m + s
      OBVIOUS
    <2> DEFINE g == m + 1
    <2>2. g \in Nat \ {0} /\ c \in Nat /\ c <= Len(es) /\ g <= c + 1
      BY <2>1
    <2> HIDE DEF g
    <2>3. /\ SubSeq(es, g, c) \in Seq(EntrySet) /\ Len(SubSeq(es, g, c)) = c - g + 1
          /\ \A s \in 1 .. c - g + 1 : SubSeq(es, g, c)[s] = es[g + s - 1]
      BY <2>2, Slice
    <2> QED
      BY <2>1, <2>3 DEF g
  <1>3. /\ all \in Seq(EntrySet) /\ Len(all) = c + 1 /\ IsInserted(all, es, c, x, e)
    <2>1. x \in 1 .. Len(es) + 1
      OBVIOUS
    <2> QED
      BY <2>1, InsertedFacts
  <1> HIDE DEF lo, hi, all
  <1>y. y \in Nat /\ y \in 1 .. (c - m) + 1 /\ x = y + m
    OBVIOUS
  <1> HIDE DEF y
  <1>4. a \in Seq(EntrySet) /\ Len(a) = (c - m) + 1 /\ IsInserted(a, hi, c - m, y, e)
    <2>1. y \in 1 .. Len(hi) + 1
      BY <1>2, <1>y
    <2>2. /\ a \in Seq(EntrySet) /\ Len(a) = Len(hi) + 1
          /\ IsInserted(a, hi, Len(hi), y, e)
      BY <1>2, <2>1, InsertedFacts
    <2> HIDE DEF a
    <2> QED
      BY <1>2, <2>2
  <1>5. b \in Seq(EntrySet) /\ Len(b) = m /\ \A s \in 1 .. m : b[s] = all[s]
    <2>1. 1 \in Nat \ {0} /\ m <= Len(all) /\ 1 <= m + 1 /\ (m - 1) + 1 = m /\ \A s \in 1 .. m : 1 + s - 1 = s
      BY <1>3
    <2>2. /\ SubSeq(all, 1, m) \in Seq(EntrySet) /\ Len(SubSeq(all, 1, m)) = m - 1 + 1
          /\ \A s \in 1 .. m - 1 + 1 : SubSeq(all, 1, m)[s] = all[1 + s - 1]
      BY <1>3, <2>1, Slice
    <2> QED
      BY <2>1, <2>2
  <1>6. d \in Seq(EntrySet) /\ Len(d) = (c - m) + 1 /\ \A s \in 1 .. (c - m) + 1 : d[s] = all[m + s]
    <2> DEFINE g == m + 1
               w == c + 1
    <2>1. /\ g \in Nat \ {0} /\ w \in Nat /\ w <= Len(all) /\ g <= w + 1 /\ w - g + 1 = (c - m) + 1
          /\ \A s \in 1 .. (c - m) + 1 : g + s - 1 = m + s
      BY <1>3
    <2> HIDE DEF g, w
    <2>2. /\ SubSeq(all, g, w) \in Seq(EntrySet) /\ Len(SubSeq(all, g, w)) = w - g + 1
          /\ \A s \in 1 .. w - g + 1 : SubSeq(all, g, w)[s] = all[g + s - 1]
      BY <1>3, <2>1, Slice
    <2> QED
      BY <2>1, <2>2 DEF g, w
  <1> HIDE DEF a, b, d
  <1>7. /\ \A i \in 1 .. x - 1 : all[i] = es[i]
        /\ all[x] = e
        /\ \A i \in x + 1 .. c + 1 : all[i] = es[i - 1]
    BY <1>3 DEF IsInserted
  <1>8. /\ \A i \in 1 .. y - 1 : a[i] = hi[i]
        /\ a[y] = e
        /\ \A i \in y + 1 .. (c - m) + 1 : a[i] = hi[i - 1]
    BY <1>4 DEF IsInserted
  <1>9. \A s \in 1 .. (c - m) + 1 : a[s] = d[s]
    <2> TAKE s \in 1 .. (c - m) + 1
    <2>1. CASE s < y
      <3>1. s \in 1 .. y - 1 /\ s \in 1 .. c - m /\ m + s \in 1 .. x - 1
        BY <2>1, <1>y
      <3> QED
        BY <3>1, <1>2, <1>6, <1>7, <1>8
    <2>2. CASE s = y
      <3>1. m + s = x
        BY <2>2, <1>y
      <3> QED
        BY <3>1, <2>2, <1>6, <1>7, <1>8
    <2>3. CASE s > y
      <3>1. s \in y + 1 .. (c - m) + 1 /\ m + s \in x + 1 .. c + 1 /\ s - 1 \in 1 .. c - m /\ (m + s) - 1 = m + (s - 1)
        BY <2>3, <1>y
      <3> QED
        BY <3>1, <1>2, <1>6, <1>7, <1>8, ZenonT(40)
    <2> QED
      BY <2>1, <2>2, <2>3, <1>y
  <1>a. a = d
    BY <1>4, <1>6, <1>9, SameSequence
  <1>b. \A s \in 1 .. m : lo[s] = b[s]
    <2> TAKE s \in 1 .. m
    <2>1. s \in 1 .. x - 1
      OBVIOUS
    <2> QED
      BY <2>1, <1>1, <1>5, <1>7
  <1>c. lo = b
    BY <1>1, <1>5, <1>b, SameSequence
  <1> QED
    BY <1>a, <1>c DEF a, b, d, lo, hi, all, y, GoesHigh

----------------------------------------------------------------------------
\* The split of one node: its halves, the entry of its parent, a new root.

\* The two nodes that SplitNode makes of a full one and of the entry for it.
LowerHalf(n, p, q, k, rid) ==
  LET s == Split(n, p, EmptyNode, q)
  IN  IF FindKey(s.this, k) <= numKeys(s.this) THEN NodeInsert(s.this, k, rid) ELSE s.this
UpperHalf(n, p, q, k, rid) ==
  LET s == Split(n, p, EmptyNode, q)
  IN  IF FindKey(s.this, k) <= numKeys(s.this) THEN s.rhs ELSE NodeInsert(s.rhs, k, rid)

Middle == (MaxKeys + 1) \div 2
SplitAt(x) == IF x <= Middle THEN Middle + 1 ELSE Middle

\* Where a full node is split.
LEMMA MiddleFacts ==
  /\ Middle \in Nat /\ 1 <= Middle /\ Middle < MaxKeys /\ MaxKeys \in Nat
  /\ Middle + MaxKeys \div 2 = MaxKeys /\ MaxKeys \div 2 \in Nat
  <1>1. MaxKeys \in Nat /\ MaxKeys >= 2
    BY NodeAssumption
  <1> QED
    BY <1>1 DEF Middle

\* Keys of a node.
LEMMA NodeKeys ==
  ASSUME NEW es \in Seq(EntrySet), NEW q \in 1 .. Len(es)
  PROVE  es[q] \in EntrySet /\ es[q].key \in KeyValues /\ es[q].key \in Nat
  <1>1. es[q] \in EntrySet
    BY Elem
  <1> QED
    BY <1>1, IndexTreeAssumption DEF EntrySet

IsSplit(n, p, q, k, rid, x, all, m) ==
  /\ x \in 1 .. MaxKeys + 1 /\ m \in 1 .. MaxKeys /\ m >= Middle
  /\ LowerHalf(n, p, q, k, rid) = [entries |-> SubSeq(all, 1, m), left |-> n.left, right |-> q]
  /\ UpperHalf(n, p, q, k, rid)
       = [entries |-> SubSeq(all, m + 1, MaxKeys + 1), left |-> p, right |-> n.right]

\* What SplitNode leaves in the two halves of a full node.
LEMMA SplitIs ==
  ASSUME NEW n \in NodeSet, Len(n.entries) = MaxKeys, NEW p \in Nat, NEW q \in Nat,
         NEW k \in KeyValues, NEW rid \in Nat \X (Nat \cup {-1}),
         NEW x, x = FindKey(n, k), NEW all, all = Inserted(n.entries, x, Entry(k, rid)),
         NEW m, m = SplitAt(x)
  PROVE  IsSplit(n, p, q, k, rid, x, all, m)
  <1> DEFINE es == n.entries
             c == MaxKeys
             g == Middle
             e == Entry(k, rid)
             lo == SubSeq(es, 1, g)
             hi == SubSeq(es, g + 1, c)
             this == [entries |-> lo, left |-> n.left, right |-> q]
             rhs == [entries |-> hi, left |-> p, right |-> n.right]
  <1>1. es \in Seq(EntrySet) /\ Len(es) = c /\ k \in Nat /\ e \in EntrySet
    <2>1. es \in Seq(EntrySet)
      BY IsNode
    <2> QED
      BY <2>1, IndexTreeAssumption DEF EntrySet, Entry
  <1>2. c \in Nat /\ c >= 2 /\ g \in Nat /\ 1 <= g /\ g < c /\ c - g \in Nat /\ c - g < c
    BY NodeAssumption, MiddleFacts
  <1>3. lo \in Seq(EntrySet) /\ Len(lo) = g /\ \A s \in 1 .. g : lo[s] = es[s]
    <2>1. 1 \in Nat \ {0} /\ g <= Len(es) /\ 1 <= g + 1 /\ (g - 1) + 1 = g /\ \A s \in 1 .. g : 1 + s - 1 = s
      BY <1>1, <1>2
    <2> HIDE DEF es, g
    <2>2. /\ SubSeq(es, 1, g) \in Seq(EntrySet) /\ Len(SubSeq(es, 1, g)) = g - 1 + 1
          /\ \A s \in 1 .. g - 1 + 1 : SubSeq(es, 1, g)[s] = es[1 + s - 1]
      BY <1>1, <1>2, <2>1, Slice
    <2> QED
      BY <2>1, <2>2
  <1>4. hi \in Seq(EntrySet) /\ Len(hi) = c - g /\ \A s \in 1 .. c - g : hi[s] = es[g + s]
    <2> DEFINE b == g + 1
    <2>1. /\ b \in Nat \ {0} /\ b <= c + 1 /\ c <= Len(es) /\ c - b + 1 = c - g
          /\ \A s \in 1 .. c - g : b + s - 1 = g + s
      BY <1>1, <1>2
    <2> HIDE DEF b, es, c, g
    <2>3. /\ SubSeq(es, b, c) \in Seq(EntrySet) /\ Len(SubSeq(es, b, c)) = c - b + 1
          /\ \A s \in 1 .. c - b + 1 : SubSeq(es, b, c)[s] = es[b + s - 1]
      BY <1>1, <1>2, <2>1, Slice
    <2> QED
      BY <2>1, <2>3 DEF b
  <1>5. Split(n, p, EmptyNode, q) = [this |-> this, rhs |-> rhs]
    <2>1. n = [entries |-> es, left |-> n.left, right |-> n.right]
      BY IsNode
    <2>2. StMovedPos(n) = g /\ numKeys(n) = c
      BY <1>1 DEF StMovedPos, numKeys, Middle
    <2>3. CanSplit(n, EmptyNode)
      <3>1. numKeys(EmptyNode) = 0
        BY DEF numKeys, EmptyNode
      <3> QED
        BY <2>2, <3>1, <1>2 DEF CanSplit, Full
    <2>4. Lower(n, q) = this
      <3>1. Lower(n, q) = [n EXCEPT !.entries = lo, !.right = q]
        BY <2>2 DEF Lower
      <3> QED
        BY <3>1, IsNode
    <2>5. Upper(n, p, EmptyNode) = rhs
      <3>1. EmptyNode.entries = <<>>
        BY DEF EmptyNode
      <3>2. <<>> \o hi = hi
        BY <1>4
      <3> QED
        BY <2>2, <3>1, <3>2 DEF Upper
    <2> QED
      BY <2>3, <2>4, <2>5 DEF Split
  <1> DEFINE low == FindKey(this, k) <= numKeys(this)
  <1>6. /\ LowerHalf(n, p, q, k, rid) = IF low THEN NodeInsert(this, k, rid) ELSE this
        /\ UpperHalf(n, p, q, k, rid) = IF low THEN rhs ELSE NodeInsert(rhs, k, rid)
    BY <1>5 DEF LowerHalf, UpperHalf
  <1>7. Finds(n, c, k, x)
    <2>1. c = numKeys(n) /\ \A s \in 1 .. c : n.entries[s].key \in Nat
      BY <1>1, NodeKeys DEF numKeys
    <2> QED
      BY <1>1, <1>2, <2>1, FindKeyFacts
  <1>8. /\ x \in 1 .. c + 1
        /\ x <= c => es[x].key >= k
        /\ \A s \in 1 .. x - 1 : es[s].key < k
    BY <1>7 DEF Finds
  <1>9. numKeys(this) = g /\ numKeys(rhs) = c - g /\ this.entries = lo /\ rhs.entries = hi
    BY <1>3, <1>4 DEF numKeys
  <1>a. \A pos : Finds(this, g, k, pos) => FindKey(this, k) = pos
    <2>1. \A s \in 1 .. g : this.entries[s].key \in Nat
      BY <1>3, <1>9, NodeKeys
    <2> HIDE DEF this, g
    <2> QED
      BY <1>1, <1>2, <1>9, <2>1, FindKeyFacts
  <1>b. \A pos : Finds(rhs, c - g, k, pos) => FindKey(rhs, k) = pos
    <2>1. \A s \in 1 .. c - g : rhs.entries[s].key \in Nat
      BY <1>4, <1>9, NodeKeys
    <2> DEFINE w == c - g
    <2>2. w \in Nat /\ numKeys(rhs) = w /\ \A s \in 1 .. w : rhs.entries[s].key \in Nat
      BY <1>2, <1>9, <2>1
    <2> HIDE DEF w, rhs
    <2>3. \A pos : Finds(rhs, w, k, pos) => FindKey(rhs, k) = pos
      BY <1>1, <2>2, FindKeyFacts
    <2> QED
      BY <2>3 DEF w
  <1>c. ~Full(this) /\ ~Full(rhs)
    BY <1>2, <1>9 DEF Full
  <1>d. /\ \A y : NodeInsert(this, k, rid) = [this EXCEPT !.entries = Inserted(lo, FindKey(this, k), e)]
        /\ \A y : NodeInsert(rhs, k, rid) = [rhs EXCEPT !.entries = Inserted(hi, FindKey(rhs, k), e)]
    BY <1>9, <1>c DEF NodeInsert
  <1>e. /\ \A s : [this EXCEPT !.entries = s] = [entries |-> s, left |-> n.left, right |-> q]
        /\ \A s : [rhs EXCEPT !.entries = s] = [entries |-> s, left |-> p, right |-> n.right]
    <2>1. ASSUME NEW s, NEW a, NEW l, NEW r
          PROVE  [[entries |-> a, left |-> l, right |-> r] EXCEPT !.entries = s]
                   = [entries |-> s, left |-> l, right |-> r]
      OBVIOUS
    <2> HIDE DEF lo, hi
    <2> QED
      BY <2>1
  <1> HIDE DEF es, c, g, e, lo, hi, this, rhs, low
  <1>f. all = Inserted(es, x, e) /\ m = (IF x <= g THEN g + 1 ELSE g)
    BY DEF es, e, SplitAt, g
  <1>g. CASE x <= g
    <2>1. x \in 1 .. g + 1 /\ x <= g /\ m = g + 1 /\ x \in 1 .. g /\ m + 1 = g + 2
      BY <1>8, <1>2, <1>f, <1>g
    <2>2. Finds(this, g, k, x)
      <3>1. lo[x] = es[x] /\ \A s \in 1 .. x - 1 : lo[s] = es[s]
        BY <2>1, <1>2, <1>3
      <3>2. x <= c
        BY <2>1, <1>2
      <3> QED
        BY <2>1, <3>1, <3>2, <1>8, <1>9 DEF Finds
    <2>3. FindKey(this, k) = x
      BY <2>2, <1>a
    <2>4. low
      BY <2>1, <2>3, <1>9 DEF low
    <2>5. g \in Nat /\ g <= c /\ c \in Nat /\ c = Len(es)
      BY <1>1, <1>2
    <2>6. /\ Inserted(lo, x, e) = SubSeq(all, 1, g + 1)
          /\ hi = SubSeq(all, g + 2, c + 1)
      <3>1. GoesLow(es, c, g, x, e)
        BY <1>1, <2>1, <2>5, InsertedLow
      <3> QED
        BY <1>f, <3>1 DEF lo, hi, GoesLow
    <2>7. NodeInsert(this, k, rid) = [entries |-> Inserted(lo, x, e), left |-> n.left, right |-> q]
      BY <1>d, <1>e, <2>3
    <2>8. rhs = [entries |-> hi, left |-> p, right |-> n.right]
      BY DEF rhs
    <2>9. m \in 1 .. c /\ m >= g
      BY <2>1, <1>2
    <2> QED
      BY <1>6, <1>8, <2>1, <2>4, <2>6, <2>7, <2>8, <2>9 DEF c, g, IsSplit
  <1>h. CASE ~(x <= g)
    <2>1. x \in g + 1 .. c + 1 /\ m = g /\ x - g \in 1 .. (c - g) + 1
      BY <1>8, <1>2, <1>f, <1>h
    <2>2. Finds(this, g, k, g + 1)
      <3>1. \A s \in 1 .. g : s \in 1 .. x - 1
        BY <2>1, <1>2
      <3>2. \A s \in 1 .. (g + 1) - 1 : lo[s].key < k
        BY <3>1, <1>2, <1>3, <1>8
      <3> QED
        BY <3>2, <1>2, <1>9 DEF Finds
    <2>3. ~low
      <3>1. FindKey(this, k) = g + 1
        BY <2>2, <1>a
      <3> QED
        BY <3>1, <1>2, <1>9 DEF low
    <2>4. Finds(rhs, c - g, k, x - g)
      <3>1. x - g <= c - g => x - g \in 1 .. c - g /\ g + (x - g) = x /\ x <= c
        BY <2>1, <1>2
      <3>2. \A s \in 1 .. (x - g) - 1 : s \in 1 .. c - g /\ g + s \in 1 .. x - 1
        BY <2>1, <1>2, SMTT(30)
      <3>3. x - g <= c - g => hi[x - g].key >= k
        BY <3>1, <1>4, <1>8
      <3>4. \A s \in 1 .. (x - g) - 1 : hi[s].key < k
        BY <3>2, <1>4, <1>8
      <3> QED
        BY <2>1, <3>3, <3>4, <1>9 DEF Finds
    <2>5. g \in Nat /\ g <= c /\ c \in Nat /\ c = Len(es)
      BY <1>1, <1>2
    <2>6. /\ lo = SubSeq(all, 1, g)
          /\ Inserted(hi, x - g, e) = SubSeq(all, g + 1, c + 1)
      <3>1. GoesHigh(es, c, g, x, e)
        BY <1>1, <2>1, <2>5, InsertedHigh
      <3> QED
        BY <1>f, <3>1 DEF lo, hi, GoesHigh
    <2>7. NodeInsert(rhs, k, rid) = [entries |-> Inserted(hi, x - g, e), left |-> p, right |-> n.right]
      <3>1. FindKey(rhs, k) = x - g
        BY <2>4, <1>b
      <3> QED
        BY <1>d, <1>e, <3>1
    <2>8. this = [entries |-> lo, left |-> n.left, right |-> q]
      BY DEF this
    <2>9. m \in 1 .. c /\ m >= g
      BY <2>1, <1>2
    <2> QED
      BY <1>6, <1>8, <2>1, <2>3, <2>6, <2>7, <2>8, <2>9 DEF c, g, IsSplit
  <1> QED
    BY <1>g, <1>h

\* The record ids a level ends its subtrees with.
LEMMA TopAt ==
  ASSUME NEW N, NEW root, NEW h, NEW lv, NEW at, NEW off, NEW F, NEW T,
         Tree(N, root, h, lv, at, off, F, T), NEW i \in 0 .. h - 1
  PROVE  /\ \A j, k \in 1 .. W(F, i) : T[i][j] = T[i][k] => j = k
         /\ \A j \in 1 .. W(F, i) : T[i][j] \in RidsOf(F[i][j].key) /\ F[i][j].key \in KeyValues
  <1>1. Topped(N, h, off, F, T)
    BY DEF Tree
  <1>2. \A j \in 1 .. W(F, i) : F[i][j] \in EntrySet
    BY KeyAt
  <1> QED
    BY <1>1, <1>2 DEF Topped, EntrySet

\* Entries with one key have as many record ids.
LEMMA SameKeys ==
  ASSUME NEW N, NEW root, NEW h, NEW lv, NEW at, NEW off, NEW F, NEW T,
         Tree(N, root, h, lv, at, off, F, T), NEW i \in 0 .. h - 1,
         NEW k \in KeyValues, NEW a \in 1 .. W(F, i), NEW b \in 1 .. W(F, i), a <= b,
         \A j \in a .. b : F[i][j].key = k
  PROVE  (b - a) + 1 <= MaxSame[k]
  <1> DEFINE n == MaxSame[k]
             g == [j \in a .. b |-> T[i][j][2]]
  <1>1. n \in Nat /\ n >= 1
    BY IndexTreeAssumption
  <1>2. W(F, i) \in Nat
    BY TreeTypes
  <1>3. \A j \in a .. b : j \in 1 .. W(F, i)
    BY <1>2
  <1>4. \A j \in a .. b : T[i][j] \in RidsOf(k)
    BY <1>3, TopAt
  <1>5. \A j \in a .. b : T[i][j] = <<k, T[i][j][2]>> /\ T[i][j][2] \in 0 .. n - 1
    BY <1>4 DEF RidsOf
  <1>6. \A j, l \in a .. b : T[i][j] = T[i][l] => j = l
    BY <1>3, TopAt
  <1>7. ASSUME ~((b - a) + 1 <= n) PROVE FALSE
    <2>1. a \in Int /\ b \in Int /\ 0 \in Int /\ n - 1 \in Int /\ ~(a > b) /\ ~(0 > n - 1)
      BY <1>1, <1>2
    <2>2. IsFiniteSet(a .. b) /\ Cardinality(a .. b) = (b - a) + 1
      BY <2>1, FS_Interval
    <2>3. IsFiniteSet(0 .. n - 1) /\ Cardinality(0 .. n - 1) = n
      <3> DEFINE w == n - 1
      <3>1. w \in Int /\ 0 \in Int /\ ~(0 > w) /\ w - 0 + 1 = n
        BY <1>1
      <3> HIDE DEF w, n
      <3>2. IsFiniteSet(0 .. w) /\ Cardinality(0 .. w) = w - 0 + 1
        BY <3>1, FS_Interval
      <3> QED
        BY <3>1, <3>2 DEF w
    <2>4. Cardinality(0 .. n - 1) < Cardinality(a .. b)
      BY <2>1, <2>2, <2>3, <1>1, <1>7
    <2>5. g \in [a .. b -> 0 .. n - 1]
      BY <1>5
    <2> HIDE DEF g, n
    <2> DEFINE A == a .. b
               B == 0 .. n - 1
    <2>a. IsFiniteSet(A) /\ IsFiniteSet(B) /\ Cardinality(B) < Cardinality(A) /\ g \in [A -> B]
      BY <2>2, <2>3, <2>4, <2>5
    <2>6. PICK x, y \in a .. b : x # y /\ g[x] = g[y]
      <3> HIDE DEF A, B
      <3>1. \E x, y \in A : x # y /\ g[x] = g[y]
        BY <2>a, FS_PigeonHole
      <3> QED
        BY <3>1 DEF A
    <2>7. T[i][x] = T[i][y]
      BY <1>5, <2>6 DEF g
    <2> QED
      BY <1>6, <2>6, <2>7
  <1> QED
    BY <1>7

\* So have the entries up to a key.
LEMMA KeysUpTo ==
  ASSUME NEW N, NEW root, NEW h, NEW lv, NEW at, NEW off, NEW F, NEW T,
         Tree(N, root, h, lv, at, off, F, T), NEW i \in 0 .. h - 1, NEW b \in 1 .. W(F, i)
  PROVE  b <= Cardinality(RidsUpTo(F[i][b].key)) /\ Cardinality(RidsUpTo(F[i][b].key)) \in Nat
  <1> DEFINE k == F[i][b].key
             ks == {l \in KeyValues : l <= k}
             S == RidsUpTo(k)
             g == [j \in 1 .. b |-> T[i][j]]
  <1>1. W(F, i) \in Nat /\ b \in Nat /\ k \in Nat /\ k \in KeyValues
    <2>1. W(F, i) \in Nat
      BY TreeTypes
    <2>2. k \in KeyValues
      BY TopAt
    <2>3. b \in Nat
      BY <2>1
    <2>4. \A l \in KeyValues : l \in Nat
      BY IndexTreeAssumption
    <2> HIDE DEF k
    <2> QED
      BY <2>1, <2>2, <2>3, <2>4
  <1>2. \A j \in 1 .. b : j \in 1 .. W(F, i) /\ j <= b
    BY <1>1
  <1>3. \A j \in 1 .. b : F[i][j].key \in ks
    BY <1>2, KeyAt, TopAt
  <1>4. \A j \in 1 .. b : T[i][j] \in S
    <2> TAKE j \in 1 .. b
    <2>1. T[i][j] \in RidsOf(F[i][j].key)
      BY <1>2, TopAt
    <2> HIDE DEF ks
    <2> QED
      BY <1>3, <2>1 DEF RidsUpTo, ks
  <1>5. IsFiniteSet(S)
    <2>1. IsFiniteSet(ks)
      <3>1. ks \in SUBSET (0 .. k)
        <4>1. \A l \in KeyValues : l \in Nat
          BY IndexTreeAssumption
        <4>2. k \in Nat
          BY <1>1
        <4> HIDE DEF k
        <4>3. \A l \in ks : l \in 0 .. k
          BY <4>1, <4>2
        <4> HIDE DEF ks
        <4> QED
          BY <4>3
      <3>2. IsFiniteSet(0 .. k)
        <4>1. 0 \in Int /\ k \in Int
          BY <1>1
        <4> HIDE DEF k
        <4> QED
          BY <4>1, FS_Interval
      <3> QED
        BY <3>1, <3>2, FS_Subset
    <2>2. \A j \in KeyValues : IsFiniteSet(RidsOf(j))
      <3> TAKE j \in KeyValues
      <3> DEFINE w == MaxSame[j] - 1
                 A == 0 .. w
                 f == [n \in A |-> <<j, n>>]
      <3>1. 0 \in Int /\ w \in Int
        BY IndexTreeAssumption
      <3>2. IsFiniteSet(A)
        <4> HIDE DEF w
        <4> QED
          BY <3>1, FS_Interval
      <3>3. f \in Surjection(A, RidsOf(j))
        BY DEF RidsOf, Surjection
      <3> HIDE DEF A, f
      <3> QED
        BY <3>2, <3>3, FS_Surjection
    <2> HIDE DEF ks
    <2>3. IsFiniteSet({RidsOf(j) : j \in ks})
      <3> DEFINE f == [j \in ks |-> RidsOf(j)]
                 B == {RidsOf(j) : j \in ks}
      <3>1. f \in Surjection(ks, B)
        BY DEF Surjection
      <3> HIDE DEF f, B
      <3>2. IsFiniteSet(B)
        BY <2>1, <3>1, FS_Surjection
      <3> QED
        BY <3>2 DEF B
    <2>4. \A x \in {RidsOf(j) : j \in ks} : IsFiniteSet(x)
      BY <2>2 DEF ks
    <2>5. IsFiniteSet(UNION {RidsOf(j) : j \in ks})
      BY <2>3, <2>4, FS_UNION
    <2> QED
      BY <2>5 DEF RidsUpTo, ks
  <1>6. IsFiniteSet(1 .. b) /\ Cardinality(1 .. b) = b
    <2>1. 1 \in Int /\ b \in Int /\ ~(1 > b) /\ b - 1 + 1 = b
      BY <1>1
    <2> QED
      BY <2>1, FS_Interval
  <1>7. \A j, l \in 1 .. b : T[i][j] = T[i][l] => j = l
    BY <1>2, TopAt
  <1>8. g \in Injection(1 .. b, S)
    <2>1. g \in [1 .. b -> S]
      BY <1>4
    <2>2. \A j, l \in 1 .. b : g[j] = g[l] => j = l
      BY <1>7
    <2> HIDE DEF g, S
    <2> QED
      BY <2>1, <2>2 DEF Injection, IsInjective
  <1> HIDE DEF g, S
  <1>9. Cardinality(1 .. b) <= Cardinality(S)
    BY <1>5, <1>8, FS_Injection
  <1>a. Cardinality(S) \in Nat
    BY <1>5, FS_CardinalityType
  <1> QED
    BY <1>6, <1>9, <1>a DEF S

\* The same as SplitNode and Redirect do it.
LEMMA PartedIs ==
  ASSUME NEW es \in Seq(EntrySet), NEW c \in Nat, c = Len(es), NEW pos \in 1 .. c, NEW e, NEW rid
  PROVE  Inserted([es EXCEPT ![pos] = Entry(es[pos].key, rid)], pos, e) = Parted(es, pos, e, rid)
  <1> DEFINE s == [es EXCEPT ![pos] = Entry(es[pos].key, rid)]
  <1>1. es = [i \in 1 .. c |-> es[i]]
    OBVIOUS
  <1>2. s = [i \in 1 .. c |-> IF i = pos THEN Entry(es[pos].key, rid) ELSE es[i]]
    BY <1>1
  <1>3. Len(s) = c
    BY <1>2
  <1> HIDE DEF s
  <1>4. Inserted(s, pos, e) = [i \in 1 .. c + 1 |-> IF i < pos THEN s[i] ELSE IF i = pos THEN e ELSE s[i - 1]]
    BY <1>3 DEF Inserted
  <1>5. Parted(es, pos, e, rid) = [i \in 1 .. c + 1 |->
     IF i < pos THEN es[i] ELSE IF i = pos THEN e
     ELSE IF i = pos + 1 THEN Entry(es[pos].key, rid) ELSE es[i - 1]]
    BY DEF Parted
  <1>6. ASSUME NEW i \in 1 .. c + 1
        PROVE  (IF i < pos THEN s[i] ELSE IF i = pos THEN e ELSE s[i - 1])
                 = (IF i < pos THEN es[i] ELSE IF i = pos THEN e
                    ELSE IF i = pos + 1 THEN Entry(es[pos].key, rid) ELSE es[i - 1])
    <2>1. CASE i < pos
      <3>1. i \in 1 .. c /\ i # pos
        BY <2>1
      <3> QED
        BY <1>2, <2>1, <3>1
    <2>2. CASE i = pos
      BY <2>2
    <2>3. CASE i = pos + 1
      <3>1. i - 1 = pos /\ pos \in 1 .. c /\ ~(i < pos) /\ i # pos
        BY <2>3
      <3> QED
        BY <1>2, <2>3, <3>1
    <2>4. CASE i > pos + 1
      <3>1. i - 1 \in 1 .. c /\ i - 1 # pos /\ ~(i < pos) /\ i # pos /\ i # pos + 1
        BY <2>4
      <3> QED
        BY <1>2, <2>4, <3>1
    <2> QED
      BY <2>1, <2>2, <2>3, <2>4
  <1> QED
    BY <1>4, <1>5, <1>6 DEF s

\* A node that is to be split shares no key with the one before it.
LEMMA KeyStrict ==
  ASSUME Sparse, NEW N, NEW root, NEW h, NEW lv, NEW at, NEW off, NEW F, NEW T,
         Tree(N, root, h, lv, at, off, F, T),
         NEW p \in DOMAIN N, NEW f \in DOMAIN N, lv[f] < h - 1, NEW pos \in 1 .. K(N, f),
         N[f].entries[pos].rid = Child(p), NEW m \in 1 .. K(N, p), m >= Middle,
         NEW s \in 1 .. pos - 1
  PROVE  N[f].entries[s].key < N[p].entries[m].key
  <1> DEFINE a == lv[p]
             b == lv[f]
             z == off[f] + s
             c == F[b][z].rid[1]
             A == off[p]
             B == off[p] + m
             y == off[c] + K(N, c)
             w == W(F, a)
             k == F[a][B].key
  <1>1. /\ h \in Nat /\ b \in 0 .. h - 1 /\ K(N, f) \in Nat /\ K(N, p) \in Nat /\ A \in Nat
        /\ at[p] \in Nat /\ off[f] \in Nat
    BY TreeTypes
  <1>2. s \in 1 .. K(N, f) /\ b \in 0 .. h - 2 /\ s < pos /\ s \in Nat /\ pos \in Nat /\ m \in Nat
    BY <1>1
  <1>3. a = b + 1 /\ at[p] = off[f] + pos
    <2>1. p = N[f].entries[pos].rid[1]
      BY DEF Child
    <2> QED
      BY <2>1, ChildAt
  <1>4. z \in 1 .. W(F, b) /\ N[f].entries[s] = F[b][z]
    BY <1>2, EntryAt
  <1>z. z = off[f] + s
    OBVIOUS
  <1> HIDE DEF z
  <1>5. /\ c \in DOMAIN N /\ lv[c] = b + 1 /\ at[c] = z
        /\ F[b][z] = Entry(MaxKey(N[c]), Child(c))
        /\ K(N, c) >= 1 /\ y \in 1 .. W(F, b + 1)
        /\ MaxKey(N[c]) = F[b + 1][y].key
    <2>1. c = F[b][z].rid[1]
      OBVIOUS
    <2> HIDE DEF c, b
    <2> QED
      BY <1>2, <1>4, <2>1, Under
  <1> HIDE DEF c, a, b, y
  <1>6. N[f].entries[s].key = F[a][y].key /\ y \in 1 .. w
    <2>1. N[f].entries[s].key = MaxKey(N[c])
      BY <1>4, <1>5 DEF Entry
    <2> QED
      BY <1>3, <1>5, <2>1
  <1>7. off[c] + K(N, c) <= off[p]
    <2>1. at[c] < at[p]
      BY <1>1, <1>2, <1>3, <1>5, <1>z
    <2>2. lv[c] = lv[p]
      BY <1>3, <1>5 DEF a
    <2> QED
      BY <1>5, <2>1, <2>2 DEF Tree, Flat
  <1>8. B \in 1 .. w /\ N[p].entries[m] = F[a][B]
    BY EntryAt DEF a
  <1>9. a \in 0 .. h - 1 /\ w \in Nat /\ k \in KeyValues /\ B \in Nat /\ y \in Nat
    <2>1. a \in 0 .. h - 1
      BY TreeTypes DEF a
    <2>2. w \in Nat
      BY <2>1, TreeTypes
    <2>3. k \in KeyValues
      BY <1>8, <2>1, TopAt
    <2>4. B \in Nat /\ y \in Nat
      BY <1>6, <1>8, <2>2
    <2> QED
      BY <2>1, <2>2, <2>3, <2>4
  <1>a. /\ \A j \in 1 .. w : F[a][j].key \in Nat
        /\ \A j, l \in 1 .. w : j <= l => F[a][j].key <= F[a][l].key
    BY <1>9, KeyAt
  <1>b. y <= A /\ B = A + m
    BY <1>7 DEF y
  <1> HIDE DEF a, b, c, A, B, y, w, k
  <1>c. ASSUME ~(F[a][y].key < k) PROVE FALSE
    <2>1. A \in 1 .. w /\ A <= B
      BY <1>1, <1>2, <1>6, <1>8, <1>9, <1>b
    <2>2. \A j \in A .. B : F[a][j].key = k
      <3> TAKE j \in A .. B
      <3>1. j \in 1 .. w /\ y <= j /\ j <= B
        BY <1>9, <1>8, <2>1, <1>b
      <3>2. F[a][y].key <= F[a][j].key /\ F[a][j].key <= F[a][B].key
        BY <1>6, <1>8, <1>a, <3>1
      <3>3. F[a][y].key \in Nat /\ F[a][j].key \in Nat /\ F[a][B].key \in Nat
        BY <1>6, <1>8, <1>a, <3>1
      <3> QED
        BY <1>c, <3>2, <3>3 DEF k
    <2>b. B \in 1 .. w /\ A \in 1 .. w /\ A <= B
      BY <1>8, <2>1
    <2>3. (B - A) + 1 <= MaxSame[k]
      <3>1. B \in 1 .. W(F, a) /\ A \in 1 .. W(F, a) /\ A <= B /\ a \in 0 .. h - 1 /\ k \in KeyValues
        BY <2>b, <1>9 DEF w
      <3>2. \A j \in A .. B : F[a][j].key = k
        BY <2>2
      <3> QED
        BY <3>1, <3>2, SameKeys
    <2>4. MaxSame[k] <= Middle /\ MaxSame[k] \in Nat
      BY <1>9, IndexTreeAssumption DEF Sparse, Middle
    <2> QED
      BY <1>1, <1>2, <1>9, <1>b, <2>3, <2>4, MiddleFacts
  <1> QED
    BY <1>6, <1>8, <1>c DEF k

\* The nodes V are the nodes M with an entry for page p that still has to go in.
Pending(M, V, p, k, rid) ==
  /\ p \in DOMAIN M /\ DOMAIN V = DOMAIN M
  /\ \A r \in DOMAIN M : r # p => V[r] = M[r]
  /\ V[p] = [M[p] EXCEPT !.entries = Inserted(@, FindKey(M[p], k), Entry(k, rid))]
  /\ M[p] \in NodeSet
  /\ k \in KeyValues /\ rid \in Nat \X (Nat \cup {-1})

\* The node with the entry.
PendingAt(M, V, p, k, rid) ==
  /\ K(M, p) \in Nat /\ K(V, p) = K(M, p) + 1
  /\ FindKey(M[p], k) \in 1 .. K(M, p) + 1
  /\ V[p] = [entries |-> Inserted(M[p].entries, FindKey(M[p], k), Entry(k, rid)),
             left |-> M[p].left, right |-> M[p].right]

\* An entry that waits for its turn, taken apart.
LEMMA PendingFacts ==
  ASSUME NEW M, NEW V, NEW p, NEW k, NEW rid, Pending(M, V, p, k, rid)
  PROVE  PendingAt(M, V, p, k, rid)
  <1> DEFINE n == M[p]
             es == n.entries
             x == FindKey(n, k)
             e == Entry(k, rid)
  <1>1. n \in NodeSet /\ k \in Nat /\ e \in EntrySet
    BY IndexTreeAssumption DEF Pending, Entry, EntrySet
  <1>2. es \in Seq(EntrySet) /\ Len(es) \in Nat
    BY <1>1, IsNode
  <1>3. x \in 1 .. Len(es) + 1
    <2>1. \A q \in 1 .. Len(es) : es[q].key \in Nat
      BY <1>2, NodeKeys
    <2>2. Finds(n, Len(es), k, x)
      BY <1>1, <1>2, <2>1, FindKeyFacts DEF numKeys
    <2> QED
      BY <2>2 DEF Finds
  <1>4. Len(Inserted(es, x, e)) = Len(es) + 1
    BY <1>1, <1>2, <1>3, InsertedFacts
  <1>5. V[p] = [entries |-> Inserted(es, x, e), left |-> n.left, right |-> n.right]
    <2> DEFINE a == Inserted(es, x, e)
    <2>1. V[p] = [n EXCEPT !.entries = a]
      BY DEF Pending
    <2> HIDE DEF a
    <2>2. V[p] = [entries |-> a, left |-> n.left, right |-> n.right]
      BY <1>1, <2>1, IsNode
    <2> QED
      BY <2>2 DEF a
  <1>6. V[p].entries = Inserted(es, x, e)
    BY <1>5
  <1> QED
    BY <1>2, <1>3, <1>4, <1>5, <1>6 DEF K, PendingAt

\* The file's nodes after a node that is full was split.
Halved(M, p, q, k, rid) ==
  [r \in DOMAIN M \cup {q} |->
     IF r = p THEN LowerHalf(M[p], p, q, k, rid)
     ELSE IF r = q THEN UpperHalf(M[p], p, q, k, rid) ELSE M[r]]

\* The nodes after an entry was led elsewhere.
Redirected(H, f, pos, q) == [H EXCEPT ![f] = SetRid(@, pos, Child(q))]

IsRedirected(n, pos, q, es) ==
  /\ SetRid(n, pos, Child(q)) = [entries |-> es, left |-> n.left, right |-> n.right]
  /\ es \in Seq(EntrySet) /\ Len(es) = Len(n.entries)
  /\ \A s \in 1 .. Len(n.entries) : es[s].key = n.entries[s].key
  /\ SetRid(n, pos, Child(q)) \in NodeSet

\* Leading an entry elsewhere.
LEMMA SetRidIs ==
  ASSUME NEW n \in NodeSet, NEW pos \in 1 .. Len(n.entries), NEW q \in Nat
  PROVE  IsRedirected(n, pos, q, [n.entries EXCEPT ![pos] = Entry(n.entries[pos].key, Child(q))])
  <1> DEFINE s == n.entries
             e == Entry(s[pos].key, Child(q))
             es == [s EXCEPT ![pos] = e]
  <1>1. s \in Seq(EntrySet) /\ n.left \in Nat \cup {NoPage} /\ n.right \in Nat \cup {NoPage}
    BY IsNode
  <1>2. e \in EntrySet /\ e.key = s[pos].key
    <2>1. e \in EntrySet
      BY <1>1, MakeEntry
    <2> QED
      BY <2>1 DEF Entry
  <1>3. SetRid(n, pos, Child(q)) = [n EXCEPT !.entries = es]
    BY DEF SetRid
  <1> HIDE DEF e
  <1>4. es \in Seq(EntrySet) /\ Len(es) = Len(s) /\ \A i \in 1 .. Len(s) : es[i] = IF i = pos THEN e ELSE s[i]
    BY <1>1, <1>2
  <1>5. \A i \in 1 .. Len(s) : es[i].key = s[i].key
    BY <1>2, <1>4
  <1> HIDE DEF es
  <1>6. [n EXCEPT !.entries = es] = [entries |-> es, left |-> n.left, right |-> n.right]
    BY IsNode
  <1>7. [entries |-> es, left |-> n.left, right |-> n.right] \in NodeSet
    BY <1>1, <1>4, MakeNode
  <1> QED
    BY <1>3, <1>4, <1>5, <1>6, <1>7 DEF es, e, IsRedirected

\* No node holds more than a page.
Sized(N) == \A p \in DOMAIN N : K(N, p) \in Nat /\ K(N, p) <= MaxKeys

\* A part of a full node and of the entry for it.
LEMMA PartLength ==
  ASSUME NEW all \in Seq(EntrySet), Len(all) = MaxKeys + 1, NEW m \in 1 .. MaxKeys
  PROVE  /\ Len(SubSeq(all, 1, m)) = m /\ m \in Nat /\ m <= MaxKeys
         /\ Len(SubSeq(all, m + 1, MaxKeys + 1)) \in Nat
         /\ Len(SubSeq(all, m + 1, MaxKeys + 1)) <= MaxKeys
  <1>1. MaxKeys \in Nat /\ MaxKeys >= 2
    BY NodeAssumption
  <1> DEFINE g == m + 1
             b == MaxKeys + 1
  <1>2. g \in Nat \ {0} /\ b \in Nat /\ b <= Len(all) /\ g <= b + 1 /\ b - g + 1 \in Nat /\ b - g + 1 <= MaxKeys
    BY <1>1
  <1>3. 1 \in Nat \ {0} /\ m \in Nat /\ m <= Len(all) /\ 1 <= m + 1 /\ m - 1 + 1 = m /\ m <= MaxKeys
    BY <1>1
  <1> HIDE DEF g, b
  <1>4. Len(SubSeq(all, g, b)) = b - g + 1
    BY <1>2, Slice
  <1>5. Len(SubSeq(all, 1, m)) = m - 1 + 1
    BY <1>3, Slice
  <1> QED
    BY <1>2, <1>3, <1>4, <1>5 DEF g, b

\* Splitting below the root leaves a tree, with an entry pending in the parent.
LEMMA SplitInner ==
  ASSUME Sparse, NEW V, NEW root, NEW h, NEW lv, NEW at, NEW off, NEW F, NEW T,
         Tree(V, root, h, lv, at, off, F, T),
         NEW M, NEW p, NEW k, NEW rid, Pending(M, V, p, k, rid), K(M, p) = MaxKeys,
         NEW f \in DOMAIN V, lv[p] # 0, lv[f] < h - 1, NEW pos \in 1 .. K(V, f),
         V[f].entries[pos].rid = Child(p), NEW q \in Nat, q \notin DOMAIN V,
         NEW M2, M2 = Redirected(Halved(M, p, q, k, rid), f, pos, q)
  PROVE  \E V2, lv2, at2, off2, F2, T2 :
           /\ Tree(V2, root, h, lv2, at2, off2, F2, T2)
           /\ F2[h - 1] = F[h - 1]
           /\ \A r \in DOMAIN V : lv2[r] = lv[r]
           /\ Pending(M2, V2, f, MaxKey(LowerHalf(M[p], p, q, k, rid)), Child(p))
           /\ \A r \in DOMAIN V : r # p /\ r # f => V2[r] = V[r]
           /\ Sized(M) => Sized(M2)
  <1> DEFINE x == FindKey(M[p], k)
             m == SplitAt(x)
             all == V[p].entries
             lo == LowerHalf(M[p], p, q, k, rid)
             hi == UpperHalf(M[p], p, q, k, rid)
             V2 == Cut(V, p, m, q, f, pos)
             kk == all[m].key
             n == M[f]
             es == n.entries
             es2 == [es EXCEPT ![pos] = Entry(es[pos].key, Child(q))]
             e == Entry(kk, Child(p))
  <1>0. /\ p \in DOMAIN M /\ DOMAIN V = DOMAIN M /\ M[p] \in NodeSet
        /\ \A r \in DOMAIN M : r # p => V[r] = M[r]
        /\ k \in KeyValues /\ rid \in Nat \X (Nat \cup {-1})
    BY DEF Pending
  <1>1. /\ K(V, p) = MaxKeys + 1 /\ MaxKeys \in Nat /\ x \in 1 .. MaxKeys + 1
        /\ V[p] = [entries |-> all, left |-> M[p].left, right |-> M[p].right]
        /\ all = Inserted(M[p].entries, x, Entry(k, rid))
    <2>0. PendingAt(M, V, p, k, rid)
      BY PendingFacts
    <2>1. V[p] = [entries |-> Inserted(M[p].entries, x, Entry(k, rid)),
                  left |-> M[p].left, right |-> M[p].right]
      BY <2>0 DEF PendingAt
    <2>2. all = Inserted(M[p].entries, x, Entry(k, rid))
      BY <2>1
    <2>3. V[p] = [entries |-> all, left |-> M[p].left, right |-> M[p].right]
      BY <2>1, <2>2
    <2>4. K(V, p) = K(M, p) + 1 /\ x \in 1 .. K(M, p) + 1
      BY <2>0 DEF PendingAt
    <2> HIDE DEF x, all
    <2> QED
      BY <2>2, <2>3, <2>4, NodeAssumption
  <1>a. /\ V[p].left = M[p].left /\ V[p].right = M[p].right
    BY <1>1
  <1>p. p \in Nat /\ f \in Nat /\ f # p /\ f # q /\ p # q
    <2>1. f # p
      <3>1. p = V[f].entries[pos].rid[1]
        BY DEF Child
      <3> QED
        BY <3>1, ChildAt
    <2>2. DOMAIN V \subseteq Nat
      BY TreeTypes
    <2> QED
      BY <1>0, <2>1, <2>2
  <1>2. /\ m \in 1 .. MaxKeys /\ m >= Middle
        /\ lo = [entries |-> SubSeq(all, 1, m), left |-> M[p].left, right |-> q]
        /\ hi = [entries |-> SubSeq(all, m + 1, MaxKeys + 1), left |-> p, right |-> M[p].right]
    <2>1. Len(M[p].entries) = MaxKeys
      BY DEF K
    <2> HIDE DEF x, m, all
    <2>2. x = FindKey(M[p], k) /\ m = SplitAt(x)
      BY DEF x, m
    <2>3. IsSplit(M[p], p, q, k, rid, x, all, m)
      BY <1>0, <1>1, <1>p, <2>1, <2>2, SplitIs
    <2> QED
      BY <2>3 DEF IsSplit, lo, hi
  <1> HIDE DEF x, m, lo, hi
  <1>3. V[p] \in NodeSet /\ all \in Seq(EntrySet) /\ Len(all) = MaxKeys + 1
    <2>1. V[p] \in NodeSet
      BY <1>0, TreeTypes
    <2> QED
      BY <1>1, <2>1, IsNode DEF K
  <1>4. MaxKey(lo) = kk /\ kk \in KeyValues
    <2>1. m \in Nat /\ 1 <= m /\ m <= Len(all) /\ m \in 1 .. Len(all) /\ m \in 1 .. m
      BY <1>1, <1>2, <1>3
    <2> HIDE DEF all
    <2>2. Len(SubSeq(all, 1, m)) = m /\ SubSeq(all, 1, m)[m] = all[m]
      BY <1>3, <2>1
    <2>3. lo.entries = SubSeq(all, 1, m)
      BY <1>2
    <2>4. kk \in KeyValues
      BY <1>3, <2>1, NodeKeys
    <2> QED
      BY <2>2, <2>3, <2>4 DEF MaxKey, numKeys
  <1>5. Divides(V, h, lv, p, f, q, m, pos)
    <2>1. m \in 1 .. K(V, p) - 1
      BY <1>1, <1>2
    <2> QED
      BY <1>0, <2>1 DEF Divides
  <1>6. PICK lv2, at2, off2, F2, T2 :
          /\ Tree(V2, root, h, lv2, at2, off2, F2, T2)
          /\ F2[h - 1] = F[h - 1]
          /\ \A r \in DOMAIN V : lv2[r] = lv[r]
    <2> HIDE DEF V2
    <2>1. V2 = Cut(V, p, m, q, f, pos)
      BY DEF V2
    <2> QED
      BY <1>5, <2>1, CutTree
  <1>7. /\ DOMAIN V2 = DOMAIN V \cup {q}
        /\ V2[p] = [entries |-> SubSeq(all, 1, m), left |-> V[p].left, right |-> q]
        /\ V2[q] = [entries |-> SubSeq(all, m + 1, K(V, p)), left |-> p, right |-> V[p].right]
        /\ V2[f] = [V[f] EXCEPT !.entries = Parted(@, pos, e, Child(q))]
        /\ \A r \in DOMAIN V : r # p /\ r # f => V2[r] = V[r]
    BY <1>0, <1>p DEF Cut
  <1>8. /\ DOMAIN M2 = DOMAIN M \cup {q}
        /\ M2[p] = lo /\ M2[q] = hi /\ M2[f] = SetRid(n, pos, Child(q))
        /\ \A r \in DOMAIN M : r # p /\ r # f => M2[r] = M[r]
    BY <1>0, <1>p DEF Halved, Redirected, lo, hi
  <1>9. n \in NodeSet /\ n = V[f] /\ pos \in 1 .. Len(es)
    <2>1. V[f] \in NodeSet /\ n = V[f]
      BY <1>0, <1>p, TreeTypes
    <2> QED
      BY <2>1 DEF K
  <1>b. es \in Seq(EntrySet) /\ Len(es) \in Nat /\ n = [entries |-> es, left |-> n.left, right |-> n.right]
    BY <1>9, IsNode
  <1>c. /\ M2[f] = [entries |-> es2, left |-> n.left, right |-> n.right]
        /\ Len(es2) = Len(es) /\ M2[f] \in NodeSet
        /\ \A s \in 1 .. Len(es) : es2[s].key = es[s].key
    <2>1. IsRedirected(n, pos, q, es2)
      BY <1>9, SetRidIs
    <2> HIDE DEF es2, es, n
    <2> QED
      BY <1>8, <2>1 DEF IsRedirected, es
  <1>d. Finds(M2[f], Len(es), kk, pos)
    <2>1. M2[f].entries = es2
      BY <1>c
    <2>2. es[pos].key >= kk
      <3>1. V[f].entries[pos] = Entry(MaxKey(V[p]), Child(p))
        <4>1. p = V[f].entries[pos].rid[1]
          BY DEF Child
        <4> QED
          BY <4>1, ChildAt
      <3>2. es[pos].key = all[MaxKeys + 1].key
        <4>1. numKeys(V[p]) = MaxKeys + 1
          BY <1>1 DEF numKeys, K
        <4> QED
          BY <3>1, <4>1, <1>9 DEF Entry, MaxKey
      <3>3. m \in 1 .. K(V, p) /\ MaxKeys + 1 \in 1 .. K(V, p)
        BY <1>1, <1>2
      <3>4. /\ off[p] + m \in 1 .. W(F, lv[p]) /\ all[m] = F[lv[p]][off[p] + m]
            /\ off[p] + (MaxKeys + 1) \in 1 .. W(F, lv[p])
            /\ all[MaxKeys + 1] = F[lv[p]][off[p] + (MaxKeys + 1)]
        BY <1>0, <3>3, EntryAt
      <3>5. off[p] \in Nat /\ off[p] + m <= off[p] + (MaxKeys + 1) /\ lv[p] \in 0 .. h - 1
        <4>1. off[p] \in Nat /\ lv[p] \in 0 .. h - 1
          BY <1>0, TreeTypes
        <4> QED
          BY <4>1, <1>1, <1>2
      <3>6. F[lv[p]][off[p] + m].key <= F[lv[p]][off[p] + (MaxKeys + 1)].key
        BY <3>4, <3>5, KeyAt
      <3>7. F[lv[p]][off[p] + m].key \in Nat /\ F[lv[p]][off[p] + (MaxKeys + 1)].key \in Nat
        BY <3>4, <3>5, KeyAt
      <3> QED
        BY <3>2, <3>4, <3>6, <3>7
    <2>3. \A s \in 1 .. pos - 1 : es[s].key < kk
      <3> TAKE s \in 1 .. pos - 1
      <3>1. m \in 1 .. K(V, p) /\ p \in DOMAIN V
        BY <1>0, <1>1, <1>2
      <3>2. V[f].entries[s].key < V[p].entries[m].key
        BY <1>2, <3>1, KeyStrict
      <3> QED
        BY <3>2, <1>9
    <2>4. \A s \in 1 .. pos : s \in 1 .. Len(es)
      BY <1>9, <1>b
    <2>5. pos \in 1 .. Len(es) + 1 /\ pos \in Nat /\ pos \in 1 .. pos /\ \A s \in 1 .. pos - 1 : s \in 1 .. pos
      BY <1>9, <1>b
    <2> HIDE DEF es, es2, kk
    <2>6. es2[pos].key >= kk
      BY <1>c, <2>2, <2>4, <2>5
    <2>7. \A s \in 1 .. pos - 1 : es2[s].key < kk
      BY <1>c, <2>3, <2>4, <2>5
    <2> QED
      BY <2>1, <2>5, <2>6, <2>7 DEF Finds
  <1>e. FindKey(M2[f], kk) = pos
    <2>1. kk \in Nat
      BY <1>4, IndexTreeAssumption
    <2>2. numKeys(M2[f]) = Len(es) /\ \A s \in 1 .. Len(es) : M2[f].entries[s].key \in Nat
      <3>1. \A s \in 1 .. Len(es) : es[s].key \in Nat
        BY <1>b, NodeKeys
      <3>2. M2[f].entries = es2
        BY <1>c
      <3> HIDE DEF es2, es
      <3> QED
        BY <3>1, <3>2, <1>c DEF numKeys
    <2> HIDE DEF es, kk
    <2> QED
      BY <1>b, <1>d, <2>1, <2>2, FindKeyFacts
  <1>f. V2[f] = [M2[f] EXCEPT !.entries = Inserted(@, FindKey(M2[f], kk), Entry(kk, Child(p)))]
    <2> DEFINE a == Parted(es, pos, e, Child(q))
    <2>1. V2[f] = [n EXCEPT !.entries = a]
      BY <1>7, <1>9
    <2>2. Inserted(es2, pos, e) = a
      <3>1. pos \in 1 .. Len(es) /\ es \in Seq(EntrySet) /\ Len(es) \in Nat
        BY <1>9, <1>b
      <3> HIDE DEF e, es
      <3> QED
        BY <3>1, PartedIs
    <2> HIDE DEF a, es2, es, e
    <2>3. V2[f] = [entries |-> a, left |-> n.left, right |-> n.right]
      BY <2>1, <1>9, IsNode
    <2>4. M2[f].entries = es2
      BY <1>c
    <2>5. [M2[f] EXCEPT !.entries = a] = [entries |-> a, left |-> n.left, right |-> n.right]
      BY <1>c
    <2>6. [M2[f] EXCEPT !.entries = Inserted(@, FindKey(M2[f], kk), e)] = [M2[f] EXCEPT !.entries = a]
      BY <1>e, <2>2, <2>4
    <2> QED
      BY <2>3, <2>5, <2>6 DEF e
  <1>g. Pending(M2, V2, f, MaxKey(lo), Child(p))
    <2>1. f \in DOMAIN M2 /\ DOMAIN V2 = DOMAIN M2
      BY <1>0, <1>7, <1>8
    <2>2. V2[p] = M2[p]
      BY <1>2, <1>7, <1>8, <1>a
    <2>3. V2[q] = M2[q]
      BY <1>1, <1>2, <1>7, <1>8, <1>a
    <2>4. \A r \in DOMAIN M : r # p /\ r # f => V2[r] = M2[r]
      BY <1>0, <1>7, <1>8
    <2>5. \A r \in DOMAIN M2 : r # f => V2[r] = M2[r]
      BY <1>8, <2>2, <2>3, <2>4
    <2>6. Child(p) \in Nat \X (Nat \cup {-1})
      BY <1>p DEF Child
    <2> HIDE DEF V2, kk
    <2> QED
      BY <1>4, <1>c, <1>f, <2>1, <2>5, <2>6 DEF Pending
  <1>h. Sized(M) => Sized(M2)
    <2>1. K(M2, p) \in Nat /\ K(M2, p) <= MaxKeys /\ K(M2, q) \in Nat /\ K(M2, q) <= MaxKeys
      <3> HIDE DEF all
      <3>1. M2[p].entries = SubSeq(all, 1, m) /\ M2[q].entries = SubSeq(all, m + 1, MaxKeys + 1)
        <4>1. lo.entries = SubSeq(all, 1, m)
          BY <1>2
        <4>2. hi.entries = SubSeq(all, m + 1, MaxKeys + 1)
          BY <1>2
        <4> QED
          BY <1>8, <4>1, <4>2
      <3> QED
        BY <1>2, <1>3, <3>1, PartLength DEF K
    <2>2. K(M2, f) = K(M, f)
      BY <1>c DEF K
    <2>3. \A r \in DOMAIN M : r # p /\ r # f => K(M2, r) = K(M, r)
      BY <1>8 DEF K
    <2>4. f \in DOMAIN M
      BY <1>0
    <2> QED
      BY <2>1, <2>2, <2>3, <2>4, <1>8 DEF Sized
  <1> HIDE DEF V2
  <1> QED
    BY <1>6, <1>7, <1>g, <1>h DEF lo

\* A root that is to be split has a larger key in its upper half.
LEMMA HalvesDiffer ==
  ASSUME Sparse, NEW N, NEW root, NEW h, NEW lv, NEW at, NEW off, NEW F, NEW T,
         Tree(N, root, h, lv, at, off, F, T), NEW p \in DOMAIN N,
         K(N, p) = MaxKeys + 1, NEW m \in 1 .. MaxKeys, m <= Middle + 1
  PROVE  N[p].entries[m].key < N[p].entries[MaxKeys + 1].key
  <1> DEFINE a == lv[p]
             A == off[p] + m
             B == off[p] + (MaxKeys + 1)
             w == W(F, a)
             k == F[a][B].key
  <1>1. a \in 0 .. h - 1 /\ off[p] \in Nat /\ w \in Nat /\ MaxKeys \in Nat /\ m \in Nat /\ Middle \in Nat
    <2>1. a \in 0 .. h - 1 /\ off[p] \in Nat
      BY TreeTypes
    <2> QED
      BY <2>1, TreeTypes, NodeAssumption, MiddleFacts
  <1>2. A \in 1 .. w /\ B \in 1 .. w /\ N[p].entries[m] = F[a][A] /\ N[p].entries[MaxKeys + 1] = F[a][B]
    <2>1. m \in 1 .. K(N, p) /\ MaxKeys + 1 \in 1 .. K(N, p)
      BY <1>1
    <2> QED
      BY <2>1, EntryAt
  <1>3. k \in KeyValues
    BY <1>1, <1>2, TopAt
  <1>4. /\ \A j \in 1 .. w : F[a][j].key \in Nat
        /\ \A j, l \in 1 .. w : j <= l => F[a][j].key <= F[a][l].key
    BY <1>1, KeyAt
  <1>5. A <= B /\ (B - A) + 1 = (MaxKeys + 2) - m /\ MaxKeys + 1 <= B /\ A \in Nat /\ B \in Nat
    BY <1>1
  <1> HIDE DEF a, A, B, w, k
  <1>6. ASSUME ~(F[a][A].key < k) PROVE FALSE
    <2>1. \A j \in A .. B : F[a][j].key = k
      <3> TAKE j \in A .. B
      <3>1. j \in 1 .. w /\ A <= j /\ j <= B
        BY <1>1, <1>2, <1>5
      <3>2. F[a][A].key <= F[a][j].key /\ F[a][j].key <= F[a][B].key
        BY <1>2, <1>4, <3>1
      <3>3. F[a][A].key \in Nat /\ F[a][j].key \in Nat /\ F[a][B].key \in Nat
        BY <1>2, <1>4, <3>1
      <3> QED
        BY <1>6, <3>2, <3>3 DEF k
    <2>2. (B - A) + 1 <= MaxSame[k]
      <3>1. B \in 1 .. W(F, a) /\ A \in 1 .. W(F, a) /\ A <= B /\ a \in 0 .. h - 1 /\ k \in KeyValues
        BY <1>1, <1>2, <1>3, <1>5 DEF w
      <3> QED
        BY <2>1, <3>1, SameKeys
    <2>3. MaxSame[k] \in Nat
      BY <1>3, IndexTreeAssumption
    <2>4. ~(MaxSame[k] <= MaxKeys \div 2)
      BY <1>1, <1>5, <2>2, <2>3, MiddleFacts
    <2>5. Cardinality(RidsUpTo(k)) <= MaxKeys
      BY <1>3, <2>4 DEF Sparse
    <2>6. B <= Cardinality(RidsUpTo(k)) /\ Cardinality(RidsUpTo(k)) \in Nat
      BY <1>1, <1>2, KeysUpTo DEF k, w
    <2> QED
      BY <1>1, <1>5, <2>5, <2>6
  <1> QED
    BY <1>2, <1>6 DEF k

\* The new root as SplitNode makes it.
LEMMA PairIs ==
  ASSUME NEW a \in Nat, NEW b \in Nat, a < b, NEW r, NEW s
  PROVE  NodeInsert(NodeInsert(EmptyNode, a, r), b, s)
           = [entries |-> <<Entry(a, r), Entry(b, s)>>, left |-> NoPage, right |-> NoPage]
  <1> DEFINE n == [entries |-> <<Entry(a, r)>>, left |-> NoPage, right |-> NoPage]
  <1>1. MaxKeys \in Nat /\ MaxKeys >= 2
    BY NodeAssumption
  <1>2. NodeInsert(EmptyNode, a, r) = n
    <2>1. numKeys(EmptyNode) = 0 /\ EmptyNode.entries = <<>> /\ ~Full(EmptyNode)
      BY <1>1 DEF numKeys, EmptyNode, Full
    <2>2. FindKey(EmptyNode, a) = 1
      <3>1. Finds(EmptyNode, 0, a, 1)
        BY DEF Finds
      <3> QED
        BY <2>1, <3>1, FindKeyFacts
    <2>3. Inserted(<<>>, 1, Entry(a, r)) = <<Entry(a, r)>>
      BY DEF Inserted
    <2>4. NodeInsert(EmptyNode, a, r) = [EmptyNode EXCEPT !.entries = <<Entry(a, r)>>]
      BY <2>1, <2>2, <2>3 DEF NodeInsert
    <2> QED
      BY <2>4 DEF EmptyNode
  <1>3. numKeys(n) = 1 /\ n.entries = <<Entry(a, r)>> /\ ~Full(n) /\ n.entries[1].key = a
    BY <1>1 DEF numKeys, Full, Entry
  <1>4. FindKey(n, b) = 2
    <2>1. Finds(n, 1, b, 2)
      BY <1>3 DEF Finds
    <2>2. \A q \in 1 .. 1 : n.entries[q].key \in Nat
      BY <1>3
    <2> HIDE DEF n
    <2> QED
      BY <1>3, <2>1, <2>2, FindKeyFacts
  <1>5. Inserted(<<Entry(a, r)>>, 2, Entry(b, s)) = <<Entry(a, r), Entry(b, s)>>
    <2> DEFINE x == Entry(a, r)
               y == Entry(b, s)
    <2> HIDE DEF x, y
    <2>1. Inserted(<<x>>, 2, y) = <<x, y>>
      BY DEF Inserted
    <2> QED
      BY <2>1 DEF x, y
  <1>6. NodeInsert(n, b, s) = [n EXCEPT !.entries = <<Entry(a, r), Entry(b, s)>>]
    <2> HIDE DEF n
    <2> QED
      BY <1>3, <1>4, <1>5 DEF NodeInsert
  <1> QED
    BY <1>2, <1>6

\* What becomes of the only entry of the root above.
LEMMA PartedOne ==
  ASSUME NEW a, NEW e, NEW rid
  PROVE  Parted(<<a>>, 1, e, rid) = <<e, Entry(a.key, rid)>>
  <1> DEFINE y == Entry(a.key, rid)
  <1>1. Parted(<<a>>, 1, e, rid) = [i \in 1 .. 2 |-> IF i = 1 THEN e ELSE y]
    <2>1. Len(<<a>>) + 1 = 2 /\ <<a>>[1] = a
      OBVIOUS
    <2> QED
      BY <2>1 DEF Parted
  <1> HIDE DEF y
  <1>2. [i \in 1 .. 2 |-> IF i = 1 THEN e ELSE y] = <<e, y>>
    OBVIOUS
  <1> QED
    BY <1>1, <1>2 DEF y

\* The nodes after the root was split.
Raised2(M, p, q, k, rid, q2) ==
  [r \in DOMAIN M \cup {q, q2} |->
     IF r = q2
     THEN NodeInsert(NodeInsert(EmptyNode, MaxKey(LowerHalf(M[p], p, q, k, rid)), Child(p)),
                     MaxKey(UpperHalf(M[p], p, q, k, rid)), Child(q))
     ELSE Halved(M, p, q, k, rid)[r]]

\* Splitting the root leaves a tree with one more level.
LEMMA SplitRoot ==
  ASSUME Sparse, NEW V, NEW p, NEW h, NEW lv, NEW at, NEW off, NEW F, NEW T,
         Tree(V, p, h, lv, at, off, F, T),
         NEW M, NEW k, NEW rid, Pending(M, V, p, k, rid), K(M, p) = MaxKeys,
         NEW q \in Nat, q \notin DOMAIN V, NEW q2 \in Nat, q2 \notin DOMAIN V, q2 # q
  PROVE  \E lv2, at2, off2, F2, T2 :
           /\ Tree(Raised2(M, p, q, k, rid, q2), q2, h + 1, lv2, at2, off2, F2, T2)
           /\ F2[h] = F[h - 1]
           /\ Sized(M) => Sized(Raised2(M, p, q, k, rid, q2))
  <1> DEFINE x == FindKey(M[p], k)
             m == SplitAt(x)
             all == V[p].entries
             lo == LowerHalf(M[p], p, q, k, rid)
             hi == UpperHalf(M[p], p, q, k, rid)
             A == Above(V, p, q2)
             V2 == Cut(A, p, m, q, q2, 1)
             M2 == Raised2(M, p, q, k, rid, q2)
             k1 == all[m].key
             k2 == all[MaxKeys + 1].key
  <1>0. /\ p \in DOMAIN M /\ DOMAIN V = DOMAIN M /\ M[p] \in NodeSet
        /\ \A r \in DOMAIN M : r # p => V[r] = M[r]
        /\ k \in KeyValues /\ rid \in Nat \X (Nat \cup {-1})
    BY DEF Pending
  <1>1. /\ K(V, p) = MaxKeys + 1 /\ MaxKeys \in Nat /\ x \in 1 .. MaxKeys + 1
        /\ V[p] = [entries |-> all, left |-> M[p].left, right |-> M[p].right]
        /\ all = Inserted(M[p].entries, x, Entry(k, rid))
    <2>0. PendingAt(M, V, p, k, rid)
      BY PendingFacts
    <2>1. V[p] = [entries |-> Inserted(M[p].entries, x, Entry(k, rid)),
                  left |-> M[p].left, right |-> M[p].right]
      BY <2>0 DEF PendingAt
    <2>2. all = Inserted(M[p].entries, x, Entry(k, rid))
      BY <2>1
    <2>3. V[p] = [entries |-> all, left |-> M[p].left, right |-> M[p].right]
      BY <2>1, <2>2
    <2>4. K(V, p) = K(M, p) + 1 /\ x \in 1 .. K(M, p) + 1
      BY <2>0 DEF PendingAt
    <2> HIDE DEF x, all
    <2> QED
      BY <2>2, <2>3, <2>4, NodeAssumption
  <1>a. /\ V[p].left = M[p].left /\ V[p].right = M[p].right
    BY <1>1
  <1>p. p \in Nat /\ p # q /\ p # q2 /\ h \in Nat /\ h >= 1
    <2>1. DOMAIN V \subseteq Nat /\ h \in Nat /\ h >= 1
      BY TreeTypes
    <2> QED
      BY <1>0, <2>1
  <1>2. /\ m \in 1 .. MaxKeys /\ m <= Middle + 1
        /\ lo = [entries |-> SubSeq(all, 1, m), left |-> M[p].left, right |-> q]
        /\ hi = [entries |-> SubSeq(all, m + 1, MaxKeys + 1), left |-> p, right |-> M[p].right]
    <2>1. Len(M[p].entries) = MaxKeys
      BY DEF K
    <2> HIDE DEF x, m, all
    <2>2. x = FindKey(M[p], k) /\ m = SplitAt(x)
      BY DEF x, m
    <2>3. IsSplit(M[p], p, q, k, rid, x, all, m)
      BY <1>0, <1>1, <1>p, <2>1, <2>2, SplitIs
    <2>4. m <= Middle + 1
      BY <2>2, MiddleFacts DEF SplitAt
    <2> QED
      BY <2>3, <2>4 DEF IsSplit, lo, hi
  <1> HIDE DEF x, m, lo, hi
  <1>3. V[p] \in NodeSet /\ all \in Seq(EntrySet) /\ Len(all) = MaxKeys + 1
    <2>1. V[p] \in NodeSet
      BY <1>0, TreeTypes
    <2> QED
      BY <1>1, <2>1, IsNode DEF K
  <1>4. MaxKey(lo) = k1 /\ MaxKey(hi) = k2 /\ MaxKey(V[p]) = k2 /\ k1 \in Nat /\ k2 \in Nat
    <2>1. m \in Nat /\ 1 <= m /\ m <= Len(all) /\ m \in 1 .. Len(all) /\ m \in 1 .. m
      BY <1>1, <1>2, <1>3
    <2>2. Len(all) \in 1 .. Len(all) /\ Len(all) = MaxKeys + 1
      BY <1>1, <1>3
    <2>3. lo.entries = SubSeq(all, 1, m) /\ hi.entries = SubSeq(all, m + 1, MaxKeys + 1)
      BY <1>2
    <2>4. numKeys(V[p]) = MaxKeys + 1
      BY <1>3 DEF numKeys
    <2>5. MaxKey(V[p]) = k2
      BY <2>4 DEF MaxKey
    <2>6. k1 \in Nat /\ k2 \in Nat
      BY <1>3, <2>1, <2>2, NodeKeys
    <2> HIDE DEF all
    <2>7. Len(SubSeq(all, 1, m)) = m /\ SubSeq(all, 1, m)[m] = all[m]
      BY <1>3, <2>1
    <2>8. /\ Len(SubSeq(all, m + 1, MaxKeys + 1)) = (MaxKeys + 1) - m
          /\ SubSeq(all, m + 1, MaxKeys + 1)[(MaxKeys + 1) - m] = all[MaxKeys + 1]
      <3> DEFINE g == m + 1
                 b == MaxKeys + 1
      <3>1. /\ g \in Nat \ {0} /\ b \in Nat /\ b <= Len(all) /\ g <= b + 1
            /\ b - g + 1 = b - m /\ b - m \in 1 .. b - g + 1 /\ g + (b - m) - 1 = b
        BY <1>1, <1>2, <1>3
      <3> HIDE DEF g, b
      <3>2. /\ Len(SubSeq(all, g, b)) = b - g + 1
            /\ \A s \in 1 .. b - g + 1 : SubSeq(all, g, b)[s] = all[g + s - 1]
        BY <1>3, <3>1, Slice
      <3>3. Len(SubSeq(all, g, b)) = b - m /\ SubSeq(all, g, b)[b - m] = all[b]
        BY <3>1, <3>2
      <3> QED
        BY <3>3 DEF g, b
    <2> QED
      BY <2>3, <2>5, <2>6, <2>7, <2>8 DEF MaxKey, numKeys
  <1>5. k1 < k2
    BY <1>0, <1>1, <1>2, HalvesDiffer
  <1>6. PICK lv1, at1, off1, F1, T1 :
          /\ Tree(A, q2, h + 1, lv1, at1, off1, F1, T1)
          /\ F1[h] = F[h - 1]
          /\ lv1[q2] = 0 /\ \A r \in DOMAIN V : lv1[r] = lv[r] + 1
    <2>1. K(V, p) # 0
      BY <1>1
    <2> HIDE DEF A
    <2>2. A = Above(V, p, q2)
      BY DEF A
    <2> QED
      BY <2>1, <2>2, AboveTree
  <1>7. /\ DOMAIN A = DOMAIN V \cup {q2} /\ A[p] = V[p]
        /\ A[q2] = [entries |-> <<Entry(MaxKey(V[p]), Child(p))>>, left |-> NoPage, right |-> NoPage]
        /\ \A r \in DOMAIN V : A[r] = V[r]
    BY <1>0, <1>p DEF Above
  <1>8. K(A, p) = MaxKeys + 1 /\ K(A, q2) = 1 /\ A[q2].entries[1] = Entry(k2, Child(p))
    BY <1>1, <1>4, <1>7 DEF K
  <1>9. lv[p] = 0
    BY DEF Tree, Linked
  <1> HIDE DEF A
  <1>b. Divides(A, h + 1, lv1, p, q2, q, m, 1)
    <2>1. m \in 1 .. K(A, p) - 1 /\ 1 \in 1 .. K(A, q2)
      BY <1>1, <1>2, <1>8
    <2>2. lv1[p] = 0 + 1 /\ lv1[q2] = 0 /\ 0 < (h + 1) - 1
      BY <1>0, <1>6, <1>9, <1>p
    <2>3. A[q2].entries[1].rid = Child(p)
      BY <1>8 DEF Entry
    <2>4. p \in DOMAIN A /\ q2 \in DOMAIN A /\ q \notin DOMAIN A
      BY <1>0, <1>7
    <2> QED
      BY <2>1, <2>2, <2>3, <2>4 DEF Divides
  <1>c. PICK lv2, at2, off2, F2, T2 :
          /\ Tree(V2, q2, h + 1, lv2, at2, off2, F2, T2)
          /\ F2[(h + 1) - 1] = F1[(h + 1) - 1]
    <2> HIDE DEF V2
    <2>1. V2 = Cut(A, p, m, q, q2, 1)
      BY DEF V2
    <2> QED
      BY <1>6, <1>b, <2>1, CutTree
  <1>d. V2 = M2
    <2>1. V2 = [r \in (DOMAIN V \cup {q2}) \cup {q} |-> V2[r]] /\ M2 = [r \in DOMAIN M \cup {q, q2} |-> M2[r]]
      BY <1>7 DEF Cut, Raised2
    <2>2. (DOMAIN V \cup {q2}) \cup {q} = DOMAIN M \cup {q, q2}
      BY <1>0
    <2>3. V2[p] = M2[p]
      <3>1. V2[p] = [entries |-> SubSeq(A[p].entries, 1, m), left |-> A[p].left, right |-> q]
        BY <1>0, <1>7, <1>p DEF Cut
      <3>2. M2[p] = lo
        BY <1>0, <1>p DEF Raised2, Halved, lo
      <3> QED
        BY <3>1, <3>2, <1>2, <1>7, <1>a
    <2>4. V2[q] = M2[q]
      <3>1. V2[q] = [entries |-> SubSeq(A[p].entries, m + 1, K(A, p)), left |-> p, right |-> A[p].right]
        BY <1>0, <1>7, <1>p DEF Cut
      <3>2. M2[q] = hi
        BY <1>0, <1>p DEF Raised2, Halved, hi
      <3> QED
        BY <3>1, <3>2, <1>2, <1>7, <1>8, <1>a
    <2>5. V2[q2] = M2[q2]
      <3> DEFINE e1 == Entry(k1, Child(p))
                 a1 == Entry(k2, Child(p))
                 s == <<e1, Entry(k2, Child(q))>>
      <3>1. V2[q2] = [A[q2] EXCEPT !.entries = Parted(@, 1, Entry(A[p].entries[m].key, Child(p)), Child(q))]
        BY <1>0, <1>7, <1>p DEF Cut
      <3>2. A[q2] = [entries |-> <<a1>>, left |-> NoPage, right |-> NoPage] /\ A[p].entries[m].key = k1
        BY <1>4, <1>7
      <3>3. a1.key = k2
        BY DEF Entry
      <3>4. Parted(<<a1>>, 1, e1, Child(q)) = s
        <4> HIDE DEF a1, e1
        <4> QED
          BY <3>3, PartedOne
      <3>5. M2[q2] = NodeInsert(NodeInsert(EmptyNode, MaxKey(lo), Child(p)), MaxKey(hi), Child(q))
        BY DEF Raised2, lo, hi
      <3>6. M2[q2] = [entries |-> s, left |-> NoPage, right |-> NoPage]
        <4> HIDE DEF k1, k2, M2
        <4> QED
          BY <1>4, <1>5, <3>5, PairIs
      <3>7. V2[q2] = [[entries |-> <<a1>>, left |-> NoPage, right |-> NoPage] EXCEPT !.entries = s]
        <4> HIDE DEF a1, s, V2
        <4> QED
          BY <3>1, <3>2, <3>4
      <3> HIDE DEF s, a1, V2, M2
      <3> QED
        BY <3>6, <3>7
    <2>6. \A r \in DOMAIN M : r # p => V2[r] = M2[r]
      <3>1. \A r \in DOMAIN M : r # p => r # q /\ r # q2
        BY <1>0
      <3>2. \A r \in DOMAIN M : r # p => V2[r] = A[r]
        BY <1>0, <1>7, <3>1 DEF Cut
      <3>3. \A r \in DOMAIN M : r # p => M2[r] = M[r]
        BY <3>1 DEF Raised2, Halved
      <3> QED
        BY <1>0, <1>7, <3>2, <3>3
    <2> HIDE DEF V2, M2
    <2>7. \A r \in DOMAIN M \cup {q, q2} : V2[r] = M2[r]
      BY <2>3, <2>4, <2>5, <2>6
    <2> QED
      BY <2>1, <2>2, <2>7
  <1>e. (h + 1) - 1 = h
    BY <1>p
  <1>g. Sized(M) => Sized(M2)
    <2>1. /\ DOMAIN M2 = DOMAIN M \cup {q, q2} /\ M2[p] = lo /\ M2[q] = hi
          /\ \A r \in DOMAIN M : r # p => M2[r] = M[r]
      BY <1>0, <1>p DEF Raised2, Halved, lo, hi
    <2>2. K(M2, p) \in Nat /\ K(M2, p) <= MaxKeys /\ K(M2, q) \in Nat /\ K(M2, q) <= MaxKeys
      <3> HIDE DEF all, M2
      <3>1. M2[p].entries = SubSeq(all, 1, m) /\ M2[q].entries = SubSeq(all, m + 1, MaxKeys + 1)
        <4>1. lo.entries = SubSeq(all, 1, m)
          BY <1>2
        <4>2. hi.entries = SubSeq(all, m + 1, MaxKeys + 1)
          BY <1>2
        <4> QED
          BY <2>1, <4>1, <4>2
      <3> QED
        BY <1>2, <1>3, <3>1, PartLength DEF K
    <2>3. K(M2, q2) \in Nat /\ K(M2, q2) <= MaxKeys
      <3>1. M2[q2] = NodeInsert(NodeInsert(EmptyNode, MaxKey(lo), Child(p)), MaxKey(hi), Child(q))
        BY DEF Raised2, lo, hi
      <3> HIDE DEF k1, k2, M2
      <3>2. M2[q2] = [entries |-> <<Entry(k1, Child(p)), Entry(k2, Child(q))>>, left |-> NoPage, right |-> NoPage]
        BY <1>4, <1>5, <3>1, PairIs
      <3>3. Len(M2[q2].entries) = 2
        BY <3>2
      <3> QED
        BY <3>3, NodeAssumption DEF K
    <2>4. \A r \in DOMAIN M : r # p => K(M2, r) = K(M, r)
      BY <2>1 DEF K
    <2> HIDE DEF M2
    <2> QED
      BY <2>1, <2>2, <2>3, <2>4 DEF Sized
  <1> HIDE DEF V2, M2
  <1>f. Tree(M2, q2, h + 1, lv2, at2, off2, F2, T2) /\ F2[h] = F[h - 1]
    BY <1>6, <1>c, <1>d, <1>e
  <1> QED
    BY <1>f, <1>g DEF M2

----------------------------------------------------------------------------
\* The turns of the loop of InsertEntry, and the whole insert.

\* A file whose pages are all in use.
Packed(f) ==
  /\ IsIndex(f) /\ f.free = <<>>
  /\ Cardinality(DOMAIN f.node) \in Nat
  /\ DOMAIN f.node = 1 .. Cardinality(DOMAIN f.node)
  /\ f.hdr.numPages = 1 + Cardinality(DOMAIN f.node)
  /\ f.node = [p \in DOMAIN f.node |-> f.node[p]]

\* What an insert leaves as it was, and when the header is to be written.
Follows(g, f) ==
  /\ g.page0 = f.page0 /\ g.pinned = f.pinned
  /\ g.hdrChanged = TRUE \/ (g.hdr = f.hdr /\ g.hdrChanged = f.hdrChanged)
  /\ DOMAIN f.node \subseteq DOMAIN g.node

\* The nodes with one more.
More(N, q, n) == [r \in DOMAIN N \cup {q} |-> IF r = q THEN n ELSE N[r]]

Grown(g, f, n) ==
  /\ NewPage(f) \in Nat /\ NewPage(f) \notin DOMAIN f.node
  /\ Packed(g) /\ g.node = More(f.node, NewPage(f), n)
  /\ g.hdrChanged = TRUE /\ g.page0 = f.page0 /\ g.pinned = f.pinned
  /\ g.hdr.rootPage = f.hdr.rootPage /\ g.hdr.height = f.hdr.height

\* What AddNode gives.
LEMMA AddNodeIs ==
  ASSUME NEW f, Packed(f), NEW n
  PROVE  Grown(AddNode(f, n), f, n)
  <1> DEFINE c == Cardinality(DOMAIN f.node)
             q == NewPage(f)
             N == f.node
             M == More(N, q, n)
             g == AddNode(f, n)
             h2 == [rootPage |-> f.hdr.rootPage, numPages |-> f.hdr.numPages + 1, height |-> f.hdr.height]
  <1>1. c \in Nat /\ DOMAIN N = 1 .. c /\ f.hdr.numPages = 1 + c /\ f.free = <<>>
    BY DEF Packed
  <1>2. f = [hdr |-> f.hdr, hdrChanged |-> f.hdrChanged, page0 |-> f.page0,
             node |-> f.node, free |-> f.free, pinned |-> f.pinned]
    BY DEF Packed, IsIndex
  <1>3. f.hdr = [rootPage |-> f.hdr.rootPage, numPages |-> f.hdr.numPages, height |-> f.hdr.height]
        /\ f.hdr.rootPage \in Nat \cup {-1} /\ f.hdr.height \in Nat /\ f.hdr.numPages \in Nat
    BY DEF Packed, IsIndex
  <1>4. q = c + 1
    BY <1>1 DEF NewPage
  <1> HIDE DEF q, N, M, c, h2
  <1>5. g = [hdr |-> h2, hdrChanged |-> TRUE, page0 |-> f.page0, node |-> M, free |-> <<>>, pinned |-> f.pinned]
    <2>1. g = [f EXCEPT !.node = M, !.free = IF @ = <<>> THEN @ ELSE Tail(@),
                        !.hdr.numPages = @ + 1, !.hdrChanged = TRUE]
      BY DEF AddNode, M, q, N, More
    <2>2. [f.hdr EXCEPT !.numPages = @ + 1] = h2
      BY <1>3 DEF h2
    <2>3. g = [f EXCEPT !.node = M, !.free = <<>>, !.hdr = h2, !.hdrChanged = TRUE]
      BY <1>1, <2>1, <2>2
    <2> QED
      BY <1>2, <2>3
  <1>6. q \in Nat /\ q \notin DOMAIN N /\ DOMAIN N \cup {q} = 1 .. c + 1
    BY <1>1, <1>4
  <1>7. DOMAIN M = 1 .. c + 1 /\ M = [p \in DOMAIN M |-> M[p]]
    BY <1>6 DEF M, More
  <1>8. Cardinality(1 .. c + 1) = c + 1
    <2> DEFINE w == c + 1
    <2>1. 1 \in Int /\ w \in Int /\ ~(1 > w) /\ w - 1 + 1 = w
      BY <1>1
    <2> HIDE DEF w
    <2>2. Cardinality(1 .. w) = w
      BY <2>1, FS_Interval
    <2> QED
      BY <2>2 DEF w
  <1>9. h2 \in [rootPage : Nat \cup {-1}, numPages : Nat, height : Nat] /\ h2.numPages = 1 + (c + 1)
    BY <1>1, <1>3 DEF h2
  <1>a. Packed(g)
    <2>1. g.node = M /\ g.hdr = h2 /\ g.free = <<>>
      BY <1>5
    <2>2. IsIndex(g)
      BY <1>5, <1>9 DEF IsIndex
    <2>3. c + 1 \in Nat
      BY <1>1
    <2> HIDE DEF g
    <2> QED
      BY <1>7, <1>8, <1>9, <2>1, <2>2, <2>3 DEF Packed
  <1>b. h2.rootPage = f.hdr.rootPage /\ h2.height = f.hdr.height
    BY DEF h2
  <1> QED
    BY <1>5, <1>6, <1>a, <1>b DEF Grown, M, N, q

\* Changing nodes that are there.
LEMMA SetNodes ==
  ASSUME NEW f, Packed(f), NEW M, DOMAIN M = DOMAIN f.node, M = [p \in DOMAIN M |-> M[p]]
  PROVE  LET g == [f EXCEPT !.node = M] IN
         /\ Packed(g) /\ g.node = M /\ g.hdr = f.hdr /\ g.hdrChanged = f.hdrChanged
         /\ g.page0 = f.page0 /\ g.pinned = f.pinned
  <1> DEFINE g == [f EXCEPT !.node = M]
  <1>1. f = [hdr |-> f.hdr, hdrChanged |-> f.hdrChanged, page0 |-> f.page0,
             node |-> f.node, free |-> f.free, pinned |-> f.pinned]
    BY DEF Packed, IsIndex
  <1>2. g = [hdr |-> f.hdr, hdrChanged |-> f.hdrChanged, page0 |-> f.page0,
             node |-> M, free |-> f.free, pinned |-> f.pinned]
    BY <1>1
  <1> HIDE DEF g
  <1>3. g.node = M /\ g.hdr = f.hdr /\ g.hdrChanged = f.hdrChanged
        /\ g.page0 = f.page0 /\ g.pinned = f.pinned /\ g.free = f.free
    BY <1>2
  <1>4. IsIndex(g)
    <2>1. f.hdr \in [rootPage : Nat \cup {-1}, numPages : Nat, height : Nat]
      BY DEF Packed, IsIndex
    <2> QED
      BY <1>2, <1>3, <2>1 DEF IsIndex
  <1>5. Packed(g)
    BY <1>3, <1>4 DEF Packed
  <1> QED
    BY <1>3, <1>5 DEF g

\* A new root.
LEMMA SetRootIs ==
  ASSUME NEW f, Packed(f), NEW p \in Nat
  PROVE  /\ Packed(SetRoot(f, p)) /\ SetRoot(f, p).node = f.node
         /\ SetRoot(f, p).hdr.rootPage = p /\ SetRoot(f, p).hdr.height = f.hdr.height + 1
         /\ SetRoot(f, p).hdrChanged = f.hdrChanged
         /\ SetRoot(f, p).page0 = f.page0 /\ SetRoot(f, p).pinned = f.pinned
  <1> DEFINE g == SetRoot(f, p)
             h2 == [rootPage |-> p, numPages |-> f.hdr.numPages, height |-> f.hdr.height + 1]
  <1>1. f = [hdr |-> f.hdr, hdrChanged |-> f.hdrChanged, page0 |-> f.page0,
             node |-> f.node, free |-> f.free, pinned |-> f.pinned]
    BY DEF Packed, IsIndex
  <1>2. f.hdr = [rootPage |-> f.hdr.rootPage, numPages |-> f.hdr.numPages, height |-> f.hdr.height]
        /\ f.hdr.height \in Nat /\ f.hdr.numPages \in Nat
    BY DEF Packed, IsIndex
  <1>3. [f.hdr EXCEPT !.rootPage = p, !.height = @ + 1] = h2
    <2> DEFINE a == f.hdr.rootPage
               b == f.hdr.numPages
               c == f.hdr.height
    <2>1. f.hdr = [rootPage |-> a, numPages |-> b, height |-> c]
      BY <1>2
    <2>2. h2 = [rootPage |-> p, numPages |-> b, height |-> c + 1]
      OBVIOUS
    <2> HIDE DEF a, b, c, h2
    <2>3. [[rootPage |-> a, numPages |-> b, height |-> c] EXCEPT !.rootPage = p, !.height = @ + 1]
            = [rootPage |-> p, numPages |-> b, height |-> c + 1]
      <3> DEFINE d == c + 1
      <3>1. [rootPage |-> a, numPages |-> b, height |-> c].height + 1 = d
        OBVIOUS
      <3> HIDE DEF d
      <3>2. [[rootPage |-> a, numPages |-> b, height |-> c] EXCEPT !.rootPage = p, !.height = d]
              = [rootPage |-> p, numPages |-> b, height |-> d]
        <4>1. [[rootPage |-> a, numPages |-> b, height |-> c] EXCEPT !.rootPage = p]
                = [rootPage |-> p, numPages |-> b, height |-> c]
          OBVIOUS
        <4>2. [[rootPage |-> p, numPages |-> b, height |-> c] EXCEPT !.height = d]
                = [rootPage |-> p, numPages |-> b, height |-> d]
          OBVIOUS
        <4>3. [[rootPage |-> a, numPages |-> b, height |-> c] EXCEPT !.rootPage = p, !.height = d]
                = [[[rootPage |-> a, numPages |-> b, height |-> c] EXCEPT !.rootPage = p] EXCEPT !.height = d]
          OBVIOUS
        <4> QED
          BY <4>1, <4>2, <4>3
      <3>3. [[rootPage |-> a, numPages |-> b, height |-> c] EXCEPT !.rootPage = p, !.height = @ + 1]
              = [rootPage |-> p, numPages |-> b, height |-> d]
        BY <3>1, <3>2
      <3> QED
        BY <3>3 DEF d
    <2> QED
      BY <2>1, <2>2, <2>3
  <1>4. g = [f EXCEPT !.hdr = h2]
    <2>1. g = [f EXCEPT !.hdr = [f.hdr EXCEPT !.rootPage = p, !.height = @ + 1]]
      BY <1>1 DEF SetRoot
    <2> QED
      BY <1>3, <2>1
  <1> HIDE DEF h2
  <1>5. g = [hdr |-> h2, hdrChanged |-> f.hdrChanged, page0 |-> f.page0,
             node |-> f.node, free |-> f.free, pinned |-> f.pinned]
    BY <1>1, <1>4
  <1> HIDE DEF g
  <1>6. g.node = f.node /\ g.hdr = h2 /\ g.free = f.free /\ g.hdrChanged = f.hdrChanged
        /\ g.page0 = f.page0 /\ g.pinned = f.pinned
    BY <1>5
  <1>7. h2.rootPage = p /\ h2.height = f.hdr.height + 1 /\ h2.numPages = f.hdr.numPages
        /\ h2 \in [rootPage : Nat \cup {-1}, numPages : Nat, height : Nat]
    BY <1>2 DEF h2
  <1>8. IsIndex(g)
    BY <1>5, <1>6, <1>7 DEF IsIndex
  <1>9. Packed(g)
    BY <1>6, <1>7, <1>8 DEF Packed
  <1> QED
    BY <1>6, <1>7, <1>9 DEF g

\* The state of InsertEntry's loop as a record.
IsTurn(t) == t = [ix |-> t.ix, key |-> t.key, rid |-> t.rid, done |-> t.done]

\* Its state after a turn that ends it, or that leaves an entry for the next.
Taken(t, V) == [ix |-> [t.ix EXCEPT !.node = V], key |-> t.key, rid |-> t.rid, done |-> TRUE]
Passed(t, p, parent, pos) ==
  LET M == t.ix.node
      q == NewPage(t.ix)
      M2 == Redirected(Halved(M, p, q, t.key, t.rid), parent, pos, q)
  IN  [ix |-> [AddNode(t.ix, UpperHalf(M[p], p, q, t.key, t.rid)) EXCEPT !.node = M2],
       key |-> MaxKey(LowerHalf(M[p], p, q, t.key, t.rid)), rid |-> Child(p), done |-> FALSE]

IsMap(V) == V = [r \in DOMAIN V |-> V[r]]

\* A node that has room takes the entry.
LEMMA TakesEntry ==
  ASSUME NEW t, IsTurn(t), t.done = FALSE, Packed(t.ix), NEW V, IsMap(V),
         NEW p, NEW parent, NEW pos,
         Pending(t.ix.node, V, p, t.key, t.rid), K(t.ix.node, p) < MaxKeys
  PROVE  InsertStep(t, p, parent, pos) = Taken(t, V)
  <1> DEFINE f == t.ix
             M == f.node
             k == t.key
             rid == t.rid
             n == NodeInsert(M[p], k, rid)
  <1>1. ~Full(M[p])
    <2>1. MaxKeys \in Nat
      BY NodeAssumption
    <2>2. K(M, p) \in Nat
      BY PendingFacts DEF PendingAt
    <2> QED
      BY <2>1, <2>2 DEF Full, numKeys, K
  <1>2. InsertStep(t, p, parent, pos) = [t EXCEPT !.ix.node[p] = n, !.done = TRUE]
    BY <1>1 DEF InsertStep
  <1>3. n = V[p]
    BY <1>1 DEF NodeInsert, Pending
  <1>4. [M EXCEPT ![p] = V[p]] = V
    BY DEF Pending, Packed, IsMap
  <1>5. [t EXCEPT !.ix.node[p] = n, !.done = TRUE]
          = [t EXCEPT !.ix = [f EXCEPT !.node = [M EXCEPT ![p] = n]], !.done = TRUE]
    OBVIOUS
  <1>6. t = [ix |-> f, key |-> k, rid |-> rid, done |-> t.done]
    BY DEF IsTurn
  <1> DEFINE g == [f EXCEPT !.node = V]
  <1>7. [t EXCEPT !.ix.node[p] = n, !.done = TRUE] = [t EXCEPT !.ix = g, !.done = TRUE]
    BY <1>3, <1>4, <1>5
  <1> HIDE DEF g, k, rid, n, M, f
  <1>8. [t EXCEPT !.ix = g, !.done = TRUE] = [ix |-> g, key |-> k, rid |-> rid, done |-> TRUE]
    <2> DEFINE d == t.done
    <2>1. t = [ix |-> f, key |-> k, rid |-> rid, done |-> d]
      BY <1>6
    <2> HIDE DEF d
    <2>2. [t EXCEPT !.ix = g, !.done = TRUE] = [[t EXCEPT !.ix = g] EXCEPT !.done = TRUE]
      OBVIOUS
    <2>3. [t EXCEPT !.ix = g] = [ix |-> g, key |-> k, rid |-> rid, done |-> d]
      BY <2>1
    <2>4. \A e : [[ix |-> g, key |-> k, rid |-> rid, done |-> d] EXCEPT !.done = e]
            = [ix |-> g, key |-> k, rid |-> rid, done |-> e]
      OBVIOUS
    <2> QED
      BY <2>2, <2>3, <2>4
  <1> QED
    BY <1>2, <1>7, <1>8 DEF g, k, rid, f, Taken

\* What is left of a full node below the root, and what its parent gets.
LEMMA SplitsBelow ==
  ASSUME NEW t, IsTurn(t), t.done = FALSE, Packed(t.ix), NEW p \in DOMAIN t.ix.node,
         NEW parent \in Nat, parent \in DOMAIN t.ix.node, NEW pos, K(t.ix.node, p) = MaxKeys
  PROVE  InsertStep(t, p, parent, pos) = Passed(t, p, parent, pos)
  <1> DEFINE f == t.ix
             M == f.node
             q == NewPage(f)
             lo == LowerHalf(M[p], p, q, t.key, t.rid)
             up == UpperHalf(M[p], p, q, t.key, t.rid)
             H == Halved(M, p, q, t.key, t.rid)
             M2 == Redirected(H, parent, pos, q)
             g == AddNode(f, up)
  <1>1. Full(M[p])
    <2>1. MaxKeys \in Nat
      BY NodeAssumption
    <2> QED
      BY <2>1 DEF Full, numKeys, K
  <1>2. InsertStep(t, p, parent, pos) = SplitNode(t, p, parent, pos)
    BY <1>1 DEF InsertStep
  <1>3. parent # NoPage
    BY DEF NoPage
  <1>4. SplitNode(t, p, parent, pos)
          = [ix |-> Redirect([g EXCEPT !.node[p] = lo], parent, pos, q),
             key |-> MaxKey(lo), rid |-> Child(p), done |-> FALSE]
    BY <1>3 DEF SplitNode, LowerHalf, UpperHalf
  <1>5. Grown(g, f, up)
    BY AddNodeIs
  <1>6. g.node = More(M, q, up) /\ q \notin DOMAIN M /\ IsIndex(g)
    BY <1>5 DEF Grown, Packed
  <1>7. [g.node EXCEPT ![p] = lo] = H
    BY <1>6 DEF More, Halved
  <1> HIDE DEF H, g, M, f, M2, lo, up, q
  <1>8. g = [hdr |-> g.hdr, hdrChanged |-> g.hdrChanged, page0 |-> g.page0,
             node |-> g.node, free |-> g.free, pinned |-> g.pinned]
    BY <1>6 DEF IsIndex
  <1>9. [g EXCEPT !.node[p] = lo] = [g EXCEPT !.node = H]
    BY <1>7, <1>8
  <1>a. [g EXCEPT !.node = H].node = H
    BY <1>8
  <1>b. Redirect([g EXCEPT !.node = H], parent, pos, q) = [g EXCEPT !.node = M2]
    <2> DEFINE g2 == [g EXCEPT !.node = H]
    <2>1. Redirect(g2, parent, pos, q) = [g2 EXCEPT !.node[parent] = SetRid(@, pos, Child(q))]
      BY DEF Redirect
    <2>2. [H EXCEPT ![parent] = SetRid(@, pos, Child(q))] = M2
      BY DEF M2, Redirected
    <2>3. g2 = [hdr |-> g.hdr, hdrChanged |-> g.hdrChanged, page0 |-> g.page0,
                node |-> H, free |-> g.free, pinned |-> g.pinned]
      BY <1>8
    <2>4. [g2 EXCEPT !.node[parent] = SetRid(@, pos, Child(q))] = [g2 EXCEPT !.node = M2]
      BY <1>a, <2>2
    <2>5. [g2 EXCEPT !.node = M2] = [g EXCEPT !.node = M2]
      BY <2>3, <1>8
    <2> QED
      BY <2>1, <2>4, <2>5
  <1> QED
    BY <1>2, <1>4, <1>9, <1>b DEF g, f, Passed, M2, H, lo, up, q, M

\* What is left of a full root.
IsToppled(g, t, p, q, q2) ==
  /\ q2 \in Nat /\ q2 \notin DOMAIN t.ix.node /\ q2 # q /\ q \in Nat /\ q \notin DOMAIN t.ix.node
  /\ Packed(g) /\ g.node = Raised2(t.ix.node, p, q, t.key, t.rid, q2)
  /\ g.hdr.rootPage = q2 /\ g.hdr.height = t.ix.hdr.height + 1
  /\ g.hdrChanged = TRUE /\ g.page0 = t.ix.page0 /\ g.pinned = t.ix.pinned

\* A turn at the root splits it and puts a new one above.
LEMMA SplitsTop ==
  ASSUME NEW t, IsTurn(t), t.done = FALSE, Packed(t.ix), NEW p \in DOMAIN t.ix.node,
         NEW pos, K(t.ix.node, p) = MaxKeys
  PROVE  \E q2 : IsToppled(InsertStep(t, p, NoPage, pos).ix, t, p, NewPage(t.ix), q2)
  <1> DEFINE f == t.ix
             M == f.node
             q == NewPage(f)
             k == t.key
             rid == t.rid
             lo == LowerHalf(M[p], p, q, k, rid)
             up == UpperHalf(M[p], p, q, k, rid)
             g == AddNode(f, up)
             H == Halved(M, p, q, k, rid)
             g2 == [g EXCEPT !.node[p] = lo]
             n == NodeInsert(NodeInsert(EmptyNode, MaxKey(lo), Child(p)), MaxKey(up), Child(q))
             q2 == NewPage(g2)
             g3 == AddNode(g2, n)
             g4 == SetRoot(g3, q2)
  <1>1. Full(M[p])
    <2>1. MaxKeys \in Nat
      BY NodeAssumption
    <2> QED
      BY <2>1 DEF Full, numKeys, K
  <1>2. InsertStep(t, p, NoPage, pos) = SplitNode(t, p, NoPage, pos)
    BY <1>1 DEF InsertStep
  <1>3. SplitNode(t, p, NoPage, pos) = [ix |-> g4, key |-> MaxKey(lo), rid |-> Child(p), done |-> FALSE]
    BY DEF SplitNode, LowerHalf, UpperHalf
  <1>4. InsertStep(t, p, NoPage, pos).ix = g4
    BY <1>2, <1>3
  <1>5. Grown(g, f, up)
    BY AddNodeIs
  <1>6. g.node = More(M, q, up) /\ q \notin DOMAIN M /\ q \in Nat /\ Packed(g) /\ IsIndex(g)
        /\ g.hdrChanged = TRUE /\ g.page0 = f.page0 /\ g.pinned = f.pinned
        /\ g.hdr.rootPage = f.hdr.rootPage /\ g.hdr.height = f.hdr.height
    BY <1>5 DEF Grown, Packed
  <1>7. [g.node EXCEPT ![p] = lo] = H /\ DOMAIN H = DOMAIN g.node /\ H = [r \in DOMAIN H |-> H[r]]
    BY <1>6 DEF More, Halved
  <1> HIDE DEF H, g, g4, q
  <1>8. g = [hdr |-> g.hdr, hdrChanged |-> g.hdrChanged, page0 |-> g.page0,
             node |-> g.node, free |-> g.free, pinned |-> g.pinned]
    BY <1>6 DEF IsIndex
  <1>9. g2 = [g EXCEPT !.node = H]
    BY <1>7, <1>8
  <1> HIDE DEF g2
  <1>a. Packed(g2) /\ g2.node = H /\ g2.hdr = g.hdr /\ g2.hdrChanged = g.hdrChanged
        /\ g2.page0 = g.page0 /\ g2.pinned = g.pinned
    BY <1>6, <1>7, <1>9, SetNodes
  <1> HIDE DEF n
  <1>b. Grown(g3, g2, n)
    BY <1>a, AddNodeIs
  <1> HIDE DEF g3
  <1>c. q2 \in Nat /\ q2 \notin DOMAIN H /\ Packed(g3) /\ g3.node = More(H, q2, n)
        /\ g3.hdrChanged = TRUE /\ g3.page0 = f.page0 /\ g3.pinned = f.pinned
        /\ g3.hdr.rootPage = f.hdr.rootPage /\ g3.hdr.height = f.hdr.height
    BY <1>a, <1>b, <1>6 DEF Grown
  <1> HIDE DEF q2
  <1>d. /\ Packed(g4) /\ g4.node = g3.node
        /\ g4.hdr.rootPage = q2 /\ g4.hdr.height = g3.hdr.height + 1
        /\ g4.hdrChanged = g3.hdrChanged
        /\ g4.page0 = g3.page0 /\ g4.pinned = g3.pinned
    BY <1>c, SetRootIs DEF g4
  <1>e. More(H, q2, n) = Raised2(M, p, q, k, rid, q2)
    <2>1. DOMAIN H \cup {q2} = DOMAIN M \cup {q, q2}
      BY DEF H, Halved
    <2> QED
      BY <2>1 DEF More, Raised2, H, n
  <1>f. q2 \notin DOMAIN M /\ q2 # q
    BY <1>c DEF H, Halved
  <1> HIDE DEF lo, up, k, rid, M, f
  <1>g. IsToppled(g4, t, p, q, q2)
    BY <1>6, <1>c, <1>d, <1>e, <1>f DEF k, rid, M, f, IsToppled
  <1> QED
    BY <1>4, <1>g DEF q, f

\* Some tree on these nodes has the entries C.
Stands(N, root, h, C) ==
  \E lv, at, off, F, T : Tree(N, root, h, lv, at, off, F, T) /\ F[h - 1] = C

\* The way down to level m, as pages and positions.
Route(V, lv, page, ps, m) ==
  /\ \A j \in 0 .. m : page[j] \in DOMAIN V /\ lv[page[j]] = j
  /\ \A j \in 0 .. m - 1 :
       ps[j] \in 1 .. K(V, page[j]) /\ V[page[j]].entries[ps[j]].rid = Child(page[j + 1])

\* A tree whose page on level m of the way still lacks an entry.
Lacking(M, root, h, C, page, ps, m, k, rid) ==
  \E V, lv, at, off, F, T :
    /\ Tree(V, root, h, lv, at, off, F, T) /\ F[h - 1] = C
    /\ Pending(M, V, page[m], k, rid)
    /\ Route(V, lv, page, ps, m)

\* The loop of InsertEntry when level m is next.
Loop(t, f, C, page, ps, h, m) ==
  /\ IsTurn(t) /\ Packed(t.ix) /\ Follows(t.ix, f) /\ Sized(t.ix.node) /\ t.done \in BOOLEAN
  /\ t.done => Stands(t.ix.node, t.ix.hdr.rootPage, t.ix.hdr.height, C)
  /\ ~t.done =>
       /\ t.ix.hdr.rootPage = f.hdr.rootPage /\ t.ix.hdr.height = h
       /\ Lacking(t.ix.node, f.hdr.rootPage, h, C, page, ps, m, t.key, t.rid)

\* The entry goes into a node that has room: the file with the nodes V.
LEMMA EndsHere ==
  ASSUME NEW f, NEW C, NEW page, NEW ps, NEW h, NEW m, NEW t, Loop(t, f, C, page, ps, h, m),
         t.done = FALSE, K(t.ix.node, page[m]) < MaxKeys, NEW parent, NEW pos,
         NEW u, u = InsertStep(t, page[m], parent, pos)
  PROVE  /\ IsTurn(u) /\ Packed(u.ix) /\ Follows(u.ix, f) /\ Sized(u.ix.node) /\ u.done = TRUE
         /\ Stands(u.ix.node, u.ix.hdr.rootPage, u.ix.hdr.height, C)
  <1> DEFINE M == t.ix.node
             p == page[m]
             root == f.hdr.rootPage
  <1>1. IsTurn(t) /\ Packed(t.ix) /\ Follows(t.ix, f) /\ Sized(M) /\ t.ix.hdr.rootPage = root /\ t.ix.hdr.height = h
    BY DEF Loop
  <1>2. PICK V, lv, at, off, F, T :
          Tree(V, root, h, lv, at, off, F, T) /\ F[h - 1] = C /\ Pending(M, V, p, t.key, t.rid)
    BY DEF Loop, Lacking
  <1>3. DOMAIN V = DOMAIN M /\ p \in DOMAIN M /\ \A r \in DOMAIN M : r # p => V[r] = M[r]
    BY <1>2 DEF Pending
  <1>4. IsMap(V)
    BY <1>2 DEF Tree, Typed, IsMap
  <1> DEFINE g == [t.ix EXCEPT !.node = V]
  <1>5. u = [ix |-> g, key |-> t.key, rid |-> t.rid, done |-> TRUE]
    <2> HIDE DEF g
    <2>1. K(t.ix.node, p) < MaxKeys
      OBVIOUS
    <2> HIDE DEF p
    <2>2. u = InsertStep(t, p, parent, pos)
      BY DEF p
    <2>3. InsertStep(t, p, parent, pos)
            = Taken(t, V)
      BY <1>1, <1>2, <1>4, <2>1, TakesEntry
    <2> QED
      BY <2>2, <2>3 DEF g, Taken
  <1>6. /\ Packed(g) /\ g.node = V /\ g.hdr = t.ix.hdr /\ g.hdrChanged = t.ix.hdrChanged
        /\ g.page0 = t.ix.page0 /\ g.pinned = t.ix.pinned
    BY <1>1, <1>3, <1>4, SetNodes DEF IsMap
  <1> HIDE DEF g
  <1>7. IsTurn(u) /\ u.ix = g /\ u.done = TRUE
    BY <1>5 DEF IsTurn
  <1>8. Follows(g, f)
    BY <1>1, <1>3, <1>6 DEF Follows
  <1>9. Sized(V)
    <2>1. K(V, p) = K(M, p) + 1 /\ K(M, p) \in Nat
      <3>1. PendingAt(M, V, p, t.key, t.rid)
        BY <1>2, PendingFacts
      <3> QED
        BY <3>1 DEF PendingAt
    <2>2. K(V, p) \in Nat /\ K(V, p) <= MaxKeys
      BY <2>1, NodeAssumption
    <2>3. \A r \in DOMAIN M : r # p => K(V, r) = K(M, r)
      BY <1>3 DEF K
    <2> QED
      BY <1>1, <1>3, <2>2, <2>3 DEF Sized
  <1>a. Stands(V, g.hdr.rootPage, g.hdr.height, C)
    BY <1>1, <1>2, <1>6 DEF Stands
  <1> QED
    BY <1>6, <1>7, <1>8, <1>9, <1>a

\* A full node below the root is split, and its parent lacks an entry.
LEMMA GoesOn ==
  ASSUME Sparse, NEW f, NEW C, NEW page, NEW ps, NEW h \in Nat, NEW m \in 1 .. h - 1,
         NEW t, Loop(t, f, C, page, ps, h, m), t.done = FALSE, K(t.ix.node, page[m]) = MaxKeys,
         NEW u, u = InsertStep(t, page[m], page[m - 1], ps[m - 1])
  PROVE  Loop(u, f, C, page, ps, h, m - 1)
  <1> DEFINE M == t.ix.node
             p == page[m]
             fa == page[m - 1]
             pos == ps[m - 1]
             root == f.hdr.rootPage
             q == NewPage(t.ix)
             k == t.key
             rid == t.rid
             lo == LowerHalf(M[p], p, q, k, rid)
             up == UpperHalf(M[p], p, q, k, rid)
             M2 == Redirected(Halved(M, p, q, k, rid), fa, pos, q)
             g == AddNode(t.ix, up)
             g2 == [g EXCEPT !.node = M2]
  <1>1. IsTurn(t) /\ Packed(t.ix) /\ Follows(t.ix, f) /\ Sized(M) /\ t.ix.hdr.rootPage = root /\ t.ix.hdr.height = h
    BY DEF Loop
  <1>2. PICK V, lv, at, off, F, T :
          /\ Tree(V, root, h, lv, at, off, F, T) /\ F[h - 1] = C
          /\ Pending(M, V, p, k, rid) /\ Route(V, lv, page, ps, m)
    BY DEF Loop, Lacking
  <1>3. DOMAIN V = DOMAIN M /\ p \in DOMAIN M /\ \A r \in DOMAIN M : r # p => V[r] = M[r]
    BY <1>2 DEF Pending
  <1>n. m \in Nat /\ m >= 1 /\ m - 1 \in Nat /\ m \in 0 .. m /\ m - 1 \in 0 .. m /\ m - 1 + 1 = m /\ m # 0
        /\ m - 1 < h - 1 /\ m - 1 \in 0 .. m - 1 /\ m - 1 # m
        /\ (\A j \in 0 .. m - 1 : j \in 0 .. m /\ j # m)
        /\ (\A j \in 0 .. (m - 1) - 1 : j \in 0 .. m - 1 /\ j # m - 1 /\ j # m /\ j \in 0 .. m)
    OBVIOUS
  <1>4. /\ fa \in DOMAIN V /\ lv[p] = m /\ lv[fa] = m - 1 /\ pos \in 1 .. K(V, fa)
        /\ V[fa].entries[pos].rid = Child(p)
    BY <1>2, <1>n DEF Route
  <1>5. Grown(g, t.ix, up)
    BY <1>1, AddNodeIs
  <1>6. /\ q \in Nat /\ q \notin DOMAIN M
        /\ Packed(g) /\ g.node = More(M, q, up)
        /\ g.hdrChanged = TRUE /\ g.page0 = t.ix.page0 /\ g.pinned = t.ix.pinned
        /\ g.hdr.rootPage = root /\ g.hdr.height = h
    BY <1>1, <1>5 DEF Grown
  <1>7. fa \in Nat
    BY <1>2, <1>4, TreeTypes
  <1>8. u = [ix |-> g2, key |-> MaxKey(lo), rid |-> Child(p), done |-> FALSE]
    <2>1. fa \in DOMAIN M /\ p \in DOMAIN M /\ K(M, p) = MaxKeys
      BY <1>3, <1>4
    <2>2. u = InsertStep(t, p, fa, pos)
      OBVIOUS
    <2>3. p \in DOMAIN t.ix.node /\ fa \in DOMAIN t.ix.node /\ K(t.ix.node, p) = MaxKeys
      BY <2>1
    <2> HIDE DEF q, lo, up, M2, p, fa, pos, g, g2, M, k, rid
    <2>4. InsertStep(t, p, fa, pos) = Passed(t, p, fa, pos)
      BY <1>1, <1>7, <2>3, SplitsBelow
    <2> QED
      BY <2>2, <2>4 DEF Passed, g2, g, q, lo, up, M2, M, k, rid
  <1> HIDE DEF g, up
  <1>9. DOMAIN M2 = DOMAIN M \cup {q} /\ M2 = [r \in DOMAIN M2 |-> M2[r]]
    BY DEF Halved, Redirected
  <1>a. /\ Packed(g2) /\ g2.node = M2 /\ g2.hdr = g.hdr /\ g2.hdrChanged = g.hdrChanged
        /\ g2.page0 = g.page0 /\ g2.pinned = g.pinned
    <2>1. DOMAIN M2 = DOMAIN g.node
      BY <1>6, <1>9 DEF More
    <2> HIDE DEF M2
    <2> QED
      BY <1>6, <1>9, <2>1, SetNodes
  <1>b. PICK V2, lv2, at2, off2, F2, T2 :
           /\ Tree(V2, root, h, lv2, at2, off2, F2, T2)
           /\ F2[h - 1] = F[h - 1]
           /\ \A r \in DOMAIN V : lv2[r] = lv[r]
           /\ Pending(M2, V2, fa, MaxKey(lo), Child(p))
           /\ \A r \in DOMAIN V : r # p /\ r # fa => V2[r] = V[r]
           /\ Sized(M) => Sized(M2)
    <2>1. K(M, p) = MaxKeys /\ lv[p] # 0 /\ lv[fa] < h - 1 /\ q \notin DOMAIN V
      BY <1>3, <1>4, <1>6, <1>n
    <2>2. M2 = Redirected(Halved(M, p, q, k, rid), fa, pos, q) /\ lo = LowerHalf(M[p], p, q, k, rid)
      OBVIOUS
    <2> HIDE DEF q, lo, M2, p, fa, pos, M, k, rid, root
    <2> QED
      BY <1>2, <1>4, <1>6, <2>1, <2>2, SplitInner
  <1> HIDE DEF M2, lo, g2
  <1>c. Route(V2, lv2, page, ps, m - 1)
    <2>1. DOMAIN V \subseteq DOMAIN V2
      BY <1>b, <1>3, <1>9 DEF Pending
    <2>2. \A j \in 0 .. m - 1 : page[j] \in DOMAIN V2 /\ lv2[page[j]] = j
      BY <1>2, <1>b, <1>n, <2>1 DEF Route
    <2>3. ASSUME NEW j \in 0 .. (m - 1) - 1
          PROVE  ps[j] \in 1 .. K(V2, page[j]) /\ V2[page[j]].entries[ps[j]].rid = Child(page[j + 1])
      <3>1. page[j] \in DOMAIN V /\ lv[page[j]] = j /\ j # m /\ j # m - 1
            /\ ps[j] \in 1 .. K(V, page[j]) /\ V[page[j]].entries[ps[j]].rid = Child(page[j + 1])
        BY <1>2, <1>n DEF Route
      <3>2. page[j] # p /\ page[j] # fa
        BY <3>1, <1>4
      <3>3. V2[page[j]] = V[page[j]]
        BY <1>b, <3>1, <3>2
      <3> QED
        BY <3>1, <3>3 DEF K
    <2> QED
      BY <2>2, <2>3 DEF Route
  <1>d. Lacking(M2, root, h, C, page, ps, m - 1, MaxKey(lo), Child(p))
    BY <1>2, <1>b, <1>c DEF Lacking
  <1>e. u.ix = g2 /\ u.key = MaxKey(lo) /\ u.rid = Child(p) /\ u.done = FALSE /\ IsTurn(u)
    BY <1>8 DEF IsTurn
  <1>f. Follows(g2, f)
    <2>1. DOMAIN f.node \subseteq DOMAIN M2
      BY <1>1, <1>9 DEF Follows
    <2> QED
      BY <1>1, <1>6, <1>a, <2>1 DEF Follows
  <1>g. Sized(g2.node)
    BY <1>1, <1>a, <1>b
  <1>h. g2.hdr.rootPage = root /\ g2.hdr.height = h
    BY <1>6, <1>a
  <1> QED
    BY <1>a, <1>d, <1>e, <1>f, <1>g, <1>h DEF Loop

\* What an insert leaves.
Done(g, f, C) ==
  /\ Packed(g) /\ Follows(g, f) /\ Sized(g.node)
  /\ Stands(g.node, g.hdr.rootPage, g.hdr.height, C)

\* A turn below the root.
LEMMA TurnBelow ==
  ASSUME Sparse, NEW f, NEW C, NEW page, NEW ps, NEW h \in Nat, NEW m \in 1 .. h - 1,
         NEW t, Loop(t, f, C, page, ps, h, m)
  PROVE  Loop(InsertStep(t, page[m], page[m - 1], ps[m - 1]), f, C, page, ps, h, m - 1)
  <1> DEFINE u == InsertStep(t, page[m], page[m - 1], ps[m - 1])
  <1> HIDE DEF u
  <1>0. u = InsertStep(t, page[m], page[m - 1], ps[m - 1])
    BY DEF u
  <1>1. CASE t.done = TRUE
    <2>1. u = t
      BY <1>0, <1>1 DEF InsertStep
    <2>2. Loop(t, f, C, page, ps, h, m - 1)
      BY <1>1 DEF Loop
    <2> QED
      BY <2>1, <2>2 DEF u
  <1>2. CASE t.done = FALSE
    <2>1. page[m] \in DOMAIN t.ix.node
      BY <1>2 DEF Loop, Lacking, Pending
    <2>2. K(t.ix.node, page[m]) \in Nat /\ K(t.ix.node, page[m]) <= MaxKeys
      BY <2>1 DEF Loop, Sized
    <2>3. CASE K(t.ix.node, page[m]) < MaxKeys
      <3>1. /\ IsTurn(u) /\ Packed(u.ix) /\ Follows(u.ix, f) /\ Sized(u.ix.node) /\ u.done = TRUE
            /\ Stands(u.ix.node, u.ix.hdr.rootPage, u.ix.hdr.height, C)
        BY <1>0, <1>2, <2>3, EndsHere
      <3> QED
        BY <3>1 DEF Loop, u
    <2>4. CASE K(t.ix.node, page[m]) = MaxKeys
      <3>1. Loop(u, f, C, page, ps, h, m - 1)
        BY <1>0, <1>2, <2>4, GoesOn
      <3> QED
        BY <3>1 DEF u
    <2> QED
      BY <2>2, <2>3, <2>4, NodeAssumption
  <1> QED
    BY <1>1, <1>2 DEF Loop

\* The turn at the root.
LEMMA TurnAtTop ==
  ASSUME Sparse, NEW f, NEW C, NEW page, NEW ps, NEW h \in Nat,
         NEW t, Loop(t, f, C, page, ps, h, 0), page[0] = f.hdr.rootPage
  PROVE  Done(InsertStep(t, page[0], NoPage, 0).ix, f, C)
  <1> DEFINE p == page[0]
             M == t.ix.node
             u == InsertStep(t, p, NoPage, 0)
  <1> HIDE DEF u
  <1>0. u = InsertStep(t, p, NoPage, 0)
    BY DEF u
  <1>1. CASE t.done = TRUE
    <2>1. u = t
      BY <1>0, <1>1 DEF InsertStep
    <2>2. Done(t.ix, f, C)
      BY <1>1 DEF Loop, Done
    <2> QED
      BY <2>1, <2>2 DEF u
  <1>2. CASE t.done = FALSE
    <2>1. PICK V, lv, at, off, F, T :
            Tree(V, p, h, lv, at, off, F, T) /\ F[h - 1] = C /\ Pending(M, V, p, t.key, t.rid)
      BY <1>2 DEF Loop, Lacking
    <2>0. DOMAIN V = DOMAIN M /\ p \in DOMAIN M
      BY <2>1 DEF Pending
    <2>2. K(M, p) \in Nat /\ K(M, p) <= MaxKeys /\ Sized(M)
      BY <2>0 DEF Loop, Sized
    <2>3. CASE K(M, p) < MaxKeys
      <3>1. /\ IsTurn(u) /\ Packed(u.ix) /\ Follows(u.ix, f) /\ Sized(u.ix.node) /\ u.done = TRUE
            /\ Stands(u.ix.node, u.ix.hdr.rootPage, u.ix.hdr.height, C)
        BY <1>0, <1>2, <2>3, EndsHere
      <3> QED
        BY <3>1 DEF Done, u
    <2>4. CASE K(M, p) = MaxKeys
      <3> DEFINE q == NewPage(t.ix)
                 k == t.key
                 rid == t.rid
      <3>0. IsTurn(t) /\ Packed(t.ix) /\ Follows(t.ix, f) /\ t.ix.hdr.height = h /\ h >= 1
        BY <1>2, <2>1, TreeTypes DEF Loop
      <3> DEFINE g == u.ix
      <3>1. PICK q2 : IsToppled(g, t, p, q, q2)
        <4> HIDE DEF p, M, k, rid
        <4>1. p \in DOMAIN t.ix.node /\ K(t.ix.node, p) = MaxKeys
          BY <2>0, <2>4 DEF M
        <4> QED
          BY <1>0, <1>2, <3>0, <4>1, SplitsTop
      <3>9. /\ q2 \in Nat /\ q2 \notin DOMAIN M /\ q2 # q /\ q \in Nat /\ q \notin DOMAIN M
            /\ Packed(g) /\ g.node = Raised2(M, p, q, k, rid, q2)
            /\ g.hdr.rootPage = q2 /\ g.hdr.height = h + 1
            /\ g.hdrChanged = TRUE /\ g.page0 = t.ix.page0 /\ g.pinned = t.ix.pinned
        BY <3>0, <3>1 DEF IsToppled
      <3> DEFINE M2 == Raised2(M, p, q, k, rid, q2)
      <3>2. PICK lv2, at2, off2, F2, T2 :
               /\ Tree(M2, q2, h + 1, lv2, at2, off2, F2, T2)
               /\ F2[h] = F[h - 1]
               /\ Sized(M) => Sized(M2)
        <4>1. q \notin DOMAIN V /\ q2 \notin DOMAIN V /\ q \in Nat /\ q2 \in Nat /\ q2 # q
          BY <2>0, <3>9
        <4> HIDE DEF q, p, M, k, rid, M2
        <4>2. Pending(M, V, p, k, rid)
          BY <2>1 DEF k, rid
        <4> QED
          BY <2>1, <2>4, <4>1, <4>2, SplitRoot DEF M2
      <3>3. Stands(M2, q2, h + 1, C)
        <4>1. (h + 1) - 1 = h
          BY <3>0
        <4> HIDE DEF M2
        <4> QED
          BY <2>1, <3>2, <4>1 DEF Stands
      <3>4. DOMAIN f.node \subseteq DOMAIN M2
        BY <3>0 DEF Raised2, Follows
      <3> HIDE DEF M2
      <3>5. g.node = M2
        BY <3>9 DEF M2
      <3>6. Follows(g, f)
        BY <3>0, <3>9, <3>4, <3>5 DEF Follows
      <3>7. Sized(g.node)
        BY <2>2, <3>2, <3>5
      <3>8. Stands(g.node, g.hdr.rootPage, g.hdr.height, C)
        BY <3>9, <3>3, <3>5
      <3> QED
        BY <3>9, <3>6, <3>7, <3>8 DEF Done, u
    <2> QED
      BY <2>2, <2>3, <2>4, NodeAssumption
  <1> QED
    BY <1>1, <1>2 DEF Loop

\* The turns of InsertEntry.
Turn(f, k, i, t) ==
  LET page == PathPage(f, k)
      h == f.hdr.height
  IN  IF i = h THEN InsertStep(t, page[0], NoPage, 0)
      ELSE InsertStep(t, page[h - i], page[h - i - 1], PosIn(f.node[page[h - i - 1]], k))
Before(f, k, rid) == [ix |-> Raise(f, k), key |-> k, rid |-> rid, done |-> FALSE]
IsRun(g, f, k, rid, n) == g[0] = Before(f, k, rid) /\ \A i \in 0 .. n : i # 0 => g[i] = Turn(f, k, i, g[i - 1])

\* There are such turns, any number of them.
LEMMA RunExists ==
  ASSUME NEW f, NEW k, NEW rid, NEW n \in Nat
  PROVE  \E g : IsRun(g, f, k, rid, n)
  <1> DEFINE Solves(g, m) == IsRun(g, f, k, rid, m)
             S == {m \in Nat : \A g : ~Solves(g, m)}
  <1>0. \A m \in Nat : m \in S <=> \A g : ~Solves(g, m)
    <2> HIDE DEF Solves
    <2> QED
      OBVIOUS
  <1>1. ASSUME n \in S PROVE FALSE
    <2>1. PICK m \in S : \A j \in S : m <= j
      <3>1. S \in SUBSET Nat /\ S # {}
        BY <1>1
      <3> HIDE DEF S
      <3> QED
        BY <3>1, LeastMember
    <2>2. m \in Nat /\ m # 0
      <3> DEFINE g == [i \in 0 .. 0 |-> Before(f, k, rid)]
      <3>1. Solves(g, 0)
        BY DEF IsRun
      <3> QED
        BY <1>0, <2>1, <3>1
    <2>3. PICK g : Solves(g, m - 1)
      <3> HIDE DEF Solves, S
      <3>2. m - 1 \in Nat /\ m - 1 \notin S
        BY <2>1, <2>2
      <3> QED
        BY <1>0, <3>2
    <2> DEFINE u == [i \in 0 .. m |-> IF i = m THEN Turn(f, k, m, g[m - 1]) ELSE g[i]]
    <2>4. g[0] = Before(f, k, rid) /\ \A i \in 0 .. m - 1 : i # 0 => g[i] = Turn(f, k, i, g[i - 1])
      BY <2>3 DEF IsRun
    <2>5. \A i \in 0 .. m : i # 0 => i - 1 \in 0 .. m /\ i - 1 # m /\ (i # m => i \in 0 .. m - 1)
      BY <2>2
    <2>6. \A i \in 0 .. m : i # 0 => u[i] = Turn(f, k, i, u[i - 1])
      BY <2>4, <2>5
    <2>7. u[0] = Before(f, k, rid)
      BY <2>2, <2>4
    <2>8. Solves(u, m)
      BY <2>6, <2>7 DEF IsRun
    <2> QED
      BY <1>0, <2>1, <2>2, <2>8
  <1> QED
    BY <1>0, <1>1

\* InsertEntry is what they leave.
LEMMA InsertRuns ==
  ASSUME NEW f, f.hdr.height \in Nat, NEW k, NEW rid
  PROVE  \E g : IsRun(g, f, k, rid, f.hdr.height) /\ InsertEntry(f, k, rid) = g[f.hdr.height].ix
  <1> DEFINE h == f.hdr.height
             Solves(g) == g = [i \in 0 .. h |-> IF i = 0 THEN Before(f, k, rid) ELSE Turn(f, k, i, g[i - 1])]
             up == CHOOSE g : Solves(g)
  <1>1. h \in Nat
    OBVIOUS
  <1>2. InsertEntry(f, k, rid) = up[h].ix
    BY DEF InsertEntry, Before, Turn
  <1> HIDE DEF h
  <1>3. PICK p : IsRun(p, f, k, rid, h)
    BY <1>1, RunExists
  <1> DEFINE g == [i \in 0 .. h |-> p[i]]
  <1>4. Solves(g)
    <2>1. \A i \in 0 .. h : i # 0 => i - 1 \in 0 .. h
      BY <1>1
    <2>2. 0 \in 0 .. h
      BY <1>1
    <2>3. p[0] = Before(f, k, rid) /\ \A i \in 0 .. h : i # 0 => p[i] = Turn(f, k, i, p[i - 1])
      BY <1>3 DEF IsRun
    <2> QED
      BY <2>1, <2>2, <2>3
  <1> HIDE DEF g
  <1>5. Solves(up)
    <2> HIDE DEF Solves
    <2> QED
      BY <1>4
  <1> HIDE DEF up
  <1>6. 0 \in 0 .. h
    BY <1>1
  <1>7. \A i \in 0 .. h : up[i] = IF i = 0 THEN Before(f, k, rid) ELSE Turn(f, k, i, up[i - 1])
    BY <1>5
  <1>8. IsRun(up, f, k, rid, h)
    BY <1>6, <1>7 DEF IsRun
  <1> QED
    BY <1>2, <1>8 DEF h

\* The place for k in a level.
IsPlace(F, i, k, x) ==
  /\ x \in 1 .. W(F, i) + 1
  /\ \A j \in 1 .. W(F, i) : j < x => F[i][j].key < k
  /\ \A j \in 1 .. W(F, i) : x <= j => F[i][j].key >= k

\* Where the way down ends, a new entry may go in, and belongs in the level.
LEMMA GrowsHere ==
  ASSUME NEW N, NEW root, NEW h, NEW lv, NEW at, NEW off, NEW F, NEW T,
         Tree(N, root, h, lv, at, off, F, T),
         NEW k \in KeyValues, NEW rid \in RidsOf(k), \A j \in 1 .. W(F, h - 1) : F[h - 1][j].rid # rid,
         NEW page, IsPath(page, N, root, k, h - 1),
         NEW p, p = page[h - 1], NEW pos, pos = FindKey(N[p], k)
  PROVE  /\ Grows(N, h, lv, at, off, F, p, pos, Entry(k, rid))
         /\ IsPlace(F, h - 1, k, off[p] + pos)
  <1> DEFINE e == Entry(k, rid)
             y == off[p] + pos
  <1>1. h \in Nat /\ h >= 1 /\ h - 1 \in 0 .. h - 1
    BY TreeTypes
  <1>2. k \in Nat
    BY IndexTreeAssumption
  <1>3. \A i \in 0 .. h - 1 : OnWay(N, lv, at, off, F, k, i, page[i])
    BY <1>2, PathOnWay
  <1>4. OnWay(N, lv, at, off, F, k, h - 1, p)
    BY <1>1, <1>3
  <1>5. Turns(N, lv, off, F, k, p, pos)
    BY <1>1, <1>2, <1>4, TurnsAt
  <1>6. p \in DOMAIN N /\ lv[p] = h - 1
    BY <1>4 DEF OnWay
  <1> HIDE DEF y
  <1>7. /\ pos \in 1 .. K(N, p) + 1 /\ (pos = K(N, p) + 1 => Beyond(F, k))
        /\ \A j \in 1 .. W(F, h - 1) : j < y => F[h - 1][j].key < k
        /\ \A j \in 1 .. W(F, h - 1) : y <= j => F[h - 1][j].key >= k
    BY <1>5, <1>6 DEF Turns, y
  <1>8. rid \in Nat \X Nat /\ e \in EntrySet /\ e.key = k /\ e.rid = rid
    <2>1. rid \in Nat \X Nat
      <3>1. MaxSame[k] \in Nat
        BY IndexTreeAssumption
      <3> QED
        BY <1>2, <3>1 DEF RidsOf
    <2> QED
      BY <2>1 DEF Entry, EntrySet
  <1>9. ASSUME pos = K(N, p) + 1
        PROVE  at[p] = Width(F, h - 1) /\ \A i \in 0 .. h - 1 : \A j \in 1 .. W(F, i) : F[i][j].key < k
    BY <1>3, <1>4, <1>7, <1>9 DEF OnWay
  <1>a. \A j \in 1 .. W(F, h - 1) : F[h - 1][j].key \in Nat
    BY <1>1, KeyAt
  <1>b. \A j \in 1 .. W(F, h - 1) :
          IF j < y THEN F[h - 1][j].key <= k ELSE k <= F[h - 1][j].key
    <2>1. \A j \in 1 .. W(F, h - 1) : j < y => F[h - 1][j].key <= k
      BY <1>2, <1>7, <1>a
    <2>2. off[p] \in Nat /\ W(F, h - 1) \in Nat /\ K(N, p) \in Nat
      BY <1>1, <1>6, TreeTypes
    <2>3. y \in Nat
      BY <1>7, <2>2 DEF y
    <2>4. \A j \in 1 .. W(F, h - 1) : ~(j < y) => y <= j
      BY <2>2, <2>3
    <2>5. ASSUME NEW j \in 1 .. W(F, h - 1), ~(j < y)
          PROVE  k <= F[h - 1][j].key
      <3>1. y <= j
        BY <2>4, <2>5
      <3>2. F[h - 1][j].key >= k /\ F[h - 1][j].key \in Nat
        BY <3>1, <1>7, <1>a
      <3> QED
        BY <3>2, <1>2
    <2> QED
      BY <2>1, <2>5
  <1>c. Grows(N, h, lv, at, off, F, p, pos, e)
    <2> HIDE DEF e
    <2> QED
      BY <1>6, <1>7, <1>8, <1>9, <1>b DEF Grows, y
  <1>d. y \in 1 .. W(F, h - 1) + 1
    <2>1. off[p] \in Nat /\ W(F, h - 1) \in Nat /\ K(N, p) \in Nat
      BY <1>1, <1>6, TreeTypes
    <2>2. off[p] + K(N, p) <= W(F, h - 1)
      BY <1>6 DEF Tree, Flat
    <2> QED
      BY <1>7, <2>1, <2>2 DEF y
  <1>e. IsPlace(F, h - 1, k, y)
    BY <1>7, <1>d DEF IsPlace
  <1> QED
    BY <1>c, <1>e DEF y

\* They only lack the entry itself.
LEMMA PendingHere ==
  ASSUME NEW N, NEW root, NEW h, NEW lv, NEW at, NEW off, NEW F, NEW T,
         Tree(N, root, h, lv, at, off, F, T), NEW p \in DOMAIN N, lv[p] = h - 1,
         NEW k \in KeyValues, NEW rid \in Nat \X Nat, NEW pos, pos = FindKey(N[p], k)
  PROVE  /\ Pending(RaisedNodes(N, h, lv, at, F, p, pos, k), Plus(N, h, lv, at, F, p, pos, Entry(k, rid)), p, k, rid)
         /\ RaisedNodes(N, h, lv, at, F, p, pos, k)[p] = N[p]
         /\ \A r \in DOMAIN N : K(RaisedNodes(N, h, lv, at, F, p, pos, k), r) = K(N, r)
  <1> DEFINE e == Entry(k, rid)
             M == RaisedNodes(N, h, lv, at, F, p, pos, k)
             V == Plus(N, h, lv, at, F, p, pos, e)
  <1>1. e.key = k
    BY DEF Entry
  <1>2. DOMAIN M = DOMAIN N /\ DOMAIN V = DOMAIN N /\ \A r \in DOMAIN N : r # p => V[r] = M[r]
    BY <1>1 DEF RaisedNodes, Plus
  <1>3. Top(N, h, lv, at, F, p, pos, p) = FALSE
    BY DEF Top
  <1>4. \A r \in DOMAIN N : N[r] \in NodeSet
    BY TreeTypes
  <1>5. M[p] = N[p]
    <2> DEFINE n == N[p]
               c == K(N, p)
    <2>0. n \in NodeSet /\ n.entries \in Seq(EntrySet) /\ c = Len(n.entries) /\ c \in Nat
          /\ n = [entries |-> n.entries, left |-> n.left, right |-> n.right]
      <3>1. n \in NodeSet
        BY <1>4
      <3> HIDE DEF n
      <3>2. n.entries \in Seq(EntrySet) /\ Len(n.entries) \in Nat
            /\ n = [entries |-> n.entries, left |-> n.left, right |-> n.right]
        BY <3>1, IsNode
      <3>3. c = Len(n.entries)
        BY DEF n, K
      <3> QED
        BY <3>1, <3>2, <3>3
    <2>1. M[p] = [n EXCEPT !.entries = Bumped(@, c, FALSE, k)]
      BY <1>3 DEF RaisedNodes
    <2> HIDE DEF n, c
    <2>2. Bumped(n.entries, c, FALSE, k) = n.entries
      <3> DEFINE es == n.entries
      <3>1. es \in Seq(EntrySet) /\ c = Len(es)
        BY <2>0
      <3> HIDE DEF es
      <3>2. es = [j \in 1 .. c |-> es[j]]
        BY <3>1
      <3>3. Bumped(es, c, FALSE, k) = [j \in 1 .. c |-> es[j]]
        BY DEF Bumped
      <3> QED
        BY <3>2, <3>3 DEF es
    <2>3. [n EXCEPT !.entries = n.entries] = n
      BY <2>0
    <2> QED
      BY <2>1, <2>2, <2>3 DEF n
  <1>6. V[p] = [M[p] EXCEPT !.entries = Inserted(@, FindKey(M[p], k), e)]
    BY <1>5 DEF Plus
  <1>7. \A r \in DOMAIN N : K(M, r) = K(N, r)
    <2> TAKE r \in DOMAIN N
    <2> DEFINE b == Top(N, h, lv, at, F, p, pos, r)
               es == N[r].entries
               s == Bumped(es, K(N, r), b, k)
    <2>1. es \in Seq(EntrySet) /\ K(N, r) = Len(es) /\ K(N, r) \in Nat
      <3>1. N[r] \in NodeSet
        BY <1>4
      <3>2. N[r].entries \in Seq(EntrySet) /\ Len(N[r].entries) \in Nat
        BY <3>1, IsNode
      <3> QED
        BY <3>2 DEF K
    <2>2. M[r].entries = s
      <3>1. M[r] = [N[r] EXCEPT !.entries = s]
        BY DEF RaisedNodes
      <3>2. [N[r] EXCEPT !.entries = s] = [entries |-> s, left |-> N[r].left, right |-> N[r].right]
        <4> HIDE DEF s
        <4> QED
          BY <1>4, IsNode
      <3> QED
        BY <3>1, <3>2
    <2> HIDE DEF es, b
    <2>3. Len(s) = K(N, r)
      BY <2>1, BumpedFacts
    <2> QED
      BY <2>2, <2>3 DEF K
  <1> HIDE DEF M, V
  <1>8. rid \in Nat \X (Nat \cup {-1}) /\ M[p] \in NodeSet
    BY <1>4, <1>5
  <1>9. Pending(M, V, p, k, rid)
    BY <1>2, <1>6, <1>8 DEF Pending, e
  <1> QED
    BY <1>5, <1>7, <1>9 DEF M, V, e

\* The way down leads through the same pages before and after the nodes are raised.
LEMMA RouteHere ==
  ASSUME NEW N, NEW root, NEW h, NEW lv, NEW at, NEW off, NEW F, NEW T,
         Tree(N, root, h, lv, at, off, F, T),
         NEW k \in KeyValues, NEW page, IsPath(page, N, root, k, h - 1),
         NEW ps, ps = [i \in 0 .. h - 2 |-> PosIn(N[page[i]], k)],
         NEW p, p = page[h - 1], NEW pos \in 1 .. K(N, p) + 1, NEW e \in EntrySet
  PROVE  Route(Plus(N, h, lv, at, F, p, pos, e), lv, page, ps, h - 1)
  <1> DEFINE V == Plus(N, h, lv, at, F, p, pos, e)
  <1>1. h \in Nat /\ h >= 1 /\ h - 1 \in 0 .. h - 1 /\ (h - 1) - 1 = h - 2
        /\ \A i \in 0 .. h - 2 : i \in 0 .. h - 1 /\ i < h - 1 /\ i + 1 \in 0 .. h - 1 /\ i + 1 # 0 /\ i + 1 - 1 = i /\ i # h - 1
    BY TreeTypes
  <1>2. k \in Nat
    BY IndexTreeAssumption
  <1>3. \A i \in 0 .. h - 1 : OnWay(N, lv, at, off, F, k, i, page[i])
    BY <1>2, PathOnWay
  <1>4. \A i \in 0 .. h - 1 : page[i] \in DOMAIN N /\ lv[page[i]] = i
    BY <1>3 DEF OnWay
  <1>5. IsPlus(V, N, h, lv, at, F, p, pos, e)
    <2>1. N \in [DOMAIN N -> NodeSet] /\ p \in DOMAIN N
      BY <1>1, <1>4 DEF Tree, Typed
    <2> QED
      BY <2>1, PlusFacts
  <1> HIDE DEF V
  <1>6. ASSUME NEW i \in 0 .. h - 2
        PROVE  ps[i] \in 1 .. K(V, page[i]) /\ V[page[i]].entries[ps[i]].rid = Child(page[i + 1])
    <2> DEFINE g == page[i]
               x == ps[i]
    <2>1. g \in DOMAIN N /\ lv[g] = i /\ g # p
      BY <1>1, <1>4
    <2>2. x = PosIn(N[g], k)
      OBVIOUS
    <2>3. x \in 1 .. K(N, g)
      BY <1>1, <1>2, <1>3, <2>2, Posted
    <2>4. page[i + 1] = N[g].entries[x].rid[1]
      BY <1>1, <2>2 DEF IsPath, Below1
    <2> HIDE DEF g, x
    <2>5. N[g].entries[x] = Entry(MaxKey(N[page[i + 1]]), Child(page[i + 1]))
      BY <1>1, <2>1, <2>3, <2>4, ChildAt
    <2>6. N[g].entries[x].rid = Child(page[i + 1])
      BY <2>5 DEF Entry
    <2>7. V[g].entries[x].rid = N[g].entries[x].rid
      <3>1. V[g].entries[x] = IF Top(N, h, lv, at, F, p, pos, g) /\ x = K(N, g)
                              THEN Entry(e.key, N[g].entries[x].rid) ELSE N[g].entries[x]
        BY <1>5, <2>1, <2>3 DEF IsPlus
      <3> QED
        BY <3>1 DEF Entry
    <2>8. K(V, g) = K(N, g)
      BY <1>5, <2>1 DEF IsPlus
    <2> QED
      BY <2>3, <2>6, <2>7, <2>8 DEF g, x
  <1>7. DOMAIN V = DOMAIN N
    BY <1>5 DEF IsPlus
  <1> QED
    BY <1>1, <1>4, <1>6, <1>7 DEF Route, V

\* What the loop starts with, for a key that belongs at x.
Ready(f, k, rid, F, h, page, ps, x) ==
  /\ IsPlace(F, h - 1, k, x)
  /\ Loop(Before(f, k, rid), f, Inserted(F[h - 1], x, Entry(k, rid)), page, ps, h, h - 1)
  /\ page[0] = f.hdr.rootPage

\* The loop starts with the leaf lacking its entry.
LEMMA LoopStarts ==
  ASSUME NEW f, Packed(f), Sized(f.node), NEW lv, NEW at, NEW off, NEW F, NEW T,
         NEW h, h = f.hdr.height, NEW N, N = f.node,
         Tree(N, f.hdr.rootPage, h, lv, at, off, F, T),
         NEW k \in KeyValues, NEW rid \in RidsOf(k), \A j \in 1 .. W(F, h - 1) : F[h - 1][j].rid # rid,
         NEW page, page = PathPage(f, k),
         NEW ps, ps = [i \in 0 .. h - 2 |-> PosIn(N[page[i]], k)]
  PROVE  \E x : Ready(f, k, rid, F, h, page, ps, x)
  <1> DEFINE root == f.hdr.rootPage
             p == page[h - 1]
             pos == FindKey(N[p], k)
             x == off[p] + pos
             e == Entry(k, rid)
             V == Plus(N, h, lv, at, F, p, pos, e)
             M == RaisedNodes(N, h, lv, at, F, p, pos, k)
             g == Raise(f, k)
             t == Before(f, k, rid)
             C == Inserted(F[h - 1], x, e)
  <1>1. h \in Nat /\ h >= 1 /\ h - 1 \in Nat /\ h - 1 \in 0 .. h - 1 /\ h - 1 >= 0
    BY TreeTypes
  <1>2. IsPath(page, N, root, k, h - 1)
    BY <1>1, PathPageIs
  <1> HIDE DEF root
  <1>3. Tree(N, root, h, lv, at, off, F, T)
    BY DEF root
  <1>4. Grows(N, h, lv, at, off, F, p, pos, e) /\ IsPlace(F, h - 1, k, x)
    <2> HIDE DEF p, pos
    <2>1. p = page[h - 1] /\ pos = FindKey(N[p], k)
      BY SMTT(30) DEF p, pos
    <2> QED
      BY <1>2, <1>3, <2>1, GrowsHere
  <1>5. p \in DOMAIN N /\ lv[p] = h - 1 /\ pos \in 1 .. K(N, p) + 1 /\ e \in EntrySet /\ rid \in Nat \X Nat
    BY <1>4, Zenon DEF Grows, Entry
  <1>6. PICK off2, F2, T2 :
          /\ Tree(V, root, h, lv, at, off2, F2, T2) /\ F2[h - 1] = C
    <2> HIDE DEF p, pos, e
    <2> QED
      BY <1>3, <1>4, PlusTree
  <1>7. Pending(M, V, p, k, rid) /\ M[p] = N[p] /\ \A r \in DOMAIN N : K(M, r) = K(N, r)
    <2> HIDE DEF p, pos
    <2>1. pos = FindKey(N[p], k)
      BY DEF pos
    <2> QED
      BY <1>3, <1>5, <2>1, PendingHere
  <1>8. Route(V, lv, page, ps, h - 1)
    <2> HIDE DEF p, pos, e
    <2>1. p = page[h - 1]
      BY DEF p
    <2> QED
      BY <1>2, <1>3, <1>5, <2>1, RouteHere
  <1>9. Lacking(M, root, h, C, page, ps, h - 1, k, rid)
    <2> HIDE DEF V, M, C
    <2> QED
      BY <1>6, <1>7, <1>8 DEF Lacking, p
  <1>a. g.node = M
    <2>1. IsIndex(f)
      BY DEF Packed
    <2>3. Tree(f.node, f.hdr.rootPage, f.hdr.height, lv, at, off, F, T)
      OBVIOUS
    <2>4. g.node = RaiseOf(f, lv, at, F, k)
      BY <2>1, <2>3, RaiseIs
    <2> QED
      BY <2>4 DEF M, pos, p, RaiseOf
  <1>b. g = [f EXCEPT !.node = M]
    <2>1. IsIndex(f)
      BY DEF Packed
    <2>2. PICK A : g = [f EXCEPT !.node = A]
      BY DEF Raise
    <2>3. f = [hdr |-> f.hdr, hdrChanged |-> f.hdrChanged, page0 |-> f.page0,
               node |-> f.node, free |-> f.free, pinned |-> f.pinned]
      BY <2>1 DEF IsIndex
    <2> HIDE DEF g, M
    <2>4. g.node = A
      BY <2>2, <2>3
    <2> QED
      BY <1>a, <2>2, <2>4
  <1>c. DOMAIN M = DOMAIN N /\ M = [r \in DOMAIN M |-> M[r]]
    BY DEF RaisedNodes
  <1> HIDE DEF M, g
  <1>d. /\ Packed(g) /\ g.node = M /\ g.hdr = f.hdr /\ g.hdrChanged = f.hdrChanged
        /\ g.page0 = f.page0 /\ g.pinned = f.pinned
    BY <1>b, <1>c, SetNodes
  <1>e. Follows(g, f)
    BY <1>c, <1>d DEF Follows
  <1>f. Sized(g.node)
    BY <1>c, <1>d, <1>7 DEF Sized
  <1>g. t.ix = g /\ t.key = k /\ t.rid = rid /\ t.done = FALSE /\ IsTurn(t)
    BY DEF Before, IsTurn, g
  <1> HIDE DEF t, C, p, pos, e, V
  <1>h. Loop(t, f, C, page, ps, h, h - 1)
    <2>1. t.ix.hdr.rootPage = f.hdr.rootPage /\ t.ix.hdr.height = h
      BY <1>d, <1>g
    <2>2. Lacking(t.ix.node, f.hdr.rootPage, h, C, page, ps, h - 1, t.key, t.rid)
      BY <1>9, <1>d, <1>g DEF root
    <2> QED
      BY <1>d, <1>e, <1>f, <1>g, <2>1, <2>2 DEF Loop
  <1>i. page[0] = f.hdr.rootPage
    BY <1>2 DEF IsPath, root
  <1> HIDE DEF x
  <1>j. C = Inserted(F[h - 1], x, Entry(k, rid)) /\ t = Before(f, k, rid)
    BY DEF C, e, t
  <1> QED
    BY <1>4, <1>h, <1>i, <1>j DEF Ready

\* An insert leaves a tree with the new entry in its place.
LEMMA InsertDone ==
  ASSUME Sparse, NEW f, Packed(f), Sized(f.node), NEW lv, NEW at, NEW off, NEW F, NEW T,
         NEW h, h = f.hdr.height, Tree(f.node, f.hdr.rootPage, h, lv, at, off, F, T),
         NEW k \in KeyValues, NEW rid \in RidsOf(k), \A j \in 1 .. W(F, h - 1) : F[h - 1][j].rid # rid
  PROVE  \E x : /\ IsPlace(F, h - 1, k, x)
                /\ Done(InsertEntry(f, k, rid), f, Inserted(F[h - 1], x, Entry(k, rid)))
  <1> DEFINE N == f.node
             page == PathPage(f, k)
             ps == [i \in 0 .. h - 2 |-> PosIn(N[page[i]], k)]
  <1>1. h \in Nat /\ h >= 1
    BY TreeTypes
  <1>2. PICK x :
          /\ IsPlace(F, h - 1, k, x)
          /\ Loop(Before(f, k, rid), f, Inserted(F[h - 1], x, Entry(k, rid)), page, ps, h, h - 1)
          /\ page[0] = f.hdr.rootPage
    <2> DEFINE n == N
               pg == page
               pp == ps
    <2>1. n = f.node /\ pg = PathPage(f, k) /\ pp = [i \in 0 .. h - 2 |-> PosIn(n[pg[i]], k)]
      OBVIOUS
    <2>2. Tree(n, f.hdr.rootPage, h, lv, at, off, F, T)
      OBVIOUS
    <2> HIDE DEF n, pg, pp
    <2>3. \E x : Ready(f, k, rid, F, h, pg, pp, x)
      BY <2>1, <2>2, LoopStarts
    <2> QED
      BY <2>3 DEF pg, pp, Ready
  <1> DEFINE C == Inserted(F[h - 1], x, Entry(k, rid))
  <1>3. PICK g : IsRun(g, f, k, rid, h) /\ InsertEntry(f, k, rid) = g[h].ix
    BY <1>1, InsertRuns
  <1> DEFINE Bad == {i \in Nat : i <= h - 1 /\ ~Loop(g[i], f, C, page, ps, h, h - 1 - i)}
  <1>4. g[0] = Before(f, k, rid) /\ \A i \in 0 .. h : i # 0 => g[i] = Turn(f, k, i, g[i - 1])
    BY <1>3 DEF IsRun
  <1>s. \A i \in 0 .. h - 2 : ps[i] = PosIn(f.node[page[i]], k)
    OBVIOUS
  <1> HIDE DEF C, ps
  <1>5. ASSUME Bad # {}
        PROVE  FALSE
    <2>1. PICK i \in Bad : \A j \in Bad : i <= j
      <3>1. Bad \in SUBSET Nat
        OBVIOUS
      <3> HIDE DEF Bad
      <3> QED
        BY <1>5, <3>1, LeastMember
    <2>2. i \in Nat /\ i <= h - 1 /\ ~Loop(g[i], f, C, page, ps, h, h - 1 - i)
      BY <2>1
    <2>3. i # 0
      <3>1. h - 1 - 0 = h - 1
        BY <1>1
      <3> QED
        BY <1>2, <1>4, <2>2, <3>1 DEF C
    <2>4. i - 1 \in Nat /\ i - 1 <= h - 1 /\ i - 1 \notin Bad
      <3>1. i - 1 \in Nat /\ i - 1 <= h - 1 /\ ~(i <= i - 1)
        BY <1>1, <2>2, <2>3
      <3> HIDE DEF Bad
      <3> QED
        BY <2>1, <3>1
    <2> DEFINE m == h - i
    <2>5. m \in 1 .. h - 1 /\ h - 1 - (i - 1) = m /\ h - 1 - i = m - 1 /\ i # h /\ i \in 0 .. h /\ m - 1 \in 0 .. h - 2
      BY <1>1, <2>2, <2>3
    <2>6. Loop(g[i - 1], f, C, page, ps, h, m)
      <3>1. Loop(g[i - 1], f, C, page, ps, h, h - 1 - (i - 1))
        BY <2>4
      <3> QED
        BY <2>5, <3>1
    <2>7. g[i] = InsertStep(g[i - 1], page[m], page[m - 1], ps[m - 1])
      BY <1>4, <1>s, <2>3, <2>5 DEF Turn
    <2> HIDE DEF m, page
    <2>8. Loop(g[i], f, C, page, ps, h, m - 1)
      BY <1>1, <2>5, <2>6, <2>7, TurnBelow
    <2> QED
      BY <2>2, <2>5, <2>8
  <1>6. Loop(g[h - 1], f, C, page, ps, h, 0)
    <2>1. h - 1 \in Nat /\ h - 1 <= h - 1 /\ h - 1 - (h - 1) = 0
      BY <1>1
    <2>2. Loop(g[h - 1], f, C, page, ps, h, h - 1 - (h - 1))
      BY <1>5, <2>1
    <2> QED
      BY <2>1, <2>2
  <1>7. g[h] = InsertStep(g[h - 1], page[0], NoPage, 0)
    <2>1. h \in 0 .. h /\ h # 0
      BY <1>1
    <2> QED
      BY <1>4, <2>1 DEF Turn
  <1>8. Done(g[h].ix, f, C)
    <2> HIDE DEF page
    <2> QED
      BY <1>1, <1>2, <1>6, <1>7, TurnAtTop
  <1> QED
    BY <1>2, <1>3, <1>8 DEF C

----------------------------------------------------------------------------
\* What the walks of IndexMgr meet: levels, contents and links.

\* The beginning of a sequence, and a part that goes on where it ends.
LEMMA Extend ==
  ASSUME NEW S, NEW G \in Seq(S), NEW a \in Nat, NEW b \in Nat, a + b <= Len(G),
         NEW t \in Seq(S), Len(t) = b, \A s \in 1 .. b : t[s] = G[a + s]
  PROVE  /\ SubSeq(G, 1, a) \o t = SubSeq(G, 1, a + b)
         /\ a = 0 => t = SubSeq(G, 1, b)
  <1> DEFINE u == SubSeq(G, 1, a)
             v == SubSeq(G, 1, a + b)
             w == u \o t
  <1>1. a <= Len(G) /\ a + b \in Nat /\ 1 \in Nat \ {0} /\ 1 <= a + 1 /\ 1 <= a + b + 1 /\ a - 1 + 1 = a
        /\ a + b - 1 + 1 = a + b
    OBVIOUS
  <1>2. u \in Seq(S) /\ Len(u) = a /\ \A s \in 1 .. a : u[s] = G[s]
    <2>1. u \in Seq(S) /\ Len(u) = a - 1 + 1 /\ \A s \in 1 .. a - 1 + 1 : u[s] = G[1 + s - 1]
      BY <1>1, Slice
    <2>2. \A s \in 1 .. a : 1 + s - 1 = s
      OBVIOUS
    <2> HIDE DEF u
    <2> QED
      BY <1>1, <2>1, <2>2
  <1>3. v \in Seq(S) /\ Len(v) = a + b /\ \A s \in 1 .. a + b : v[s] = G[s]
    <2> DEFINE d == a + b
    <2>0. d \in Nat /\ d <= Len(G) /\ 1 <= d + 1 /\ d - 1 + 1 = d /\ \A s \in 1 .. d : 1 + s - 1 = s
      BY <1>1
    <2> HIDE DEF d
    <2>1. SubSeq(G, 1, d) \in Seq(S) /\ Len(SubSeq(G, 1, d)) = d - 1 + 1
          /\ \A s \in 1 .. d - 1 + 1 : SubSeq(G, 1, d)[s] = G[1 + s - 1]
      BY <1>1, <2>0, Slice
    <2>2. SubSeq(G, 1, d) \in Seq(S) /\ Len(SubSeq(G, 1, d)) = d /\ \A s \in 1 .. d : SubSeq(G, 1, d)[s] = G[s]
      BY <2>0, <2>1
    <2> QED
      BY <2>2 DEF d
  <1> HIDE DEF u, v
  <1>4. w \in Seq(S) /\ Len(w) = a + b
        /\ \A s \in 1 .. a + b : w[s] = IF s <= a THEN u[s] ELSE t[s - a]
    BY <1>2
  <1> HIDE DEF w
  <1>5. \A s \in 1 .. a + b : w[s] = v[s]
    <2> TAKE s \in 1 .. a + b
    <2>1. CASE s <= a
      <3>1. s \in 1 .. a
        BY <2>1
      <3>2. u[s] = G[s]
        BY <1>2, <3>1
      <3>3. v[s] = G[s]
        BY <1>3
      <3>4. w[s] = u[s]
        BY <1>4, <2>1
      <3> QED
        BY <3>2, <3>3, <3>4
    <2>2. CASE ~(s <= a)
      <3>1. s - a \in 1 .. b /\ a + (s - a) = s
        BY <1>1, <2>2
      <3>2. t[s - a] = G[s]
        BY <3>1
      <3>3. w[s] = t[s - a]
        BY <1>4, <2>2
      <3>4. v[s] = G[s]
        BY <1>3
      <3> QED
        BY <3>2, <3>3, <3>4
    <2> QED
      BY <2>1, <2>2
  <1>6. w = v
    <2> DEFINE d == a + b
    <2>1. w = [s \in 1 .. d |-> w[s]] /\ v = [s \in 1 .. d |-> v[s]]
      <3>1. w \in Seq(S) /\ Len(w) = d /\ v \in Seq(S) /\ Len(v) = d
        BY <1>3, <1>4
      <3> HIDE DEF d
      <3> QED
        BY <3>1
    <2>2. \A s \in 1 .. d : w[s] = v[s]
      BY <1>5
    <2> HIDE DEF d
    <2> QED
      BY <2>1, <2>2
  <1>7. ASSUME a = 0
        PROVE  t = SubSeq(G, 1, b)
    <2>1. v = SubSeq(G, 1, b) /\ a + b = b
      BY <1>7 DEF v
    <2>2. \A s \in 1 .. b : v[s] = t[s]
      <3>1. \A s \in 1 .. b : s \in 1 .. a + b /\ a + s = s
        BY <1>7
      <3> QED
        BY <1>3, <3>1
    <2>3. v = [s \in 1 .. b |-> v[s]] /\ t = [s \in 1 .. b |-> t[s]]
      <3>1. v \in Seq(S) /\ Len(v) = b
        BY <1>3, <2>1
      <3> QED
        BY <3>1
    <2> QED
      BY <2>1, <2>2, <2>3
  <1> QED
    BY <1>6, <1>7 DEF w, u, v

\* The n parts ss, of c[j] entries each, lie one after another in G, from o[j] on.
IsFlat(ss, G, n, c, o) ==
  /\ n \in Nat /\ n >= 1 /\ Len(ss) = n
  /\ \A j \in 1 .. n : c[j] \in Nat /\ o[j] \in Nat /\ o[j] + c[j] <= Len(G)
  /\ \A j \in 1 .. n : Len(ss[j]) = c[j] /\ \A s \in 1 .. c[j] : ss[j][s] = G[o[j] + s]
  /\ o[1] = 0 /\ \A j \in 1 .. n : j # 1 => o[j] = o[j - 1] + c[j - 1]
  /\ o[n] + c[n] = Len(G)

\* The concatenation of the parts of a sequence is the sequence.
LEMMA FlattenIs ==
  ASSUME NEW S, NEW G \in Seq(S), NEW ss, NEW n, NEW c, NEW o, IsFlat(ss, G, n, c, o),
         \A j \in 1 .. n : ss[j] \in Seq(S)
  PROVE  FlattenSeq(ss) = G
  <1> DEFINE Solves(g) == g = [i \in 1 .. n |-> IF i = 1 THEN ss[i] ELSE g[i - 1] \o ss[i]]
             up == CHOOSE g : Solves(g)
             x(i) == SubSeq(G, 1, o[i] + c[i])
             flat == [i \in 1 .. n |-> x(i)]
  <1>1. n \in Nat /\ n >= 1 /\ Len(ss) = n
    BY DEF IsFlat
  <1>2. FlattenSeq(ss) = up[n]
    <2>1. Len(ss) # 0
      BY <1>1
    <2> QED
      BY <1>1, <2>1 DEF FlattenSeq
  <1>3. \A i \in 1 .. n : c[i] \in Nat /\ o[i] \in Nat /\ o[i] + c[i] <= Len(G) /\ Len(ss[i]) = c[i]
                          /\ \A s \in 1 .. c[i] : ss[i][s] = G[o[i] + s]
    BY DEF IsFlat
  <1>4. o[1] = 0 /\ \A i \in 1 .. n : i # 1 => o[i] = o[i - 1] + c[i - 1]
    BY DEF IsFlat
  <1>5. x(1) = ss[1]
    <2> DEFINE a == o[1]
               b == c[1]
               t == ss[1]
    <2>1. 1 \in 1 .. n
      BY <1>1
    <2>2. /\ a \in Nat /\ b \in Nat /\ a + b <= Len(G) /\ Len(t) = b /\ t \in Seq(S) /\ a = 0
          /\ \A s \in 1 .. b : t[s] = G[a + s]
      BY <1>3, <1>4, <2>1
    <2> HIDE DEF a, b, t
    <2>3. t = SubSeq(G, 1, b) /\ a + b = b
      BY <2>2, Extend
    <2> QED
      BY <2>3 DEF a, b, t
  <1>6. ASSUME NEW i \in 1 .. n, i # 1
        PROVE  i - 1 \in 1 .. n /\ x(i - 1) \o ss[i] = x(i)
    <2> DEFINE a == o[i]
               b == c[i]
               t == ss[i]
    <2>1. i - 1 \in 1 .. n
      BY <1>1, <1>6
    <2>2. /\ a \in Nat /\ b \in Nat /\ a + b <= Len(G) /\ Len(t) = b /\ t \in Seq(S)
          /\ \A s \in 1 .. b : t[s] = G[a + s]
      BY <1>3
    <2>3. o[i - 1] + c[i - 1] = a
      BY <1>4, <1>6
    <2> HIDE DEF a, b, t
    <2>4. SubSeq(G, 1, a) \o t = SubSeq(G, 1, a + b)
      BY <2>2, Extend, ZenonT(40)
    <2> QED
      BY <2>1, <2>3, <2>4 DEF a, b, t
  <1> HIDE DEF x
  <1>7. Solves(flat)
    BY <1>5, <1>6
  <1>8. Solves(up)
    <2> HIDE DEF Solves, flat
    <2> QED
      BY <1>7
  <1> HIDE DEF up
  <1>9. \A i \in 1 .. n : up[i] = IF i = 1 THEN ss[i] ELSE up[i - 1] \o ss[i]
    BY <1>8
  <1> DEFINE Bad == {i \in Nat : i \in 1 .. n /\ up[i] # x(i)}
  <1>a. ASSUME Bad # {}
        PROVE  FALSE
    <2>1. PICK i \in Bad : \A j \in Bad : i <= j
      <3>1. Bad \in SUBSET Nat
        OBVIOUS
      <3> HIDE DEF Bad
      <3> QED
        BY <1>a, <3>1, LeastMember
    <2>2. i \in 1 .. n /\ up[i] # x(i) /\ i \in Nat
      BY <2>1
    <2>3. i # 1
      BY <1>5, <1>9, <2>2
    <2>4. up[i - 1] = x(i - 1)
      <3>1. i - 1 \in Nat /\ i - 1 \in 1 .. n /\ ~(i <= i - 1)
        BY <1>1, <2>2, <2>3
      <3>2. i - 1 \notin Bad
        <4> HIDE DEF Bad
        <4> QED
          BY <2>1, <3>1
      <3> QED
        BY <3>1, <3>2
    <2> QED
      BY <1>6, <1>9, <2>2, <2>3, <2>4
  <1>b. n \in 1 .. n
    BY <1>1
  <1>c. up[n] = x(n)
    BY <1>1, <1>a, <1>b
  <1>d. x(n) = G
    <2> DEFINE d == o[n] + c[n]
    <2>1. d = Len(G)
      BY DEF IsFlat
    <2>2. SubSeq(G, 1, Len(G)) = G
      OBVIOUS
    <2> QED
      BY <2>1, <2>2 DEF x
  <1> QED
    BY <1>2, <1>c, <1>d

\* The page at place j of level i.
PageAt(root, F, i, j) == IF i = 0 THEN root ELSE F[i - 1][j].rid[1]

\* The width of a level is a number.
LEMMA WidthNat ==
  ASSUME NEW N, NEW root, NEW h, NEW lv, NEW at, NEW off, NEW F, NEW T,
         Tree(N, root, h, lv, at, off, F, T), NEW i \in 0 .. h - 1
  PROVE  Width(F, i) \in Nat /\ (i # 0 => Width(F, i) = W(F, i - 1) /\ i - 1 \in 0 .. h - 2)
  <1>1. h \in Nat /\ h >= 1
    BY TreeTypes
  <1>2. CASE i = 0
    BY <1>2 DEF Width
  <1>3. CASE i # 0
    <2>1. i - 1 \in 0 .. h - 1 /\ i - 1 \in 0 .. h - 2
      BY <1>1, <1>3
    <2> QED
      BY <1>3, <2>1, TreeTypes DEF Width
  <1> QED
    BY <1>2, <1>3

\* Each place of a level has its page, and each page its place.
LEMMA PageAtIs ==
  ASSUME NEW N, NEW root, NEW h, NEW lv, NEW at, NEW off, NEW F, NEW T,
         Tree(N, root, h, lv, at, off, F, T), NEW i \in 0 .. h - 1
  PROVE  /\ \A j \in 1 .. Width(F, i) :
              /\ PageAt(root, F, i, j) \in DOMAIN N
              /\ lv[PageAt(root, F, i, j)] = i /\ at[PageAt(root, F, i, j)] = j
         /\ \A r \in DOMAIN N : lv[r] = i => at[r] \in 1 .. Width(F, i) /\ PageAt(root, F, i, at[r]) = r
  <1>1. h \in Nat /\ h >= 1 /\ root \in DOMAIN N /\ lv[root] = 0 /\ at[root] = 1
        /\ \A r \in DOMAIN N : lv[r] = 0 => r = root
    BY TreeTypes DEF Tree, Linked
  <1>2. ASSUME NEW j \in 1 .. Width(F, i)
        PROVE  /\ PageAt(root, F, i, j) \in DOMAIN N
               /\ lv[PageAt(root, F, i, j)] = i /\ at[PageAt(root, F, i, j)] = j
    <2>1. CASE i = 0
      BY <1>1, <2>1 DEF PageAt, Width
    <2>2. CASE i # 0
      <3>1. i - 1 \in 0 .. h - 2 /\ j \in 1 .. W(F, i - 1) /\ (i - 1) + 1 = i
        BY <1>1, <2>2 DEF Width
      <3>2. PageAt(root, F, i, j) = F[i - 1][j].rid[1]
        BY <2>2 DEF PageAt
      <3> QED
        BY <3>1, <3>2, Under
    <2> QED
      BY <2>1, <2>2
  <1>3. \A r \in DOMAIN N : lv[r] = i => at[r] \in 1 .. Width(F, i)
    <2> SUFFICES ASSUME NEW r \in DOMAIN N, lv[r] = i
                 PROVE  at[r] \in 1 .. Width(F, i)
      OBVIOUS
    <2>1. at[r] \in Nat /\ at[r] >= 1
      BY TreeTypes
    <2>2. at[r] <= Width(F, i)
      BY LastPage
    <2>3. Width(F, i) \in Nat
      BY WidthNat
    <2> QED
      BY <2>1, <2>2, <2>3
  <1>4. \A r \in DOMAIN N : lv[r] = i => PageAt(root, F, i, at[r]) = r
    BY <1>2, <1>3, SamePlace
  <1> QED
    BY <1>2, <1>3, <1>4

\* No level is empty.
LEMMA NoLevelEmpty ==
  ASSUME NEW N, NEW root, NEW h, NEW lv, NEW at, NEW off, NEW F, NEW T,
         Tree(N, root, h, lv, at, off, F, T)
  PROVE  \A i \in 0 .. h - 1 : Width(F, i) >= 1
  <1>1. h \in Nat /\ h >= 1
    BY TreeTypes
  <1> DEFINE Bad == {i \in Nat : i \in 0 .. h - 1 /\ ~(Width(F, i) >= 1)}
  <1>2. ASSUME Bad # {}
        PROVE  FALSE
    <2>1. PICK i \in Bad : \A j \in Bad : i <= j
      <3>1. Bad \in SUBSET Nat
        OBVIOUS
      <3> HIDE DEF Bad
      <3> QED
        BY <1>2, <3>1, LeastMember
    <2>2. i \in 0 .. h - 1 /\ ~(Width(F, i) >= 1) /\ i \in Nat
      BY <2>1
    <2>3. i # 0
      BY <2>2 DEF Width
    <2>4. i - 1 \in Nat /\ i - 1 \in 0 .. h - 1 /\ ~(i <= i - 1) /\ h > 1
      BY <1>1, <2>2, <2>3
    <2>5. Width(F, i - 1) >= 1
      <3>1. i - 1 \notin Bad
        <4> HIDE DEF Bad
        <4> QED
          BY <2>1, <2>4
      <3> QED
        BY <2>4, <3>1
    <2>6. PICK p : p = PageAt(root, F, i - 1, 1)
      OBVIOUS
    <2>7. p \in DOMAIN N /\ lv[p] = i - 1
      <3>1. 1 \in 1 .. Width(F, i - 1)
        <4>1. Width(F, i - 1) \in Nat
          BY <2>4, WidthNat
        <4> QED
          BY <2>5, <4>1
      <3> QED
        BY <2>4, <2>6, <3>1, PageAtIs
    <2>8. K(N, p) \in Nat /\ K(N, p) # 0
      BY <2>4, <2>7, TreeTypes DEF Tree, Flat
    <2>9. 1 \in 1 .. K(N, p)
      BY <2>8
    <2>a. off[p] + 1 \in 1 .. W(F, i - 1)
      BY <2>7, <2>9, EntryAt
    <2>b. Width(F, i) = W(F, i - 1) /\ W(F, i - 1) \in Nat
      BY <2>2, <2>3, <2>4, WidthNat, TreeTypes
    <2> QED
      BY <2>2, <2>a, <2>b
  <1>3. \A i \in 0 .. h - 1 : i \in Nat
    BY <1>1
  <1> QED
    BY <1>2, <1>3

\* The entries of a level lie in its pages from the left to the right.
Joined(N, root, F, off, i) ==
  /\ off[PageAt(root, F, i, 1)] = 0
  /\ \A j \in 1 .. Width(F, i) : j # 1 =>
       off[PageAt(root, F, i, j)] = off[PageAt(root, F, i, j - 1)] + K(N, PageAt(root, F, i, j - 1))
  /\ off[PageAt(root, F, i, Width(F, i))] + K(N, PageAt(root, F, i, Width(F, i))) = W(F, i)

\* The entries of the nodes of a level are those of the level.
LEMMA IsJoined ==
  ASSUME NEW N, NEW root, NEW h, NEW lv, NEW at, NEW off, NEW F, NEW T,
         Tree(N, root, h, lv, at, off, F, T), NEW i \in 0 .. h - 1
  PROVE  Joined(N, root, F, off, i)
  <1>1. Width(F, i) \in Nat /\ Width(F, i) >= 1 /\ W(F, i) \in Nat
    BY WidthNat, NoLevelEmpty, TreeTypes
  <1>2. \A r, q \in DOMAIN N : lv[r] = i /\ lv[q] = i /\ at[r] < at[q] => off[r] + K(N, r) <= off[q]
    BY DEF Tree, Flat
  <1>3. \A x \in 1 .. W(F, i) : \E r \in DOMAIN N : lv[r] = i /\ off[r] < x /\ x <= off[r] + K(N, r)
    BY DEF Tree, Flat
  <1>4. \A r \in DOMAIN N : /\ off[r] \in Nat /\ K(N, r) \in Nat /\ at[r] \in Nat /\ at[r] >= 1
                           /\ (lv[r] = i => off[r] + K(N, r) <= W(F, i))
    BY TreeTypes DEF Tree, Flat
  <1>5. off[PageAt(root, F, i, 1)] = 0
    <2>1. PICK p : p = PageAt(root, F, i, 1)
      OBVIOUS
    <2>2. p \in DOMAIN N /\ lv[p] = i /\ at[p] = 1
      <3>1. 1 \in 1 .. Width(F, i)
        BY <1>1
      <3> QED
        BY <2>1, <3>1, PageAtIs
    <2>3. ASSUME off[p] # 0
          PROVE  FALSE
      <3>1. off[p] \in Nat /\ K(N, p) \in Nat /\ off[p] + K(N, p) <= W(F, i)
        BY <1>4, <2>2
      <3>2. 1 \in 1 .. W(F, i)
        BY <1>1, <2>3, <3>1
      <3>3. PICK r \in DOMAIN N : lv[r] = i /\ off[r] < 1 /\ 1 <= off[r] + K(N, r)
        BY <1>3, <3>2
      <3>4. off[r] \in Nat /\ at[r] \in Nat /\ at[r] >= 1
        BY <1>4
      <3>5. r # p
        BY <2>3, <3>1, <3>3
      <3>6. at[r] # at[p]
        BY <2>2, <3>3, <3>5, SamePlace
      <3>7. off[p] + K(N, p) <= off[r]
        BY <1>2, <2>2, <3>3, <3>4, <3>6
      <3> QED
        BY <2>3, <3>1, <3>3, <3>4, <3>7
    <2> QED
      BY <2>1, <2>3
  <1>6. ASSUME NEW j \in 1 .. Width(F, i), j # 1
        PROVE  off[PageAt(root, F, i, j)] = off[PageAt(root, F, i, j - 1)] + K(N, PageAt(root, F, i, j - 1))
    <2>1. PICK p : p = PageAt(root, F, i, j)
      OBVIOUS
    <2>2. PICK q : q = PageAt(root, F, i, j - 1)
      OBVIOUS
    <2>3. j - 1 \in 1 .. Width(F, i) /\ j \in Nat /\ j - 1 < j
      BY <1>1, <1>6
    <2>4. p \in DOMAIN N /\ lv[p] = i /\ at[p] = j /\ q \in DOMAIN N /\ lv[q] = i /\ at[q] = j - 1
      BY <2>1, <2>2, <2>3, PageAtIs
    <2>5. /\ off[p] \in Nat /\ K(N, p) \in Nat /\ off[p] + K(N, p) <= W(F, i)
          /\ off[q] \in Nat /\ K(N, q) \in Nat
      BY <1>4, <2>4
    <2>6. off[q] + K(N, q) <= off[p]
      BY <1>2, <2>3, <2>4
    <2>7. ASSUME off[q] + K(N, q) # off[p]
          PROVE  FALSE
      <3> DEFINE x == off[q] + K(N, q) + 1
      <3>1. x \in 1 .. W(F, i) /\ x <= off[p] /\ ~(x <= off[q] + K(N, q)) /\ ~(off[p] < x) /\ off[q] < x /\ x \in Nat
        BY <1>1, <2>5, <2>6, <2>7
      <3>2. PICK r \in DOMAIN N : lv[r] = i /\ off[r] < x /\ x <= off[r] + K(N, r)
        <4> HIDE DEF x
        <4> QED
          BY <1>3, <3>1
      <3>3. off[r] \in Nat /\ K(N, r) \in Nat /\ at[r] \in Nat /\ at[r] >= 1
        BY <1>4
      <3>4. at[r] # j - 1 /\ at[r] # j
        <4>1. r # p /\ r # q
          BY <3>1, <3>2
        <4> QED
          BY <2>4, <3>2, <4>1, SamePlace
      <3>5. CASE at[r] < j - 1
        <4>1. off[r] + K(N, r) <= off[q]
          BY <1>2, <2>4, <3>2, <3>5
        <4> HIDE DEF x
        <4> QED
          BY <2>5, <3>1, <3>2, <3>3, <4>1
      <3>6. CASE j < at[r]
        <4>1. off[p] + K(N, p) <= off[r]
          BY <1>2, <2>4, <3>2, <3>6
        <4> HIDE DEF x
        <4> QED
          BY <2>5, <3>1, <3>2, <3>3, <4>1
      <3> QED
        BY <2>3, <3>3, <3>4, <3>5, <3>6
    <2> QED
      BY <2>1, <2>2, <2>7
  <1>7. off[PageAt(root, F, i, Width(F, i))] + K(N, PageAt(root, F, i, Width(F, i))) = W(F, i)
    <2>1. PICK p : p = PageAt(root, F, i, Width(F, i))
      OBVIOUS
    <2>2. Width(F, i) \in 1 .. Width(F, i)
      BY <1>1
    <2>3. p \in DOMAIN N /\ lv[p] = i /\ at[p] = Width(F, i)
      BY <2>1, <2>2, PageAtIs
    <2> QED
      BY <2>1, <2>3, LastPage
  <1> QED
    BY <1>5, <1>6, <1>7 DEF Joined

\* The pages of a level in their order.
PagesOf(root, F, i) == [j \in 1 .. Width(F, i) |-> PageAt(root, F, i, j)]
\* The entries of these pages, and the children that they lead to.
PartsAt(f, root, F, i)    == [j \in 1 .. Width(F, i) |-> EntriesAt(f, PageAt(root, F, i, j))]
ChildrenAt(f, root, F, i) == [j \in 1 .. Width(F, i) |-> Children(f, PageAt(root, F, i, j))]
LinksOf(F, i)             == [j \in 1 .. W(F, i) |-> F[i][j].rid[1]]

\* Where the parts lie.
LEMMA PartsFlat ==
  ASSUME NEW f, NEW root, NEW h, NEW lv, NEW at, NEW off, NEW F, NEW T,
         Tree(f.node, root, h, lv, at, off, F, T), NEW i \in 0 .. h - 1,
         NEW n, n = Width(F, i),
         NEW c, c = [j \in 1 .. n |-> K(f.node, PageAt(root, F, i, j))],
         NEW o, o = [j \in 1 .. n |-> off[PageAt(root, F, i, j)]]
  PROVE  /\ IsFlat(PartsAt(f, root, F, i), F[i], n, c, o)
         /\ \A j \in 1 .. n : PartsAt(f, root, F, i)[j] \in Seq(EntrySet)
         /\ IsFlat(ChildrenAt(f, root, F, i), LinksOf(F, i), n, c, o)
         /\ \A j \in 1 .. n : ChildrenAt(f, root, F, i)[j] \in Seq(Nat)
         /\ LinksOf(F, i) \in Seq(Nat)
  <1> DEFINE p(j) == PageAt(root, F, i, j)
             N == f.node
  <1>1. n \in Nat /\ n >= 1 /\ W(F, i) \in Nat /\ F[i] \in Seq(EntrySet)
    BY WidthNat, NoLevelEmpty, TreeTypes
  <1>2. \A j \in 1 .. n : p(j) \in DOMAIN N /\ lv[p(j)] = i
    BY PageAtIs
  <1>3. \A j \in 1 .. n : /\ K(N, p(j)) \in Nat /\ off[p(j)] \in Nat
                          /\ off[p(j)] + K(N, p(j)) <= W(F, i)
    BY <1>2, TreeTypes DEF Tree, Flat
  <1>4. \A j \in 1 .. n : \A s \in 1 .. K(N, p(j)) :
          /\ off[p(j)] + s \in 1 .. W(F, i) /\ N[p(j)].entries[s] = F[i][off[p(j)] + s]
    BY <1>2, EntryAt
  <1>5. Joined(N, root, F, off, i)
    BY IsJoined
  <1>6. /\ o[1] = 0 /\ o[n] + c[n] = W(F, i)
        /\ \A j \in 1 .. n : j # 1 => o[j] = o[j - 1] + c[j - 1]
    <2>1. \A j \in 1 .. n : o[j] = off[p(j)] /\ c[j] = K(N, p(j))
      OBVIOUS
    <2>2. 1 \in 1 .. n /\ n \in 1 .. n
      BY <1>1
    <2>3. \A j \in 1 .. n : j # 1 => j - 1 \in 1 .. n
      BY <1>1
    <2> QED
      BY <1>5, <2>1, <2>2, <2>3 DEF Joined
  <1>7. \A j \in 1 .. n : /\ c[j] = K(N, p(j)) /\ o[j] = off[p(j)]
                          /\ c[j] \in Nat /\ o[j] \in Nat /\ o[j] + c[j] <= W(F, i)
    BY <1>3
  <1>8. \A j \in 1 .. n : EntriesAt(f, p(j)) = N[p(j)].entries /\ N[p(j)].entries \in Seq(EntrySet)
    <2> TAKE j \in 1 .. n
    <2>1. N[p(j)] \in NodeSet
      BY <1>2, TreeTypes
    <2> QED
      BY <1>2, <2>1, IsNode DEF EntriesAt
  <1>9. IsFlat(PartsAt(f, root, F, i), F[i], n, c, o)
    <2>1. W(F, i) = Len(F[i])
      BY DEF W
    <2>2. Len(PartsAt(f, root, F, i)) = n
      BY <1>1 DEF PartsAt
    <2>3. \A j \in 1 .. n : PartsAt(f, root, F, i)[j] = N[p(j)].entries
      BY <1>8 DEF PartsAt
    <2>4. \A j \in 1 .. n : Len(PartsAt(f, root, F, i)[j]) = c[j]
      BY <1>7, <2>3 DEF K
    <2>5. \A j \in 1 .. n : \A s \in 1 .. c[j] : PartsAt(f, root, F, i)[j][s] = F[i][o[j] + s]
      BY <1>4, <1>7, <2>3, SMTT(30)
    <2> HIDE DEF p, N
    <2> QED
      BY <1>1, <1>6, <1>7, <2>1, <2>2, <2>4, <2>5 DEF IsFlat
  <1>a. \A j \in 1 .. n : PartsAt(f, root, F, i)[j] \in Seq(EntrySet)
    BY <1>8 DEF PartsAt
  <1>b. LinksOf(F, i) \in Seq(Nat) /\ Len(LinksOf(F, i)) = W(F, i)
        /\ \A j \in 1 .. W(F, i) : LinksOf(F, i)[j] = F[i][j].rid[1]
    <2>1. \A j \in 1 .. W(F, i) : F[i][j].rid[1] \in Nat
      <3> TAKE j \in 1 .. W(F, i)
      <3>1. F[i][j] \in EntrySet
        BY <1>1, Elem DEF W
      <3> QED
        BY <3>1 DEF EntrySet
    <2> QED
      BY <1>1, <2>1, SMTT(30) DEF LinksOf
  <1>c. \A j \in 1 .. n : /\ ChildrenAt(f, root, F, i)[j] \in Seq(Nat)
                          /\ Len(ChildrenAt(f, root, F, i)[j]) = c[j]
                          /\ \A s \in 1 .. c[j] : ChildrenAt(f, root, F, i)[j][s] = LinksOf(F, i)[o[j] + s]
    <2> TAKE j \in 1 .. n
    <2>1. EntriesAt(f, p(j)) = N[p(j)].entries /\ N[p(j)].entries \in Seq(EntrySet)
      BY <1>8
    <2>2. c[j] = Len(N[p(j)].entries) /\ c[j] \in Nat
      BY <1>7 DEF K
    <2>3. DOMAIN EntriesAt(f, p(j)) = 1 .. c[j]
      BY <2>1, <2>2
    <2>4. ChildrenAt(f, root, F, i)[j] = [s \in 1 .. c[j] |-> N[p(j)].entries[s].rid[1]]
      BY <2>1, <2>3 DEF ChildrenAt, Children
    <2>5. \A s \in 1 .. c[j] : N[p(j)].entries[s].rid[1] = LinksOf(F, i)[o[j] + s]
                               /\ N[p(j)].entries[s].rid[1] \in Nat
      <3> TAKE s \in 1 .. c[j]
      <3>1. s \in 1 .. K(N, p(j)) /\ o[j] = off[p(j)]
        BY <1>7
      <3>2. off[p(j)] + s \in 1 .. W(F, i) /\ N[p(j)].entries[s] = F[i][off[p(j)] + s]
        BY <1>4, <3>1
      <3>3. N[p(j)].entries[s] \in EntrySet
        BY <2>1, <2>2, Elem
      <3>4. N[p(j)].entries[s].rid[1] \in Nat
        BY <3>3 DEF EntrySet
      <3> QED
        BY <1>b, <3>1, <3>2, <3>4
    <2> HIDE DEF p, N
    <2> QED
      BY <2>2, <2>4, <2>5
  <1>d. IsFlat(ChildrenAt(f, root, F, i), LinksOf(F, i), n, c, o)
    <2>1. Len(ChildrenAt(f, root, F, i)) = n
      BY <1>1 DEF ChildrenAt
    <2> HIDE DEF p, N
    <2> QED
      BY <1>1, <1>6, <1>7, <1>b, <1>c, <2>1, ZenonT(40) DEF IsFlat
  <1> QED
    BY <1>9, <1>a, <1>b, <1>c, <1>d

\* The file holds this tree.
Holds(f, h, lv, at, off, F, T) ==
  /\ h = f.hdr.height
  /\ Tree(f.node, f.hdr.rootPage, h, lv, at, off, F, T)

\* A level as it is read.
Reads(f, root, F, i) ==
  /\ EntriesOf(f, PagesOf(root, F, i)) = F[i]
  /\ Below(f, PagesOf(root, F, i)) = LinksOf(F, i)

\* The pages of a level hold its entries, and lead to the pages of the next.
LEMMA LevelReads ==
  ASSUME NEW f, NEW root, NEW h, NEW lv, NEW at, NEW off, NEW F, NEW T,
         Tree(f.node, root, h, lv, at, off, F, T), NEW i \in 0 .. h - 1
  PROVE  Reads(f, root, F, i)
  <1> DEFINE n == Width(F, i)
             c == [j \in 1 .. n |-> K(f.node, PageAt(root, F, i, j))]
             o == [j \in 1 .. n |-> off[PageAt(root, F, i, j)]]
  <1>1. /\ IsFlat(PartsAt(f, root, F, i), F[i], n, c, o)
        /\ \A j \in 1 .. n : PartsAt(f, root, F, i)[j] \in Seq(EntrySet)
        /\ IsFlat(ChildrenAt(f, root, F, i), LinksOf(F, i), n, c, o)
        /\ \A j \in 1 .. n : ChildrenAt(f, root, F, i)[j] \in Seq(Nat)
        /\ LinksOf(F, i) \in Seq(Nat)
    <2> HIDE DEF n, c, o
    <2> QED
      BY PartsFlat DEF n, c, o
  <1>2. F[i] \in Seq(EntrySet)
    BY TreeTypes
  <1> HIDE DEF c, o
  <1>3. FlattenSeq(PartsAt(f, root, F, i)) = F[i]
    <2> HIDE DEF n
    <2> QED
      BY <1>1, <1>2, FlattenIs
  <1>4. FlattenSeq(ChildrenAt(f, root, F, i)) = LinksOf(F, i)
    <2> HIDE DEF n
    <2> QED
      BY <1>1, FlattenIs
  <1>5. DOMAIN PagesOf(root, F, i) = 1 .. n /\ \A j \in 1 .. n : PagesOf(root, F, i)[j] = PageAt(root, F, i, j)
    BY DEF PagesOf
  <1>6. [j \in DOMAIN PagesOf(root, F, i) |-> EntriesAt(f, PagesOf(root, F, i)[j])] = PartsAt(f, root, F, i)
    BY <1>5 DEF PartsAt
  <1>7. [j \in DOMAIN PagesOf(root, F, i) |-> Children(f, PagesOf(root, F, i)[j])] = ChildrenAt(f, root, F, i)
    BY <1>5 DEF ChildrenAt
  <1> QED
    BY <1>3, <1>4, <1>6, <1>7 DEF EntriesOf, Below, Reads

\* The first level, and the one below another.
LEMMA PagesNext ==
  ASSUME NEW N, NEW root, NEW h, NEW lv, NEW at, NEW off, NEW F, NEW T,
         Tree(N, root, h, lv, at, off, F, T)
  PROVE  /\ PagesOf(root, F, 0) = <<root>>
         /\ \A i \in 0 .. h - 1 : i # 0 => PagesOf(root, F, i) = LinksOf(F, i - 1)
  <1>1. PagesOf(root, F, 0) = <<root>>
    BY DEF PagesOf, PageAt, Width
  <1>2. ASSUME NEW i \in 0 .. h - 1, i # 0
        PROVE  PagesOf(root, F, i) = LinksOf(F, i - 1)
    <2>1. Width(F, i) = W(F, i - 1)
      BY <1>2 DEF Width
    <2>2. \A j \in 1 .. W(F, i - 1) : PageAt(root, F, i, j) = F[i - 1][j].rid[1]
      BY <1>2 DEF PageAt
    <2> QED
      BY <2>1, <2>2 DEF PagesOf, LinksOf
  <1> QED
    BY <1>1, <1>2

\* Level is what the tree says.
Leveled(f, root, h, F) == \A i \in 0 .. h - 1 : Level(f)[i] = PagesOf(root, F, i)

\* Level reads the nodes of each level from the left to the right.
LEMMA LevelIs ==
  ASSUME NEW f, NEW h, NEW lv, NEW at, NEW off, NEW F, NEW T, Holds(f, h, lv, at, off, F, T)
  PROVE  Leveled(f, f.hdr.rootPage, h, F)
  <1>0. /\ Tree(f.node, f.hdr.rootPage, h, lv, at, off, F, T) /\ h = f.hdr.height
    BY DEF Holds
  <1> DEFINE root == f.hdr.rootPage
             Solves(g) == g = [i \in 0 .. h - 1 |-> IF i = 0 THEN <<root>> ELSE Below(f, g[i - 1])]
             up == CHOOSE g : Solves(g)
             x(i) == PagesOf(root, F, i)
             flat == [i \in 0 .. h - 1 |-> x(i)]
  <1>1. h \in Nat /\ h >= 1
    BY <1>0, TreeTypes
  <1>2. Level(f) = up
    BY <1>0 DEF Level
  <1>3. x(0) = <<root>>
    BY <1>0, PagesNext
  <1>4. ASSUME NEW i \in 0 .. h - 1, i # 0
        PROVE  i - 1 \in 0 .. h - 1 /\ x(i) = Below(f, x(i - 1))
    <2>1. i - 1 \in 0 .. h - 1
      BY <1>1, <1>4
    <2>2. x(i) = LinksOf(F, i - 1)
      BY <1>0, <1>4, PagesNext
    <2>3. Below(f, x(i - 1)) = LinksOf(F, i - 1)
      <3>1. Reads(f, root, F, i - 1)
        BY <1>0, <2>1, LevelReads
      <3> QED
        BY <3>1 DEF Reads
    <2> QED
      BY <2>1, <2>2, <2>3
  <1> HIDE DEF x
  <1>5. Solves(flat)
    BY <1>3, <1>4
  <1>6. Solves(up)
    <2> HIDE DEF Solves, flat
    <2> QED
      BY <1>5
  <1> HIDE DEF up
  <1>7. \A i \in 0 .. h - 1 : up[i] = IF i = 0 THEN <<root>> ELSE Below(f, up[i - 1])
    BY <1>6
  <1> DEFINE Bad == {i \in Nat : i \in 0 .. h - 1 /\ up[i] # x(i)}
  <1>8. ASSUME Bad # {}
        PROVE  FALSE
    <2>1. PICK i \in Bad : \A j \in Bad : i <= j
      <3>1. Bad \in SUBSET Nat
        OBVIOUS
      <3> HIDE DEF Bad
      <3> QED
        BY <1>8, <3>1, LeastMember
    <2>2. i \in 0 .. h - 1 /\ up[i] # x(i) /\ i \in Nat
      BY <2>1
    <2>3. i # 0
      BY <1>3, <1>7, <2>2
    <2>4. up[i - 1] = x(i - 1)
      <3>1. i - 1 \in Nat /\ i - 1 \in 0 .. h - 1 /\ ~(i <= i - 1)
        BY <1>1, <2>2, <2>3
      <3>2. i - 1 \notin Bad
        <4> HIDE DEF Bad
        <4> QED
          BY <2>1, <3>1
      <3> QED
        BY <3>1, <3>2
    <2> QED
      BY <1>4, <1>7, <2>2, <2>3, <2>4
  <1>9. \A i \in 0 .. h - 1 : up[i] = x(i)
    <2>1. \A i \in 0 .. h - 1 : i \in Nat
      BY <1>1
    <2> QED
      BY <1>8, <2>1
  <1> QED
    BY <1>2, <1>9 DEF x, Leveled

\* What a file with a tree reads as.
LEMMA ContentsIs ==
  ASSUME NEW f, NEW h, NEW lv, NEW at, NEW off, NEW F, NEW T, Holds(f, h, lv, at, off, F, T)
  PROVE  Contents(f) = F[h - 1] /\ Leaves(f) = PagesOf(f.hdr.rootPage, F, h - 1)
  <1>0. /\ Tree(f.node, f.hdr.rootPage, h, lv, at, off, F, T) /\ h = f.hdr.height
    BY DEF Holds
  <1>1. h \in Nat /\ h >= 1 /\ h - 1 \in 0 .. h - 1 /\ h # 0
    <2>1. h \in Nat /\ h >= 1
      BY <1>0, TreeTypes
    <2> QED
      BY <2>1
  <1>2. Leaves(f) = PagesOf(f.hdr.rootPage, F, h - 1)
    <2>1. Leveled(f, f.hdr.rootPage, h, F)
      BY LevelIs
    <2>2. Leaves(f) = Level(f)[h - 1]
      BY <1>0 DEF Leaves
    <2> QED
      BY <1>1, <2>1, <2>2 DEF Leveled
  <1>3. EntriesOf(f, PagesOf(f.hdr.rootPage, F, h - 1)) = F[h - 1]
    <2>1. Reads(f, f.hdr.rootPage, F, h - 1)
      BY <1>0, <1>1, LevelReads
    <2> QED
      BY <2>1 DEF Reads
  <1>4. Contents(f) = EntriesOf(f, Leaves(f))
    BY <1>0, <1>1 DEF Contents
  <1> QED
    BY <1>2, <1>3, <1>4

\* A file with a tree is usable.
LEMMA HoldsUsable ==
  ASSUME NEW f, NEW h, NEW lv, NEW at, NEW off, NEW F, NEW T, Holds(f, h, lv, at, off, F, T)
  PROVE  Usable(f)
  <1> DEFINE N == f.node
             root == f.hdr.rootPage
  <1>1. Tree(N, root, h, lv, at, off, F, T) /\ h = f.hdr.height
    BY DEF Holds
  <1>2. h \in Nat /\ h >= 1
    BY <1>1, TreeTypes
  <1>3. Leveled(f, root, h, F)
    BY LevelIs
  <1> SUFFICES ASSUME NEW i \in 0 .. h - 1, NEW p \in ToSet(Level(f)[i])
               PROVE  /\ p \in DOMAIN N
                      /\ \A e \in ToSet(N[p].entries) :
                           IF i < h - 1 THEN IsLink(f, e) ELSE e.rid[2] # -1
    BY <1>1 DEF Usable
  <1>4. PICK j \in 1 .. Width(F, i) : p = PageAt(root, F, i, j)
    <2>1. Level(f)[i] = PagesOf(root, F, i)
      BY <1>3 DEF Leveled
    <2> QED
      BY <2>1 DEF PagesOf, ToSet
  <1>5. p \in DOMAIN N /\ lv[p] = i
    <2> HIDE DEF N, root
    <2> QED
      BY <1>1, <1>4, PageAtIs
  <1>6. ASSUME NEW e \in ToSet(N[p].entries)
        PROVE  IF i < h - 1 THEN IsLink(f, e) ELSE e.rid[2] # -1
    <2>1. N[p].entries \in Seq(EntrySet) /\ K(N, p) = Len(N[p].entries)
      <3>1. N[p] \in NodeSet
        <4> HIDE DEF N, root
        <4> QED
          BY <1>1, <1>5, TreeTypes
      <3> QED
        BY <3>1, IsNode DEF K
    <2>2. PICK s \in 1 .. K(N, p) : e = N[p].entries[s]
      BY <2>1 DEF ToSet
    <2>3. ASSUME i < h - 1
          PROVE  IsLink(f, e)
      <3> DEFINE c == N[p].entries[s].rid[1]
      <3>1. c \in DOMAIN N /\ N[p].entries[s] = Entry(MaxKey(N[c]), Child(c))
        <4> HIDE DEF N, root
        <4>1. lv[p] < h - 1
          BY <1>5, <2>3
        <4> QED
          BY <1>1, <1>5, <2>2, <4>1, ChildAt
      <3> HIDE DEF c
      <3>2. e.rid = Child(c)
        BY <2>2, <3>1 DEF Entry
      <3>3. e.rid[1] = c /\ e.rid[2] = -1
        BY <3>2 DEF Child
      <3> QED
        BY <3>1, <3>3 DEF IsLink
    <2>4. ASSUME ~(i < h - 1)
          PROVE  e.rid[2] # -1
      <3>1. i = h - 1 /\ h - 1 \in 0 .. h - 1
        BY <1>2, <2>4
      <3>2. off[p] + s \in 1 .. W(F, h - 1) /\ e = F[h - 1][off[p] + s]
        <4> HIDE DEF N, root
        <4> QED
          BY <1>1, <1>5, <2>2, <3>1, EntryAt
      <3>3. T[h - 1][off[p] + s] = e.rid
        BY <1>1, <3>2 DEF Tree, Topped
      <3>4. T[h - 1] \in Seq(Nat \X Nat) /\ W(T, h - 1) = W(F, h - 1)
        <4> HIDE DEF N, root
        <4> QED
          BY <1>1, <3>1, TreeTypes
      <3>5. T[h - 1][off[p] + s] \in Nat \X Nat
        BY <3>2, <3>4, Elem DEF W
      <3> QED
        BY <3>3, <3>5
    <2> QED
      BY <2>3, <2>4
  <1> QED
    BY <1>5, <1>6

\* What TreeExact says of a file.
ExactAt(f) ==
  LET levels == 0 .. f.hdr.height - 1
      nodes(i) == ToSet(Level(f)[i])
  IN  /\ UNION {nodes(i) : i \in levels} = DOMAIN f.node
      /\ \A i \in levels : IsInjective(Level(f)[i])
      /\ \A i, j \in levels : i # j => nodes(i) \cap nodes(j) = {}
      /\ f.hdr.numPages = 1 + Cardinality(DOMAIN f.node)
      /\ \A i \in levels \ {f.hdr.height - 1} : \A p \in nodes(i) :
           \A e \in ToSet(f.node[p].entries) : e.key = MaxKey(f.node[e.rid[1]])

\* A level has the pages with its number.
LEMMA LevelSet ==
  ASSUME NEW f, NEW h, NEW lv, NEW at, NEW off, NEW F, NEW T, Holds(f, h, lv, at, off, F, T),
         NEW i \in 0 .. h - 1
  PROVE  /\ ToSet(Level(f)[i]) = {p \in DOMAIN f.node : lv[p] = i}
         /\ IsInjective(Level(f)[i])
  <1> DEFINE N == f.node
             root == f.hdr.rootPage
  <1>1. Tree(N, root, h, lv, at, off, F, T) /\ Leveled(f, root, h, F)
    BY LevelIs DEF Holds
  <1>2. Level(f)[i] = PagesOf(root, F, i)
    BY <1>1 DEF Leveled
  <1>3. /\ \A j \in 1 .. Width(F, i) :
              /\ PageAt(root, F, i, j) \in DOMAIN N
              /\ lv[PageAt(root, F, i, j)] = i /\ at[PageAt(root, F, i, j)] = j
        /\ \A r \in DOMAIN N : lv[r] = i => at[r] \in 1 .. Width(F, i) /\ PageAt(root, F, i, at[r]) = r
    <2> HIDE DEF N, root
    <2> QED
      BY <1>1, PageAtIs
  <1> HIDE DEF N, root
  <1>4. ToSet(PagesOf(root, F, i)) = {p \in DOMAIN N : lv[p] = i}
    <2>1. ToSet(PagesOf(root, F, i)) = {PageAt(root, F, i, j) : j \in 1 .. Width(F, i)}
      BY DEF PagesOf, ToSet
    <2>2. \A j \in 1 .. Width(F, i) : PageAt(root, F, i, j) \in {p \in DOMAIN N : lv[p] = i}
      BY <1>3
    <2>3. \A r \in {p \in DOMAIN N : lv[p] = i} : \E j \in 1 .. Width(F, i) : r = PageAt(root, F, i, j)
      <3> TAKE r \in {p \in DOMAIN N : lv[p] = i}
      <3>1. r \in DOMAIN N /\ lv[r] = i
        OBVIOUS
      <3>2. at[r] \in 1 .. Width(F, i) /\ PageAt(root, F, i, at[r]) = r
        BY <1>3, <3>1
      <3> QED
        BY <3>2
    <2> QED
      BY <2>1, <2>2, <2>3
  <1>5. IsInjective(PagesOf(root, F, i))
    BY <1>3 DEF PagesOf, IsInjective
  <1> QED
    BY <1>2, <1>4, <1>5 DEF N

\* Such a file is exact.
LEMMA HoldsExact ==
  ASSUME NEW f, Packed(f), NEW h, NEW lv, NEW at, NEW off, NEW F, NEW T, Holds(f, h, lv, at, off, F, T)
  PROVE  ExactAt(f)
  <1> DEFINE N == f.node
             root == f.hdr.rootPage
             nodes(i) == ToSet(Level(f)[i])
  <1>1. Tree(N, root, h, lv, at, off, F, T) /\ h = f.hdr.height
    BY DEF Holds
  <1>2. h \in Nat /\ h >= 1 /\ \A r \in DOMAIN N : lv[r] \in 0 .. h - 1
    BY <1>1, TreeTypes
  <1>3. \A i \in 0 .. h - 1 : nodes(i) = {p \in DOMAIN N : lv[p] = i} /\ IsInjective(Level(f)[i])
    BY LevelSet
  <1>4. UNION {nodes(i) : i \in 0 .. h - 1} = DOMAIN N
    <2> HIDE DEF nodes, N
    <2> QED
      BY <1>2, <1>3
  <1>5. \A i, j \in 0 .. h - 1 : i # j => nodes(i) \cap nodes(j) = {}
    <2> HIDE DEF nodes, N
    <2> QED
      BY <1>3
  <1>6. f.hdr.numPages = 1 + Cardinality(DOMAIN N)
    BY DEF Packed
  <1>7. ASSUME NEW i \in (0 .. h - 1) \ {h - 1}, NEW p \in nodes(i), NEW e \in ToSet(N[p].entries)
        PROVE  e.key = MaxKey(N[e.rid[1]])
    <2>1. p \in DOMAIN N /\ lv[p] = i /\ lv[p] < h - 1
      <3>1. i < h - 1
        BY <1>2, <1>7
      <3> HIDE DEF nodes, N
      <3> QED
        BY <1>3, <1>7, <3>1
    <2>2. N[p].entries \in Seq(EntrySet) /\ K(N, p) = Len(N[p].entries)
      <3>1. N[p] \in NodeSet
        <4> HIDE DEF N, root
        <4> QED
          BY <1>1, <2>1, TreeTypes
      <3> QED
        BY <3>1, IsNode DEF K
    <2>3. PICK s \in 1 .. K(N, p) : e = N[p].entries[s]
      BY <2>2 DEF ToSet
    <2> DEFINE c == N[p].entries[s].rid[1]
    <2>4. N[p].entries[s] = Entry(MaxKey(N[c]), Child(c))
      <3> HIDE DEF N, root
      <3> QED
        BY <1>1, <2>1, <2>3, ChildAt
    <2>5. c = e.rid[1]
      BY <2>3
    <2> HIDE DEF c, N
    <2>6. e.key = MaxKey(N[c])
      BY <2>3, <2>4 DEF Entry
    <2> QED
      BY <2>5, <2>6
  <1> QED
    BY <1>1, <1>3, <1>4, <1>5, <1>6, <1>7 DEF ExactAt

\* A level has no more pages than the file.
LEMMA WidthBound ==
  ASSUME NEW f, Packed(f), NEW h, NEW lv, NEW at, NEW off, NEW F, NEW T, Holds(f, h, lv, at, off, F, T),
         NEW i \in 0 .. h - 1
  PROVE  Width(F, i) <= Cardinality(DOMAIN f.node)
  <1> DEFINE N == f.node
             root == f.hdr.rootPage
             n == Width(F, i)
             m == Cardinality(DOMAIN N)
             g == [j \in 1 .. n |-> PageAt(root, F, i, j)]
  <1>1. Tree(N, root, h, lv, at, off, F, T)
    BY DEF Holds
  <1>2. n \in Nat /\ n >= 1
    <2> HIDE DEF N, root
    <2> QED
      BY <1>1, WidthNat, NoLevelEmpty
  <1>3. DOMAIN N = 1 .. m /\ m \in Nat
    BY DEF Packed
  <1>4. \A j \in 1 .. n : PageAt(root, F, i, j) \in DOMAIN N /\ at[PageAt(root, F, i, j)] = j
    <2> HIDE DEF N, root
    <2> QED
      BY <1>1, PageAtIs
  <1> HIDE DEF N, root, n, m
  <1>5. g \in Injection(1 .. n, 1 .. m)
    <2>1. g \in [1 .. n -> 1 .. m]
      BY <1>3, <1>4
    <2>2. \A a, b \in 1 .. n : g[a] = g[b] => a = b
      BY <1>4
    <2> QED
      BY <2>1, <2>2 DEF Injection, IsInjective
  <1>6. IsFiniteSet(1 .. n) /\ Cardinality(1 .. n) = n /\ IsFiniteSet(1 .. m) /\ Cardinality(1 .. m) = m
    BY <1>2, <1>3, FS_Interval
  <1>7. Cardinality(1 .. n) <= Cardinality(1 .. m)
    <2> HIDE DEF g
    <2> QED
      BY <1>5, <1>6, FS_Injection
  <1> QED
    BY <1>6, <1>7 DEF n, m, N

\* The right links lead through a level.
GoesRight(f, root, F, i, x) ==
  RightFrom(f, PageAt(root, F, i, x))
    = [j \in 1 .. Width(F, i) - x + 1 |-> PageAt(root, F, i, x + j - 1)]

\* The right links from a node of a level are the rest of the level.
LEMMA RightIs ==
  ASSUME NEW f, Packed(f), NEW h, NEW lv, NEW at, NEW off, NEW F, NEW T, Holds(f, h, lv, at, off, F, T),
         NEW i \in 0 .. h - 1, NEW x \in 1 .. Width(F, i)
  PROVE  GoesRight(f, f.hdr.rootPage, F, i, x)
  <1> DEFINE N == f.node
             root == f.hdr.rootPage
             n == Width(F, i)
             m == Cardinality(DOMAIN N)
             P(j) == PageAt(root, F, i, j)
             p == P(x)
             Solves(g) == g = [j \in 1 .. m |-> IF j = 1 THEN p
                                 ELSE IF g[j - 1] = NoPage THEN NoPage ELSE N[g[j - 1]].right]
             way == CHOOSE g : Solves(g)
             y(j) == IF j <= n - x + 1 THEN P(x + j - 1) ELSE NoPage
             flat == [j \in 1 .. m |-> y(j)]
  <1>1. Tree(N, root, h, lv, at, off, F, T)
    BY DEF Holds
  <1>2. n \in Nat /\ n >= 1 /\ x \in Nat /\ x >= 1 /\ x <= n /\ m \in Nat /\ n <= m
    <2>1. n \in Nat
      <3> HIDE DEF N, root
      <3> QED
        BY <1>1, WidthNat
    <2>2. m \in Nat
      BY DEF Packed
    <2>3. n <= m
      BY WidthBound
    <2> HIDE DEF n, m
    <2> QED
      BY <2>1, <2>2, <2>3 DEF n
  <1>3. \A j \in 1 .. n : P(j) \in DOMAIN N /\ lv[P(j)] = i /\ at[P(j)] = j
    <2> HIDE DEF N, root
    <2> QED
      BY <1>1, PageAtIs
  <1>4. \A j \in 1 .. n : P(j) # NoPage
    BY <1>3 DEF Packed, IsIndex, NoPage
  <1>5. \A j \in 1 .. n : N[P(j)].right = IF j = n THEN NoPage ELSE P(j + 1)
    <2> TAKE j \in 1 .. n
    <2>1. CASE j = n
      BY <1>1, <1>3, <2>1 DEF Tree, Chained
    <2>2. CASE j # n
      <3>1. j + 1 \in 1 .. n
        BY <1>2, <2>2
      <3>2. N[P(j)].right \in DOMAIN N /\ lv[N[P(j)].right] = i /\ at[N[P(j)].right] = j + 1
        BY <1>1, <1>3, <2>2 DEF Tree, Chained
      <3>3. P(j + 1) \in DOMAIN N /\ lv[P(j + 1)] = i /\ at[P(j + 1)] = j + 1
        BY <1>3, <3>1
      <3>4. N[P(j)].right = P(j + 1)
        <4> HIDE DEF N, root, P
        <4> QED
          BY <1>1, <3>2, <3>3, SamePlace
      <3> QED
        BY <2>2, <3>4
    <2> QED
      BY <2>1, <2>2
  <1>6. RightFrom(f, p) = [j \in {l \in DOMAIN way : way[l] # NoPage} |-> way[j]]
    BY DEF RightFrom, Along
  <1> HIDE DEF N, root, n, m, P
  <1>7. y(1) = p
    BY <1>2
  <1>8. ASSUME NEW j \in 1 .. m, j # 1
        PROVE  j - 1 \in 1 .. m /\ y(j) = IF y(j - 1) = NoPage THEN NoPage ELSE N[y(j - 1)].right
    <2>1. j - 1 \in 1 .. m /\ j \in Nat
      BY <1>2, <1>8
    <2>2. CASE j <= n - x + 1
      <3>1. j - 1 <= n - x + 1 /\ x + j - 1 - 1 \in 1 .. n /\ x + (j - 1) - 1 = x + j - 1 - 1
            /\ x + j - 1 - 1 # n /\ (x + j - 1 - 1) + 1 = x + j - 1
        BY <1>2, <1>8, <2>1, <2>2
      <3>2. y(j - 1) = P(x + j - 1 - 1)
        BY <3>1
      <3>3. y(j) = P(x + j - 1)
        BY <2>2
      <3> HIDE DEF y
      <3>4. N[P(x + j - 1 - 1)].right = P(x + j - 1) /\ P(x + j - 1 - 1) # NoPage
        BY <1>4, <1>5, <3>1
      <3> QED
        BY <2>1, <3>2, <3>3, <3>4
    <2>3. CASE j = n - x + 2
      <3>1. j - 1 <= n - x + 1 /\ x + (j - 1) - 1 = n /\ n \in 1 .. n /\ ~(j <= n - x + 1)
        BY <1>2, <1>8, <2>1, <2>3
      <3>2. y(j - 1) = P(n)
        BY <3>1
      <3>3. y(j) = NoPage
        BY <3>1
      <3> HIDE DEF y
      <3>4. N[P(n)].right = NoPage /\ P(n) # NoPage
        BY <1>4, <1>5, <3>1
      <3> QED
        BY <2>1, <3>2, <3>3, <3>4
    <2>4. CASE j > n - x + 2
      <3>1. ~(j - 1 <= n - x + 1) /\ ~(j <= n - x + 1)
        BY <1>2, <1>8, <2>1, <2>4
      <3> QED
        BY <2>1, <3>1
    <2> QED
      BY <1>2, <2>1, <2>2, <2>3, <2>4
  <1> HIDE DEF y
  <1>9. Solves(flat)
    BY <1>7, <1>8
  <1>a. Solves(way)
    <2> HIDE DEF Solves, flat
    <2> QED
      BY <1>9
  <1> HIDE DEF way
  <1>b. /\ DOMAIN way = 1 .. m
        /\ \A j \in 1 .. m : way[j] = IF j = 1 THEN p
                               ELSE IF way[j - 1] = NoPage THEN NoPage ELSE N[way[j - 1]].right
    BY <1>a
  <1> DEFINE Bad == {j \in Nat : j \in 1 .. m /\ way[j] # y(j)}
  <1>c. ASSUME Bad # {}
        PROVE  FALSE
    <2>1. PICK j \in Bad : \A l \in Bad : j <= l
      <3>1. Bad \in SUBSET Nat
        OBVIOUS
      <3> HIDE DEF Bad
      <3> QED
        BY <1>c, <3>1, LeastMember
    <2>2. j \in 1 .. m /\ way[j] # y(j) /\ j \in Nat
      BY <2>1
    <2>3. j # 1
      BY <1>7, <1>b, <2>2
    <2>4. way[j - 1] = y(j - 1)
      <3>1. j - 1 \in Nat /\ j - 1 \in 1 .. m /\ ~(j <= j - 1)
        BY <1>2, <2>2, <2>3
      <3>2. j - 1 \notin Bad
        <4> HIDE DEF Bad
        <4> QED
          BY <2>1, <3>1
      <3> QED
        BY <3>1, <3>2
    <2> QED
      BY <1>8, <1>b, <2>2, <2>3, <2>4
  <1>d. \A j \in 1 .. m : way[j] = y(j)
    BY <1>2, <1>c
  <1>e. {l \in DOMAIN way : way[l] # NoPage} = 1 .. n - x + 1
    <2>1. \A l \in 1 .. m : y(l) # NoPage <=> l <= n - x + 1
      <3> TAKE l \in 1 .. m
      <3>1. l <= n - x + 1 => x + l - 1 \in 1 .. n
        BY <1>2
      <3> QED
        BY <1>4, <3>1 DEF y
    <2>2. \A l \in 1 .. n - x + 1 : l \in 1 .. m
      BY <1>2
    <2>3. \A l \in 1 .. m : l <= n - x + 1 => l \in 1 .. n - x + 1
      BY <1>2
    <2> QED
      BY <1>b, <1>d, <2>1, <2>2, <2>3
  <1>f. \A l \in 1 .. n - x + 1 : way[l] = P(x + l - 1)
    <2>1. \A l \in 1 .. n - x + 1 : l \in 1 .. m /\ l <= n - x + 1
      BY <1>2
    <2> QED
      BY <1>d, <2>1 DEF y
  <1> QED
    BY <1>6, <1>e, <1>f DEF P, n, root, GoesRight

\* What LeavesChained says of a file.
ChainedAt(f) ==
  /\ \A i \in 0 .. f.hdr.height - 1 :
       LET ps == Level(f)[i]
       IN  /\ RightFrom(f, Head(ps)) = ps
           /\ f.node[Head(ps)].left = NoPage
           /\ \A j \in 2 .. Len(ps) : \E l \in 1 .. j - 1 : f.node[ps[j]].left = ps[l]
  /\ LET es == Contents(f) IN \A i, j \in DOMAIN es : i < j => es[i].key <= es[j].key

\* A file with a tree is chained.
LEMMA HoldsChained ==
  ASSUME NEW f, Packed(f), NEW h, NEW lv, NEW at, NEW off, NEW F, NEW T, Holds(f, h, lv, at, off, F, T)
  PROVE  ChainedAt(f)
  <1> DEFINE N == f.node
             root == f.hdr.rootPage
  <1>1. Tree(N, root, h, lv, at, off, F, T) /\ h = f.hdr.height
    BY DEF Holds
  <1>2. h \in Nat /\ h >= 1 /\ h - 1 \in 0 .. h - 1
    <2>1. h \in Nat /\ h >= 1
      BY <1>1, TreeTypes
    <2> QED
      BY <2>1
  <1>3. Leveled(f, root, h, F)
    BY LevelIs
  <1>4. ASSUME NEW i \in 0 .. h - 1, NEW ps, ps = Level(f)[i]
        PROVE  /\ RightFrom(f, Head(ps)) = ps
               /\ N[Head(ps)].left = NoPage
               /\ \A j \in 2 .. Len(ps) : \E l \in 1 .. j - 1 : N[ps[j]].left = ps[l]
    <2> DEFINE n == Width(F, i)
               P(j) == PageAt(root, F, i, j)
    <2>1. n \in Nat /\ n >= 1
      <3> HIDE DEF N, root
      <3> QED
        BY <1>1, WidthNat, NoLevelEmpty
    <2>2. ps = [j \in 1 .. n |-> P(j)]
      BY <1>3, <1>4 DEF Leveled, PagesOf
    <2>3. \A j \in 1 .. n : P(j) \in DOMAIN N /\ lv[P(j)] = i /\ at[P(j)] = j
      <3> HIDE DEF N, root
      <3> QED
        BY <1>1, PageAtIs
    <2>r. \A r \in DOMAIN N : lv[r] = i => at[r] \in 1 .. n /\ P(at[r]) = r
      <3> HIDE DEF N, root
      <3> QED
        BY <1>1, PageAtIs
    <2>t. \A r \in DOMAIN N : at[r] \in Nat /\ at[r] >= 1
      <3> HIDE DEF N, root
      <3> QED
        BY <1>1, TreeTypes
    <2>4. Head(ps) = P(1) /\ Len(ps) = n
      <3> HIDE DEF P, n
      <3>1. ps \in Seq({P(j) : j \in 1 .. n}) /\ Len(ps) = n /\ 1 \in 1 .. n
        BY <2>1, <2>2
      <3> QED
        BY <2>1, <2>2, <3>1
    <2>5. RightFrom(f, P(1)) = ps
      <3>1. 1 \in 1 .. n /\ n - 1 + 1 = n /\ \A j \in 1 .. n : 1 + j - 1 = j
        BY <2>1
      <3>2. RightFrom(f, P(1)) = [j \in 1 .. n - 1 + 1 |-> P(1 + j - 1)]
        <4>1. GoesRight(f, root, F, i, 1)
          BY <3>1, RightIs
        <4> QED
          BY <4>1 DEF GoesRight
      <3> HIDE DEF P, n
      <3> QED
        BY <2>2, <3>1, <3>2
    <2>6. \A r \in DOMAIN N : lv[r] = i =>
            IF at[r] = 1 THEN N[r].left = NoPage
            ELSE N[r].left \in DOMAIN N /\ lv[N[r].left] = i /\ at[N[r].left] < at[r]
      BY <1>1 DEF Tree, Chained
    <2> HIDE DEF P, n, N
    <2>7. N[P(1)].left = NoPage
      <3>1. 1 \in 1 .. n
        BY <2>1
      <3> QED
        BY <2>3, <2>6, <3>1
    <2>8. ASSUME NEW j \in 2 .. n
          PROVE  \E l \in 1 .. j - 1 : N[P(j)].left = P(l)
      <3>1. j \in 1 .. n /\ j # 1
        BY <2>1
      <3> DEFINE q == N[P(j)].left
      <3>2. q \in DOMAIN N /\ lv[q] = i /\ at[q] < j
        BY <2>3, <2>6, <3>1
      <3>3. at[q] \in 1 .. n /\ P(at[q]) = q
        BY <2>r, <3>2
      <3>4. at[q] \in 1 .. j - 1
        BY <2>1, <2>t, <3>1, <3>2
      <3> QED
        BY <3>3, <3>4
    <2>9. ASSUME NEW j \in 2 .. Len(ps)
          PROVE  \E l \in 1 .. j - 1 : N[ps[j]].left = ps[l]
      <3>1. j \in 2 .. n /\ j \in 1 .. n
        BY <2>1, <2>4
      <3>2. PICK l \in 1 .. j - 1 : N[P(j)].left = P(l)
        BY <2>8, <3>1
      <3>3. l \in 1 .. n
        BY <2>1, <3>1
      <3> QED
        BY <2>2, <3>1, <3>2, <3>3
    <2> QED
      BY <2>4, <2>5, <2>7, <2>9
  <1>5. \A i, j \in DOMAIN Contents(f) : i < j => Contents(f)[i].key <= Contents(f)[j].key
    <2>1. Contents(f) = F[h - 1]
      BY ContentsIs
    <2>2. F[h - 1] \in Seq(EntrySet) /\ W(F, h - 1) \in Nat
      BY <1>1, <1>2, TreeTypes
    <2>3. DOMAIN F[h - 1] = 1 .. W(F, h - 1)
      BY <2>2 DEF W
    <2>4. \A j, l \in 1 .. W(F, h - 1) : j <= l => F[h - 1][j].key <= F[h - 1][l].key
      BY <1>1, <1>2, KeyAt
    <2>5. \A j, l \in 1 .. W(F, h - 1) : j < l => j <= l
      BY <2>2
    <2> QED
      BY <2>1, <2>3, <2>4, <2>5
  <1> QED
    BY <1>1, <1>4, <1>5 DEF ChainedAt
=============================================================================

----------------------------- MODULE RecordFile -----------------------------
(***************************************************************************)
(* The operations of RM_FileHandle as functions from a record file to a    *)
(* record file.  A record file is a record that holds the handle and the   *)
(* paged file under it:                                                    *)
(*                                                                         *)
(*   hdr          firstFree and numPages of the handle's header            *)
(*   bHdrChanged  whether CloseRMFile will write that header               *)
(*   diskHdr      the header in page 0 of the file                         *)
(*   slots        GetNumSlots(): slots of every page                       *)
(*   pages        pages 1, 2, ... of the file                              *)
(*                                                                         *)
(* and a page is its header and its slots:                                 *)
(*                                                                         *)
(*   nextFree, numFreeSlots                                                *)
(*   rec          the record in each slot, Free where the bit of           *)
(*                freeSlotMap is clear (its bytes are never read again)    *)
(*                                                                         *)
(* The pages live in a PF_FileHandle, which keeps what is written to it    *)
(* (PagedFile).  Its calls succeed here: a page call of RM_FileHandle that *)
(* fails returns before anything has changed.  A closed file is one whose  *)
(* handle holds what OpenRMFile would read.                                *)
(***************************************************************************)
EXTENDS Integers, Sequences, FiniteSets

CONSTANTS
  Vals,   \* what a record can hold
  Null,   \* a record of zero bytes, which is how a NULL is stored
  Free    \* no record

ASSUME RecordAssumption == Null \in Vals /\ Free \notin Vals

RM_PAGE_LIST_END   == -1
RM_PAGE_FULLY_USED == -2

\* Return codes, and what a call returns: a code and the file it leaves.
OK       == "OK"
INVALID  == "START_RM_ERR - 7"
NOSUCH   == "START_RM_WARN + 1"
FULL     == "-1"
BADHEAD  == "PF_INVALIDPAGE"
ABORT    == "assert"

Return(code, f) == [rc |-> code, file |-> f]

\* GetNumSlots for records of len bytes in a page of 256 * len bytes: 24 is
\* sizeof(RM_PageHdr), and the bitmap takes one bit per slot.
NumChars(slots) == (slots + 7) \div 8
Fits(slots, len) == slots * len <= 256 * len - 24 - NumChars(slots)
GetNumSlots(len) ==
  CHOOSE n \in 0 .. (256 * len - 24) \div len :
    Fits(n, len) /\ \A m \in n + 1 .. (256 * len - 24) \div len : ~Fits(m, len)

----------------------------------------------------------------------------
NewFile(slots) ==
  LET h == [firstFree |-> RM_PAGE_LIST_END, numPages |-> 1]
  IN  [hdr |-> h, bHdrChanged |-> FALSE, diskHdr |-> h, slots |-> slots, pages |-> <<>>]

\* Mutant: a changed header is not written.
CloseRM_KeepsHeader(f) == [f EXCEPT !.hdr = f.diskHdr, !.bHdrChanged = FALSE]

CloseRM(f) ==
  LET h == IF f.bHdrChanged THEN f.hdr ELSE f.diskHdr
  IN  [f EXCEPT !.hdr = h, !.diskHdr = h, !.bHdrChanged = FALSE]

SlotsOf(f)    == 0 .. f.slots - 1
FreeSlots(pg) == {s \in DOMAIN pg.rec : pg.rec[s] = Free}
EmptyPage(slots, next) ==
  [nextFree     |-> next,
   numFreeSlots |-> slots,
   rec          |-> [s \in 0 .. slots - 1 |-> Free]]

\* Page 0 passes the test too, but no caller has an rid in it.
IsValidRID(f, rid) == rid[1] \in 1 .. f.hdr.numPages - 1 /\ rid[2] \in SlotsOf(f)
InPages(f, rid)    == rid[1] \in DOMAIN f.pages /\ rid[2] \in SlotsOf(f)
Rec(f, rid)        == f.pages[rid[1]].rec[rid[2]]
Used(f)            == {rid \in (DOMAIN f.pages) \X SlotsOf(f) : Rec(f, rid) # Free}
HasRec(f, rid)     == IsValidRID(f, rid) /\ Rec(f, rid) # Free

\* GetNumRecs counts by numFreeSlots, not by the bitmaps.
GetNumRecs(f) ==
  LET cnt[n \in 0 .. Len(f.pages)] ==
        IF n = 0 THEN 0 ELSE cnt[n - 1] + f.slots - f.pages[n].numFreeSlots
  IN  cnt[Len(f.pages)]

----------------------------------------------------------------------------
\* GetNextFreePage: the head of the chain of free pages, unless there is none
\* or it turns out to be full; then a new page becomes the head.
AddPage(f) ==
  [f EXCEPT !.pages       = Append(f.pages, EmptyPage(f.slots, RM_PAGE_LIST_END)),
            !.hdr         = [firstFree |-> Len(f.pages) + 1, numPages |-> f.hdr.numPages + 1],
            !.bHdrChanged = TRUE]

BadHead(f) == f.hdr.firstFree # RM_PAGE_LIST_END /\ f.hdr.firstFree \notin DOMAIN f.pages

\* Mutant: the head of the chain is taken without a look at its count.
NeedsPage_TrustsHead(f) == f.hdr.firstFree = RM_PAGE_LIST_END

NeedsPage(f) ==
  \/ f.hdr.firstFree = RM_PAGE_LIST_END
  \/ f.pages[f.hdr.firstFree].numFreeSlots = 0
GetNextFreePage(f) == IF NeedsPage(f) THEN AddPage(f) ELSE f

\* InsertRec stores v in the first free slot of that page, and takes the page
\* off the chain when it was the last one.
\* Mutant: a page that becomes full leaves its link in the header.
Fill_KeepsLink(f, p, s, v) ==
  LET pg == f.pages[p]
  IN  [f EXCEPT
         !.pages[p] = [nextFree |-> pg.nextFree, numFreeSlots |-> pg.numFreeSlots - 1,
                       rec |-> [pg.rec EXCEPT ![s] = v]],
         !.hdr.firstFree = IF pg.numFreeSlots = 1 THEN RM_PAGE_FULLY_USED ELSE p]

Fill(f, p, s, v) ==
  LET pg   == f.pages[p]
      left == pg.numFreeSlots - 1
      new  == [nextFree     |-> IF left = 0 THEN RM_PAGE_FULLY_USED ELSE pg.nextFree,
               numFreeSlots |-> left,
               rec          |-> [pg.rec EXCEPT ![s] = v]]
  IN  [f EXCEPT
         !.pages = [f.pages EXCEPT ![p] = new],
         !.hdr   = [f.hdr EXCEPT !.firstFree = IF left = 0 THEN pg.nextFree ELSE p]]

First(S) == CHOOSE s \in S : \A t \in S : s <= t
InsertRid(f) ==
  LET g == GetNextFreePage(f)
  IN  <<g.hdr.firstFree, First(FreeSlots(g.pages[g.hdr.firstFree]))>>
\* Mutant: the count of free slots is taken for the number of the next one.
InsertRec_ByCount(f, v) ==
  LET g == GetNextFreePage(f)
      p == g.hdr.firstFree
  IN  IF BadHead(f) \/ g.pages[p].numFreeSlots = 0 THEN Return(FULL, g)
      ELSE Return(OK, Fill(g, p, g.pages[p].numFreeSlots - 1, v))

InsertRec(f, v) ==
  LET g == GetNextFreePage(f)
      p == g.hdr.firstFree
      S == FreeSlots(g.pages[p])
  IN  IF BadHead(f) THEN Return(BADHEAD, f)
      ELSE IF S = {} THEN Return(FULL, g)
      ELSE Return(OK, Fill(g, p, First(S), v))

\* DeleteRec puts a page that was full back at the head of the chain; the
\* header is not marked changed.
\* Mutants: the count is not raised; b.set() for b.set(slot, 0) clears them all.
Clear_KeepsCount(f, p, s) ==
  LET pg == f.pages[p]
  IN  [f EXCEPT !.pages[p] = [pg EXCEPT !.rec = [pg.rec EXCEPT ![s] = Free]]]
Clear_WholePage(f, p, s) ==
  [f EXCEPT !.pages[p] = EmptyPage(f.slots, f.hdr.firstFree),
            !.hdr = [f.hdr EXCEPT !.firstFree = p]]

Clear(f, p, s) ==
  LET pg   == f.pages[p]
      full == pg.numFreeSlots = 0
      new  == [nextFree     |-> IF full THEN f.hdr.firstFree ELSE pg.nextFree,
               numFreeSlots |-> pg.numFreeSlots + 1,
               rec          |-> [pg.rec EXCEPT ![s] = Free]]
  IN  [f EXCEPT
         !.pages = [f.pages EXCEPT ![p] = new],
         !.hdr   = [f.hdr EXCEPT !.firstFree = IF full THEN p ELSE f.hdr.firstFree]]

\* Mutant: the bit is not looked at.
DeleteRec_NoTest(f, rid) ==
  IF ~IsValidRID(f, rid) THEN Return(INVALID, f) ELSE Return(OK, Clear(f, rid[1], rid[2]))

DeleteRec(f, rid) ==
  IF ~IsValidRID(f, rid) THEN Return(INVALID, f)
  ELSE IF Rec(f, rid) = Free THEN Return(NOSUCH, f)
  ELSE Return(OK, Clear(f, rid[1], rid[2]))

\* UpdateRec stores v in the slot and sets its bit if it was clear, without
\* counting it.
UpdateRec(f, rid, v) ==
  IF ~IsValidRID(f, rid) THEN Return(INVALID, f)
  ELSE LET pg  == f.pages[rid[1]]
           new == [pg EXCEPT !.rec = [pg.rec EXCEPT ![rid[2]] = v]]
       IN  Return(OK, [f EXCEPT !.pages = [f.pages EXCEPT ![rid[1]] = new]])

----------------------------------------------------------------------------
\* ExpandPage up to page n: pages that are on no chain; nextFree of their
\* header is never assigned, g is what it happens to hold.
ExpandPage(f, n, g) ==
  LET more == IF n > Len(f.pages) THEN n - Len(f.pages) ELSE 0
  IN  [f EXCEPT !.pages = f.pages \o [i \in 1 .. more |-> EmptyPage(f.slots, g)],
                !.hdr   = [f.hdr EXCEPT !.numPages = f.hdr.numPages + more],
                !.bHdrChanged = TRUE]

\* CopyNullFromOthers: every record of rhs is stored, at the same rid, by
\* UpdateRec; a slot this file does not have fails an assertion.
CopyNullFromOthers(f, rhs, g) ==
  LET e == ExpandPage(f, Len(rhs.pages), g)
      Copied(p) == [s \in SlotsOf(e) |->
                      IF <<p, s>> \in Used(rhs) THEN Rec(rhs, <<p, s>>) ELSE Rec(e, <<p, s>>)]
  IN  IF e.hdr.numPages # rhs.hdr.numPages \/ ~ \A rid \in Used(rhs) : IsValidRID(e, rid)
      THEN Return(ABORT, e)
      ELSE Return(OK, [e EXCEPT !.pages = [p \in DOMAIN e.pages |->
                                             [e.pages[p] EXCEPT !.rec = Copied(p)]]])

----------------------------------------------------------------------------
\* The types, for files of up to n data pages.
Links(n) == {RM_PAGE_LIST_END, RM_PAGE_FULLY_USED} \cup 1 .. n
Headers(n) == [firstFree : Links(n), numPages : 1 .. n + 1]
Pages(n, slots) ==
  [nextFree : Links(n), numFreeSlots : 0 .. slots, rec : [0 .. slots - 1 -> Vals \cup {Free}]]
IsFile(f, n) ==
  /\ DOMAIN f = {"hdr", "bHdrChanged", "diskHdr", "slots", "pages"}
  /\ f.hdr \in Headers(n)
  /\ f.bHdrChanged \in BOOLEAN
  /\ f.diskHdr \in Headers(n)
  /\ f.slots \in Nat
  /\ Len(f.pages) <= n
  /\ f.pages \in Seq(Pages(n, f.slots))
=============================================================================

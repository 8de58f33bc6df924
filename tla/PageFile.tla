----------------------------- MODULE PageFile -----------------------------
(***************************************************************************)
(* PF_FileHandle over its buffer pool: one paged file, the header in its   *)
(* first block, and the chain of free pages that starts in the header and  *)
(* runs through the nextFree field of the pages.  Each action is one       *)
(* method with every call it makes on the buffer manager.  The scans       *)
(* GetFirstPage, GetNextPage, GetPrevPage and GetLastPage change nothing   *)
(* but through GetThisPage: they are runs of Get steps.                    *)
(***************************************************************************)
EXTENDS BufferPool

CONSTANTS
  Vals,      \* what the caller can store in a page
  ZeroVal,   \* a page body of zero bytes
  MaxPins    \* bound: pins of one page

PF_PAGE_LIST_END == -1
PF_PAGE_USED     == -2
HDR              == <<-2, Absent>>   \* a fault on the header block

Headers == [firstFree : PageNums \cup {PF_PAGE_LIST_END}, numPages : 0 .. MaxPages]
Links   == PageNums \cup {PF_PAGE_LIST_END, PF_PAGE_USED}

ASSUME PageFileAssumption ==
  /\ MaxPages > 0
  /\ MaxPins \in Nat
  /\ ZeroVal \in Vals
  /\ Data = [nextFree : Links, val : Vals]
  /\ Zero = [nextFree |-> 0, val |-> ZeroVal]

VARIABLES
  exists,        \* the file exists
  bFileOpen,
  hdr,           \* the header in the handle
  bHdrChanged,
  diskHdr,       \* the header in the file
  pool           \* the buffer pool, and the pages of the file

vars == <<exists, bFileOpen, hdr, bHdrChanged, diskHdr, pool>>

NewHdr  == [firstFree |-> PF_PAGE_LIST_END, numPages |-> 0]
NoFile  == [n \in PageNums |-> Absent]

Init ==
  /\ exists = FALSE
  /\ bFileOpen = FALSE
  /\ hdr = NewHdr
  /\ bHdrChanged = FALSE
  /\ diskHdr = NewHdr
  /\ pool = NewPool(NoFile, Absent)

CreateFile ==
  /\ ~exists
  /\ exists' = TRUE
  /\ diskHdr' = NewHdr
  /\ UNCHANGED <<bFileOpen, hdr, bHdrChanged, pool>>

\* "fileName must exist and not be open".
DestroyFile ==
  /\ exists /\ ~bFileOpen
  /\ exists' = FALSE
  /\ diskHdr' = NewHdr
  /\ pool' = NewPool(NoFile, Absent)
  /\ UNCHANGED <<bFileOpen, hdr, bHdrChanged>>

OpenFile ==
  /\ exists /\ ~bFileOpen
  /\ hdr' = diskHdr
  /\ bHdrChanged' = FALSE
  /\ bFileOpen' = TRUE
  /\ pool' = NewPool(pool.disk, pool.tail)
  /\ UNCHANGED <<exists, diskHdr>>

\* The header first, then what f does to the pool; nothing at all when the
\* header is due and cannot be written.  A header that is then written in part
\* is not shown: bHdrChanged stays TRUE, so the whole of it is written before
\* the file can close, and nothing reads it before that.
HeaderFails(fault) == bHdrChanged /\ fault = HDR
WriteHeader ==
  /\ diskHdr' = IF bHdrChanged THEN hdr ELSE diskHdr
  /\ bHdrChanged' = FALSE

Flush(fault) ==
  /\ bFileOpen /\ ~HeaderFails(fault)
  /\ WriteHeader
  /\ pool' = FlushPages(pool, fault).pool
  /\ UNCHANGED <<exists, bFileOpen, hdr>>

ForceToDisk(P, fault) ==
  /\ bFileOpen /\ ~HeaderFails(fault)
  /\ WriteHeader
  /\ pool' = ForcePages(pool, P, fault).pool
  /\ UNCHANGED <<exists, bFileOpen, hdr>>

\* A flush; the file closes, and the pool is deleted, only if it returned 0.
CloseFile(fault) ==
  /\ bFileOpen /\ ~HeaderFails(fault)
  /\ WriteHeader
  /\ LET f == FlushPages(pool, fault)
     IN  /\ bFileOpen' = (f.rc # OK)
         /\ pool' = IF f.rc = OK THEN NewPool(f.pool.disk, f.pool.tail) ELSE f.pool
  /\ UNCHANGED <<exists, hdr>>

----------------------------------------------------------------------------
IsValidPageNum(n) == bFileOpen /\ n >= 0 /\ n < hdr.numPages

Frame(b, n) == b.data[Find(b, <<Fd, n>>)]
Update(b, n, d) == MarkDirty(Store(b, n, d), n)

Get(n, s, fault) ==
  /\ IsValidPageNum(n)
  /\ PinCount(pool, n) < MaxPins
  /\ LET g == GetPage(pool, n, TRUE, s, fault)
     IN  pool' = IF g.rc = OK /\ Frame(g.pool, n).nextFree # PF_PAGE_USED
                 THEN UnpinPage(g.pool, <<Fd, n>>)
                 ELSE g.pool
  /\ UNCHANGED <<exists, bFileOpen, hdr, bHdrChanged, diskHdr>>

\* Mutants: the link is read after it was overwritten; the reused page keeps
\* its old content.
Reuse_LinkLost(s, fault) ==
  LET n == hdr.firstFree
      g == GetPage(pool, n, TRUE, s, fault)
  IN  IF g.rc = OK
      THEN /\ hdr' = [hdr EXCEPT !.firstFree = PF_PAGE_USED]
           /\ bHdrChanged' = TRUE
           /\ pool' = Update(g.pool, n, [nextFree |-> PF_PAGE_USED, val |-> ZeroVal])
      ELSE /\ pool' = g.pool
           /\ UNCHANGED <<hdr, bHdrChanged>>
Reuse_OldContent(s, fault) ==
  LET n == hdr.firstFree
      g == GetPage(pool, n, TRUE, s, fault)
  IN  IF g.rc = OK
      THEN /\ hdr' = [hdr EXCEPT !.firstFree = Frame(g.pool, n).nextFree]
           /\ bHdrChanged' = TRUE
           /\ pool' = Update(g.pool, n, [Frame(g.pool, n) EXCEPT !.nextFree = PF_PAGE_USED])
      ELSE /\ pool' = g.pool
           /\ UNCHANGED <<hdr, bHdrChanged>>

\* The first page of the free list, or else a new page at the end.
Reuse(s, fault) ==
  LET n == hdr.firstFree
      g == GetPage(pool, n, TRUE, s, fault)
  IN  IF g.rc = OK
      THEN /\ hdr' = [hdr EXCEPT !.firstFree = Frame(g.pool, n).nextFree]
           /\ bHdrChanged' = TRUE
           /\ pool' = Update(g.pool, n, [nextFree |-> PF_PAGE_USED, val |-> ZeroVal])
      ELSE /\ pool' = g.pool
           /\ UNCHANGED <<hdr, bHdrChanged>>

\* Mutant: the header is not marked changed.
Extend_HdrClean(s, fault) ==
  LET n == hdr.numPages
      g == AllocatePage(pool, n, s, fault)
  IN  IF g.rc = OK
      THEN /\ hdr' = [hdr EXCEPT !.numPages = @ + 1]
           /\ pool' = Update(g.pool, n, [nextFree |-> PF_PAGE_USED, val |-> ZeroVal])
           /\ UNCHANGED bHdrChanged
      ELSE /\ pool' = g.pool
           /\ UNCHANGED <<hdr, bHdrChanged>>

Extend(s, fault) ==
  LET n == hdr.numPages
      g == AllocatePage(pool, n, s, fault)
  IN  IF g.rc = OK
      THEN /\ hdr' = [hdr EXCEPT !.numPages = @ + 1]
           /\ bHdrChanged' = TRUE
           /\ pool' = Update(g.pool, n, [nextFree |-> PF_PAGE_USED, val |-> ZeroVal])
      ELSE /\ pool' = g.pool
           /\ UNCHANGED <<hdr, bHdrChanged>>

Allocate(s, fault) ==
  /\ bFileOpen
  /\ \/ hdr.firstFree # PF_PAGE_LIST_END /\ Reuse(s, fault)
     \/ /\ hdr.firstFree = PF_PAGE_LIST_END
        /\ hdr.numPages < MaxPages
        /\ ~InBuffer(pool, <<Fd, hdr.numPages>>)
        /\ Extend(s, fault)
  /\ UNCHANGED <<exists, bFileOpen, diskHdr>>

\* Mutants: the page is linked to itself; a pinned page is disposed of.
Dispose_SelfLink(n, s, fault) ==
  /\ IsValidPageNum(n)
  /\ LET g == GetPage(pool, n, FALSE, s, fault)
         d == Frame(g.pool, n)
     IN  /\ g.rc = OK /\ d.nextFree = PF_PAGE_USED
         /\ pool' = UnpinPage(Update(g.pool, n, [d EXCEPT !.nextFree = n]), <<Fd, n>>)
         /\ hdr' = [hdr EXCEPT !.firstFree = n]
         /\ bHdrChanged' = TRUE
  /\ UNCHANGED <<exists, bFileOpen, diskHdr>>
Dispose_Pinned(n, s, fault) ==
  /\ IsValidPageNum(n)
  /\ LET g == GetPage(pool, n, TRUE, s, fault)
         d == Frame(g.pool, n)
     IN  /\ g.rc = OK /\ d.nextFree = PF_PAGE_USED
         /\ pool' = UnpinPage(Update(g.pool, n, [d EXCEPT !.nextFree = hdr.firstFree]),
                              <<Fd, n>>)
         /\ hdr' = [hdr EXCEPT !.firstFree = n]
         /\ bHdrChanged' = TRUE
  /\ UNCHANGED <<exists, bFileOpen, diskHdr>>

Dispose(n, s, fault) ==
  /\ IsValidPageNum(n)
  /\ LET g == GetPage(pool, n, FALSE, s, fault)
         d == Frame(g.pool, n)
     IN  IF g.rc = OK /\ d.nextFree = PF_PAGE_USED
         THEN /\ pool' = UnpinPage(Update(g.pool, n, [d EXCEPT !.nextFree = hdr.firstFree]),
                                   <<Fd, n>>)
              /\ hdr' = [hdr EXCEPT !.firstFree = n]
              /\ bHdrChanged' = TRUE
         ELSE /\ pool' = IF g.rc = OK THEN UnpinPage(g.pool, <<Fd, n>>) ELSE g.pool
              /\ UNCHANGED <<hdr, bHdrChanged>>
  /\ UNCHANGED <<exists, bFileOpen, diskHdr>>

\* A caller stores into a page it holds and calls MarkDirty.
Write(n, v) ==
  /\ IsValidPageNum(n)
  /\ Pinned(pool, <<Fd, n>>)
  /\ pool' = Update(pool, n, [Frame(pool, n) EXCEPT !.val = v])
  /\ UNCHANGED <<exists, bFileOpen, hdr, bHdrChanged, diskHdr>>

Unpin(n) ==
  /\ IsValidPageNum(n)
  /\ Pinned(pool, <<Fd, n>>)
  /\ pool' = UnpinPage(pool, <<Fd, n>>)
  /\ UNCHANGED <<exists, bFileOpen, hdr, bHdrChanged, diskHdr>>

\* Memory for the caller in a slot of the pool, which leaves one less for pages.
NewBlock(s, fault) ==
  /\ bFileOpen
  /\ pool' = AllocateBlock(pool, s, fault).pool
  /\ UNCHANGED <<exists, bFileOpen, hdr, bHdrChanged, diskHdr>>

DisposeBlock(s) ==
  /\ bFileOpen
  /\ Pinned(pool, <<MEMORY_FD, s>>)
  /\ pool' = UnpinPage(pool, <<MEMORY_FD, s>>)
  /\ UNCHANGED <<exists, bFileOpen, hdr, bHdrChanged, diskHdr>>

Next ==
  \/ CreateFile
  \/ DestroyFile
  \/ OpenFile
  \/ \E fault \in Faults \cup {HDR} :
       Flush(fault) \/ CloseFile(fault) \/ \E n \in PageNums : ForceToDisk({n}, fault)
  \/ \E fault \in Faults \cup {HDR} : ForceToDisk(PageNums, fault)
  \/ \E s \in Choices(pool), fault \in Faults :
       \/ Allocate(s, fault) \/ NewBlock(s, fault)
       \/ \E n \in PageNums : Get(n, s, fault) \/ Dispose(n, s, fault)
  \/ \E s \in Slots : DisposeBlock(s)
  \/ \E n \in PageNums, v \in Vals : Write(n, v)
  \/ \E n \in PageNums : Unpin(n)

Spec == Init /\ [][Next]_vars

----------------------------------------------------------------------------
TypeOK ==
  /\ exists \in BOOLEAN
  /\ bFileOpen \in BOOLEAN
  /\ hdr \in Headers
  /\ bHdrChanged \in BOOLEAN
  /\ diskHdr \in Headers
  /\ pool \in Pools

\* The header in force and the pages it counts, as a reader sees them.
Hdr       == IF bFileOpen THEN hdr ELSE diskHdr
FilePages == 0 .. Hdr.numPages - 1
UsedPages == {n \in FilePages : View(pool, n) # Absent /\ View(pool, n).nextFree = PF_PAGE_USED}

\* The page at each place of the free list.
FreeAt ==
  LET at[i \in 0 .. MaxPages] ==
        IF i = 0 THEN Hdr.firstFree
        ELSE IF at[i - 1] \in FilePages /\ View(pool, at[i - 1]) # Absent
             THEN View(pool, at[i - 1]).nextFree
             ELSE at[i - 1]
  IN  at

\* The free list holds every page of the file that is not in use, each once,
\* and ends: in the open file through the pool, and in the closed file on
\* disk, whatever was written in which order and which writes failed.
FreeListExact ==
  LET free == FilePages \ UsedPages
      k    == Cardinality(free)
  IN  /\ {FreeAt[i] : i \in 0 .. k - 1} = free
      /\ FreeAt[k] = PF_PAGE_LIST_END

\* Nothing the header counts is missing from the file once it is closed, and
\* an open handle whose header is not marked changed agrees with the file.
HeaderMatchesFile ==
  /\ ~bFileOpen => \A n \in PageNums : n < diskHdr.numPages <=> pool.disk[n] # Absent
  /\ bFileOpen /\ ~bHdrChanged => hdr = diskHdr

\* A page somebody holds is in use: it is never on the free list, so that no
\* second caller can be given it as a new page.
HeldPagesInUse ==
  \A n \in PageNums : Pinned(pool, <<Fd, n>>) => bFileOpen /\ n \in UsedPages

\* The handle is a paged file: buffering, the free list, the header and
\* failing I/O calls are invisible to its callers.
Contract == INSTANCE PagedFile WITH
  pages <- [n \in UsedPages |-> View(pool, n).val],
  open  <- bFileOpen,
  pins  <- [n \in PageNums |-> PinCount(pool, n)]
ImplementsPagedFile == Contract!Spec
=============================================================================

----------------------------- MODULE RecordMgr -----------------------------
(***************************************************************************)
(* RM_FileHandle as a state machine: one record file through creation,     *)
(* opening, inserts, deletes, updates and closing, in any order a caller   *)
(* may use.  ForcePages moves pages the PF layer would move anyway and     *)
(* never writes the header of the handle: it changes nothing here.         *)
(***************************************************************************)
EXTENDS RecordFile

CONSTANTS
  SlotsPerPage,   \* GetNumSlots() of the file
  MaxPages        \* bound: pages the file may grow to

ASSUME RecordMgrAssumption == SlotsPerPage \in Nat \ {0} /\ MaxPages \in Nat

VARIABLES
  file,        \* the record file
  bFileOpen

vars == <<file, bFileOpen>>

Init == file = NewFile(SlotsPerPage) /\ bFileOpen = FALSE

\* DestroyRMFile and CreateRMFile again, as ClearTable does.
Recreate ==
  /\ ~bFileOpen
  /\ file' = NewFile(SlotsPerPage)
  /\ UNCHANGED bFileOpen

Open ==
  /\ ~bFileOpen
  /\ bFileOpen' = TRUE
  /\ UNCHANGED file

Close ==
  /\ bFileOpen
  /\ file' = CloseRM(file)
  /\ bFileOpen' = FALSE

Insert(v) ==
  /\ bFileOpen
  /\ Len(GetNextFreePage(file).pages) <= MaxPages
  /\ file' = InsertRec(file, v).file
  /\ UNCHANGED bFileOpen

Rids == (1 .. MaxPages) \X (0 .. SlotsPerPage - 1)

Delete(rid) ==
  /\ bFileOpen
  /\ file' = DeleteRec(file, rid).file
  /\ UNCHANGED bFileOpen

\* A caller updates a record it has read: UpdateEntry gets it first.
Update(rid, v) ==
  /\ bFileOpen
  /\ HasRec(file, rid)
  /\ file' = UpdateRec(file, rid, v).file
  /\ UNCHANGED bFileOpen

Next ==
  \/ Recreate
  \/ Open
  \/ Close
  \/ \E v \in Vals : Insert(v)
  \/ \E rid \in Rids : Delete(rid) \/ \E v \in Vals : Update(rid, v)

Spec == Init /\ [][Next]_vars

----------------------------------------------------------------------------
\* The file keeps its type; the capacity of its pages never changes.
TypeOK == IsFile(file, MaxPages) /\ file.slots = SlotsPerPage /\ bFileOpen \in BOOLEAN

\* A page's count of free slots agrees with its bitmap, so that a page that
\* claims room has a clear bit (InsertRec returns -1 for good on a page that
\* has none) and GetNumRecs counts the records.
CountsExact ==
  \A p \in DOMAIN file.pages :
    file.pages[p].numFreeSlots = Cardinality(FreeSlots(file.pages[p]))

\* The header names a page of the file or none: the one in force, and the one
\* a reopened file starts from although InsertRec and DeleteRec change the
\* chain without marking the header changed.  Otherwise GetNextFreePage fails
\* on every later insert.
HeadInFile ==
  /\ ~BadHead(file)
  /\ file.diskHdr.firstFree \in {RM_PAGE_LIST_END} \cup DOMAIN file.pages
  /\ bFileOpen => file.hdr.numPages = Len(file.pages) + 1
  /\ ~bFileOpen => file.diskHdr.numPages = Len(file.pages) + 1

\* An insert works whenever the file can take another page.
InsertsSucceed == bFileOpen => \A v \in Vals : InsertRec(file, v).rc = OK

\* An insert never lands on a live record, whatever stale header the reopened
\* file started with: it adds one rid, valid at once, and moves no other record.
InsertAddsOne ==
  [][\A v \in Vals : Insert(v) =>
       \E rid \in Used(file') \ Used(file) :
         /\ IsValidRID(file', rid) /\ Rec(file', rid) = v
         /\ Used(file') = Used(file) \cup {rid}
         /\ \A r \in Used(file) : Rec(file', r) = Rec(file, r)]_vars

\* The handle is a heap file: records keep their ids and their values through
\* every other operation, and through closing and opening.
Heap == INSTANCE HeapFile WITH
  records <- [rid \in Used(file) |-> Rec(file, rid)],
  open    <- bFileOpen
ImplementsHeapFile == Heap!Spec

\* "this page used to be full, but now it has free space, so add it to the
\* first list" (DeleteRec): every page with room is on the chain that starts
\* in the header, so that its slots are used again.
ChainAt ==
  LET at[i \in 0 .. MaxPages] ==
        IF i = 0 THEN file.hdr.firstFree
        ELSE IF at[i - 1] \in DOMAIN file.pages
             THEN file.pages[at[i - 1]].nextFree
             ELSE at[i - 1]
  IN  at
FreedSlotsReused ==
  \A p \in DOMAIN file.pages :
    file.pages[p].numFreeSlots > 0 => \E i \in 0 .. MaxPages : ChainAt[i] = p
=============================================================================

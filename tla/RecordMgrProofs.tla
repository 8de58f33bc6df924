-------------------------- MODULE RecordMgrProofs --------------------------
(***************************************************************************)
(* What holds of a record file after any calls of RM_FileHandle.  The      *)
(* invariants of RecordMgr are not inductive: that the head of the chain   *)
(* is a page of the file needs that the links are, and a full page has a   *)
(* link that is not; that a page has room needs its count to agree with    *)
(* its bitmap.  FileSound adds the links.                                  *)
(***************************************************************************)
EXTENDS RecordMgr, FileProofs

Sound ==
  /\ FileSound(SlotsPerPage, file)
  /\ Len(file.pages) <= MaxPages
  /\ bFileOpen \in BOOLEAN
  /\ ~bFileOpen => file.hdr = file.diskHdr

----------------------------------------------------------------------------
\* A file as Create leaves it is sound.
LEMMA InitSound == Init => Sound
<1> DEFINE f == NewFile(SlotsPerPage)
<1>1. FileSound(SlotsPerPage, f) /\ Len(f.pages) <= MaxPages /\ f.hdr = f.diskHdr
  BY NewFileSound, RecordMgrAssumption DEF NewFile
<1> HIDE DEF f
<1>2. ASSUME file = f, bFileOpen = FALSE PROVE Sound
  BY <1>1, <1>2 DEF Sound
<1> QED
  BY <1>2 DEF Init, f

\* Every call keeps a file sound.
LEMMA NextSound == Sound /\ [Next]_vars => Sound'
<1> SUFFICES ASSUME Sound, [Next]_vars PROVE Sound'
  OBVIOUS
<1>1. FileSound(SlotsPerPage, file) /\ Len(file.pages) <= MaxPages /\ bFileOpen \in BOOLEAN
  BY DEF Sound
<1>2. CASE Recreate
  BY <1>2, NewFileSound, RecordMgrAssumption DEF Recreate, Sound, NewFile
<1>3. CASE Open
  BY <1>3 DEF Open, Sound
<1>4. CASE Close
  BY <1>1, <1>4, CloseSound, RecordMgrAssumption DEF Close, Sound
<1>5. ASSUME NEW v \in Vals, Insert(v) PROVE Sound'
  BY <1>1, <1>5, InsertSound, RecordMgrAssumption DEF Insert, Sound
<1>6. ASSUME NEW rid \in Rids, Delete(rid) PROVE Sound'
  BY <1>1, <1>6, DeleteSound, RecordMgrAssumption DEF Delete, Sound
<1>7. ASSUME NEW rid \in Rids, NEW v \in Vals, Update(rid, v) PROVE Sound'
  BY <1>1, <1>7, UpdateSound, RecordMgrAssumption DEF Update, Sound
<1>8. CASE UNCHANGED vars
  BY <1>8 DEF vars, Sound
<1> QED
  BY <1>2, <1>3, <1>4, <1>5, <1>6, <1>7, <1>8 DEF Next

\* The inductive invariant: every record file, at every moment, is sound.
THEOREM AlwaysSound == Spec => []Sound
<1>1. Init => Sound
  BY InitSound
<1>2. Sound /\ [Next]_vars => Sound'
  BY NextSound
<1> QED
  BY <1>1, <1>2, PTL DEF Spec

\* No call takes a file out of its type, for files of any number of pages and
\* slots.
THEOREM TypeCorrect == Spec => []TypeOK
<1>1. ASSUME Sound PROVE TypeOK
  <2> DEFINE P == Pages(MaxPages, SlotsPerPage)
             n == Len(file.pages)
  <2>1. /\ FileSound(SlotsPerPage, file) /\ file \in File(SlotsPerPage) /\ bFileOpen \in BOOLEAN
        /\ n \in Nat /\ n <= MaxPages
    BY <1>1, PagesTyped, RecordMgrAssumption DEF Sound, FileSound
  <2>2. \A i \in 1 .. n : file.pages[i] \in P
    <3> TAKE i \in 1 .. n
    <3>1. PageSound(SlotsPerPage, file.pages[i], n)
      BY <2>1 DEF FileSound
    <3> QED
      BY <3>1, <2>1, RecordMgrAssumption DEF PageSound, Page, Pages, Links
  <2>3. file.pages \in Seq(P)
    <3> HIDE DEF P
    <3> QED
      BY <2>1, <2>2, PagesTyped, RecordMgrAssumption
  <2>4. file.hdr \in Headers(MaxPages) /\ file.diskHdr \in Headers(MaxPages)
    BY <2>1, RecordMgrAssumption DEF FileSound, HeaderSound, Header, Headers, Links
  <2> QED
    BY <2>1, <2>3, <2>4, RecordMgrAssumption DEF TypeOK, IsFile, File
<1> QED
  BY <1>1, AlwaysSound, PTL

\* The count in a page's header is the number of its free slots.
THEOREM CountsAlwaysExact == Spec => []CountsExact
<1>1. Sound => CountsExact
  BY PagesTyped, RecordMgrAssumption DEF Sound, FileSound, PageSound, CountsExact
<1> QED
  BY <1>1, AlwaysSound, PTL

\* The head of the chain is a page of the file, in the handle and on disk.
THEOREM HeadAlwaysInFile == Spec => []HeadInFile
<1>1. Sound => HeadInFile
  BY PagesTyped, RecordMgrAssumption DEF Sound, FileSound, HeaderSound, HeadInFile, BadHead
<1> QED
  BY <1>1, AlwaysSound, PTL

\* InsertRec never refuses a record for want of room.
THEOREM InsertsAlwaysSucceed == Spec => []InsertsSucceed
<1>1. Sound => InsertsSucceed
  BY InsertSound, RecordMgrAssumption DEF Sound, InsertsSucceed, Return
<1> QED
  BY <1>1, AlwaysSound, PTL

----------------------------------------------------------------------------
\* An insert adds one rid, valid and holding the record, and moves no other.
LEMMA InsertKeeps ==
  ASSUME Sound, NEW v \in Vals, Insert(v)
  PROVE  \E rid \in Used(file') \ Used(file) :
           /\ IsValidRID(file', rid) /\ Rec(file', rid) = v
           /\ Used(file') = Used(file) \cup {rid}
           /\ \A r \in Used(file) : Rec(file', r) = Rec(file, r)
<1> DEFINE g == GetNextFreePage(file)
           p == g.hdr.firstFree
           s == First(FreeSlots(g.pages[p]))
<1>1. FileSound(SlotsPerPage, file)
  BY DEF Sound
<1>2. /\ file' = Fill(g, p, s, v) /\ p \in 1 .. Len(g.pages)
      /\ s \in FreeSlots(g.pages[p])
      /\ FileSound(SlotsPerPage, file') /\ Len(file'.pages) = Len(g.pages)
  <2>1. /\ InsertRec(file, v) = Return(OK, Fill(g, p, s, v))
        /\ p \in 1 .. Len(g.pages) /\ s \in FreeSlots(g.pages[p])
        /\ FileSound(SlotsPerPage, InsertRec(file, v).file)
        /\ Len(InsertRec(file, v).file.pages) = Len(g.pages)
    BY <1>1, InsertSound, RecordMgrAssumption, Zenon
  <2>2. file' = InsertRec(file, v).file
    BY DEF Insert
  <2>3. Return(OK, Fill(g, p, s, v)).file = Fill(g, p, s, v)
    BY DEF Return
  <2> QED
    BY <2>1, <2>2, <2>3, Zenon
<1>3. FileSound(SlotsPerPage, g)
  BY <1>1, NextFreePage, RecordMgrAssumption
<1>4. Used(g) = Used(file) /\ \A r \in Used(file) : Rec(g, r) = Rec(file, r)
  BY <1>1, GrownFile, RecordMgrAssumption
<1> HIDE DEF g, p, s
<1>5. /\ <<p, s>> \notin Used(g)
      /\ Used(file') = Used(g) \cup {<<p, s>>}
      /\ Rec(file', <<p, s>>) = v
      /\ \A r \in Used(g) : Rec(file', r) = Rec(g, r)
  BY <1>2, <1>3, FilledFile, RecordMgrAssumption
<1>6. IsValidRID(file', <<p, s>>)
  <2>1. file'.hdr.numPages = Len(file'.pages) + 1 /\ Len(file'.pages) \in Nat
    BY <1>2, PagesTyped, RecordMgrAssumption DEF FileSound
  <2>2. s \in 0 .. SlotsPerPage - 1 /\ file'.slots = SlotsPerPage
    BY <1>2, <1>3, PagesTyped, FreeSlotsFinite, RecordMgrAssumption
  <2> QED
    BY <2>1, <2>2, <1>2 DEF IsValidRID, SlotsOf
<1> QED
  BY <1>4, <1>5, <1>6

\* Every insert adds one rid and moves no other record, whatever the header the
\* file was opened with.
THEOREM InsertsAlwaysAddOne == Spec => InsertAddsOne
<1>1. Sound /\ [Next]_vars
        => [\A v \in Vals : Insert(v) =>
              \E rid \in Used(file') \ Used(file) :
                /\ IsValidRID(file', rid) /\ Rec(file', rid) = v
                /\ Used(file') = Used(file) \cup {rid}
                /\ \A r \in Used(file) : Rec(file', r) = Rec(file, r)]_vars
  BY InsertKeeps
<1> QED
  BY <1>1, AlwaysSound, PTL DEF InsertAddsOne, Spec

----------------------------------------------------------------------------
\* A handle on a record file behaves as a heap file: the file it is created
\* with is empty, and every call does what the call of that name does to the
\* records, or nothing.
THEOREM RecordFilesAreHeaps == Spec => ImplementsHeapFile
<1>1. Init => Heap!Init
  BY NoRecordsAtFirst DEF Init, Heap!Init, Heap!NoRecords, Records
<1>2. Sound /\ [Next]_vars => [Heap!Next]_(Heap!vars)
  <2> SUFFICES ASSUME Sound, [Next]_vars PROVE [Heap!Next]_(Heap!vars)
    OBVIOUS
  <2>1. FileSound(SlotsPerPage, file)
    BY DEF Sound
  <2>0. Rids \subseteq RidSpace
    BY RecordMgrAssumption DEF Rids, RidSpace
  <2>2. CASE Recreate
    <3>1. Records(file') = [rid \in {} |-> {}]
      BY <2>2, NoRecordsAtFirst DEF Recreate
    <3>2. Heap!Reset
      BY <2>2, <3>1 DEF Recreate, Heap!Reset, Heap!NoRecords, Records
    <3> QED
      BY <3>2 DEF Heap!Next
  <2>3. CASE Open
    BY <2>3 DEF Open, Heap!Next, Heap!Open
  <2>4. CASE Close
    <3>1. file'.pages = file.pages /\ file'.slots = file.slots
      BY <2>1, <2>4, CloseSound, PagesTyped, RecordMgrAssumption DEF Close
    <3>2. Used(file') = Used(file) /\ \A r : Rec(file', r) = Rec(file, r)
      BY <3>1 DEF Used, Rec, SlotsOf
    <3>3. Heap!Close
      BY <2>4, <3>2 DEF Close, Heap!Close
    <3> QED
      BY <3>3 DEF Heap!Next
  <2>5. ASSUME NEW v \in Vals, Insert(v) PROVE Heap!Next
    <3>1. PICK rid \in Used(file') \ Used(file) :
            /\ Rec(file', rid) = v
            /\ Used(file') = Used(file) \cup {rid}
            /\ \A r \in Used(file) : Rec(file', r) = Rec(file, r)
      BY <2>5, InsertKeeps
    <3>2. rid \in Rids
      <4>1. FileSound(SlotsPerPage, file') /\ Len(file'.pages) <= MaxPages
        BY NextSound DEF Sound
      <4>2. rid \in (1 .. Len(file'.pages)) \X (0 .. SlotsPerPage - 1)
        BY <3>1, <4>1, PagesTyped, RecordMgrAssumption DEF Used, SlotsOf
      <4>3. Len(file'.pages) \in Nat
        BY <4>1, PagesTyped, RecordMgrAssumption
      <4> QED
        BY <4>1, <4>2, <4>3, RecordMgrAssumption DEF Rids
    <3>3. Heap!Insert(rid, v)
      BY <2>5, <3>1 DEF Insert, Heap!Insert
    <3> QED
      BY <3>2, <3>3 DEF Heap!Next
  <2>6. ASSUME NEW rid \in Rids, Delete(rid) PROVE [Heap!Next]_(Heap!vars)
    <3>1. CASE ~HasRec(file, rid)
      BY <2>1, <2>6, <3>1, <2>0, ClearedFile, RecordMgrAssumption DEF Delete, Heap!vars
    <3>2. CASE HasRec(file, rid)
      <4>1. /\ rid \in Used(file) /\ Used(file') = Used(file) \ {rid}
            /\ \A r \in Used(file') : Rec(file', r) = Rec(file, r)
        BY <2>1, <2>6, <3>2, <2>0, ClearedFile, RecordMgrAssumption DEF Delete
      <4>2. Heap!Delete(rid)
        BY <2>6, <4>1 DEF Delete, Heap!Delete
      <4> QED
        BY <4>2 DEF Heap!Next
    <3> QED
      BY <3>1, <3>2
  <2>7. ASSUME NEW rid \in Rids, NEW v \in Vals, Update(rid, v) PROVE Heap!Next
    <3>1. /\ rid \in Used(file) /\ Used(file') = Used(file)
          /\ Rec(file', rid) = v
          /\ \A r \in Used(file) : r # rid => Rec(file', r) = Rec(file, r)
      BY <2>1, <2>7, <2>0, UpdatedFile, RecordMgrAssumption DEF Update
    <3>2. Heap!Update(rid, v)
      BY <2>7, <3>1 DEF Update, Heap!Update
    <3> QED
      BY <3>2 DEF Heap!Next
  <2>8. CASE UNCHANGED vars
    BY <2>8 DEF vars, Heap!vars
  <2> QED
    BY <2>2, <2>3, <2>4, <2>5, <2>6, <2>7, <2>8 DEF Next
<1> QED
  BY <1>1, <1>2, AlwaysSound, PTL DEF Spec, ImplementsHeapFile, Heap!Spec
=============================================================================

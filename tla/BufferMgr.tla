----------------------------- MODULE BufferMgr -----------------------------
(***************************************************************************)
(* PF_BufferMgr as a state machine.  Each action is one public method,     *)
(* from call to return.  Its environment is the code that calls it: a page *)
(* that is allocated or changed is marked dirty before the next call, as   *)
(* PF_FileHandle::AllocatePage, DisposePage and every user of a page       *)
(* handle do.  A call that returns an error and changes nothing is a       *)
(* stuttering step.                                                        *)
(***************************************************************************)
EXTENDS BufferPool

CONSTANT MaxPins   \* bound: pins of one page

ASSUME MaxPinsAssumption == MaxPins \in Nat

VARIABLE pool

vars == <<pool>>

Init == pool = NewPool([n \in PageNums |-> Absent], Absent)

Get(n, multiplePins, s, fault) ==
  /\ PinCount(pool, n) < MaxPins
  /\ pool' = GetPage(pool, n, multiplePins, s, fault).pool

\* The caller fills the page it gets and marks it dirty.
Allocate(n, d, s, fault) ==
  /\ ~InBuffer(pool, <<Fd, n>>)
  /\ pool.disk[n] = Absent
  /\ LET a == AllocatePage(pool, n, s, fault)
     IN  pool' = IF a.rc = OK THEN MarkDirty(Store(a.pool, n, d), n) ELSE a.pool

Change(n, d) ==
  /\ Pinned(pool, <<Fd, n>>)
  /\ pool' = MarkDirty(Store(pool, n, d), n)

\* Mutant: the pin count is not looked at.
Unpin_NoCheck(n) ==
  /\ InBuffer(pool, <<Fd, n>>)
  /\ pool' = UnpinPage(pool, <<Fd, n>>)

Unpin(n) ==
  /\ Pinned(pool, <<Fd, n>>)
  /\ pool' = UnpinPage(pool, <<Fd, n>>)

Flush(fault) == pool' = FlushPages(pool, fault).pool

ForceToDisk(P, fault) == pool' = ForcePages(pool, P, fault).pool

Clear == pool' = ClearBuffer(pool)

NewBlock(s, fault) == pool' = AllocateBlock(pool, s, fault).pool

DisposeBlock(s) ==
  /\ Pinned(pool, <<MEMORY_FD, s>>)
  /\ pool' = UnpinPage(pool, <<MEMORY_FD, s>>)

\* ForcePages takes one page number or ALL_PAGES.
ForceSets == {{n} : n \in PageNums} \cup {PageNums}

Next ==
  \/ \E n \in PageNums, multiplePins \in BOOLEAN, s \in Choices(pool), fault \in Faults :
       Get(n, multiplePins, s, fault)
  \/ \E n \in PageNums, d \in Data, s \in Choices(pool), fault \in Faults :
       Allocate(n, d, s, fault)
  \/ \E n \in PageNums, d \in Data : Change(n, d)
  \/ \E n \in PageNums : Unpin(n)
  \/ \E fault \in Faults : Flush(fault)
  \/ \E P \in ForceSets, fault \in Faults : ForceToDisk(P, fault)
  \/ Clear
  \/ \E s \in Choices(pool), fault \in Faults : NewBlock(s, fault)
  \/ \E s \in Slots : DisposeBlock(s)

Spec == Init /\ [][Next]_vars

----------------------------------------------------------------------------
\* The pool is a pool: every field of the right type.
TypeOK == pool \in Pools

\* No slot is lost or used twice: at every return each slot is on exactly one
\* of the two lists, whichever I/O call failed on the way (GetPage must put a
\* slot back when the read fails, FlushPages stops half way).
SlotsPartitioned == Partitioned(pool)

\* The hash table and the descriptors describe the same pages: a page found
\* at a slot is the page that slot holds, and no page sits in two slots.
HashMatchesSlots == HashExact(pool)

\* The used list is a list: most to least recently used, nothing twice.
RecencyIsTotalOrder == Ordered(pool)

\* A frame that is not marked dirty is a copy of the page in the file, so
\* dropping it without a write loses nothing.  A memory block never needs
\* a write: it has no file.
CleanFramesAreCopies == CleanMatchesFile(pool) /\ BlocksClean(pool)

\* The pointer a caller holds stays good: while a page or block is pinned no
\* call moves it to another slot, drops it, or puts other data in its frame
\* (only a caller's own store, which marks the page dirty, changes it).
PinnedPageStays ==
  [][\A k \in Keys :
       Pinned(pool, k) =>
         LET s == Find(pool, k)
         IN  /\ Find(pool', k) = s
             /\ pool'.data[s] # pool.data[s] => pool'.dirty[s]]_vars

\* No update is lost: only Clear makes a page read differently from how it
\* was last written, and a page that a reader could see stays readable.
OnlyClearLosesUpdates ==
  [][\A n \in PageNums :
       View(pool, n) # Absent /\ View(pool', n) # View(pool, n)
         => Pinned(pool, <<Fd, n>>) \/ Clear]_vars

\* The buffer manager is a page store: slots, lists and hash table are
\* invisible to its callers.
Pages == INSTANCE PageStore WITH
  view   <- [n \in PageNums |-> View(pool, n)],
  stable <- pool.disk,
  pins   <- [n \in PageNums |-> PinCount(pool, n)]
ImplementsPageStore == Pages!Spec
=============================================================================

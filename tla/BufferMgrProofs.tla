--------------------------- MODULE BufferMgrProofs ---------------------------
(***************************************************************************)
(* The invariants of PF_BufferMgr, for every number of slots, pages and    *)
(* pins.  The inductive invariant is their conjunction, Sound(pool, {}):   *)
(* none of them is inductive alone, since a page is found through the hash *)
(* table, promoted through the used list and dropped through its dirty     *)
(* bit.  What each operation does to it is proved in BufferPoolProofs;     *)
(* here the operations are put together into the steps of BufferMgr.       *)
(* What a caller can tell of each step, from BufferPoolProofs, gives the   *)
(* action properties and the refinement of PageStore; for these the file   *)
(* must have no gaps (GInv), or extending it would show a page of zeros.   *)
(***************************************************************************)
EXTENDS BufferMgr, BufferPoolProofs

\* The inductive invariant: no slot is between InternalAlloc and Bind.
IInv == Sound(pool, {})

\* The inductive invariant is the conjunction of the checked ones.
LEMMA IInvIsTheInvariants ==
  IInv <=> /\ TypeOK
           /\ SlotsPartitioned
           /\ HashMatchesSlots
           /\ RecencyIsTotalOrder
           /\ CleanFramesAreCopies
  <1>1. pool.used \ {} = pool.used
    OBVIOUS
  <1> QED
    BY <1>1 DEF IInv, Sound, TypeOK, SlotsPartitioned, Partitioned,
         HashMatchesSlots, HashExact, RecencyIsTotalOrder,
         CleanFramesAreCopies, CleanMatchesFile, BlocksClean

\* The constructor leaves an empty pool, in which the invariant holds.
LEMMA InitSound == Init => IInv
  <1> DEFINE empty == [n \in PageNums |-> Absent]
  <1>1. empty \in [PageNums -> Data \cup {Absent}]
    OBVIOUS
  <1> HIDE DEF empty
  <1>2. Sound(NewPool(empty, Absent), {})
    BY <1>1, NewPoolSound
  <1> QED
    BY <1>2 DEF Init, IInv, empty

\* What a write() that fails leaves in the page is a value of Torn, or nothing.
LEMMA FaultsAre == \A fault \in Faults : IsFault(fault)
  BY DEF Faults, NoFault, IsFault

\* AllocatePage fails where InternalAlloc does.
LEMMA AllocateFails ==
  ASSUME IInv, NEW n \in PageNums, NEW s \in Choices(pool), NEW fault,
         AllocatePage(pool, n, s, fault).rc # OK
  PROVE  Failed(pool, fault, AllocatePage(pool, n, s, fault).pool)
  BY InternalAllocSound DEF IInv, AllocatePage, AllocateKey, Return

\* Every call leaves a sound pool behind, whether it succeeds or fails.
LEMMA NextSound == IInv /\ [Next]_vars => IInv'
  <1> SUFFICES ASSUME IInv, [Next]_vars PROVE IInv'
    OBVIOUS
  <1> USE DEF IInv
  <1>1. ASSUME NEW n \in PageNums, NEW multiplePins \in BOOLEAN,
               NEW s \in Choices(pool), NEW fault \in Faults,
               Get(n, multiplePins, s, fault)
        PROVE  IInv'
    BY <1>1, GetPageSound, FaultsAre DEF Get
  <1>2. ASSUME NEW n \in PageNums, NEW d \in Data,
               NEW s \in Choices(pool), NEW fault \in Faults,
               Allocate(n, d, s, fault)
        PROVE  IInv'
    <2> DEFINE a == AllocatePage(pool, n, s, fault)
    <2>1. CASE a.rc = OK
      BY <1>2, <2>1, AllocateSound DEF Allocate
    <2>2. CASE a.rc # OK
      <3>1. Failed(pool, fault, a.pool) /\ IsFault(fault)
        BY <2>2, AllocateFails, FaultsAre
      <3>2. pool' = a.pool
        BY <1>2, <2>2 DEF Allocate
      <3> QED
        BY <3>1, <3>2, FailedSound
    <2> QED
      BY <2>1, <2>2
  <1>3. ASSUME NEW n \in PageNums, NEW d \in Data, Change(n, d)
        PROVE  IInv'
    BY <1>3, ChangeSound DEF Change, Pinned
  <1>4. ASSUME NEW n \in PageNums, Unpin(n)
        PROVE  IInv'
    <2>1. <<Fd, n>> \in Keys
      BY DEF Keys, FileKeys
    <2> QED
      BY <1>4, <2>1, UnpinSound DEF Unpin
  <1>5. ASSUME NEW fault \in Faults, Flush(fault)
        PROVE  IInv'
    BY <1>5, FlushSound, FaultsAre DEF Flush
  <1>6. ASSUME NEW P \in ForceSets, NEW fault \in Faults, ForceToDisk(P, fault)
        PROVE  IInv'
    BY <1>6, ForceSound, FaultsAre DEF ForceToDisk
  <1>7. CASE Clear
    BY <1>7, ClearSound DEF Clear
  <1>8. ASSUME NEW s \in Choices(pool), NEW fault \in Faults, NewBlock(s, fault)
        PROVE  IInv'
    BY <1>8, AllocateBlockSound, FaultsAre DEF NewBlock
  <1>9. ASSUME NEW s \in Slots, DisposeBlock(s)
        PROVE  IInv'
    <2>1. <<MEMORY_FD, s>> \in Keys
      BY DEF Keys, BlockKeys
    <2> QED
      BY <1>9, <2>1, UnpinSound DEF DisposeBlock
  <1>10. CASE UNCHANGED vars
    BY <1>10 DEF vars
  <1> QED
    BY <1>1, <1>2, <1>3, <1>4, <1>5, <1>6, <1>7, <1>8, <1>9, <1>10 DEF Next

\* The pool of a running buffer manager satisfies the inductive invariant.
THEOREM AlwaysSound == Spec => []IInv
  BY InitSound, NextSound, PTL DEF Spec

\* Type correctness: every descriptor, list and table entry of PF_BufferMgr
\* keeps its type through every sequence of calls.
THEOREM TypeCorrect == Spec => []TypeOK
  BY AlwaysSound, IInvIsTheInvariants, PTL

\* Each slot of bufTable is on exactly one of the used and the free list at
\* every return, with any number of slots and whatever read or write fails.
THEOREM NoSlotLost == Spec => []SlotsPartitioned
  BY AlwaysSound, IInvIsTheInvariants, PTL

\* PF_HashTable and bufTable never disagree about where a page is, and no
\* page is ever in two slots.
THEOREM HashAlwaysExact == Spec => []HashMatchesSlots
  BY AlwaysSound, IInvIsTheInvariants, PTL

\* The used list is a total order of its slots at every return: LinkHead and
\* Unlink never leave a slot on it twice or out of reach.
THEOREM RecencyOrdered == Spec => []RecencyIsTotalOrder
  BY AlwaysSound, IInvIsTheInvariants, PTL

\* A frame whose bDirty is FALSE holds what the file holds, so InternalAlloc
\* and FlushPages lose nothing when they drop it unwritten.
THEOREM CleanAlwaysCopies == Spec => []CleanFramesAreCopies
  BY AlwaysSound, IInvIsTheInvariants, PTL

----------------------------------------------------------------------------
\* What one step does for the callers.  The file never has gaps, without
\* which a page written beyond its end could fill holes it should not.
GInv == IInv /\ Contiguous(pool)

\* A pinned page or block stays in its slot, and only a store changes it.
KeepsPinned ==
  \A k \in Keys :
    Pinned(pool, k) =>
      /\ Find(pool', k) = Find(pool, k)
      /\ pool'.data[Find(pool, k)] # pool.data[Find(pool, k)] => pool'.dirty[Find(pool, k)]

\* What a reader saw is lost by no call but Clear.
LosesNothing ==
  \A n \in PageNums :
    View(pool, n) # Absent /\ View(pool', n) # View(pool, n)
      => Pinned(pool, <<Fd, n>>) \/ Clear

StepPromise ==
  /\ Contiguous(pool')
  /\ KeepsPinned
  /\ LosesNothing
  /\ [Pages!Next]_(Pages!vars)

\* What the pool writes to the file is a save of the page store.
LEMMA WritesSave ==
  ASSUME IInv, IInv', Writes(pool, pool')
  PROVE  Pages!Save
  <1>1. pool'.disk \in [PageNums -> Data \cup {Absent}]
    BY DEF IInv, Sound, Pools
  <1>2. PICK t \in {n \in PageNums : View(pool, n) # Absent} \cup {NoPage} : WritesBut(pool, pool', t)
    BY DEF Writes
  <1>3. t \in {n \in PageNums : View(pool, n) # Absent} \cup {Pages!NoPage} /\ PageNums = Pages!PageNums
    BY DEF NoPage, Pages!NoPage, Pages!PageNums, PageNums
  <1>4. \A n \in PageNums :
          \/ pool'.disk[n] = pool.disk[n]
          \/ Pages!Saved(n)
          \/ Pages!Hole(n, t)
          \/ n = t /\ pool'.disk[n] \in Torn
    BY <1>2, <1>3 DEF WritesBut, Pages!Saved, Pages!Hole
  <1>5. t \in {n \in Pages!PageNums : [m \in PageNums |-> View(pool, m)][n] # Absent} \cup {Pages!NoPage}
    BY <1>3
  <1> QED
    BY <1>1, <1>3, <1>4, <1>5 DEF Pages!Save

\* A step that shows callers nothing at all is a write-back of the store.
LEMMA QuietWriteBack ==
  ASSUME GInv, IInv', Quiet(pool, pool', {})
  PROVE  StepPromise
  <1>1. Pages!Save
    BY WritesSave DEF GInv, Quiet
  <1>2. KeepsPinned /\ LosesNothing /\ Contiguous(pool')
    BY DEF Quiet, Stays, Reads, KeepsPinned, LosesNothing
  <1>3. Pages!WriteBack
    BY <1>1 DEF Quiet, Reads, Pins, Pages!WriteBack, Pages!Shown, Pages!PageNums, PageNums
  <1> QED
    BY <1>2, <1>3 DEF StepPromise, Pages!Next

\* Every call keeps its promise to the callers.
LEMMA NextPromise == GInv /\ [Next]_vars => StepPromise
  <1> SUFFICES ASSUME GInv, [Next]_vars PROVE StepPromise
    OBVIOUS
  <1>0. IInv' /\ Sound(pool, {}) /\ Contiguous(pool) /\ Sound(pool', {})
    BY NextSound DEF GInv, IInv
  <1>1. ASSUME NEW n \in PageNums, NEW multiplePins \in BOOLEAN,
               NEW s \in Choices(pool), NEW fault \in Faults,
               Get(n, multiplePins, s, fault)
        PROVE  StepPromise
    <2> DEFINE g == GetPage(pool, n, multiplePins, s, fault)
    <2>1. pool' = g.pool
      BY <1>1 DEF Get
    <2>2. /\ Writes(pool, pool') /\ Reads(pool, pool', {}) /\ Stays(pool, pool', {})
          /\ Contiguous(pool')
          /\ g.rc # OK => Pins(pool, pool', {})
          /\ g.rc = OK =>
               /\ Pins(pool, pool', {<<Fd, n>>})
               /\ InBuffer(pool', <<Fd, n>>)
               /\ PinCount(pool', n) = PinCount(pool, n) + 1
      BY <1>0, <2>1, GetPageView, FaultsAre DEF OnlyPins
    <2> HIDE DEF g
    <2>3. CASE g.rc # OK
      BY <1>0, <2>2, <2>3, QuietWriteBack DEF Quiet
    <2>4. CASE g.rc = OK
      <3>1. Pages!Save
        BY <1>0, <2>2, WritesSave DEF GInv
      <3>2. KeepsPinned /\ LosesNothing
        BY <2>2 DEF Stays, Reads, KeepsPinned, LosesNothing
      <3>3. View(pool', n) # Absent
        BY <1>0, <2>2, <2>4, ViewFrame
      <3>4. Pages!Pin(n)
        BY <2>2, <2>4, <3>1, <3>3 DEF Reads, Pins, Pages!Pin, Pages!Shown, Pages!PageNums, PageNums
      <3>5. n \in Pages!PageNums
        BY DEF PageNums, Pages!PageNums
      <3> QED
        BY <2>2, <3>2, <3>4, <3>5 DEF StepPromise, Pages!Next
    <2> QED
      BY <2>3, <2>4
  <1>2. ASSUME NEW n \in PageNums, NEW d \in Data,
               NEW s \in Choices(pool), NEW fault \in Faults,
               Allocate(n, d, s, fault)
        PROVE  StepPromise
    <2> DEFINE a == AllocatePage(pool, n, s, fault)
    <2>1. CASE a.rc # OK
      <3>1. Failed(pool, fault, a.pool) /\ IsFault(fault)
        BY <1>0, <2>1, AllocateFails, FaultsAre DEF GInv
      <3>2. pool' = a.pool
        BY <1>2, <2>1 DEF Allocate
      <3>3. Quiet(pool, pool', {})
        BY <1>0, <3>1, <3>2, FailedQuiet
      <3> QED
        BY <1>0, <3>3, QuietWriteBack
    <2>2. CASE a.rc = OK
      <3>1. /\ pool' = MarkDirty(Store(a.pool, n, d), n)
            /\ ~InBuffer(pool, <<Fd, n>>) /\ pool.disk[n] = Absent
        BY <1>2, <2>2 DEF Allocate
      <3>2. /\ Quiet(pool, pool', {<<Fd, n>>})
            /\ View(pool', n) = d
            /\ PinCount(pool', n) = 1
        BY <1>0, <2>2, <3>1, AllocateView DEF ShowsNew
      <3> HIDE DEF a
      <3>3. View(pool, n) = Absent /\ ~Pinned(pool, <<Fd, n>>)
        BY <3>1 DEF View, InBuffer, Pinned
      <3>4. Pages!Save
        BY <1>0, <3>2, WritesSave DEF GInv, Quiet
      <3>5. KeepsPinned
        BY <3>2, <3>3 DEF Quiet, Stays, KeepsPinned
      <3>6. LosesNothing
        BY <3>2, <3>3 DEF Quiet, Reads, LosesNothing
      <3>7. Pages!Create(n, d)
        BY <3>2, <3>3, <3>4
           DEF Quiet, Reads, Pins, Pages!Create, Pages!Shown, Pages!PageNums, PageNums
      <3>8. n \in Pages!PageNums
        BY DEF PageNums, Pages!PageNums
      <3> QED
        BY <3>2, <3>5, <3>6, <3>7, <3>8 DEF StepPromise, Quiet, Pages!Next
    <2> QED
      BY <2>1, <2>2
  <1>3. ASSUME NEW n \in PageNums, NEW d \in Data, Change(n, d)
        PROVE  StepPromise
    <2>1. /\ Pinned(pool, <<Fd, n>>) /\ InBuffer(pool, <<Fd, n>>)
          /\ pool' = MarkDirty(Store(pool, n, d), n)
      BY <1>3 DEF Change, Pinned
    <2>2. /\ Quiet(pool, pool', {<<Fd, n>>})
          /\ pool'.disk = pool.disk
          /\ Find(pool', <<Fd, n>>) = Find(pool, <<Fd, n>>)
          /\ pool'.dirty[Find(pool', <<Fd, n>>)] = TRUE
          /\ View(pool', n) = d
          /\ PinCount(pool', n) = PinCount(pool, n)
      BY <1>0, <2>1, ChangeView
    <2>3. KeepsPinned
      BY <2>2 DEF Quiet, Stays, KeepsPinned
    <2>4. LosesNothing
      BY <2>1, <2>2 DEF Quiet, Reads, LosesNothing
    <2>5. PinCount(pool, n) > 0
      BY <1>0, <2>1, PinsOutside
    <2>6. ASSUME NEW m \in PageNums, m # n PROVE View(pool', m) = View(pool, m)
      <3>1. View(pool, m) = Absent => View(pool, m) = pool.disk[m]
        BY <1>0, ViewFrame
      <3> QED
        BY <2>2, <2>6, <3>1 DEF Quiet, Reads
    <2>7. Pages!Change(n, d)
      BY <2>2, <2>5, <2>6 DEF Quiet, Pins, Pages!Change, Pages!PageNums, PageNums
    <2>8. n \in Pages!PageNums
      BY DEF PageNums, Pages!PageNums
    <2> QED
      BY <2>2, <2>3, <2>4, <2>7, <2>8 DEF StepPromise, Quiet, Pages!Next
  <1>4. ASSUME NEW n \in PageNums, Unpin(n)
        PROVE  StepPromise
    <2> DEFINE k == <<Fd, n>>
    <2>1. k \in Keys /\ Pinned(pool, k) /\ pool' = UnpinPage(pool, k)
      BY <1>0, <1>4, ViewFrame DEF Unpin
    <2>2. /\ pool'.disk = pool.disk /\ pool'.hash = pool.hash /\ pool'.data = pool.data
          /\ Contiguous(pool')
          /\ \A m \in PageNums : View(pool', m) = View(pool, m)
          /\ Pins(pool, pool', {k})
          /\ \A m \in PageNums : k = <<Fd, m>> => PinCount(pool', m) = PinCount(pool, m) - 1
      <3> HIDE DEF k
      <3> QED
        BY <1>0, <2>1, UnpinView
    <2>3. KeepsPinned /\ LosesNothing
      BY <2>2 DEF KeepsPinned, LosesNothing, Find
    <2>4. PinCount(pool, n) > 0
      BY <1>0, <2>1, PinsOutside
    <2>5. Pages!Unpin(n)
      BY <2>2, <2>4 DEF Pins, Pages!Unpin, Pages!PageNums, PageNums
    <2>6. n \in Pages!PageNums
      BY DEF PageNums, Pages!PageNums
    <2> QED
      BY <2>2, <2>3, <2>5, <2>6 DEF StepPromise, Pages!Next
  <1>5. ASSUME NEW fault \in Faults, Flush(fault)
        PROVE  StepPromise
    BY <1>0, <1>5, FlushView, FaultsAre, QuietWriteBack DEF Flush
  <1>6. ASSUME NEW P \in ForceSets, NEW fault \in Faults, ForceToDisk(P, fault)
        PROVE  StepPromise
    BY <1>0, <1>6, ForceView, FaultsAre, QuietWriteBack DEF ForceToDisk
  <1>7. CASE Clear
    <2>1. /\ pool'.disk = pool.disk
          /\ Contiguous(pool')
          /\ Pins(pool, pool', {})
          /\ Stays(pool, pool', {})
          /\ \A n \in PageNums :
               View(pool', n) = IF PinCount(pool, n) = 0 THEN pool.disk[n] ELSE View(pool, n)
      BY <1>0, <1>7, ClearView DEF Clear
    <2>2. KeepsPinned /\ LosesNothing
      BY <1>7, <2>1 DEF Stays, KeepsPinned, LosesNothing
    <2>3. Pages!Discard
      BY <2>1 DEF Pins, Pages!Discard, Pages!PageNums, PageNums
    <2> QED
      BY <2>1, <2>2, <2>3 DEF StepPromise, Pages!Next
  <1>8. ASSUME NEW s \in Choices(pool), NEW fault \in Faults, NewBlock(s, fault)
        PROVE  StepPromise
    <2>1. Quiet(pool, pool', {})
      BY <1>0, <1>8, AllocateBlockView, FaultsAre DEF NewBlock, Quiet
    <2> QED
      BY <1>0, <2>1, QuietWriteBack
  <1>9. ASSUME NEW s \in Slots, DisposeBlock(s)
        PROVE  StepPromise
    <2> DEFINE k == <<MEMORY_FD, s>>
    <2>1. /\ k \in Keys /\ Pinned(pool, k) /\ pool' = UnpinPage(pool, k)
          /\ \A n \in PageNums : <<Fd, n>> # k
      BY <1>9, BufferAssumption DEF DisposeBlock, Keys, BlockKeys, MEMORY_FD
    <2>2. /\ pool'.disk = pool.disk /\ pool'.hash = pool.hash /\ pool'.data = pool.data
          /\ Contiguous(pool')
          /\ \A n \in PageNums : View(pool', n) = View(pool, n)
          /\ Pins(pool, pool', {k})
      <3> HIDE DEF k
      <3> QED
        BY <1>0, <2>1, UnpinView
    <2>3. KeepsPinned /\ LosesNothing
      BY <2>2 DEF KeepsPinned, LosesNothing, Find
    <2>4. UNCHANGED Pages!vars
      BY <2>1, <2>2 DEF Pins, Pages!vars
    <2> QED
      BY <2>2, <2>3, <2>4 DEF StepPromise
  <1>10. CASE UNCHANGED vars
    <2>1. pool' = pool
      BY <1>10 DEF vars
    <2>2. Quiet(pool, pool', {})
      BY <1>0, <2>1, StillQuiet
    <2> QED
      BY <1>0, <2>2, QuietWriteBack
  <1> QED
    BY <1>1, <1>2, <1>3, <1>4, <1>5, <1>6, <1>7, <1>8, <1>9, <1>10 DEF Next

\* The stronger invariant holds in every state.
THEOREM AlwaysContiguous == Spec => []GInv
  <1>1. Init => GInv
    BY InitSound DEF Init, GInv, Contiguous, NewPool
  <1>2. GInv /\ [Next]_vars => GInv'
    BY NextSound, NextPromise DEF GInv, StepPromise, Contiguous
  <1> QED
    BY <1>1, <1>2, PTL DEF Spec

\* The pointer GetPage, AllocatePage or AllocateBlock hands out is good until
\* the matching unpin, through every call of every other user of the buffer.
THEOREM PinnedStay == Spec => PinnedPageStays
  <1>1. GInv /\ [Next]_vars =>
          [\A k \in Keys :
             Pinned(pool, k) =>
               LET s == Find(pool, k)
               IN  /\ Find(pool', k) = s
                   /\ pool'.data[s] # pool.data[s] => pool'.dirty[s]]_vars
    BY NextPromise DEF StepPromise, KeepsPinned
  <1> QED
    BY <1>1, AlwaysContiguous, PTL DEF Spec, PinnedPageStays

\* No call but ClearBuffer loses a change, whatever it evicts, writes, fails to
\* write or drops.
THEOREM UpdatesKept == Spec => OnlyClearLosesUpdates
  <1>1. GInv /\ [Next]_vars =>
          [\A n \in PageNums :
             View(pool, n) # Absent /\ View(pool', n) # View(pool, n)
               => Pinned(pool, <<Fd, n>>) \/ Clear]_vars
    BY NextPromise DEF StepPromise, LosesNothing
  <1> QED
    BY <1>1, AlwaysContiguous, PTL DEF Spec, OnlyClearLosesUpdates

\* PF_BufferMgr implements the page store, with any number of slots and pages:
\* its slots, lists, hash table and writes are invisible to its callers.
THEOREM Refinement == Spec => ImplementsPageStore
  <1>1. Init => Pages!Init
    BY DEF Init, Pages!Init, Pages!PageNums, PageNums, NewPool, View, PinCount, Find, Keys, FileKeys
  <1>2. GInv /\ [Next]_vars => [Pages!Next]_(Pages!vars)
    BY NextPromise DEF StepPromise
  <1> QED
    BY <1>1, <1>2, AlwaysContiguous, PTL DEF Spec, ImplementsPageStore, Pages!Spec
=============================================================================

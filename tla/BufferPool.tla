----------------------------- MODULE BufferPool -----------------------------
(***************************************************************************)
(* The operations of PF_BufferMgr as functions from a buffer pool to a     *)
(* buffer pool.  A pool is a record that holds the state of one            *)
(* PF_BufferMgr object and the pages of the file it caches:                *)
(*                                                                         *)
(*   used    slots on the used list (first .. last)                        *)
(*   newer   the order of that list: <<s, t>> when s is nearer to first    *)
(*   free    slots on the free list                                        *)
(*   key     bufTable[s].fd and bufTable[s].pageNum                        *)
(*   pin     bufTable[s].pinCount                                          *)
(*   dirty   bufTable[s].bDirty                                            *)
(*   data    what bufTable[s].pData points to                              *)
(*   hash    the hash table, NoSlot where Find returns PF_HASHNOTFOUND     *)
(*   disk    the pages of the file, Absent beyond its end                  *)
(*   tail    what a write() that stopped half way has left behind the last *)
(*           of these pages, Absent if there is nothing                    *)
(*                                                                         *)
(* The doubly linked list itself (first, last, free, next, prev) and the   *)
(* chains of the hash table are the subject of PoolTables.                 *)
(* Which slot of the free list is taken is left open: the slots of an      *)
(* empty frame are interchangeable.                                        *)
(***************************************************************************)
EXTENDS Integers, FiniteSets

CONSTANTS
  Slots,     \* the slots of bufTable
  NoSlot,    \* INVALID_SLOT
  MaxPages,  \* bound: a file holds pages 0 .. MaxPages-1
  Fd,        \* the descriptor of the open file
  Data,      \* what a page can hold
  Zero,      \* a page of zero bytes
  Torn,      \* what a write() that stops half way may leave in a page
  Absent     \* no such page in the file

MEMORY_FD == -1

PageNums  == 0 .. MaxPages - 1
FileKeys  == {Fd} \X PageNums
BlockKeys == {MEMORY_FD} \X Slots   \* a block is named by its address
Keys      == FileKeys \cup BlockKeys
NoKey     == <<MEMORY_FD, NoSlot>>

ASSUME BufferAssumption ==
  /\ NoSlot \notin Slots
  /\ MaxPages \in Nat
  /\ Fd \in Nat
  /\ Zero \in Data
  /\ Torn \subseteq Data
  /\ Absent \notin Data

\* The page whose read() or write() fails in a call, and what a write() that
\* fails has left in the page: it may have written some of it
\* (PF_INCOMPLETEWRITE) or nothing (Absent).
NoFault == <<-1, Absent>>
Faults  == PageNums \X (Torn \cup {Absent}) \cup {NoFault}

Pools ==
  [used  : SUBSET Slots,
   newer : SUBSET (Slots \X Slots),
   free  : SUBSET Slots,
   key   : [Slots -> Keys \cup {NoKey}],
   pin   : [Slots -> Nat],
   dirty : [Slots -> BOOLEAN],
   data  : [Slots -> Data],
   hash  : [Keys -> Slots \cup {NoSlot}],
   disk  : [PageNums -> Data \cup {Absent}],
   tail  : Torn \cup {Absent}]

\* Return codes, and what a call returns: a code and the pool it leaves.
OK         == "OK"
NOBUF      == "PF_NOBUF"
PAGEPINNED == "PF_PAGEPINNED"
UNIXERR    == "PF_UNIX"

Return(code, b) == [rc |-> code, pool |-> b]

----------------------------------------------------------------------------
\* The constructor: every slot is on the free list, the hash table is empty.
NewPool(file, tail) ==
  [used  |-> {},
   newer |-> {},
   free  |-> Slots,
   key   |-> [s \in Slots |-> NoKey],
   pin   |-> [s \in Slots |-> 0],
   dirty |-> [s \in Slots |-> FALSE],
   data  |-> [s \in Slots |-> Zero],
   hash  |-> [k \in Keys |-> NoSlot],
   disk  |-> file,
   tail  |-> tail]

Find(b, k) == b.hash[k]
InBuffer(b, k) == Find(b, k) # NoSlot

HashInsert(b, k, s) == [b EXCEPT !.hash[k] = s]
HashDelete(b, K) ==
  [b EXCEPT !.hash = [k \in Keys |-> IF k \in K THEN NoSlot ELSE b.hash[k]]]

Unlink(b, S) ==
  [b EXCEPT !.used  = b.used \ S,
            !.newer = {p \in b.newer : p[1] \notin S /\ p[2] \notin S}]
LinkHead(b, s) ==
  [b EXCEPT !.used  = b.used \cup {s},
            !.newer = b.newer \cup ({s} \X b.used)]
\* Mutant: the slot is linked at the head without being unlinked first.
Promote_NoUnlink(b, s) == LinkHead(b, s)
Promote(b, s) == LinkHead(Unlink(b, {s}), s)
InsertFree(b, S) == [b EXCEPT !.free = b.free \cup S]

\* Mutant: the descriptor of a new page starts with no pin.
InitPageDesc_NoPin(b, k, s) ==
  [b EXCEPT !.key[s] = k, !.dirty[s] = FALSE, !.pin[s] = 0]

InitPageDesc(b, k, s) ==
  [b EXCEPT !.key[s]   = k,
            !.dirty[s] = FALSE,
            !.pin[s]   = 1]

\* A page that a write beyond the end of the file leaves unwritten: a hole of
\* zero bytes, or what is already there of a page that is not all there.
Hole(b, n) ==
  IF b.tail # Absent /\ \A m \in PageNums : m < n => b.disk[m] # Absent
  THEN b.tail
  ELSE Zero

\* The file after the frames of the slots S are written.
Holds(b, S, n) == \E s \in S : b.key[s] = <<Fd, n>>
FileWith(b, S) ==
  [n \in PageNums |->
     IF Holds(b, S, n)
     THEN b.data[CHOOSE s \in S : b.key[s] = <<Fd, n>>]
     ELSE IF b.disk[n] = Absent /\ \E m \in PageNums : m > n /\ Holds(b, S, m)
          THEN Hole(b, n)
          ELSE b.disk[n]]
Extends(b, S) == \E n \in PageNums : b.disk[n] = Absent /\ Holds(b, S, n)
WritePages(b, S) ==
  [b EXCEPT !.disk  = FileWith(b, S),
            !.tail  = IF Extends(b, S) THEN Absent ELSE b.tail,
            !.dirty = [s \in Slots |-> s \notin S /\ b.dirty[s]]]

\* A write() of page fault[1] that fails.  Beyond the end of the file the page
\* is then not all there, and reading it fails (PF_INCOMPLETEREAD).
TornWrite(b, fault) ==
  LET n == fault[1]
  IN  IF fault[2] = Absent THEN b
      ELSE IF b.disk[n] # Absent THEN [b EXCEPT !.disk[n] = fault[2]]
      ELSE [b EXCEPT
              !.disk = [m \in PageNums |-> IF m < n /\ b.disk[m] = Absent
                                           THEN Hole(b, m) ELSE b.disk[m]],
              !.tail = fault[2]]

----------------------------------------------------------------------------
\* InternalAlloc: a slot of the free list, else the least recently used
\* unpinned one, else (NoSlot) none.
\* Mutant: pinned slots are taken like any other.
Unpinned_All(b) == b.used
Unpinned(b)   == {s \in b.used : b.pin[s] = 0}
Victims(b)    == {s \in Unpinned(b) : \A t \in Unpinned(b) : <<s, t>> \notin b.newer}
Candidates(b) == IF b.free # {} THEN b.free ELSE Victims(b)
Choices(b)    == IF Candidates(b) = {} THEN {NoSlot} ELSE Candidates(b)

\* Mutants: the victim is not taken out of the hash table; it is not written.
Evict_StaysInHash(b, s) ==
  Unlink(IF b.dirty[s] THEN WritePages(b, {s}) ELSE b, {s})
Evict_NoWrite(b, s) == Unlink(HashDelete(b, {b.key[s]}), {s})

Evict(b, s) ==
  LET w == IF b.dirty[s] THEN WritePages(b, {s}) ELSE b
  IN  Unlink(HashDelete(w, {w.key[s]}), {s})

InternalAlloc(b, s, fault) ==
  IF s = NoSlot
  THEN Return(NOBUF, b)
  ELSE IF s \in b.free
       THEN Return(OK, LinkHead([b EXCEPT !.free = b.free \ {s}], s))
       ELSE IF b.dirty[s] /\ b.key[s] = <<Fd, fault[1]>>
            THEN Return(UNIXERR, TornWrite(b, fault))
            ELSE Return(OK, LinkHead(Evict(b, s), s))

\* Mutant: the slot is unlinked and put on no list.
Release_LosesSlot(b, S) == Unlink(b, S)

\* Put a slot that was just allocated back on the free list.
Release(b, S) == InsertFree(Unlink(b, S), S)

\* Make slot s hold page k, pinned once.
Bind(b, k, s) == InitPageDesc(HashInsert(b, k, s), k, s)

----------------------------------------------------------------------------
\* GetPage on a hit and on a miss; s is the slot InternalAlloc chooses.
GetBuffered(b, n, multiplePins) ==
  LET s == Find(b, <<Fd, n>>)
  IN  IF ~multiplePins /\ b.pin[s] > 0
      THEN Return(PAGEPINNED, b)
      ELSE Return(OK, Promote([b EXCEPT !.pin[s] = @ + 1], s))

ReadInto(b, n, s, fault) ==
  IF b.disk[n] = Absent \/ n = fault[1]
  THEN Return(UNIXERR, Release(b, {s}))
  ELSE Return(OK, Bind([b EXCEPT !.data[s] = b.disk[n]], <<Fd, n>>, s))

GetPage(b, n, multiplePins, s, fault) ==
  IF InBuffer(b, <<Fd, n>>)
  THEN GetBuffered(b, n, multiplePins)
  ELSE LET a == InternalAlloc(b, s, fault)
       IN  IF a.rc # OK THEN a ELSE ReadInto(a.pool, n, s, fault)

\* AllocatePage and AllocateBlock: a frame for a page that is in neither
\* the buffer nor the file, or for a block of memory.
AllocateKey(b, k, s, fault) ==
  LET a == InternalAlloc(b, s, fault)
  IN  IF a.rc # OK THEN a ELSE Return(OK, Bind(a.pool, k, s))
AllocatePage(b, n, s, fault) == AllocateKey(b, <<Fd, n>>, s, fault)
AllocateBlock(b, s, fault)   == AllocateKey(b, <<MEMORY_FD, s>>, s, fault)

Pinned(b, k) == InBuffer(b, k) /\ b.pin[Find(b, k)] > 0

\* The caller's store through the pointer it was given.
Store(b, n, d) == [b EXCEPT !.data[Find(b, <<Fd, n>>)] = d]

MarkDirty(b, n) ==
  LET s == Find(b, <<Fd, n>>)
  IN  Promote([b EXCEPT !.dirty[s] = TRUE], s)

\* UnpinPage, also DisposeBlock: the last unpin makes the page the most
\* recently used one.
UnpinPage(b, k) ==
  LET s == Find(b, k)
      u == [b EXCEPT !.pin[s] = @ - 1]
  IN  IF u.pin[s] = 0 THEN Promote(u, s) ELSE u

----------------------------------------------------------------------------
\* The scans of FlushPages and ForcePages go from first to last and stop at
\* the first page that cannot be written.
Dirty(b, S) == {s \in S : b.dirty[s]}
Blocked(b, S, fault) == {s \in Dirty(b, S) : b.key[s] = <<Fd, fault[1]>>}
Scanned(b, S, fault) ==
  {s \in S : \A t \in Blocked(b, S, fault) : <<s, t>> \in b.newer}

OfFile(b) == {s \in b.used : b.key[s][1] = Fd}

\* Write the dirty slots of S and return all of S to the free list.
Drop(b, S) ==
  LET w == WritePages(b, Dirty(b, S))
  IN  Release(HashDelete(w, {w.key[s] : s \in S}), S)

FlushPages(b, fault) ==
  LET S == OfFile(b) \cap Unpinned(b)
      D == Drop(b, Scanned(b, S, fault))
  IN  IF Blocked(b, S, fault) # {}
      THEN Return(UNIXERR, TornWrite(D, fault))
      ELSE Return(IF OfFile(b) \subseteq Unpinned(b) THEN OK ELSE PAGEPINNED, D)

\* Mutant: bDirty is cleared before the write that may fail.
ForcePages_ClearsFirst(b, P, fault) ==
  LET S == {s \in OfFile(b) : b.key[s][2] \in P}
      D == WritePages(b, Dirty(b, Scanned(b, S, fault)))
  IN  IF Blocked(b, S, fault) # {}
      THEN Return(UNIXERR, [TornWrite(D, fault) EXCEPT
                              !.dirty = [s \in Slots |-> s \notin S /\ D.dirty[s]]])
      ELSE Return(OK, D)

\* P: the page asked for, or every page (ALL_PAGES).
ForcePages(b, P, fault) ==
  LET S == {s \in OfFile(b) : b.key[s][2] \in P}
      D == WritePages(b, Dirty(b, Scanned(b, S, fault)))
  IN  IF Blocked(b, S, fault) # {}
      THEN Return(UNIXERR, TornWrite(D, fault))
      ELSE Return(OK, D)

\* Every unpinned slot goes back to the free list, written or not.
ClearBuffer(b) ==
  LET S == Unpinned(b)
  IN  Release(HashDelete(b, {b.key[s] : s \in S}), S)

----------------------------------------------------------------------------
\* What a reader of page n is shown: the frame when it holds changes the
\* file does not have, the file otherwise.
View(b, n) ==
  LET s == Find(b, <<Fd, n>>)
  IN  IF s # NoSlot /\ b.dirty[s] THEN b.data[s] ELSE b.disk[n]

PinCount(b, n) ==
  LET s == Find(b, <<Fd, n>>)
  IN  IF s # NoSlot THEN b.pin[s] ELSE 0

\* The parts of the invariant of a pool between two calls.
Partitioned(b) == b.used \cup b.free = Slots /\ b.used \cap b.free = {}
HashExact(b) ==
  /\ \A s \in b.used : b.key[s] \in Keys /\ b.hash[b.key[s]] = s
  /\ \A k \in Keys : b.hash[k] # NoSlot => b.hash[k] \in b.used /\ b.key[b.hash[k]] = k
Ordered(b) ==
  /\ b.newer \subseteq b.used \X b.used
  /\ \A s, t \in b.used : s # t => (<<s, t>> \in b.newer <=> <<t, s>> \notin b.newer)
  /\ \A s \in b.used : <<s, s>> \notin b.newer
  /\ \A s, t, u \in b.used :
       <<s, t>> \in b.newer /\ <<t, u>> \in b.newer => <<s, u>> \in b.newer
CleanMatchesFile(b) ==
  \A s \in b.used, n \in PageNums :
    b.key[s] = <<Fd, n>> /\ ~b.dirty[s] => b.data[s] = b.disk[n]
BlocksClean(b) ==
  \A s \in b.used : b.key[s] \in BlockKeys => b.key[s] = <<MEMORY_FD, s>> /\ ~b.dirty[s]
=============================================================================

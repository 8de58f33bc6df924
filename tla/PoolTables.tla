----------------------------- MODULE PoolTables -----------------------------
(***************************************************************************)
(* The tables of PF_BufferMgr as they are in memory: the linked lists of   *)
(* SlotLists, the chains of HashTable and the page each descriptor names,  *)
(* changed together by the calls of the buffer manager.  BufferPool        *)
(* abstracts them to sets, an order and a map; ActsAsPool says that        *)
(* nothing is lost by that.  Which slots are pinned, and whether a read    *)
(* fails, is left open.                                                    *)
(***************************************************************************)
EXTENDS SlotLists, HashTable, FiniteSets

CONSTANTS
  Fd,        \* the descriptor of the open file
  MaxPages   \* bound: pages 0 .. MaxPages-1 of it

ASSUME PoolTablesAssumption == Fd \in Nat /\ MaxPages \in Nat

VARIABLES
  lists,   \* first, last, free, and the links of each slot
  table,   \* the hash table
  key      \* bufTable[s].fd and bufTable[s].pageNum

vars == <<lists, table, key>>

MEMORY_FD == -1
FileKeys  == {Fd} \X (0 .. MaxPages - 1)
BlockKeys == {MEMORY_FD} \X Slots   \* a block is named by its address
Keys      == FileKeys \cup BlockKeys
NoKey     == <<MEMORY_FD, INVALID_SLOT>>

Init == lists = NewLists /\ table = NewTable /\ key = [s \in Slots |-> NoKey]

----------------------------------------------------------------------------
\* InternalAlloc: the slot it finds when the slots of pinned are pinned, or
\* INVALID_SLOT, and the tables it leaves.
AllocSlot(pinned) ==
  IF lists.free # INVALID_SLOT THEN lists.free ELSE FirstUnpinned(lists, pinned)
AllocSlots == {AllocSlot(pinned) : pinned \in SUBSET Used(lists)} \ {INVALID_SLOT}
AllocLists(s) ==
  IF lists.free # INVALID_SLOT THEN TakeFree(lists) ELSE LinkHead(Unlink(lists, s), s)
AllocTable(s) ==
  IF lists.free # INVALID_SLOT THEN table ELSE HashDelete(table, key[s])

\* A page or block that is not in the buffer gets a slot.
Load(k, s) ==
  /\ Hash(k) \in Buckets
  /\ lists' = AllocLists(s)
  /\ table' = HashInsert(AllocTable(s), k, s)
  /\ key' = [key EXCEPT ![s] = k]

\* GetPage of a page that is not in the buffer, AllocatePage.
Miss(n, s) == Find(table, <<Fd, n>>) = HASHNOTFOUND /\ Load(<<Fd, n>>, s)

NewBlock(s) == Load(<<MEMORY_FD, s>>, s)

\* The read of the page fails: the slot goes back to the free list.
FailedMiss(n, s) ==
  /\ Find(table, <<Fd, n>>) = HASHNOTFOUND
  /\ lists' = InsertFree(Unlink(AllocLists(s), s), s)
  /\ table' = AllocTable(s)
  /\ UNCHANGED key

\* GetPage of a page in the buffer, MarkDirty, and the last UnpinPage.
Promote(k) ==
  LET s == Find(table, k)
  IN  s # HASHNOTFOUND /\ lists' = LinkHead(Unlink(lists, s), s) /\ UNCHANGED <<table, key>>

\* FlushPages and ClearBuffer: the scan releases the slots of S.
Release(S) ==
  /\ lists' = ReleaseAll(lists, S)
  /\ table' = FoldSet(LAMBDA s, t : HashDelete(t, key[s]), table, S)
  /\ UNCHANGED key

Next ==
  \/ \E s \in AllocSlots :
       \/ \E n \in 0 .. MaxPages - 1 : Miss(n, s) \/ FailedMiss(n, s)
       \/ NewBlock(s)
  \/ \E k \in Keys : Promote(k)
  \/ \E S \in SUBSET Used(lists) : Release(S)

Spec == Init /\ [][Next]_vars

----------------------------------------------------------------------------
\* Every link is a slot or INVALID_SLOT, the free list ends, and every chain
\* holds keys and slots.
TypeOK ==
  /\ lists \in Lists
  /\ Walk(lists.next, lists.free)[NumPages] = INVALID_SLOT
  /\ table \in [Buckets -> Seq([key : Keys, slot : Slots])]
  /\ key \in [Slots -> Keys \cup {NoKey}]

\* The chains and the lists agree: Find leads to each page on the used list,
\* and every entry, in the bucket Find looks in and not shadowed by another,
\* names the page of a slot on it, whatever was evicted, released or not read.
ChainsMatchLists ==
  /\ \A s \in Used(lists) : Find(table, key[s]) = s
  /\ \A b \in Buckets : \A i \in DOMAIN table[b] :
       LET e == table[b][i] IN /\ e.slot \in Used(lists) /\ e.key = key[e.slot]
                               /\ Hash(e.key) = b /\ IndexIn(table[b], e.key) = i

----------------------------------------------------------------------------
\* The same tables as BufferPool has them, with the slots of pinned pinned.
BP == INSTANCE BufferPool WITH
  NoSlot <- INVALID_SLOT, Data <- {0}, Zero <- 0, Torn <- {}, Absent <- INVALID_SLOT

Tables(b) == [used |-> b.used, newer |-> b.newer, free |-> b.free, key |-> b.key, hash |-> b.hash]
Pool(pinned) ==
  [used  |-> Used(lists), newer |-> Newer(lists), free |-> Free(lists), key |-> key,
   hash  |-> [k \in Keys |-> Find(table, k)],
   pin   |-> [s \in Slots |-> IF s \in pinned THEN 1 ELSE 0],
   dirty |-> [s \in Slots |-> FALSE], data |-> [s \in Slots |-> 0],
   disk  |-> [n \in 0 .. MaxPages - 1 |-> 0], tail |-> INVALID_SLOT]

\* The slot InternalAlloc evicts is an unpinned one with no unpinned slot less
\* recently used, and it fails only when every slot is pinned.  As pinned can be
\* any set, walking back along prev meets the slots that next leads through.
EvictsLeastRecent ==
  lists.free = INVALID_SLOT =>
    \A pinned \in SUBSET Used(lists) : BP!Choices(Pool(pinned)) = {AllocSlot(pinned)}

\* Every call does to the links and the chains what BufferPool's operator does
\* to its sets and its map: a slot that is taken or promoted becomes the most
\* recent one, the others keep their order, one key is defined and at most one
\* undefined, and a scan that releases slots while it walks neither skips one
\* nor follows one it has freed.
StepActsAsPool ==
  LET pool  == Pool({})
      pool2 == Tables(Pool({}))'
      Becomes(b)  == pool2 = Tables(b)
      Alloc(s)    == BP!InternalAlloc(pool, s, BP!NoFault).pool
      Bound(k, s) == Becomes(BP!Bind(Alloc(s), k, s))
  IN  \/ \E s \in AllocSlots :
           \/ \E n \in 0 .. MaxPages - 1 :
                \/ Miss(n, s) /\ Bound(<<Fd, n>>, s)
                \/ FailedMiss(n, s) /\ Becomes(BP!Release(Alloc(s), {s}))
           \/ NewBlock(s) /\ Bound(<<MEMORY_FD, s>>, s)
      \/ \E k \in Keys : Promote(k) /\ Becomes(BP!Promote(pool, Find(table, k)))
      \/ \E S \in SUBSET Used(lists) :
           Release(S) /\ Becomes(BP!Release(BP!HashDelete(pool, {key[s] : s \in S}), S))
ActsAsPool == [][StepActsAsPool]_vars
=============================================================================

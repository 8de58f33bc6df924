----------------------------- MODULE SlotLists -----------------------------
(***************************************************************************)
(* The two lists threaded through bufTable by the next and prev fields:    *)
(* the used list from first (most recently used) to last, linked both      *)
(* ways, and the free list from free, linked by next alone.  A record l    *)
(* holds exactly the five things the code manipulates; PoolTables runs     *)
(* these operators together with the hash table.                           *)
(***************************************************************************)
EXTENDS Integers

CONSTANT NumPages   \* numPages, the size of bufTable

ASSUME NumPagesAssumption == NumPages \in Nat \ {0}

INVALID_SLOT == -1
Slots == 0 .. NumPages - 1
Links == Slots \cup {INVALID_SLOT}

Lists == [first : Links, last : Links, free : Links,
          next : [Slots -> Links], prev : [Slots -> Links]]

\* Mutant: the last slot points past the end of the table.
NewLists_NoEnd ==
  [first |-> INVALID_SLOT, last |-> INVALID_SLOT, free |-> 0,
   next  |-> [s \in Slots |-> s + 1],
   prev  |-> [s \in Slots |-> s - 1]]

\* The constructor chains all slots into the free list.
NewLists ==
  [first |-> INVALID_SLOT, last |-> INVALID_SLOT, free |-> 0,
   next  |-> [s \in Slots |-> IF s = NumPages - 1 THEN INVALID_SLOT ELSE s + 1],
   prev  |-> [s \in Slots |-> s - 1]]

----------------------------------------------------------------------------
\* f with the entry at s replaced, or unchanged when s is INVALID_SLOT.
Point(f, s, t) == IF s = INVALID_SLOT THEN f ELSE [f EXCEPT ![s] = t]

InsertFree(l, s) ==
  [l EXCEPT !.next[s] = l.free, !.free = s]

LinkHead(l, s) ==
  [l EXCEPT !.next[s] = l.first,
            !.prev    = Point([l.prev EXCEPT ![s] = INVALID_SLOT], l.first, s),
            !.first   = s,
            !.last    = IF @ = INVALID_SLOT THEN s ELSE @]

\* Mutant: last still names the slot that left.
Unlink_KeepsLast(l, s) ==
  [l EXCEPT !.first = IF @ = s THEN l.next[s] ELSE @,
            !.next  = [Point(l.next, l.prev[s], l.next[s]) EXCEPT ![s] = INVALID_SLOT],
            !.prev  = [Point(l.prev, l.next[s], l.prev[s]) EXCEPT ![s] = INVALID_SLOT]]

Unlink(l, s) ==
  [l EXCEPT !.first = IF @ = s THEN l.next[s] ELSE @,
            !.last  = IF @ = s THEN l.prev[s] ELSE @,
            !.next  = [Point(l.next, l.prev[s], l.next[s]) EXCEPT ![s] = INVALID_SLOT],
            !.prev  = [Point(l.prev, l.next[s], l.prev[s]) EXCEPT ![s] = INVALID_SLOT]]

\* The slots met from s on along the links f, in the order they are met.
Walk(f, s) ==
  LET at[i \in 0 .. NumPages] ==
        IF i = 0 THEN s
        ELSE IF at[i - 1] = INVALID_SLOT THEN INVALID_SLOT ELSE f[at[i - 1]]
  IN  at

\* InternalAlloc, when the free list is not empty.
TakeFree(l) == LinkHead([l EXCEPT !.free = l.next[l.free]], l.free)

\* InternalAlloc, when it is: the scan from last along prev for a slot that
\* is not pinned, INVALID_SLOT if there is none.
FirstUnpinned(l, pinned) ==
  LET at == Walk(l.prev, l.last)
      hits == {i \in 0 .. NumPages : at[i] \notin pinned}
  IN  at[CHOOSE i \in hits : \A j \in hits : i <= j]

\* Mutant: next is read after the slot has left the list.
ReleaseAll_NextLate(l, S) ==
  LET after[i \in 0 .. NumPages] ==
        IF i = 0 THEN [l |-> l, slot |-> l.first]
        ELSE LET p == after[i - 1]
                 q == IF p.slot \in S THEN InsertFree(Unlink(p.l, p.slot), p.slot) ELSE p.l
             IN  IF p.slot = INVALID_SLOT THEN p
                 ELSE [l |-> q, slot |-> q.next[p.slot]]
  IN  after[NumPages].l

\* The scan of FlushPages and ClearBuffer: next is read before the slot is
\* unlinked and put on the free list.
ReleaseAll(l, S) ==
  LET after[i \in 0 .. NumPages] ==
        IF i = 0 THEN [l |-> l, slot |-> l.first]
        ELSE LET p == after[i - 1]
             IN  IF p.slot = INVALID_SLOT THEN p
                 ELSE [l    |-> IF p.slot \in S
                                THEN InsertFree(Unlink(p.l, p.slot), p.slot)
                                ELSE p.l,
                       slot |-> p.l.next[p.slot]]
  IN  after[NumPages].l

----------------------------------------------------------------------------
\* The lists as BufferPool has them: two sets and an order.
Visited(f, s) == {Walk(f, s)[i] : i \in 0 .. NumPages} \ {INVALID_SLOT}
Used(l) == Visited(l.next, l.first)
Free(l) == Visited(l.next, l.free)
Newer(l) ==
  LET at == Walk(l.next, l.first)
  IN  {<<at[p[1]], at[p[2]]>> :
         p \in {q \in (0 .. NumPages) \X (0 .. NumPages) :
                  q[1] < q[2] /\ at[q[2]] # INVALID_SLOT}}
=============================================================================

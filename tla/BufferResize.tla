---------------------------- MODULE BufferResize ----------------------------
(***************************************************************************)
(* BufferMgr with ResizeBuffer, the one method after which a pool is not   *)
(* in general a pool any more.  Its one caller is PF_FileHandle's method   *)
(* of the same name, which nothing in src/ calls.  It is kept out of       *)
(* BufferMgr, whose properties hold for every use of the other methods.    *)
(***************************************************************************)
EXTENDS BufferMgr

(***************************************************************************)
(* ClearBuffer leaves the pinned pages.  For each of them the code takes a *)
(* slot from the free list of the new table, enters it in the hash table,  *)
(* describes it, and puts it back on the free list, where the next page    *)
(* finds the same slot h again.  Nothing copies the frame.  The last page  *)
(* of the old used list is the one the slot describes in the end.          *)
(***************************************************************************)
ResizeBuffer(b, N, h) ==
  LET c == ClearBuffer(b)
      K == {c.key[s] : s \in c.used}
      oldest == {s \in c.used : \A t \in c.used : <<s, t>> \notin c.newer}
  IN  [c EXCEPT
         !.used  = {},
         !.newer = {},
         !.free  = N,
         !.hash  = [k \in Keys |-> IF k \in K THEN h ELSE NoSlot],
         !.key   = [s \in Slots |-> IF s = h /\ oldest # {}
                                    THEN c.key[CHOOSE t \in oldest : TRUE] ELSE NoKey],
         !.pin   = [s \in Slots |-> IF s = h /\ oldest # {} THEN 1 ELSE 0],
         !.dirty = [s \in Slots |-> FALSE],
         !.data  = [s \in Slots |-> Zero]]

\* A new table with the slots N.
Resize(N) == \E h \in N : pool' = ResizeBuffer(pool, N, h)

NextResize == Next \/ \E N \in SUBSET Slots \ {{}} : Resize(N)

SpecResize == Init /\ [][NextResize]_vars

\* The comment on ResizeBuffer: it "attempts to copy all the old pages which
\* I am unable to kick out of the old buffer manager into the new buffer
\* manager", which "cannot always be" successful.  So after a resize that
\* returns 0 to a buffer with room for all the pinned pages, each of them is
\* in the new buffer with its content.
ResizeKeepsPinnedPages ==
  [][\A N \in SUBSET Slots :
       LET held == {k \in Keys : Pinned(pool, k)}
       IN  Cardinality(held) <= Cardinality(N) /\ Resize(N) =>
             \A k \in held :
               /\ Find(pool', k) \in pool'.used
               /\ pool'.key[Find(pool', k)] = k
               /\ pool'.data[Find(pool', k)] = pool.data[Find(pool, k)]]_vars
=============================================================================

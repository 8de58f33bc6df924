-------------------------- MODULE BufferPoolProofs --------------------------
(***************************************************************************)
(* What the operations of BufferPool do to a pool that satisfies its       *)
(* invariant.  An operation breaks the invariant on the way: between       *)
(* InternalAlloc and Bind a slot is on the used list and holds no page.    *)
(* Sound(b, U) is the invariant of a pool in which U is the set of these   *)
(* slots; between two calls it is Sound(b, {}), which is the conjunction   *)
(* of the invariants at the end of BufferPool.                             *)
(***************************************************************************)
EXTENDS BufferPool, TLAPS

Sound(b, U) ==
  /\ b \in Pools
  /\ Partitioned(b)
  /\ Ordered(b)
  /\ U \subseteq b.used
  /\ \A s \in b.used \ U : b.key[s] \in Keys /\ b.hash[b.key[s]] = s
  /\ \A k \in Keys : b.hash[k] # NoSlot => b.hash[k] \in b.used \ U /\ b.key[b.hash[k]] = k
  /\ \A s \in b.used \ U, n \in PageNums :
       b.key[s] = <<Fd, n>> /\ ~b.dirty[s] => b.data[s] = b.disk[n]
  /\ \A s \in b.used \ U :
       b.key[s] \in BlockKeys => b.key[s] = <<MEMORY_FD, s>> /\ ~b.dirty[s]

\* LinkHead puts s on the used list, nearer to first than every other slot,
\* and touches nothing else.
LEMMA LinkHeadEffect ==
  ASSUME NEW b \in Pools, NEW s \in Slots
  PROVE  /\ LinkHead(b, s) \in Pools
         /\ LinkHead(b, s).used = b.used \cup {s}
         /\ LinkHead(b, s).newer = b.newer \cup ({s} \X b.used)
         /\ LinkHead(b, s).free = b.free
         /\ LinkHead(b, s).key = b.key
         /\ LinkHead(b, s).pin = b.pin
         /\ LinkHead(b, s).dirty = b.dirty
         /\ LinkHead(b, s).data = b.data
         /\ LinkHead(b, s).hash = b.hash
         /\ LinkHead(b, s).disk = b.disk
  BY DEF LinkHead, Pools

\* Unlink takes the slots S off the used list and out of its order, and
\* touches nothing else.
LEMMA UnlinkEffect ==
  ASSUME NEW b \in Pools, NEW S \in SUBSET Slots
  PROVE  /\ Unlink(b, S) \in Pools
         /\ Unlink(b, S).used = b.used \ S
         /\ Unlink(b, S).newer = {p \in b.newer : p[1] \notin S /\ p[2] \notin S}
         /\ Unlink(b, S).free = b.free
         /\ Unlink(b, S).key = b.key
         /\ Unlink(b, S).pin = b.pin
         /\ Unlink(b, S).dirty = b.dirty
         /\ Unlink(b, S).data = b.data
         /\ Unlink(b, S).hash = b.hash
         /\ Unlink(b, S).disk = b.disk
  BY DEF Unlink, Pools

\* Promote (Unlink, then LinkHead) moves a used slot to the head of its list:
\* the slots of the list stay the same and nothing else changes.
LEMMA PromoteEffect ==
  ASSUME NEW b \in Pools, NEW s \in b.used
  PROVE  /\ Promote(b, s) \in Pools
         /\ Promote(b, s).used = b.used
         /\ Promote(b, s).newer = {p \in b.newer : p[1] # s /\ p[2] # s} \cup ({s} \X (b.used \ {s}))
         /\ Promote(b, s).free = b.free
         /\ Promote(b, s).key = b.key
         /\ Promote(b, s).pin = b.pin
         /\ Promote(b, s).dirty = b.dirty
         /\ Promote(b, s).data = b.data
         /\ Promote(b, s).hash = b.hash
         /\ Promote(b, s).disk = b.disk
  <1> DEFINE u == Unlink(b, {s})
  <1>1. s \in Slots /\ {s} \in SUBSET Slots
    BY DEF Pools
  <1>2. /\ u \in Pools
        /\ u.used = b.used \ {s}
        /\ u.newer = {p \in b.newer : p[1] \notin {s} /\ p[2] \notin {s}}
        /\ u.free = b.free /\ u.key = b.key /\ u.pin = b.pin /\ u.dirty = b.dirty
        /\ u.data = b.data /\ u.hash = b.hash /\ u.disk = b.disk
    BY <1>1, UnlinkEffect
  <1>3. Promote(b, s) = LinkHead(u, s)
    BY DEF Promote
  <1> HIDE DEF u
  <1>4. (u.used \cup {s}) = b.used
    BY <1>2
  <1>5. {p \in b.newer : p[1] \notin {s} /\ p[2] \notin {s}}
          = {p \in b.newer : p[1] # s /\ p[2] # s}
    OBVIOUS
  <1>6. /\ LinkHead(u, s) \in Pools
        /\ LinkHead(u, s).used = u.used \cup {s}
        /\ LinkHead(u, s).newer = u.newer \cup ({s} \X u.used)
        /\ LinkHead(u, s).free = u.free
        /\ LinkHead(u, s).key = u.key
        /\ LinkHead(u, s).pin = u.pin
        /\ LinkHead(u, s).dirty = u.dirty
        /\ LinkHead(u, s).data = u.data
        /\ LinkHead(u, s).hash = u.hash
        /\ LinkHead(u, s).disk = u.disk
    BY <1>1, <1>2, LinkHeadEffect
  <1> QED
    BY <1>2, <1>3, <1>4, <1>5, <1>6

\* Two slots that hold the same page are the same slot.
LEMMA OneSlotPerKey ==
  ASSUME NEW b, Sound(b, {}),
         NEW s \in b.used, NEW t \in b.used, b.key[s] = b.key[t]
  PROVE  s = t
  BY DEF Sound

\* A hole holds zero bytes, or what a write() that stopped half way left there.
LEMMA HoleContent ==
  ASSUME NEW b \in Pools, NEW n
  PROVE  Hole(b, n) \in Torn \cup {Zero} /\ Hole(b, n) \in Data /\ Hole(b, n) # Absent
  BY BufferAssumption DEF Hole, Pools

\* Writing the frames of S makes each of their pages hold its frame, leaves the
\* other pages of the file as they are, and never makes the file shorter.
LEMMA FileWithFacts ==
  ASSUME NEW b, Sound(b, {}), NEW S \in SUBSET b.used
  PROVE  /\ FileWith(b, S) \in [PageNums -> Data \cup {Absent}]
         /\ \A n \in PageNums, s \in S :
              b.key[s] = <<Fd, n>> => FileWith(b, S)[n] = b.data[s]
         /\ \A n \in PageNums :
              ~Holds(b, S, n) =>
                \/ FileWith(b, S)[n] = b.disk[n]
                \/ /\ b.disk[n] = Absent
                   /\ FileWith(b, S)[n] \in Torn \cup {Zero}
                   /\ \E m \in PageNums : m > n /\ Holds(b, S, m)
  <1> DEFINE c(n) == CHOOSE s \in S : b.key[s] = <<Fd, n>>
  <1>1. \A n \in PageNums : Holds(b, S, n) => c(n) \in S /\ b.key[c(n)] = <<Fd, n>>
    BY DEF Holds
  <1>2. \A n \in PageNums, s \in S : b.key[s] = <<Fd, n>> => Holds(b, S, n) /\ c(n) = s
    <2> SUFFICES ASSUME NEW n \in PageNums, NEW s \in S, b.key[s] = <<Fd, n>>
                 PROVE  Holds(b, S, n) /\ c(n) = s
      OBVIOUS
    <2>1. Holds(b, S, n)
      BY DEF Holds
    <2>2. c(n) \in S /\ b.key[c(n)] = b.key[s]
      BY <1>1, <2>1
    <2> QED
      BY <2>1, <2>2, OneSlotPerKey
  <1>3. FileWith(b, S) =
          [n \in PageNums |->
             IF Holds(b, S, n) THEN b.data[c(n)]
             ELSE IF b.disk[n] = Absent /\ \E m \in PageNums : m > n /\ Holds(b, S, m)
                  THEN Hole(b, n) ELSE b.disk[n]]
    BY DEF FileWith
  <1> HIDE DEF c
  <1>4. b \in Pools /\ S \subseteq Slots
    BY DEF Sound, Pools
  <1>5. \A n \in PageNums : Holds(b, S, n) => b.data[c(n)] \in Data
    BY <1>1, <1>4 DEF Pools
  <1>6. \A n \in PageNums : Hole(b, n) \in Data /\ Hole(b, n) \in Torn \cup {Zero}
    BY <1>4, HoleContent
  <1>7. FileWith(b, S) \in [PageNums -> Data \cup {Absent}]
    BY <1>3, <1>4, <1>5, <1>6 DEF Pools
  <1> QED
    BY <1>2, <1>3, <1>6, <1>7

\* WritePages writes the frames of S and clears their bDirty; lists, keys, pins
\* and hash table are untouched and the invariant is preserved.
LEMMA WritePagesEffect ==
  ASSUME NEW b, Sound(b, {}), NEW S \in SUBSET b.used
  PROVE  /\ Sound(WritePages(b, S), {})
         /\ WritePages(b, S).used = b.used
         /\ WritePages(b, S).newer = b.newer
         /\ WritePages(b, S).free = b.free
         /\ WritePages(b, S).key = b.key
         /\ WritePages(b, S).pin = b.pin
         /\ WritePages(b, S).dirty = [s \in Slots |-> s \notin S /\ b.dirty[s]]
         /\ WritePages(b, S).data = b.data
         /\ WritePages(b, S).hash = b.hash
         /\ WritePages(b, S).disk = FileWith(b, S)
  <1> DEFINE w == WritePages(b, S)
             F == FileWith(b, S)
             D == [s \in Slots |-> s \notin S /\ b.dirty[s]]
             E == IF Extends(b, S) THEN Absent ELSE b.tail
  <1>1. b \in Pools
    BY DEF Sound
  <1>2. F \in [PageNums -> Data \cup {Absent}]
    BY FileWithFacts
  <1>3. D \in [Slots -> BOOLEAN]
    BY <1>1 DEF Pools
  <1>4. /\ w.used = b.used /\ w.newer = b.newer /\ w.free = b.free /\ w.key = b.key
        /\ w.pin = b.pin /\ w.dirty = D /\ w.data = b.data /\ w.hash = b.hash
        /\ w.disk = F
    BY <1>1 DEF WritePages, Pools
  <1>5. w \in Pools
    <2>2. E \in Torn \cup {Absent}
      BY <1>1 DEF Pools
    <2> HIDE DEF F, D, E
    <2>1. w = [b EXCEPT !.disk = F, !.tail = E, !.dirty = D]
      BY DEF WritePages, F, D, E
    <2> QED
      BY <1>1, <1>2, <1>3, <2>1, <2>2 DEF Pools
  <1> HIDE DEF w, F
  <1>6. \A s \in w.used, n \in PageNums :
          w.key[s] = <<Fd, n>> /\ ~w.dirty[s] => w.data[s] = w.disk[n]
    <2> SUFFICES ASSUME NEW s \in b.used, NEW n \in PageNums,
                        b.key[s] = <<Fd, n>>, ~D[s]
                 PROVE  b.data[s] = F[n]
      BY <1>4
    <2>0. s \in Slots
      BY <1>1 DEF Pools
    <2>1. CASE s \in S
      BY <2>1, FileWithFacts DEF F
    <2>2. CASE s \notin S
      <3>1. ~b.dirty[s]
        BY <2>0, <2>2
      <3>2. b.data[s] = b.disk[n]
        BY <3>1 DEF Sound
      <3>3. b.data[s] \in Data
        BY <1>1, <2>0 DEF Pools
      <3>4. b.disk[n] # Absent
        BY <3>2, <3>3, BufferAssumption
      <3>5. ~Holds(b, S, n)
        BY <2>2, OneSlotPerKey DEF Holds
      <3> QED
        BY <3>2, <3>4, <3>5, FileWithFacts DEF F
    <2> QED
      BY <2>1, <2>2
  <1>7. \A s \in w.used :
          w.key[s] \in BlockKeys => w.key[s] = <<MEMORY_FD, s>> /\ ~w.dirty[s]
    BY <1>1, <1>4 DEF Sound, Pools
  <1>8. Ordered(w)
    BY <1>4 DEF Sound, Ordered
  <1>9. Sound(w, {})
    <2> HIDE DEF D
    <2>1. Partitioned(w) /\ {} \subseteq w.used
      BY <1>4 DEF Sound, Partitioned
    <2>2. \A s \in w.used : w.key[s] \in Keys /\ w.hash[w.key[s]] = s
      BY <1>4 DEF Sound
    <2>3. \A k \in Keys : w.hash[k] # NoSlot => w.hash[k] \in w.used /\ w.key[w.hash[k]] = k
      BY <1>4 DEF Sound
    <2> QED
      BY <1>5, <1>6, <1>7, <1>8, <2>1, <2>2, <2>3 DEF Sound
  <1>10. F = FileWith(b, S)
    BY DEF F
  <1>11. w = WritePages(b, S)
    BY DEF w, F
  <1> HIDE DEF D
  <1>12. D = [s \in Slots |-> s \notin S /\ b.dirty[s]]
    BY DEF D
  <1> QED
    BY <1>4, <1>9, <1>10, <1>11, <1>12

\* The used list stays a list when slots leave it, and when a slot that is
\* not on it becomes its first.
LEMMA UnlinkOrdered ==
  ASSUME NEW b \in Pools, Ordered(b), NEW S \in SUBSET Slots
  PROVE  Ordered(Unlink(b, S))
  <1> DEFINE u == Unlink(b, S)
  <1>1. /\ u.used = b.used \ S
        /\ u.newer = {p \in b.newer : p[1] \notin S /\ p[2] \notin S}
    BY UnlinkEffect
  <1> HIDE DEF u
  <1>2. Ordered(u)
    BY <1>1 DEF Ordered
  <1> QED
    BY <1>2 DEF u

\* A slot linked at the head of the used list extends its order.
LEMMA LinkHeadOrdered ==
  ASSUME NEW b \in Pools, Ordered(b), NEW s \in Slots, s \notin b.used
  PROVE  Ordered(LinkHead(b, s))
  <1> DEFINE h == LinkHead(b, s)
  <1>1. /\ h.used = b.used \cup {s}
        /\ h.newer = b.newer \cup ({s} \X b.used)
    BY LinkHeadEffect
  <1> HIDE DEF h
  <1>2. Ordered(h)
    BY <1>1 DEF Ordered
  <1> QED
    BY <1>2 DEF h

\* Moving a slot to the head of the used list keeps it a list.
LEMMA PromoteOrdered ==
  ASSUME NEW b \in Pools, Ordered(b), NEW s \in b.used
  PROVE  Ordered(Promote(b, s))
  <1> DEFINE u == Unlink(b, {s})
  <1>1. s \in Slots /\ {s} \in SUBSET Slots
    BY DEF Pools
  <1>2. u \in Pools /\ u.used = b.used \ {s} /\ Ordered(u)
    BY <1>1, UnlinkEffect, UnlinkOrdered
  <1>3. Promote(b, s) = LinkHead(u, s)
    BY DEF Promote
  <1> HIDE DEF u
  <1> QED
    BY <1>1, <1>2, <1>3, LinkHeadOrdered

\* Pin counts and the order of the used list are no part of the rest.
LEMMA SameContents ==
  ASSUME NEW b, NEW U, Sound(b, U), NEW c \in Pools, Ordered(c),
         c.used = b.used, c.free = b.free, c.key = b.key, c.hash = b.hash,
         c.dirty = b.dirty, c.data = b.data, c.disk = b.disk
  PROVE  Sound(c, U)
  BY DEF Sound, Partitioned

\* Moving a used slot to the head of its list preserves the invariant.
LEMMA PromoteSound ==
  ASSUME NEW b, NEW U, Sound(b, U), NEW s \in b.used
  PROVE  Sound(Promote(b, s), U)
  <1>1. b \in Pools /\ Ordered(b)
    BY DEF Sound
  <1> DEFINE p == Promote(b, s)
  <1>2. /\ p \in Pools /\ p.used = b.used /\ p.free = b.free /\ p.key = b.key
        /\ p.hash = b.hash /\ p.dirty = b.dirty /\ p.data = b.data /\ p.disk = b.disk
    BY <1>1, PromoteEffect
  <1>3. Ordered(p)
    BY <1>1, PromoteOrdered
  <1> HIDE DEF p
  <1>4. Sound(p, U)
    BY <1>2, <1>3, SameContents
  <1> QED
    BY <1>4 DEF p

\* So does a change of the pin count of a slot.
LEMMA PinSound ==
  ASSUME NEW b, NEW U, Sound(b, U), NEW s \in Slots, NEW v \in Nat
  PROVE  Sound([b EXCEPT !.pin[s] = v], U)
  <1> DEFINE p == [b EXCEPT !.pin[s] = v]
  <1>1. b \in Pools
    BY DEF Sound
  <1>2. /\ p \in Pools /\ p.used = b.used /\ p.free = b.free /\ p.key = b.key
        /\ p.hash = b.hash /\ p.dirty = b.dirty /\ p.data = b.data /\ p.disk = b.disk
        /\ p.newer = b.newer
    BY <1>1 DEF Pools
  <1> HIDE DEF p
  <1>3. Ordered(p)
    BY <1>2 DEF Sound, Ordered
  <1>4. Sound(p, U)
    BY <1>2, <1>3, SameContents
  <1> QED
    BY <1>4 DEF p

----------------------------------------------------------------------------
\* Taking the pages of S out of the hash table leaves the slots of S, and
\* only these, without a page.
LEMMA HashDeleteEffect ==
  ASSUME NEW b, Sound(b, {}), NEW S \in SUBSET b.used
  PROVE  LET h == HashDelete(b, {b.key[s] : s \in S})
         IN  /\ Sound(h, S)
             /\ h.used = b.used /\ h.newer = b.newer /\ h.free = b.free
             /\ h.key = b.key /\ h.pin = b.pin /\ h.dirty = b.dirty
             /\ h.data = b.data /\ h.disk = b.disk
             /\ \A k \in Keys : h.hash[k] = IF b.hash[k] \in S THEN NoSlot ELSE b.hash[k]
  <1> DEFINE K == {b.key[s] : s \in S}
             h == HashDelete(b, K)
             H == [k \in Keys |-> IF k \in K THEN NoSlot ELSE b.hash[k]]
  <1>1. b \in Pools /\ S \subseteq Slots
    BY DEF Sound, Pools
  <1>2. H \in [Keys -> Slots \cup {NoSlot}]
    BY <1>1 DEF Pools
  <1>3. h = [b EXCEPT !.hash = H]
    BY DEF HashDelete
  <1>4. /\ h.used = b.used /\ h.newer = b.newer /\ h.free = b.free /\ h.key = b.key
        /\ h.pin = b.pin /\ h.dirty = b.dirty /\ h.data = b.data /\ h.disk = b.disk
        /\ h.hash = H
    BY <1>1, <1>3 DEF Pools
  <1>5. h \in Pools
    <2> HIDE DEF H, h
    <2> QED
      BY <1>1, <1>2, <1>3 DEF Pools
  <1>6. \A k \in Keys : k \in K <=> b.hash[k] \in S
    <2>1. ASSUME NEW k \in Keys, k \in K PROVE b.hash[k] \in S
      BY <2>1 DEF Sound
    <2>2. ASSUME NEW k \in Keys, b.hash[k] \in S PROVE k \in K
      <3>1. b.hash[k] # NoSlot
        BY <1>1, <2>2, BufferAssumption
      <3> QED
        BY <2>2, <3>1 DEF Sound
    <2> QED
      BY <2>1, <2>2
  <1>7. \A k \in Keys : h.hash[k] = IF b.hash[k] \in S THEN NoSlot ELSE b.hash[k]
    BY <1>4, <1>6
  <1> HIDE DEF h, K
  <1>8. \A s \in h.used \ S : h.key[s] \in Keys /\ h.hash[h.key[s]] = s
    BY <1>4, <1>7 DEF Sound
  <1>9. \A k \in Keys : h.hash[k] # NoSlot => h.hash[k] \in h.used \ S /\ h.key[h.hash[k]] = k
    BY <1>4, <1>7 DEF Sound
  <1>10. Partitioned(h) /\ Ordered(h)
    BY <1>4 DEF Sound, Partitioned, Ordered
  <1>11. /\ \A s \in h.used \ S, n \in PageNums :
              h.key[s] = <<Fd, n>> /\ ~h.dirty[s] => h.data[s] = h.disk[n]
         /\ \A s \in h.used \ S :
              h.key[s] \in BlockKeys => h.key[s] = <<MEMORY_FD, s>> /\ ~h.dirty[s]
    BY <1>4 DEF Sound
  <1>12. Sound(h, S)
    <2>1. S \subseteq h.used
      BY <1>4
    <2> QED
      BY <1>5, <1>8, <1>9, <1>10, <1>11, <2>1 DEF Sound
  <1> QED
    BY <1>4, <1>7, <1>12 DEF h, K

\* A slot without a page goes back to the free list and all is well again.
LEMMA ReleaseSound ==
  ASSUME NEW b, NEW S, Sound(b, S)
  PROVE  /\ Sound(Release(b, S), {})
         /\ Release(b, S).used = b.used \ S
         /\ Release(b, S).key = b.key
         /\ Release(b, S).pin = b.pin
         /\ Release(b, S).dirty = b.dirty
         /\ Release(b, S).data = b.data
         /\ Release(b, S).hash = b.hash
         /\ Release(b, S).disk = b.disk
  <1> DEFINE u == Unlink(b, S)
             r == Release(b, S)
  <1>1. b \in Pools /\ Ordered(b) /\ S \in SUBSET Slots /\ S \subseteq b.used
    BY DEF Sound, Pools
  <1>2. /\ u \in Pools
        /\ u.used = b.used \ S /\ u.free = b.free /\ u.key = b.key /\ u.pin = b.pin
        /\ u.dirty = b.dirty /\ u.data = b.data /\ u.hash = b.hash /\ u.disk = b.disk
    BY <1>1, UnlinkEffect
  <1>3. Ordered(u)
    BY <1>1, UnlinkOrdered
  <1>4. r = [u EXCEPT !.free = u.free \cup S]
    BY DEF Release, InsertFree
  <1> HIDE DEF u, r
  <1>5. /\ r \in Pools
        /\ r.used = u.used /\ r.newer = u.newer /\ r.free = u.free \cup S
        /\ r.key = u.key /\ r.pin = u.pin
        /\ r.dirty = u.dirty /\ r.data = u.data /\ r.hash = u.hash /\ r.disk = u.disk
    BY <1>1, <1>2, <1>4 DEF Pools
  <1>6. Ordered(r)
    BY <1>3, <1>5 DEF Ordered
  <1>7. Partitioned(r)
    BY <1>1, <1>2, <1>5 DEF Sound, Partitioned, Pools
  <1>8. Sound(r, {})
    BY <1>2, <1>5, <1>6, <1>7 DEF Sound
  <1> QED
    BY <1>2, <1>5, <1>8 DEF r

\* A victim leaves the buffer, its page written if it has to be; LinkHead
\* then makes its slot the head of the used list.
LEMMA EvictSound ==
  ASSUME NEW b, Sound(b, {}), NEW s \in b.used
  PROVE  LET a == LinkHead(Evict(b, s), s)
             w == IF b.dirty[s] THEN WritePages(b, {s}) ELSE b
         IN  /\ Sound(a, {s})
             /\ a.used = b.used /\ a.key = b.key /\ a.pin = b.pin /\ a.data = b.data
             /\ a.dirty = w.dirty /\ a.disk = w.disk
             /\ \A k \in Keys : a.hash[k] = IF b.hash[k] = s THEN NoSlot ELSE b.hash[k]
  <1> DEFINE S == {s}
             w == IF b.dirty[s] THEN WritePages(b, S) ELSE b
             h == HashDelete(w, {w.key[t] : t \in S})
             a == LinkHead(Evict(b, s), s)
  <1>1. /\ Sound(w, {})
        /\ w.used = b.used /\ w.key = b.key /\ w.pin = b.pin /\ w.data = b.data
        /\ w.hash = b.hash
    <2>1. S \in SUBSET b.used
      OBVIOUS
    <2>2. CASE b.dirty[s]
      <3>1. w = WritePages(b, S)
        BY <2>2
      <3> HIDE DEF S, w
      <3> QED
        BY <2>1, <3>1, WritePagesEffect
    <2>3. CASE ~b.dirty[s]
      <3>1. w = b
        BY <2>3
      <3> HIDE DEF w
      <3> QED
        BY <3>1
    <2> QED
      BY <2>2, <2>3
  <1>2. a = Promote(h, s)
    <2>1. {w.key[t] : t \in S} = {w.key[s]}
      OBVIOUS
    <2> QED
      BY <2>1 DEF Evict, Promote
  <1> HIDE DEF w
  <1>3. S \in SUBSET w.used
    BY <1>1
  <1>4. /\ Sound(h, {s})
        /\ h.used = w.used /\ h.key = w.key /\ h.pin = w.pin /\ h.dirty = w.dirty
        /\ h.data = w.data /\ h.disk = w.disk
        /\ \A k \in Keys : h.hash[k] = IF w.hash[k] = s THEN NoSlot ELSE w.hash[k]
    <2> HIDE DEF S
    <2>1. /\ Sound(h, S)
          /\ h.used = w.used /\ h.key = w.key /\ h.pin = w.pin /\ h.dirty = w.dirty
          /\ h.data = w.data /\ h.disk = w.disk
          /\ \A k \in Keys : h.hash[k] = IF w.hash[k] \in S THEN NoSlot ELSE w.hash[k]
      BY <1>1, <1>3, HashDeleteEffect
    <2> HIDE DEF h
    <2> USE DEF S
    <2> QED
      BY <2>1
  <1> HIDE DEF h, a
  <1>5. s \in h.used /\ h \in Pools
    BY <1>1, <1>4 DEF Sound
  <1>6. /\ a.used = h.used /\ a.key = h.key /\ a.pin = h.pin /\ a.dirty = h.dirty
        /\ a.data = h.data /\ a.disk = h.disk /\ a.hash = h.hash
    BY <1>2, <1>5, PromoteEffect
  <1>7. Sound(a, {s})
    BY <1>2, <1>4, <1>5, PromoteSound
  <1> QED
    BY <1>1, <1>4, <1>6, <1>7 DEF a, w, S

\* A slot taken from the free list.
LEMMA TakeFreeSound ==
  ASSUME NEW b, Sound(b, {}), NEW s \in b.free
  PROVE  LET a == LinkHead([b EXCEPT !.free = b.free \ {s}], s)
         IN  /\ Sound(a, {s})
             /\ a.used = b.used \cup {s} /\ a.key = b.key /\ a.pin = b.pin
             /\ a.data = b.data /\ a.dirty = b.dirty /\ a.disk = b.disk /\ a.hash = b.hash
  <1> DEFINE f == [b EXCEPT !.free = b.free \ {s}]
             a == LinkHead(f, s)
  <1>1. b \in Pools /\ s \in Slots /\ s \notin b.used /\ Ordered(b)
    BY DEF Sound, Pools, Partitioned
  <1>2. /\ f \in Pools
        /\ f.used = b.used /\ f.newer = b.newer /\ f.free = b.free \ {s}
        /\ f.key = b.key /\ f.pin = b.pin /\ f.dirty = b.dirty
        /\ f.data = b.data /\ f.hash = b.hash /\ f.disk = b.disk
    BY <1>1 DEF Pools
  <1> HIDE DEF f
  <1>3. Ordered(f)
    BY <1>1, <1>2 DEF Ordered
  <1>4. /\ a \in Pools
        /\ a.used = f.used \cup {s} /\ a.free = f.free
        /\ a.key = f.key /\ a.pin = f.pin /\ a.dirty = f.dirty
        /\ a.data = f.data /\ a.hash = f.hash /\ a.disk = f.disk
    BY <1>1, <1>2, LinkHeadEffect
  <1>5. Ordered(a)
    BY <1>1, <1>2, <1>3, LinkHeadOrdered
  <1> HIDE DEF a
  <1>6. Partitioned(a) /\ a.used \ {s} = b.used
    BY <1>1, <1>2, <1>4 DEF Sound, Partitioned
  <1>7. Sound(a, {s})
    <2>1. {s} \subseteq a.used
      BY <1>4
    <2> QED
      BY <1>2, <1>4, <1>5, <1>6, <2>1 DEF Sound
  <1> QED
    BY <1>2, <1>4, <1>7 DEF a, f

\* a is b after slot s was taken for a new page: s is on the used list and
\* holds no page, the page it held, if any, was written if it had to be, and
\* every other page stays where it was.
Allocated(b, s, a) ==
  /\ s \in Slots
  /\ Sound(a, {s})
  /\ \A k \in Keys : a.hash[k] = IF b.hash[k] = s THEN NoSlot ELSE b.hash[k]
  /\ \/ a.disk = b.disk
     \/ s \in Unpinned(b) /\ b.dirty[s] /\ a.disk = FileWith(b, {s})

\* The file has no gaps: beyond its last page there is nothing.
Contiguous(b) ==
  \A n, m \in PageNums : n < m /\ b.disk[n] = Absent => b.disk[m] = Absent

\* What a fault leaves behind is a value of Torn, or nothing.
IsFault(fault) == fault[2] \in Torn \cup {Absent}

\* c is b after a call that failed: nothing has changed, or the file has that
\* was to receive a dirty frame.
Failed(b, fault, c) ==
  \/ c = b
  \/ /\ \E s \in b.used : b.dirty[s] /\ b.key[s] = <<Fd, fault[1]>>
     /\ c = TornWrite(b, fault)

\* A write() that fails changes the page it was to write, fills the holes before
\* it when that is beyond the end of the file, and changes nothing else.
LEMMA TornEffect ==
  ASSUME NEW b, Sound(b, {}), NEW fault, IsFault(fault), fault[1] \in PageNums
  PROVE  LET c == TornWrite(b, fault)
             n == fault[1]
         IN  /\ c \in Pools
             /\ c.used = b.used /\ c.newer = b.newer /\ c.free = b.free
             /\ c.key = b.key /\ c.pin = b.pin /\ c.dirty = b.dirty
             /\ c.data = b.data /\ c.hash = b.hash
             /\ \A m \in PageNums :
                  \/ c.disk[m] = b.disk[m]
                  \/ m = n /\ b.disk[n] # Absent /\ c.disk[m] \in Torn
                  \/ /\ b.disk[m] = Absent /\ b.disk[n] = Absent /\ n > m
                     /\ c.disk[m] \in Torn \cup {Zero}
             /\ Contiguous(b) => Contiguous(c)
  <1> DEFINE c == TornWrite(b, fault)
             n == fault[1]
             F == [m \in PageNums |-> IF m < n /\ b.disk[m] = Absent THEN Hole(b, m) ELSE b.disk[m]]
  <1>1. b \in Pools /\ n \in PageNums /\ n \in Int
    BY DEF Sound, PageNums
  <1>2. CASE fault[2] = Absent
    <2>1. c = b
      BY <1>2 DEF TornWrite
    <2> QED
      BY <1>1, <2>1
  <1>3. CASE fault[2] # Absent /\ b.disk[n] # Absent
    <2>1. fault[2] \in Torn /\ fault[2] \in Data
      BY <1>3, BufferAssumption DEF IsFault
    <2>2. c = [b EXCEPT !.disk[n] = fault[2]]
      BY <1>3 DEF TornWrite
    <2> HIDE DEF c, n
    <2>3. /\ c \in Pools
          /\ c.used = b.used /\ c.newer = b.newer /\ c.free = b.free
          /\ c.key = b.key /\ c.pin = b.pin /\ c.dirty = b.dirty
          /\ c.data = b.data /\ c.hash = b.hash
          /\ c.disk[n] = fault[2]
          /\ \A m \in PageNums : m # n => c.disk[m] = b.disk[m]
      BY <1>1, <2>1, <2>2 DEF Pools
    <2>4. Contiguous(b) => Contiguous(c)
      BY <1>3, <2>1, <2>3, BufferAssumption DEF Contiguous, n
    <2>5. c = TornWrite(b, fault) /\ n = fault[1]
      BY DEF c, n
    <2> QED
      BY <1>1, <1>3, <2>1, <2>3, <2>4, <2>5
  <1>4. CASE fault[2] # Absent /\ b.disk[n] = Absent
    <2>1. fault[2] \in Torn
      BY <1>4 DEF IsFault
    <2>2. c = [b EXCEPT !.disk = F, !.tail = fault[2]]
      BY <1>4 DEF TornWrite
    <2>3. \A m \in PageNums : Hole(b, m) \in Data /\ Hole(b, m) \in Torn \cup {Zero}
      BY <1>1, HoleContent
    <2>4. F \in [PageNums -> Data \cup {Absent}]
      BY <1>1, <2>3 DEF Pools
    <2>5. /\ F[n] = b.disk[n]
          /\ \A m \in PageNums :
               \/ F[m] = b.disk[m]
               \/ b.disk[m] = Absent /\ n > m /\ F[m] \in Torn \cup {Zero}
          /\ \A m \in PageNums : F[m] = Absent => b.disk[m] = Absent /\ ~(m < n)
          /\ \A m \in PageNums : ~(m < n) => F[m] = b.disk[m]
      <3>1. \A m \in PageNums : m \in Int
        BY DEF PageNums
      <3>2. Absent \notin Data
        BY BufferAssumption
      <3>3. \A m \in PageNums : F[m] = IF m < n /\ b.disk[m] = Absent THEN Hole(b, m) ELSE b.disk[m]
        OBVIOUS
      <3> HIDE DEF n, F
      <3>4. \A m \in PageNums : m < n <=> n > m
        BY <1>1, <3>1
      <3>5. ~(n < n)
        BY <1>1
      <3> QED
        BY <1>1, <2>3, <3>2, <3>3, <3>4, <3>5
    <2> HIDE DEF c, n, F
    <2>6. /\ c \in Pools
          /\ c.used = b.used /\ c.newer = b.newer /\ c.free = b.free
          /\ c.key = b.key /\ c.pin = b.pin /\ c.dirty = b.dirty
          /\ c.data = b.data /\ c.hash = b.hash /\ c.disk = F
      BY <1>1, <2>1, <2>2, <2>4 DEF Pools
    <2>7. Contiguous(b) => Contiguous(c)
      <3>1. \A m, j \in PageNums : m < j /\ ~(m < n) => ~(j < n)
        BY <1>1 DEF PageNums
      <3> QED
        BY <2>5, <2>6, <3>1 DEF Contiguous
    <2>8. c = TornWrite(b, fault) /\ n = fault[1]
      BY DEF c, n
    <2> QED
      BY <1>4, <2>5, <2>6, <2>7, <2>8
  <1> QED
    BY <1>2, <1>3, <1>4

\* A call that failed leaves a sound pool: the frame it could not write stays
\* dirty, so that no clean frame differs from the file.
LEMMA FailedSound ==
  ASSUME NEW b, Sound(b, {}), NEW fault, IsFault(fault), NEW c, Failed(b, fault, c)
  PROVE  Sound(c, {})
  <1>1. CASE c = b
    BY <1>1
  <1>2. CASE c # b
    <2>1. PICK s \in b.used : b.dirty[s] /\ b.key[s] = <<Fd, fault[1]>>
      BY <1>2 DEF Failed
    <2>2. c = TornWrite(b, fault)
      BY <1>2 DEF Failed
    <2>3. fault[1] \in PageNums
      BY <2>1, BufferAssumption DEF Sound, Keys, FileKeys, BlockKeys, MEMORY_FD
    <2>4. /\ c \in Pools
          /\ c.used = b.used /\ c.newer = b.newer /\ c.free = b.free
          /\ c.key = b.key /\ c.pin = b.pin /\ c.dirty = b.dirty
          /\ c.data = b.data /\ c.hash = b.hash
          /\ \A m \in PageNums : m = fault[1] \/ c.disk[m] = b.disk[m] \/ b.disk[m] = Absent
      BY <2>2, <2>3, TornEffect
    <2>5. ASSUME NEW t \in b.used, NEW m \in PageNums, b.key[t] = <<Fd, m>>, ~b.dirty[t]
          PROVE  b.data[t] = c.disk[m]
      <3>1. b.data[t] = b.disk[m] /\ b.data[t] \in Data
        BY <2>5 DEF Sound, Pools
      <3>2. m # fault[1]
        BY <2>1, <2>5, OneSlotPerKey
      <3> QED
        BY <2>4, <3>1, <3>2, BufferAssumption
    <2>6. Ordered(c) /\ Partitioned(c)
      BY <2>4 DEF Sound, Ordered, Partitioned
    <2> QED
      BY <2>4, <2>5, <2>6 DEF Sound
  <1> QED
    BY <1>1, <1>2

\* InternalAlloc fails, or hands out a slot.
LEMMA InternalAllocSound ==
  ASSUME NEW b, Sound(b, {}), NEW s \in Choices(b), NEW fault
  PROVE  /\ InternalAlloc(b, s, fault).rc # OK => Failed(b, fault, InternalAlloc(b, s, fault).pool)
         /\ InternalAlloc(b, s, fault).rc = OK => Allocated(b, s, InternalAlloc(b, s, fault).pool)
  <1>1. b \in Pools
    BY DEF Sound
  <1>2. CASE s = NoSlot
    BY <1>2 DEF InternalAlloc, Return, NOBUF, OK, Failed
  <1>3. CASE s # NoSlot /\ s \in b.free
    <2> DEFINE a == LinkHead([b EXCEPT !.free = b.free \ {s}], s)
    <2>1. InternalAlloc(b, s, fault) = [rc |-> OK, pool |-> a]
      BY <1>3 DEF InternalAlloc, Return
    <2>2. Sound(a, {s}) /\ a.hash = b.hash /\ a.disk = b.disk
      BY <1>3, TakeFreeSound
    <2>3. s \in Slots
      BY <1>1, <1>3 DEF Pools
    <2> HIDE DEF a
    <2>4. \A k \in Keys : b.hash[k] # s
      BY <1>3 DEF Sound, Partitioned
    <2> QED
      BY <2>1, <2>2, <2>3, <2>4 DEF Allocated
  <1>4. CASE s # NoSlot /\ s \notin b.free
    <2>1. s \in Unpinned(b) /\ s \in b.used
      BY <1>4 DEF Choices, Candidates, Victims, Unpinned
    <2>2. CASE b.dirty[s] /\ b.key[s] = <<Fd, fault[1]>>
      <3>1. InternalAlloc(b, s, fault) = Return(UNIXERR, TornWrite(b, fault))
        BY <1>4, <2>2 DEF InternalAlloc
      <3> QED
        BY <2>1, <2>2, <3>1 DEF Return, UNIXERR, OK, Failed
    <2>3. CASE ~(b.dirty[s] /\ b.key[s] = <<Fd, fault[1]>>)
      <3> DEFINE a == LinkHead(Evict(b, s), s)
                 w == IF b.dirty[s] THEN WritePages(b, {s}) ELSE b
      <3>1. InternalAlloc(b, s, fault) = [rc |-> OK, pool |-> a]
        BY <1>4, <2>3 DEF InternalAlloc, Return
      <3>2. /\ Sound(a, {s})
            /\ a.disk = w.disk
            /\ \A k \in Keys : a.hash[k] = IF b.hash[k] = s THEN NoSlot ELSE b.hash[k]
        BY <2>1, EvictSound
      <3>3. w.disk = b.disk \/ (b.dirty[s] /\ w.disk = FileWith(b, {s}))
        <4>1. {s} \in SUBSET b.used
          BY <2>1
        <4>2. WritePages(b, {s}).disk = FileWith(b, {s})
          BY <4>1, WritePagesEffect
        <4> QED
          BY <4>2
      <3>4. s \in Slots
        BY <1>1, <2>1 DEF Pools
      <3> HIDE DEF a, w
      <3> QED
        BY <2>1, <3>1, <3>2, <3>3, <3>4 DEF Allocated
    <2> QED
      BY <2>2, <2>3
  <1> QED
    BY <1>2, <1>3, <1>4

----------------------------------------------------------------------------
\* Binding a page that is not in the buffer to the slot that holds none: the
\* frame has to agree with the file or be marked dirty.
Binds(b, k, s, c) ==
  /\ k \in Keys /\ b.hash[k] = NoSlot
  /\ c \in Pools /\ Ordered(c)
  /\ c.used = b.used /\ c.free = b.free /\ c.disk = b.disk
  /\ c.key = [b.key EXCEPT ![s] = k]
  /\ c.hash = [b.hash EXCEPT ![k] = s]
  /\ \A t \in Slots \ {s} : c.dirty[t] = b.dirty[t] /\ c.data[t] = b.data[t]
  /\ \A n \in PageNums : k = <<Fd, n>> /\ ~c.dirty[s] => c.data[s] = c.disk[n]
  /\ k \in BlockKeys => k = <<MEMORY_FD, s>> /\ ~c.dirty[s]

\* It leaves a sound pool.
LEMMA BoundSound ==
  ASSUME NEW b, NEW s, Sound(b, {s}), NEW k, NEW c, Binds(b, k, s, c)
  PROVE  Sound(c, {})
  <1> USE DEF Binds
  <1>1. b \in Pools /\ s \in Slots /\ s \in b.used /\ b.used \subseteq Slots
    BY DEF Sound, Pools
  <1>2. /\ \A t \in Slots : c.key[t] = IF t = s THEN k ELSE b.key[t]
        /\ \A j \in Keys : c.hash[j] = IF j = k THEN s ELSE b.hash[j]
    BY <1>1 DEF Pools
  <1>3. \A t \in c.used : c.key[t] \in Keys /\ c.hash[c.key[t]] = t
    <2> SUFFICES ASSUME NEW t \in b.used
                 PROVE  c.key[t] \in Keys /\ c.hash[c.key[t]] = t
      OBVIOUS
    <2>1. CASE t = s
      BY <1>1, <1>2, <2>1
    <2>2. CASE t # s
      <3>1. b.key[t] \in Keys /\ b.hash[b.key[t]] = t
        BY <2>2 DEF Sound
      <3>2. b.key[t] # k
        BY <1>1, <3>1, BufferAssumption
      <3> QED
        BY <1>1, <1>2, <2>2, <3>1, <3>2
    <2> QED
      BY <2>1, <2>2
  <1>4. \A j \in Keys : c.hash[j] # NoSlot => c.hash[j] \in c.used /\ c.key[c.hash[j]] = j
    <2> SUFFICES ASSUME NEW j \in Keys, c.hash[j] # NoSlot
                 PROVE  c.hash[j] \in b.used /\ c.key[c.hash[j]] = j
      OBVIOUS
    <2>1. CASE j = k
      BY <1>1, <1>2, <2>1
    <2>2. CASE j # k
      <3>1. b.hash[j] \in b.used \ {s} /\ b.key[b.hash[j]] = j
        BY <1>2, <2>2 DEF Sound
      <3> QED
        BY <1>1, <1>2, <2>2, <3>1
    <2> QED
      BY <2>1, <2>2
  <1>5. \A t \in c.used, n \in PageNums :
          c.key[t] = <<Fd, n>> /\ ~c.dirty[t] => c.data[t] = c.disk[n]
    <2> SUFFICES ASSUME NEW t \in b.used, NEW n \in PageNums,
                        c.key[t] = <<Fd, n>>, ~c.dirty[t]
                 PROVE  c.data[t] = c.disk[n]
      OBVIOUS
    <2>1. CASE t = s
      BY <1>1, <1>2, <2>1
    <2>2. CASE t # s
      BY <1>1, <1>2, <2>2 DEF Sound
    <2> QED
      BY <2>1, <2>2
  <1>6. \A t \in c.used : c.key[t] \in BlockKeys => c.key[t] = <<MEMORY_FD, t>> /\ ~c.dirty[t]
    <2> SUFFICES ASSUME NEW t \in b.used, c.key[t] \in BlockKeys
                 PROVE  c.key[t] = <<MEMORY_FD, t>> /\ ~c.dirty[t]
      OBVIOUS
    <2>1. CASE t = s
      BY <1>1, <1>2, <2>1
    <2>2. CASE t # s
      BY <1>1, <1>2, <2>2 DEF Sound
    <2> QED
      BY <2>1, <2>2
  <1>7. Partitioned(c)
    BY DEF Sound, Partitioned
  <1> QED
    BY <1>3, <1>4, <1>5, <1>6, <1>7 DEF Sound

\* c is b with page k bound to slot s and pinned once.
BoundTo(b, k, s, c) ==
  /\ c \in Pools
  /\ c.used = b.used
  /\ c.newer = b.newer
  /\ c.free = b.free
  /\ c.key = [b.key EXCEPT ![s] = k]
  /\ c.pin = [b.pin EXCEPT ![s] = 1]
  /\ c.dirty = [b.dirty EXCEPT ![s] = FALSE]
  /\ c.data = b.data
  /\ c.hash = [b.hash EXCEPT ![k] = s]
  /\ c.disk = b.disk

\* Bind enters the page in the hash table and the descriptor, pins it once and
\* clears bDirty, as InitPageDesc does.
LEMMA BindEffect ==
  ASSUME NEW b \in Pools, NEW k \in Keys, NEW s \in Slots
  PROVE  BoundTo(b, k, s, Bind(b, k, s))
  <1> DEFINE K == [b.key EXCEPT ![s] = k]
             P == [b.pin EXCEPT ![s] = 1]
             D == [b.dirty EXCEPT ![s] = FALSE]
             H == [b.hash EXCEPT ![k] = s]
  <1>1. /\ K \in [Slots -> Keys \cup {NoKey}] /\ P \in [Slots -> Nat]
        /\ D \in [Slots -> BOOLEAN] /\ H \in [Keys -> Slots \cup {NoSlot}]
    BY DEF Pools
  <1>2. Bind(b, k, s) = [b EXCEPT !.hash = H, !.key = K, !.dirty = D, !.pin = P]
    BY DEF Bind, HashInsert, InitPageDesc, Pools
  <1> HIDE DEF K, P, D, H
  <1>3. /\ Bind(b, k, s) \in Pools
        /\ Bind(b, k, s).used = b.used
        /\ Bind(b, k, s).newer = b.newer
        /\ Bind(b, k, s).free = b.free
        /\ Bind(b, k, s).key = K
        /\ Bind(b, k, s).pin = P
        /\ Bind(b, k, s).dirty = D
        /\ Bind(b, k, s).data = b.data
        /\ Bind(b, k, s).hash = H
        /\ Bind(b, k, s).disk = b.disk
    BY <1>1, <1>2 DEF Pools
  <1> QED
    BY <1>3 DEF BoundTo, K, P, D, H

----------------------------------------------------------------------------
\* The operations, one by one: each takes a sound pool to a sound pool,
\* whatever I/O fails in it.
LEMMA NewPoolSound ==
  ASSUME NEW file \in [PageNums -> Data \cup {Absent}], NEW tail \in Torn \cup {Absent}
  PROVE  Sound(NewPool(file, tail), {})
  BY BufferAssumption DEF NewPool, Sound, Pools, Partitioned, Ordered

\* A page that is found is where Find says.
LEMMA FoundSlot ==
  ASSUME NEW b, Sound(b, {}), NEW k \in Keys, InBuffer(b, k)
  PROVE  Find(b, k) \in b.used /\ Find(b, k) \in Slots /\ b.key[Find(b, k)] = k
  BY DEF Sound, Pools, InBuffer, Find

\* GetPage on a page that is in the buffer preserves the invariant, whether it
\* pins the page or refuses to.
LEMMA GetBufferedSound ==
  ASSUME NEW b, Sound(b, {}), NEW n \in PageNums, InBuffer(b, <<Fd, n>>),
         NEW multiplePins \in BOOLEAN
  PROVE  Sound(GetBuffered(b, n, multiplePins).pool, {})
  <1> DEFINE k == <<Fd, n>>
             s == Find(b, k)
             u == [b EXCEPT !.pin[s] = @ + 1]
  <1>1. k \in Keys /\ InBuffer(b, k)
    BY DEF Keys, FileKeys
  <1>2. s \in b.used /\ s \in Slots
    <2> HIDE DEF k
    <2> QED
      BY <1>1, FoundSlot
  <1> HIDE DEF s
  <1>3. b.pin[s] + 1 \in Nat
    BY <1>2 DEF Sound, Pools
  <1>4. u = [b EXCEPT !.pin[s] = b.pin[s] + 1]
    BY DEF Sound, Pools
  <1>5. Sound(u, {})
    BY <1>2, <1>3, <1>4, PinSound
  <1>6. u.used = b.used
    BY DEF Sound, Pools
  <1>7. GetBuffered(b, n, multiplePins).pool \in {b, Promote(u, s)}
    BY DEF GetBuffered, Return, s
  <1> HIDE DEF u
  <1>8. Sound(Promote(u, s), {})
    BY <1>2, <1>5, <1>6, PromoteSound
  <1> QED
    BY <1>7, <1>8

\* GetPage's read into a slot it has just allocated: the slot is bound to the
\* page, or goes back to the free list when the read fails.
LEMMA ReadIntoSound ==
  ASSUME NEW b, NEW s, Sound(b, {s}), NEW n \in PageNums, b.hash[<<Fd, n>>] = NoSlot,
         NEW fault
  PROVE  Sound(ReadInto(b, n, s, fault).pool, {})
  <1> DEFINE k == <<Fd, n>>
             r == [b EXCEPT !.data[s] = b.disk[n]]
             c == Bind(r, k, s)
  <1>1. k \in Keys /\ k \notin BlockKeys
    BY BufferAssumption DEF Keys, FileKeys, BlockKeys, MEMORY_FD
  <1>2. b \in Pools /\ s \in Slots
    BY DEF Sound, Pools
  <1>3. CASE b.disk[n] = Absent \/ n = fault[1]
    BY <1>3, ReleaseSound DEF ReadInto, Return
  <1>4. CASE ~(b.disk[n] = Absent \/ n = fault[1])
    <2>1. b.disk[n] \in Data
      BY <1>2, <1>4 DEF Pools
    <2>2. /\ r \in Pools
          /\ r.used = b.used /\ r.newer = b.newer /\ r.free = b.free /\ r.key = b.key
          /\ r.pin = b.pin /\ r.dirty = b.dirty /\ r.hash = b.hash /\ r.disk = b.disk
          /\ r.data = [b.data EXCEPT ![s] = b.disk[n]]
      BY <1>2, <2>1 DEF Pools
    <2>3. ReadInto(b, n, s, fault).pool = c
      BY <1>4 DEF ReadInto, Return
    <2> HIDE DEF r
    <2>4. BoundTo(r, k, s, c)
      <3>1. r \in Pools /\ k \in Keys /\ s \in Slots
        BY <1>1, <1>2, <2>2
      <3> HIDE DEF k
      <3> QED
        BY <3>1, BindEffect
    <2> HIDE DEF c
    <2> USE DEF BoundTo
    <2>5. Ordered(c)
      BY <2>2, <2>4 DEF Sound, Ordered
    <2>6. \A t \in Slots \ {s} : c.dirty[t] = b.dirty[t] /\ c.data[t] = b.data[t]
      BY <1>2, <2>2, <2>4 DEF Pools
    <2>7. c.data[s] = c.disk[n]
      BY <1>2, <2>2, <2>4 DEF Pools
    <2>8. \A m \in PageNums : k = <<Fd, m>> /\ ~c.dirty[s] => c.data[s] = c.disk[m]
      BY <2>7
    <2>9. c.key = [b.key EXCEPT ![s] = k] /\ c.hash = [b.hash EXCEPT ![k] = s]
      BY <2>2, <2>4
    <2>10. c.used = b.used /\ c.free = b.free /\ c.disk = b.disk /\ c \in Pools
      BY <2>2, <2>4
    <2>11. b.hash[k] = NoSlot
      OBVIOUS
    <2> HIDE DEF k
    <2>12. Binds(b, k, s, c)
      BY <1>1, <2>5, <2>6, <2>8, <2>9, <2>10, <2>11 DEF Binds
    <2>13. Sound(c, {})
      BY <2>12, BoundSound
    <2> QED
      BY <2>3, <2>13
  <1> QED
    BY <1>3, <1>4

\* GetPage preserves the invariant on a hit, on a miss, and when no slot is left
\* or an I/O call fails.
LEMMA GetPageSound ==
  ASSUME NEW b, Sound(b, {}), NEW n \in PageNums, NEW multiplePins \in BOOLEAN,
         NEW s \in Choices(b), NEW fault, IsFault(fault)
  PROVE  Sound(GetPage(b, n, multiplePins, s, fault).pool, {})
  <1> DEFINE k == <<Fd, n>>
             a == InternalAlloc(b, s, fault)
  <1>1. k \in Keys
    BY DEF Keys, FileKeys
  <1>2. CASE InBuffer(b, k)
    BY <1>2, GetBufferedSound DEF GetPage
  <1>3. CASE ~InBuffer(b, k)
    <2>1. (a.rc # OK => Failed(b, fault, a.pool)) /\ (a.rc = OK => Allocated(b, s, a.pool))
      BY InternalAllocSound
    <2>2. GetPage(b, n, multiplePins, s, fault)
            = IF a.rc # OK THEN a ELSE ReadInto(a.pool, n, s, fault)
      BY <1>3 DEF GetPage
    <2> HIDE DEF a
    <2>3. CASE a.rc # OK
      BY <2>1, <2>2, <2>3, FailedSound
    <2>4. CASE a.rc = OK
      <3>1. a.pool.hash[<<Fd, n>>] = NoSlot /\ Sound(a.pool, {s})
        BY <1>1, <1>3, <2>1, <2>4 DEF InBuffer, Find, Allocated
      <3>2. Sound(ReadInto(a.pool, n, s, fault).pool, {})
        BY <3>1, ReadIntoSound
      <3> QED
        BY <2>2, <2>4, <3>2
    <2> QED
      BY <2>3, <2>4
  <1> QED
    BY <1>2, <1>3

\* A page or block that was given a frame and, when it is a page, filled and
\* marked dirty at once (AllocatePage and its caller; AllocateBlock).
LEMMA AllocateBlockSound ==
  ASSUME NEW b, Sound(b, {}), NEW s \in Choices(b), NEW fault, IsFault(fault)
  PROVE  Sound(AllocateBlock(b, s, fault).pool, {})
  <1> DEFINE k == <<MEMORY_FD, s>>
             a == InternalAlloc(b, s, fault)
             c == Bind(a.pool, k, s)
  <1>1. (a.rc # OK => Failed(b, fault, a.pool)) /\ (a.rc = OK => Allocated(b, s, a.pool))
    BY InternalAllocSound
  <1>2. AllocateBlock(b, s, fault) = IF a.rc # OK THEN a ELSE Return(OK, c)
    BY DEF AllocateBlock, AllocateKey
  <1> HIDE DEF a
  <1>3. CASE a.rc # OK
    BY <1>1, <1>2, <1>3, FailedSound
  <1>4. CASE a.rc = OK
    <2> DEFINE r == a.pool
    <2>1. s \in Slots /\ Sound(r, {s}) /\ r \in Pools
      BY <1>1, <1>4 DEF Sound, Allocated
    <2>2. k \in Keys /\ k \in BlockKeys /\ k \notin FileKeys
      BY <2>1, BufferAssumption DEF Keys, BlockKeys, FileKeys, MEMORY_FD
    <2>3. r.hash[k] = NoSlot
      <3>1. ASSUME b.hash[k] # NoSlot, b.hash[k] # s PROVE FALSE
        <4>1. b.hash[k] \in b.used /\ b.key[b.hash[k]] = k
          BY <2>2, <3>1 DEF Sound
        <4>2. b.key[b.hash[k]] = <<MEMORY_FD, b.hash[k]>>
          BY <2>2, <4>1 DEF Sound
        <4> QED
          BY <3>1, <4>1, <4>2
      <3> QED
        BY <1>1, <1>4, <2>2, <3>1 DEF Allocated
    <2> HIDE DEF r, k
    <2>4. BoundTo(r, k, s, c)
      BY <2>1, <2>2, BindEffect DEF r
    <2> HIDE DEF c
    <2> USE DEF BoundTo
    <2>5. Ordered(c)
      BY <2>1, <2>4 DEF Sound, Ordered
    <2>6. \A t \in Slots \ {s} : c.dirty[t] = r.dirty[t] /\ c.data[t] = r.data[t]
      BY <2>1, <2>4 DEF Pools
    <2>7. ~c.dirty[s]
      BY <2>1, <2>4 DEF Pools
    <2>8. \A n \in PageNums : k # <<Fd, n>>
      BY <2>2 DEF FileKeys
    <2>9. k = <<MEMORY_FD, s>>
      BY DEF k
    <2>10. c.key = [r.key EXCEPT ![s] = k] /\ c.hash = [r.hash EXCEPT ![k] = s]
      BY <2>4
    <2>11. c.used = r.used /\ c.free = r.free /\ c.disk = r.disk /\ c \in Pools
      BY <2>4
    <2>12. Binds(r, k, s, c)
      BY <2>2, <2>3, <2>5, <2>6, <2>7, <2>8, <2>9, <2>10, <2>11 DEF Binds
    <2>13. Sound(c, {})
      BY <2>1, <2>12, BoundSound
    <2> QED
      BY <1>2, <1>4, <2>13 DEF Return
  <1> QED
    BY <1>3, <1>4

\* A page that is allocated, filled and marked dirty, as every caller of
\* AllocatePage does, leaves the invariant intact.
LEMMA AllocateSound ==
  ASSUME NEW b, Sound(b, {}), NEW n \in PageNums, ~InBuffer(b, <<Fd, n>>),
         NEW d \in Data, NEW s \in Choices(b), NEW fault,
         AllocatePage(b, n, s, fault).rc = OK
  PROVE  Sound(MarkDirty(Store(AllocatePage(b, n, s, fault).pool, n, d), n), {})
  <1> DEFINE k == <<Fd, n>>
             a == InternalAlloc(b, s, fault)
             r == a.pool
             c == Bind(r, k, s)
             e == [c EXCEPT !.data[s] = d, !.dirty[s] = TRUE]
  <1>1. a.rc = OK => Allocated(b, s, a.pool)
    BY InternalAllocSound
  <1>2. AllocatePage(b, n, s, fault) = IF a.rc # OK THEN a ELSE Return(OK, c)
    BY DEF AllocatePage, AllocateKey
  <1>3. k \in Keys /\ k \notin BlockKeys
    BY BufferAssumption DEF Keys, FileKeys, BlockKeys, MEMORY_FD
  <1>4. b.hash[k] = NoSlot
    BY DEF InBuffer, Find
  <1> HIDE DEF a
  <1>5. a.rc = OK
    BY <1>2
  <1>6. AllocatePage(b, n, s, fault).pool = c
    BY <1>2, <1>5 DEF Return
  <1>7. s \in Slots /\ Sound(r, {s}) /\ r \in Pools /\ r.hash[k] = NoSlot
    BY <1>1, <1>3, <1>4, <1>5 DEF Sound, Allocated
  <1> HIDE DEF r
  <1>8. BoundTo(r, k, s, c)
    <2>1. r \in Pools /\ k \in Keys /\ s \in Slots
      BY <1>3, <1>7
    <2> HIDE DEF k
    <2> QED
      BY <2>1, BindEffect
  <1> HIDE DEF c
  <1> USE DEF BoundTo
  <1>9. Find(c, k) = s
    BY <1>3, <1>7, <1>8 DEF Find, Pools
  <1>10. MarkDirty(Store(c, n, d), n) = Promote(e, s)
    BY <1>7, <1>8, <1>9 DEF MarkDirty, Store, Find, Pools
  <1>11. /\ e \in Pools
         /\ e.used = c.used /\ e.newer = c.newer /\ e.free = c.free /\ e.key = c.key
         /\ e.hash = c.hash /\ e.disk = c.disk
         /\ e.dirty[s] = TRUE
         /\ \A t \in Slots \ {s} : e.dirty[t] = c.dirty[t] /\ e.data[t] = c.data[t]
    BY <1>7, <1>8 DEF Pools
  <1> HIDE DEF e
  <1>12. Ordered(e)
    BY <1>7, <1>8, <1>11 DEF Sound, Ordered
  <1>13. \A t \in Slots \ {s} : e.dirty[t] = r.dirty[t] /\ e.data[t] = r.data[t]
    BY <1>7, <1>8, <1>11 DEF Pools
  <1>14. e.key = [r.key EXCEPT ![s] = k] /\ e.hash = [r.hash EXCEPT ![k] = s]
    BY <1>8, <1>11
  <1>15. e.used = r.used /\ e.free = r.free /\ e.disk = r.disk /\ s \in e.used
    BY <1>7, <1>8, <1>11 DEF Sound
  <1> HIDE DEF k
  <1>16. Binds(r, k, s, e)
    BY <1>3, <1>7, <1>11, <1>12, <1>13, <1>14, <1>15 DEF Binds
  <1>17. Sound(e, {})
    BY <1>7, <1>16, BoundSound
  <1> QED
    BY <1>6, <1>10, <1>15, <1>17, PromoteSound

\* A store into a page of the buffer that is marked dirty.
LEMMA ChangeSound ==
  ASSUME NEW b, Sound(b, {}), NEW n \in PageNums, InBuffer(b, <<Fd, n>>), NEW d \in Data
  PROVE  Sound(MarkDirty(Store(b, n, d), n), {})
  <1> DEFINE k == <<Fd, n>>
             s == Find(b, k)
             e == [b EXCEPT !.data[s] = d, !.dirty[s] = TRUE]
  <1>1. k \in Keys /\ InBuffer(b, k) /\ b \in Pools
    BY DEF Keys, FileKeys, Sound
  <1>2. s \in b.used /\ s \in Slots /\ b.key[s] = k
    <2> HIDE DEF k
    <2> QED
      BY <1>1, FoundSlot
  <1>3. MarkDirty(Store(b, n, d), n) = Promote(e, s)
    BY <1>1 DEF MarkDirty, Store, Find, Pools
  <1>4. k \notin BlockKeys
    BY BufferAssumption DEF BlockKeys, MEMORY_FD
  <1> HIDE DEF s, k
  <1>5. /\ e \in Pools
        /\ e.used = b.used /\ e.newer = b.newer /\ e.free = b.free /\ e.key = b.key
        /\ e.hash = b.hash /\ e.disk = b.disk
        /\ e.dirty[s] = TRUE
        /\ \A t \in Slots \ {s} : e.dirty[t] = b.dirty[t] /\ e.data[t] = b.data[t]
    BY <1>1, <1>2 DEF Pools
  <1> HIDE DEF e
  <1>6. Ordered(e) /\ Partitioned(e)
    BY <1>5 DEF Sound, Ordered, Partitioned
  <1>7. \A t \in e.used, m \in PageNums :
          e.key[t] = <<Fd, m>> /\ ~e.dirty[t] => e.data[t] = e.disk[m]
    <2> SUFFICES ASSUME NEW t \in b.used, NEW m \in PageNums,
                        b.key[t] = <<Fd, m>>, ~e.dirty[t]
                 PROVE  e.data[t] = b.disk[m]
      BY <1>5
    <2>1. t # s /\ t \in Slots
      BY <1>1, <1>5 DEF Pools
    <2> QED
      BY <1>5, <2>1 DEF Sound
  <1>8. \A t \in e.used : e.key[t] \in BlockKeys => e.key[t] = <<MEMORY_FD, t>> /\ ~e.dirty[t]
    <2> SUFFICES ASSUME NEW t \in b.used, b.key[t] \in BlockKeys
                 PROVE  b.key[t] = <<MEMORY_FD, t>> /\ ~e.dirty[t]
      BY <1>5
    <2>1. t # s /\ t \in Slots
      BY <1>1, <1>2, <1>4 DEF Pools
    <2> QED
      BY <1>5, <2>1 DEF Sound
  <1>9. Sound(e, {})
    BY <1>5, <1>6, <1>7, <1>8 DEF Sound
  <1> QED
    BY <1>2, <1>3, <1>5, <1>9, PromoteSound

\* UnpinPage and DisposeBlock, called for what is pinned.
LEMMA UnpinSound ==
  ASSUME NEW b, Sound(b, {}), NEW k \in Keys, Pinned(b, k)
  PROVE  Sound(UnpinPage(b, k), {})
  <1> DEFINE s == Find(b, k)
             u == [b EXCEPT !.pin[s] = b.pin[s] - 1]
  <1>1. b \in Pools /\ s \in b.used /\ s \in Slots
    BY FoundSlot DEF Pinned, Sound
  <1>2. b.pin[s] - 1 \in Nat
    <2>1. b.pin[s] > 0 /\ b.pin[s] \in Nat
      BY <1>1 DEF Pinned, Pools
    <2> QED
      BY <2>1
  <1>3. UnpinPage(b, k) \in {u, Promote(u, s)}
    BY <1>1 DEF UnpinPage, Pools
  <1> HIDE DEF s
  <1>4. Sound(u, {})
    BY <1>1, <1>2, PinSound
  <1>5. u.used = b.used
    BY <1>1 DEF Pools
  <1> HIDE DEF u
  <1>6. Sound(Promote(u, s), {})
    BY <1>1, <1>4, <1>5, PromoteSound
  <1> QED
    BY <1>3, <1>4, <1>6

\* Slots that leave the buffer: written first if dirty (FlushPages), or just
\* dropped (ClearBuffer).
LEMMA ForgetSound ==
  ASSUME NEW b, Sound(b, {}), NEW S \in SUBSET b.used
  PROVE  LET c == Release(HashDelete(b, {b.key[s] : s \in S}), S)
         IN  Sound(c, {}) /\ c.used = b.used \ S /\ c.key = b.key /\ c.dirty = b.dirty
  <1> DEFINE h == HashDelete(b, {b.key[s] : s \in S})
  <1>1. Sound(h, S) /\ h.used = b.used /\ h.key = b.key /\ h.dirty = b.dirty
    BY HashDeleteEffect
  <1> HIDE DEF h
  <1>2. /\ Sound(Release(h, S), {}) /\ Release(h, S).used = h.used \ S
        /\ Release(h, S).key = h.key /\ Release(h, S).dirty = h.dirty
    BY <1>1, ReleaseSound
  <1> QED
    BY <1>1, <1>2 DEF h

\* Writing the dirty frames of S and returning all of S to the free list
\* preserves the invariant.
LEMMA DropSound ==
  ASSUME NEW b, Sound(b, {}), NEW S \in SUBSET b.used
  PROVE  /\ Sound(Drop(b, S), {})
         /\ Drop(b, S).used = b.used \ S
         /\ Drop(b, S).key = b.key
         /\ Drop(b, S).dirty = [s \in Slots |-> s \notin Dirty(b, S) /\ b.dirty[s]]
  <1> DEFINE w == WritePages(b, Dirty(b, S))
  <1>1. Dirty(b, S) \in SUBSET b.used
    BY DEF Dirty
  <1>2. /\ Sound(w, {}) /\ w.used = b.used /\ w.key = b.key
        /\ w.dirty = [s \in Slots |-> s \notin Dirty(b, S) /\ b.dirty[s]]
    BY <1>1, WritePagesEffect
  <1>3. Drop(b, S) = Release(HashDelete(w, {w.key[s] : s \in S}), S)
    BY DEF Drop
  <1> HIDE DEF w
  <1>4. S \in SUBSET w.used
    BY <1>2
  <1> QED
    BY <1>2, <1>3, <1>4, ForgetSound

\* A scan of the slots S ends with success, or with a write() of a dirty frame
\* it has not come to, which fails; d is the pool with the others written.
LEMMA ScanFails ==
  ASSUME NEW b, Sound(b, {}), NEW S \in SUBSET b.used, NEW fault, NEW d,
         Blocked(b, S, fault) # {}, d.key = b.key,
         b.used \ Scanned(b, S, fault) \subseteq d.used,
         \A s \in Slots : s \notin Scanned(b, S, fault) /\ b.dirty[s] => d.dirty[s]
  PROVE  /\ Failed(d, fault, TornWrite(d, fault))
         /\ fault[1] \in PageNums /\ InBuffer(b, <<Fd, fault[1]>>)
  <1>1. PICK t \in S : b.dirty[t] /\ b.key[t] = <<Fd, fault[1]>>
    BY DEF Blocked, Dirty
  <1>2. t \in Blocked(b, S, fault) /\ t \in b.used /\ t \in Slots
    BY <1>1 DEF Blocked, Dirty, Sound, Pools
  <1>3. t \notin Scanned(b, S, fault)
    BY <1>2 DEF Scanned, Sound, Ordered
  <1>4. t \in d.used /\ d.dirty[t] /\ d.key[t] = <<Fd, fault[1]>>
    BY <1>1, <1>2, <1>3
  <1>5. b.key[t] \in Keys /\ b.hash[b.key[t]] = t
    BY <1>2 DEF Sound
  <1>6. fault[1] \in PageNums
    BY <1>1, <1>5, BufferAssumption DEF Keys, FileKeys, BlockKeys, MEMORY_FD
  <1>7. InBuffer(b, <<Fd, fault[1]>>)
    BY <1>1, <1>2, <1>5, BufferAssumption DEF InBuffer, Find
  <1> QED
    BY <1>4, <1>6, <1>7 DEF Failed

\* FlushPages preserves the invariant, however far it gets.
LEMMA FlushSound ==
  ASSUME NEW b, Sound(b, {}), NEW fault, IsFault(fault)
  PROVE  Sound(FlushPages(b, fault).pool, {})
  <1> DEFINE S == OfFile(b) \cap Unpinned(b)
             T == Scanned(b, S, fault)
             d == Drop(b, T)
  <1>1. S \in SUBSET b.used /\ T \in SUBSET b.used
    BY DEF Scanned, OfFile
  <1>2. FlushPages(b, fault).pool = IF Blocked(b, S, fault) # {} THEN TornWrite(d, fault) ELSE d
    BY DEF FlushPages, Return
  <1> HIDE DEF S
  <1>3. /\ Sound(d, {}) /\ d.used = b.used \ T /\ d.key = b.key
        /\ d.dirty = [s \in Slots |-> s \notin Dirty(b, T) /\ b.dirty[s]]
    <2> HIDE DEF T
    <2> QED
      BY <1>1, DropSound
  <1> HIDE DEF d
  <1>4. \A s \in Slots : s \notin T /\ b.dirty[s] => d.dirty[s]
    BY <1>3 DEF Dirty
  <1>5. CASE Blocked(b, S, fault) # {}
    <2>1. Failed(d, fault, TornWrite(d, fault))
      BY <1>1, <1>3, <1>4, <1>5, ScanFails
    <2> QED
      BY <1>2, <1>3, <1>5, <2>1, FailedSound
  <1> QED
    BY <1>2, <1>3, <1>5

\* ForcePages preserves the invariant, however far it gets.
LEMMA ForceSound ==
  ASSUME NEW b, Sound(b, {}), NEW P, NEW fault, IsFault(fault)
  PROVE  Sound(ForcePages(b, P, fault).pool, {})
  <1> DEFINE S == {s \in OfFile(b) : b.key[s][2] \in P}
             T == Dirty(b, Scanned(b, S, fault))
             d == WritePages(b, T)
  <1>1. S \in SUBSET b.used /\ T \in SUBSET b.used /\ T \subseteq Scanned(b, S, fault)
    BY DEF Dirty, Scanned, OfFile
  <1>2. ForcePages(b, P, fault).pool = IF Blocked(b, S, fault) # {} THEN TornWrite(d, fault) ELSE d
    BY DEF ForcePages, Return
  <1> HIDE DEF S, T
  <1>3. /\ Sound(d, {}) /\ d.used = b.used /\ d.key = b.key
        /\ d.dirty = [s \in Slots |-> s \notin T /\ b.dirty[s]]
    BY <1>1, WritePagesEffect
  <1> HIDE DEF d
  <1>4. CASE Blocked(b, S, fault) # {}
    <2>1. Failed(d, fault, TornWrite(d, fault))
      BY <1>1, <1>3, <1>4, ScanFails
    <2> QED
      BY <1>2, <1>3, <1>4, <2>1, FailedSound
  <1> QED
    BY <1>2, <1>3, <1>4

\* ClearBuffer preserves the invariant, although it drops frames unwritten.
LEMMA ClearSound ==
  ASSUME NEW b, Sound(b, {})
  PROVE  Sound(ClearBuffer(b), {})
  <1> DEFINE S == Unpinned(b)
  <1>1. S \in SUBSET b.used
    BY DEF Unpinned
  <1>2. ClearBuffer(b) = Release(HashDelete(b, {b.key[s] : s \in S}), S)
    BY DEF ClearBuffer
  <1> HIDE DEF S
  <1> QED
    BY <1>1, <1>2, ForgetSound

----------------------------------------------------------------------------
(***************************************************************************)
(* What the callers of a pool can tell of its operations: the page a       *)
(* reader is shown (View), the pins on it (PinCount), the frames of pinned *)
(* pages, and the pages of the file.  Moved(b, c, S, K) is the shape all   *)
(* operations share: outside the keys K a page stays in its slot or leaves *)
(* the buffer unpinned, and the file takes over the frames of S.           *)
(***************************************************************************)

Moved(b, c, S, K) ==
  /\ S \in SUBSET b.used
  /\ c.disk = FileWith(b, S)
  /\ \A k \in Keys \ K :
       \/ /\ c.hash[k] = b.hash[k]
          /\ b.hash[k] # NoSlot => /\ c.data[b.hash[k]] = b.data[b.hash[k]]
                                   /\ c.pin[b.hash[k]] = b.pin[b.hash[k]]
       \/ /\ b.hash[k] # NoSlot /\ c.hash[k] = NoSlot
          /\ b.pin[b.hash[k]] = 0
          /\ b.dirty[b.hash[k]] => b.hash[k] \in S

\* What callers see of such a step.
\* The file receives nothing but what a reader is shown, holes, and page t
\* when its write() stops half way (NoPage: none does).
NoPage == -1
WritesBut(b, c, t) ==
  \A n \in PageNums :
    \/ c.disk[n] = b.disk[n]
    \/ View(b, n) # Absent /\ c.disk[n] = View(b, n)
    \/ /\ b.disk[n] = Absent
       /\ c.disk[n] \in Torn \cup {Zero}
       /\ \E m \in PageNums :
            /\ m > n /\ b.disk[m] = Absent /\ View(b, m) # Absent
            /\ c.disk[m] = View(b, m) \/ m = t
    \/ n = t /\ c.disk[n] \in Torn
Writes(b, c) ==
  \E t \in {n \in PageNums : View(b, n) # Absent} \cup {NoPage} : WritesBut(b, c, t)

\* Outside K no page reads differently, except that a hole reads as the file.
Reads(b, c, K) ==
  \A n \in PageNums :
    <<Fd, n>> \notin K =>
      View(c, n) = IF View(b, n) = Absent THEN c.disk[n] ELSE View(b, n)

\* Outside K no pin is taken or given back.
Pins(b, c, K) ==
  \A n \in PageNums : <<Fd, n>> \notin K => PinCount(c, n) = PinCount(b, n)

\* A pinned page or block outside K stays in its slot with its content.
Stays(b, c, K) ==
  \A k \in Keys \ K :
    Pinned(b, k) => Find(c, k) = Find(b, k) /\ c.data[Find(b, k)] = b.data[Find(b, k)]

Quiet(b, c, K) ==
  /\ Writes(b, c)
  /\ Reads(b, c, K)
  /\ Pins(b, c, K)
  /\ Stays(b, c, K)
  /\ Contiguous(c)

\* A page of the buffer is shown as its frame holds it, any other page as the
\* file holds it.
LEMMA ViewFrame ==
  ASSUME NEW b, NEW U, Sound(b, U), NEW n \in PageNums
  PROVE  /\ <<Fd, n>> \in Keys
         /\ InBuffer(b, <<Fd, n>>) =>
              /\ Find(b, <<Fd, n>>) \in b.used \ U
              /\ Find(b, <<Fd, n>>) \in Slots
              /\ b.key[Find(b, <<Fd, n>>)] = <<Fd, n>>
              /\ View(b, n) = b.data[Find(b, <<Fd, n>>)]
              /\ View(b, n) \in Data
              /\ View(b, n) # Absent
         /\ ~InBuffer(b, <<Fd, n>>) => View(b, n) = b.disk[n]
         /\ View(b, n) \in Data \cup {Absent}
  <1> DEFINE k == <<Fd, n>>
             s == Find(b, k)
  <1>1. k \in Keys
    BY DEF Keys, FileKeys
  <1>2. CASE InBuffer(b, k)
    <2>1. s \in b.used \ U /\ b.key[s] = k /\ s # NoSlot
      <3> HIDE DEF k
      <3> QED
        BY <1>1, <1>2 DEF Sound, InBuffer, Find
    <2>2. s \in Slots /\ b.data[s] \in Data
      BY <2>1 DEF Sound, Pools
    <2>3. ~b.dirty[s] => b.data[s] = b.disk[n]
      BY <2>1 DEF Sound
    <2>4. View(b, n) = b.data[s]
      BY <2>1, <2>3 DEF View
    <2> QED
      BY <1>1, <1>2, <2>1, <2>2, <2>4, BufferAssumption
  <1>3. CASE ~InBuffer(b, k)
    <2>1. View(b, n) = b.disk[n]
      BY <1>3 DEF View, InBuffer
    <2>2. b.disk[n] \in Data \cup {Absent}
      BY DEF Sound, Pools
    <2> QED
      BY <1>1, <1>3, <2>1, <2>2
  <1> QED
    BY <1>2, <1>3

\* What WritePages makes of one page of the file, as a reader sees it.
LEMMA WrittenPage ==
  ASSUME NEW b, Sound(b, {}), Contiguous(b), NEW S \in SUBSET b.used,
         NEW n \in PageNums
  PROVE  \/ FileWith(b, S)[n] = b.disk[n]
         \/ View(b, n) # Absent /\ FileWith(b, S)[n] = View(b, n)
         \/ /\ b.disk[n] = Absent
            /\ FileWith(b, S)[n] \in Torn \cup {Zero}
            /\ \E m \in PageNums :
                 /\ m > n /\ b.disk[m] = Absent /\ View(b, m) # Absent
                 /\ FileWith(b, S)[m] = View(b, m)
  <1>1. ASSUME NEW m \in PageNums, Holds(b, S, m)
        PROVE  View(b, m) # Absent /\ FileWith(b, S)[m] = View(b, m)
    <2>1. PICK s \in S : b.key[s] = <<Fd, m>>
      BY <1>1 DEF Holds
    <2>2. FileWith(b, S)[m] = b.data[s]
      BY <2>1, FileWithFacts
    <2>3. b.hash[<<Fd, m>>] = s /\ s \in Slots
      BY <2>1 DEF Sound, Pools
    <2>4. InBuffer(b, <<Fd, m>>) /\ Find(b, <<Fd, m>>) = s
      BY <2>3, BufferAssumption DEF InBuffer, Find
    <2> QED
      BY <2>2, <2>4, ViewFrame
  <1>2. CASE Holds(b, S, n)
    BY <1>1, <1>2
  <1>3. CASE ~Holds(b, S, n)
    <2>1. \/ FileWith(b, S)[n] = b.disk[n]
          \/ /\ b.disk[n] = Absent
             /\ FileWith(b, S)[n] \in Torn \cup {Zero}
             /\ \E m \in PageNums : m > n /\ Holds(b, S, m)
      BY <1>3, FileWithFacts
    <2>2. ASSUME b.disk[n] = Absent, NEW m \in PageNums, m > n
          PROVE  b.disk[m] = Absent
      <3>1. n < m
        BY <2>2 DEF PageNums
      <3> QED
        BY <2>2, <3>1 DEF Contiguous
    <2> QED
      BY <1>1, <2>1, <2>2
  <1> QED
    BY <1>2, <1>3

\* Writing frames leaves no gap in the file.
LEMMA WrittenContiguous ==
  ASSUME NEW b, Sound(b, {}), Contiguous(b), NEW S \in SUBSET b.used, NEW c,
         c.disk = FileWith(b, S)
  PROVE  Contiguous(c)
  <1> SUFFICES ASSUME NEW n \in PageNums, NEW m \in PageNums,
                      n < m, c.disk[n] = Absent
               PROVE  c.disk[m] = Absent
    BY DEF Contiguous
  <1>1. ~Holds(b, S, n)
    <2> SUFFICES ASSUME Holds(b, S, n) PROVE FALSE
      OBVIOUS
    <2>1. PICK s \in S : b.key[s] = <<Fd, n>>
      BY DEF Holds
    <2>2. c.disk[n] = b.data[s]
      BY <2>1, FileWithFacts
    <2>3. b.data[s] \in Data
      BY DEF Sound, Pools
    <2> QED
      BY <2>2, <2>3, BufferAssumption
  <1>2. m > n /\ m \in Int /\ n \in Int
    BY DEF PageNums
  <1>3. b.disk[n] = Absent /\ ~(\E j \in PageNums : j > n /\ Holds(b, S, j))
    <2>1. FileWith(b, S)[n] = IF b.disk[n] = Absent /\ \E j \in PageNums : j > n /\ Holds(b, S, j)
                              THEN Hole(b, n) ELSE b.disk[n]
      BY <1>1 DEF FileWith
    <2>2. Hole(b, n) # Absent
      BY HoleContent DEF Sound
    <2> QED
      BY <2>1, <2>2
  <1>4. b.disk[m] = Absent /\ ~Holds(b, S, m)
    BY <1>2, <1>3 DEF Contiguous
  <1>5. ~(\E j \in PageNums : j > m /\ Holds(b, S, j))
    BY <1>2, <1>3 DEF PageNums
  <1> QED
    BY <1>4, <1>5 DEF FileWith

\* A step of this shape writes whole pages only.
LEMMA MovedWrites ==
  ASSUME NEW b, Sound(b, {}), Contiguous(b), NEW c, NEW S, NEW K, Moved(b, c, S, K)
  PROVE  WritesBut(b, c, NoPage) /\ Writes(b, c)
  <1>1. WritesBut(b, c, NoPage)
    BY WrittenPage DEF Moved, WritesBut
  <1> QED
    BY <1>1 DEF Writes

\* A step of this shape is quiet: outside K callers see no difference.
LEMMA MovedQuiet ==
  ASSUME NEW b, Sound(b, {}), Contiguous(b), NEW U, NEW c, Sound(c, U),
         NEW S, NEW K, Moved(b, c, S, K)
  PROVE  Quiet(b, c, K)
  <1> USE DEF Moved
  <1>1. Writes(b, c)
    BY MovedWrites
  <1>2. Contiguous(c)
    BY WrittenContiguous
  <1>3. ASSUME NEW n \in PageNums, <<Fd, n>> \notin K
        PROVE  /\ View(c, n) = IF View(b, n) = Absent THEN c.disk[n] ELSE View(b, n)
               /\ PinCount(c, n) = PinCount(b, n)
    <2> DEFINE k == <<Fd, n>>
               s == b.hash[k]
    <2>1. k \in Keys \ K
      BY <1>3 DEF Keys, FileKeys
    <2>2. CASE /\ c.hash[k] = s
               /\ s # NoSlot => c.data[s] = b.data[s] /\ c.pin[s] = b.pin[s]
      <3>1. PinCount(c, n) = PinCount(b, n)
        BY <2>2 DEF PinCount, Find
      <3>2. CASE s # NoSlot
        <4>1. InBuffer(b, k) /\ InBuffer(c, k) /\ Find(b, k) = s /\ Find(c, k) = s
          BY <2>2, <3>2 DEF InBuffer, Find
        <4>2. View(b, n) = b.data[s] /\ View(b, n) # Absent
          BY <4>1, ViewFrame
        <4>3. View(c, n) = c.data[s]
          BY <4>1, ViewFrame
        <4> QED
          BY <2>2, <3>1, <3>2, <4>2, <4>3
      <3>3. CASE s = NoSlot
        <4>1. ~InBuffer(b, k) /\ ~InBuffer(c, k)
          BY <2>2, <3>3 DEF InBuffer, Find
        <4>2. View(b, n) = b.disk[n] /\ View(c, n) = c.disk[n]
          BY <4>1, ViewFrame
        <4>3. b.disk[n] # Absent => c.disk[n] = b.disk[n]
          BY <4>2, WrittenPage
        <4> QED
          BY <3>1, <4>2, <4>3
      <3> QED
        BY <3>2, <3>3
    <2>3. CASE /\ s # NoSlot /\ c.hash[k] = NoSlot
               /\ b.pin[s] = 0
               /\ b.dirty[s] => s \in S
      <3>1. PinCount(c, n) = PinCount(b, n)
        BY <2>3 DEF PinCount, Find
      <3>2. InBuffer(b, k) /\ Find(b, k) = s /\ ~InBuffer(c, k)
        BY <2>3 DEF InBuffer, Find
      <3>3. /\ View(b, n) = b.data[s] /\ View(b, n) # Absent /\ View(c, n) = c.disk[n]
            /\ s \in b.used /\ b.key[s] = <<Fd, n>>
        BY <3>2, ViewFrame
      <3>4. CASE s \in S
        <4>1. c.disk[n] = b.data[s]
          BY <3>3, <3>4, FileWithFacts
        <4> QED
          BY <3>1, <3>3, <4>1
      <3>5. CASE s \notin S
        <4>1. b.data[s] = b.disk[n]
          BY <2>3, <3>3, <3>5 DEF Sound
        <4>2. c.disk[n] = b.disk[n]
          BY <3>3, <4>1, WrittenPage
        <4> QED
          BY <3>1, <3>3, <4>1, <4>2
      <3> QED
        BY <3>4, <3>5
    <2> HIDE DEF k
    <2>4. \/ c.hash[k] = s /\ (s # NoSlot => c.data[s] = b.data[s] /\ c.pin[s] = b.pin[s])
          \/ s # NoSlot /\ c.hash[k] = NoSlot /\ b.pin[s] = 0 /\ (b.dirty[s] => s \in S)
      BY <2>1
    <2> QED
      BY <2>2, <2>3, <2>4
  <1>4. Stays(b, c, K)
    <2> SUFFICES ASSUME NEW k \in Keys \ K, Pinned(b, k)
                 PROVE  Find(c, k) = Find(b, k) /\ c.data[Find(b, k)] = b.data[Find(b, k)]
      BY DEF Stays
    <2>1. b.hash[k] # NoSlot /\ b.pin[b.hash[k]] # 0
      BY DEF Pinned, InBuffer, Find
    <2> QED
      BY <2>1 DEF Find
  <1> QED
    BY <1>1, <1>2, <1>3, <1>4 DEF Quiet, Reads, Pins

----------------------------------------------------------------------------
\* Writing no frame leaves the file as it is.
LEMMA FileWithNothing ==
  ASSUME NEW b \in Pools
  PROVE  FileWith(b, {}) = b.disk
  <1>1. \A n \in PageNums : ~Holds(b, {}, n)
    BY DEF Holds
  <1>2. b.disk \in [PageNums -> Data \cup {Absent}]
    BY DEF Pools
  <1> QED
    BY <1>1, <1>2 DEF FileWith

\* Two keys are never found at the same slot.
LEMMA OneKeyPerSlot ==
  ASSUME NEW b, NEW U, Sound(b, U), NEW j \in Keys, NEW k \in Keys,
         b.hash[j] = b.hash[k], b.hash[k] # NoSlot
  PROVE  j = k
  BY DEF Sound

\* a is b after InternalAlloc handed out slot s, and wrote the frames of S.
Took(b, s, S, a) ==
  /\ s \in Slots
  /\ Sound(a, {s})
  /\ S \in SUBSET b.used
  /\ a.disk = FileWith(b, S)
  /\ a.pin = b.pin
  /\ a.data = b.data
  /\ \A k \in Keys : a.hash[k] = IF b.hash[k] = s THEN NoSlot ELSE b.hash[k]
  /\ s \in b.used => b.pin[s] = 0 /\ (b.dirty[s] => s \in S)

\* InternalAlloc takes a slot that is free or unpinned, and a dirty page it
\* evicts is written.
LEMMA AllocTook ==
  ASSUME NEW b, Sound(b, {}), NEW s \in Choices(b), NEW fault,
         InternalAlloc(b, s, fault).rc = OK
  PROVE  \E S : Took(b, s, S, InternalAlloc(b, s, fault).pool)
  <1>1. b \in Pools /\ FileWith(b, {}) = b.disk
    BY FileWithNothing DEF Sound
  <1>2. s # NoSlot
    BY DEF InternalAlloc, Return, NOBUF, OK
  <1>3. CASE s \in b.free
    <2> DEFINE a == LinkHead([b EXCEPT !.free = b.free \ {s}], s)
    <2>1. InternalAlloc(b, s, fault).pool = a
      BY <1>2, <1>3 DEF InternalAlloc, Return
    <2>2. /\ Sound(a, {s}) /\ a.hash = b.hash /\ a.disk = b.disk
          /\ a.pin = b.pin /\ a.data = b.data
      BY <1>3, TakeFreeSound
    <2>3. s \in Slots /\ s \notin b.used
      BY <1>1, <1>3 DEF Pools, Sound, Partitioned
    <2> HIDE DEF a
    <2>4. \A k \in Keys : b.hash[k] # s
      BY <1>2, <2>3 DEF Sound
    <2>5. Took(b, s, {}, a)
      BY <1>1, <2>2, <2>3, <2>4 DEF Took
    <2> QED
      BY <2>1, <2>5
  <1>4. CASE s \notin b.free
    <2> DEFINE a == LinkHead(Evict(b, s), s)
               w == IF b.dirty[s] THEN WritePages(b, {s}) ELSE b
    <2>1. s \in b.used /\ b.pin[s] = 0 /\ s \in Slots
      BY <1>1, <1>2, <1>4 DEF Choices, Candidates, Victims, Unpinned, Pools
    <2>2. InternalAlloc(b, s, fault).pool = a
      BY <1>2, <1>4 DEF InternalAlloc, Return, UNIXERR, OK
    <2>3. /\ Sound(a, {s})
          /\ a.pin = b.pin /\ a.data = b.data /\ a.disk = w.disk
          /\ \A k \in Keys : a.hash[k] = IF b.hash[k] = s THEN NoSlot ELSE b.hash[k]
      BY <2>1, EvictSound
    <2>4. WritePages(b, {s}).disk = FileWith(b, {s})
      <3>1. {s} \in SUBSET b.used
        BY <2>1
      <3> QED
        BY <3>1, WritePagesEffect
    <2> HIDE DEF a
    <2>5. CASE b.dirty[s]
      <3>1. Took(b, s, {s}, a)
        BY <2>1, <2>3, <2>4, <2>5 DEF Took
      <3> QED
        BY <2>2, <3>1
    <2>6. CASE ~b.dirty[s]
      <3>1. Took(b, s, {}, a)
        BY <1>1, <2>1, <2>3, <2>6 DEF Took
      <3> QED
        BY <2>2, <3>1
    <2> QED
      BY <2>5, <2>6
  <1> QED
    BY <1>3, <1>4

\* Taking a slot, and then binding page or block k to it or giving it back,
\* moves no other page.
LEMMA TookMoved ==
  ASSUME NEW b, Sound(b, {}), NEW s, NEW S, NEW a, Took(b, s, S, a),
         NEW c, NEW K, c.disk = a.disk,
         \A k \in Keys \ K : c.hash[k] = a.hash[k],
         \A t \in Slots \ {s} : c.data[t] = a.data[t] /\ c.pin[t] = a.pin[t]
  PROVE  Moved(b, c, S, K)
  <1>1. S \in SUBSET b.used /\ c.disk = FileWith(b, S)
    BY DEF Took
  <1>2. ASSUME NEW k \in Keys \ K
        PROVE  \/ /\ c.hash[k] = b.hash[k]
                  /\ b.hash[k] # NoSlot => /\ c.data[b.hash[k]] = b.data[b.hash[k]]
                                           /\ c.pin[b.hash[k]] = b.pin[b.hash[k]]
               \/ /\ b.hash[k] # NoSlot /\ c.hash[k] = NoSlot
                  /\ b.pin[b.hash[k]] = 0
                  /\ b.dirty[b.hash[k]] => b.hash[k] \in S
    <2>1. b.hash[k] # NoSlot => b.hash[k] \in b.used /\ b.hash[k] \in Slots
      BY DEF Sound, Pools
    <2>2. CASE b.hash[k] = s
      <3>1. s # NoSlot /\ s \in b.used
        BY <2>1, <2>2, BufferAssumption DEF Took
      <3> QED
        BY <2>2, <3>1 DEF Took
    <2>3. CASE b.hash[k] # s
      BY <2>1, <2>3 DEF Took
    <2> QED
      BY <2>2, <2>3
  <1> QED
    BY <1>1, <1>2 DEF Moved

\* A call that changes one slot in place moves no page but the one there.
LEMMA TouchMoved ==
  ASSUME NEW b, Sound(b, {}), NEW k \in Keys, b.hash[k] # NoSlot,
         NEW c, c.hash = b.hash, c.disk = b.disk,
         \A t \in Slots \ {b.hash[k]} : c.data[t] = b.data[t] /\ c.pin[t] = b.pin[t]
  PROVE  Moved(b, c, {}, {k})
  <1>1. FileWith(b, {}) = b.disk
    BY FileWithNothing DEF Sound
  <1>2. ASSUME NEW j \in Keys \ {k}, b.hash[j] # NoSlot
        PROVE  b.hash[j] \in Slots \ {b.hash[k]}
    BY <1>2, OneKeyPerSlot DEF Sound, Pools
  <1> QED
    BY <1>1, <1>2 DEF Moved

\* Nothing at all is a quiet step.
LEMMA StillQuiet ==
  ASSUME NEW b, Sound(b, {}), Contiguous(b), NEW K
  PROVE  Quiet(b, b, K)
  <1>1. \A n \in PageNums : View(b, n) = Absent => View(b, n) = b.disk[n]
    BY ViewFrame
  <1>2. Writes(b, b)
    BY DEF Writes, WritesBut
  <1> QED
    BY <1>1, <1>2 DEF Quiet, Reads, Pins, Stays

\* Neither does a write() that fails, after a quiet step to d or at once: the
\* frame it could not write is shown instead of what it left in the file.
LEMMA TornQuiet ==
  ASSUME NEW b, Sound(b, {}), NEW d, Sound(d, {}), Quiet(b, d, {}),
         WritesBut(b, d, NoPage), NEW fault, IsFault(fault),
         fault[1] \in PageNums, InBuffer(b, <<Fd, fault[1]>>),
         NEW c, Failed(d, fault, c)
  PROVE  Quiet(b, c, {})
  <1> DEFINE n == fault[1]
  <1>1. CASE c = d
    BY <1>1
  <1>2. CASE c # d
    <2>1. /\ c = TornWrite(d, fault)
          /\ \E s \in d.used : d.key[s] = <<Fd, n>>
      BY <1>2 DEF Failed
    <2>2. Sound(c, {})
      BY FailedSound
    <2>3. /\ c.pin = d.pin /\ c.data = d.data /\ c.hash = d.hash
          /\ \A m \in PageNums :
               \/ c.disk[m] = d.disk[m]
               \/ m = n /\ d.disk[n] # Absent /\ c.disk[m] \in Torn
               \/ /\ d.disk[m] = Absent /\ d.disk[n] = Absent /\ n > m
                  /\ c.disk[m] \in Torn \cup {Zero}
          /\ Contiguous(c)
      BY <2>1, TornEffect DEF Quiet
    <2>4. View(b, n) # Absent /\ InBuffer(d, <<Fd, n>>)
      <3>1. PICK s \in d.used : d.key[s] = <<Fd, n>>
        BY <2>1
      <3>2. d.hash[<<Fd, n>>] = s /\ s # NoSlot
        <4>1. d.hash[d.key[s]] = s
          BY DEF Sound
        <4>2. s # NoSlot
          BY BufferAssumption DEF Sound, Pools
        <4> QED
          BY <3>1, <4>1, <4>2
      <3> QED
        BY <3>2, ViewFrame DEF InBuffer, Find
    <2> HIDE DEF n
    <2>5. ASSUME NEW m \in PageNums
          PROVE  View(c, m) = IF View(b, m) = Absent THEN c.disk[m] ELSE View(b, m)
      <3>1. View(d, m) = IF View(b, m) = Absent THEN d.disk[m] ELSE View(b, m)
        BY DEF Quiet, Reads
      <3>2. m # n /\ d.disk[m] # Absent => c.disk[m] = d.disk[m]
        BY <2>3
      <3>3. CASE InBuffer(d, <<Fd, m>>)
        <4>1. View(c, m) = View(d, m) /\ View(d, m) # Absent
          <5>1. InBuffer(c, <<Fd, m>>) /\ Find(c, <<Fd, m>>) = Find(d, <<Fd, m>>)
            BY <2>3, <3>3 DEF InBuffer, Find
          <5>2. View(c, m) = c.data[Find(c, <<Fd, m>>)]
            BY <2>2, <5>1, ViewFrame
          <5>3. View(d, m) = d.data[Find(d, <<Fd, m>>)] /\ View(d, m) # Absent
            BY <3>3, ViewFrame
          <5> QED
            BY <2>3, <5>1, <5>2, <5>3
        <4> QED
          BY <2>4, <3>1, <3>2, <4>1
      <3>4. CASE ~InBuffer(d, <<Fd, m>>)
        <4>1. ~InBuffer(c, <<Fd, m>>)
          BY <2>3, <3>4 DEF InBuffer, Find
        <4>2. View(c, m) = c.disk[m] /\ View(d, m) = d.disk[m]
          BY <2>2, <3>4, <4>1, ViewFrame
        <4>3. m # n
          BY <2>4, <3>4
        <4> QED
          BY <3>1, <3>2, <4>2, <4>3
      <3> QED
        BY <3>3, <3>4
    <2>6. /\ \A m \in PageNums : PinCount(c, m) = PinCount(d, m)
          /\ \A k \in Keys : Find(c, k) = Find(d, k)
      BY <2>3 DEF PinCount, Find
    <2>7. WritesBut(b, c, n)
      <3> SUFFICES ASSUME NEW m \in PageNums
                   PROVE  \/ c.disk[m] = b.disk[m]
                          \/ View(b, m) # Absent /\ c.disk[m] = View(b, m)
                          \/ /\ b.disk[m] = Absent
                             /\ c.disk[m] \in Torn \cup {Zero}
                             /\ \E j \in PageNums :
                                  /\ j > m /\ b.disk[j] = Absent /\ View(b, j) # Absent
                                  /\ c.disk[j] = View(b, j) \/ j = n
                          \/ m = n /\ c.disk[m] \in Torn
        BY DEF WritesBut
      <3>1. NoPage \notin PageNums /\ Absent \notin Torn \cup {Zero}
        BY BufferAssumption DEF NoPage, PageNums
      <3>2. \A i \in PageNums : d.disk[i] = Absent => b.disk[i] = Absent
        BY <3>1 DEF WritesBut
      <3>3. n \in PageNums
        BY DEF n
      <3>4. CASE c.disk[m] = d.disk[m]
        <4>1. \A j \in PageNums :
                 View(b, j) # Absent /\ d.disk[j] = View(b, j) => c.disk[j] = View(b, j) \/ j = n
          BY <2>3
        <4> QED
          BY <3>1, <3>4, <4>1 DEF WritesBut
      <3>5. CASE m = n /\ c.disk[m] \in Torn
        BY <3>5
      <3>6. CASE /\ d.disk[m] = Absent /\ d.disk[n] = Absent /\ n > m
                 /\ c.disk[m] \in Torn \cup {Zero}
        BY <2>4, <3>2, <3>3, <3>6
      <3> QED
        BY <2>3, <3>4, <3>5, <3>6
    <2>8. Writes(b, c)
      <3>1. n \in PageNums
        BY DEF n
      <3> QED
        BY <2>4, <2>7, <3>1 DEF Writes
    <2> QED
      BY <2>3, <2>5, <2>6, <2>8 DEF Quiet, Reads, Pins, Stays
  <1> QED
    BY <1>1, <1>2

\* So a call that fails in InternalAlloc shows callers nothing.
LEMMA FailedQuiet ==
  ASSUME NEW b, Sound(b, {}), Contiguous(b), NEW fault, IsFault(fault),
         NEW c, Failed(b, fault, c)
  PROVE  Quiet(b, c, {})
  <1>1. Quiet(b, b, {}) /\ WritesBut(b, b, NoPage)
    BY StillQuiet DEF WritesBut
  <1>2. CASE c = b
    BY <1>1, <1>2
  <1>3. CASE c # b
    <2>1. PICK s \in b.used : b.key[s] = <<Fd, fault[1]>>
      BY <1>3 DEF Failed
    <2>2. b.key[s] \in Keys /\ b.hash[b.key[s]] = s /\ s # NoSlot
      BY <2>1, BufferAssumption DEF Sound, Pools
    <2>3. fault[1] \in PageNums
      BY <2>1, <2>2, BufferAssumption DEF Keys, FileKeys, BlockKeys, MEMORY_FD
    <2>4. InBuffer(b, <<Fd, fault[1]>>)
      BY <2>1, <2>2 DEF InBuffer, Find
    <2> QED
      BY <1>1, <2>3, <2>4, TornQuiet
  <1> QED
    BY <1>2, <1>3

----------------------------------------------------------------------------
\* What callers see of each operation.
\* A page that was just bound to slot s, or is already there.
LEMMA PageAt ==
  ASSUME NEW b, NEW U, Sound(b, U), NEW n \in PageNums, NEW s \in Slots,
         b.hash[<<Fd, n>>] = s
  PROVE  /\ InBuffer(b, <<Fd, n>>) /\ Find(b, <<Fd, n>>) = s
         /\ View(b, n) = b.data[s] /\ View(b, n) # Absent
         /\ PinCount(b, n) = b.pin[s]
  <1>1. InBuffer(b, <<Fd, n>>) /\ Find(b, <<Fd, n>>) = s /\ s # NoSlot
    BY BufferAssumption DEF InBuffer, Find
  <1>2. PinCount(b, n) = b.pin[s]
    BY <1>1 DEF PinCount
  <1> QED
    BY <1>1, <1>2, ViewFrame

\* The pins of a page outside the buffer are none.
LEMMA PinsOutside ==
  ASSUME NEW b, Sound(b, {}), NEW n \in PageNums
  PROVE  /\ PinCount(b, n) \in Nat
         /\ Pinned(b, <<Fd, n>>) <=> PinCount(b, n) > 0
  <1>1. CASE InBuffer(b, <<Fd, n>>)
    <2>1. Find(b, <<Fd, n>>) \in Slots /\ b.pin \in [Slots -> Nat]
      BY <1>1, ViewFrame DEF Sound, Pools
    <2> QED
      BY <1>1, <2>1 DEF PinCount, Pinned, InBuffer
  <1>2. CASE ~InBuffer(b, <<Fd, n>>)
    BY <1>2 DEF PinCount, Pinned, InBuffer
  <1> QED
    BY <1>1, <1>2

\* GetPage on a page that is in the buffer.
LEMMA GetBufferedView ==
  ASSUME NEW b, Sound(b, {}), Contiguous(b), NEW n \in PageNums,
         InBuffer(b, <<Fd, n>>), NEW multiplePins \in BOOLEAN
  PROVE  LET g == GetBuffered(b, n, multiplePins)
         IN  /\ g.rc # OK => g.pool = b
             /\ g.rc = OK =>
                  /\ Quiet(b, g.pool, {<<Fd, n>>})
                  /\ InBuffer(g.pool, <<Fd, n>>)
                  /\ Find(g.pool, <<Fd, n>>) = Find(b, <<Fd, n>>)
                  /\ View(g.pool, n) = View(b, n)
                  /\ PinCount(g.pool, n) = PinCount(b, n) + 1
                  /\ multiplePins \/ PinCount(b, n) = 0
  <1> DEFINE k == <<Fd, n>>
             s == Find(b, k)
             u == [b EXCEPT !.pin[s] = @ + 1]
             c == Promote(u, s)
             g == GetBuffered(b, n, multiplePins)
  <1>1. /\ k \in Keys /\ s \in b.used /\ s \in Slots /\ b \in Pools
        /\ View(b, n) = b.data[s] /\ PinCount(b, n) = b.pin[s]
    <2>1. PinCount(b, n) = b.pin[s]
      BY DEF PinCount, InBuffer
    <2>2. b \in Pools
      BY DEF Sound
    <2> QED
      BY <2>1, <2>2, ViewFrame
  <1>2. CASE ~multiplePins /\ b.pin[s] > 0
    BY <1>2 DEF GetBuffered, Return, OK, PAGEPINNED
  <1>3. CASE ~(~multiplePins /\ b.pin[s] > 0)
    <2>1. g.pool = c /\ g.rc = OK
      BY <1>3 DEF GetBuffered, Return
    <2>2. /\ u \in Pools /\ s \in u.used /\ u.hash = b.hash /\ u.data = b.data
          /\ u.disk = b.disk /\ u.pin = [b.pin EXCEPT ![s] = @ + 1]
      <3>1. b.pin[s] + 1 \in Nat
        BY <1>1 DEF Pools
      <3> QED
        BY <1>1, <3>1 DEF Pools
    <2>3. Sound(c, {})
      BY <2>1, GetBufferedSound
    <2> HIDE DEF u
    <2>4. /\ c.hash = b.hash /\ c.data = b.data /\ c.disk = b.disk
          /\ c.pin = [b.pin EXCEPT ![s] = @ + 1]
      BY <2>2, PromoteEffect
    <2> HIDE DEF c, g
    <2>5. b.hash[k] = s /\ s # NoSlot
      BY DEF Find, InBuffer
    <2>6. \A t \in Slots \ {s} : c.data[t] = b.data[t] /\ c.pin[t] = b.pin[t]
      BY <1>1, <2>4 DEF Pools
    <2>7. Moved(b, c, {}, {k})
      <3> HIDE DEF s, k
      <3> QED
        BY <1>1, <2>4, <2>5, <2>6, TouchMoved
    <2>8. Quiet(b, c, {k})
      BY <2>3, <2>7, MovedQuiet
    <2>9. /\ InBuffer(c, k) /\ Find(c, k) = s
          /\ View(c, n) = c.data[s] /\ PinCount(c, n) = c.pin[s]
      <3>1. c.hash[k] = s
        BY <2>4, <2>5
      <3> HIDE DEF s
      <3> QED
        BY <1>1, <2>3, <3>1, PageAt
    <2>10. c.pin[s] = b.pin[s] + 1
      BY <1>1, <2>4 DEF Pools
    <2>11. multiplePins \/ b.pin[s] = 0
      <3>1. b.pin[s] \in Nat
        BY <1>1 DEF Pools
      <3> QED
        BY <1>3, <3>1
    <2> QED
      BY <1>1, <2>1, <2>4, <2>8, <2>9, <2>10, <2>11 DEF g
  <1> QED
    BY <1>2, <1>3

\* GetPage on a page that is not in the buffer.
LEMMA GetMissView ==
  ASSUME NEW b, Sound(b, {}), Contiguous(b), NEW n \in PageNums,
         ~InBuffer(b, <<Fd, n>>), NEW multiplePins \in BOOLEAN, NEW s \in Choices(b),
         NEW fault, IsFault(fault)
  PROVE  LET g == GetPage(b, n, multiplePins, s, fault)
         IN  /\ g.rc # OK => Quiet(b, g.pool, {})
             /\ g.rc = OK =>
                  /\ Quiet(b, g.pool, {<<Fd, n>>})
                  /\ InBuffer(g.pool, <<Fd, n>>)
                  /\ View(g.pool, n) = IF View(b, n) = Absent THEN g.pool.disk[n] ELSE View(b, n)
                  /\ PinCount(b, n) = 0
                  /\ PinCount(g.pool, n) = 1
  <1> DEFINE k == <<Fd, n>>
             A == InternalAlloc(b, s, fault)
             a == A.pool
             g == GetPage(b, n, multiplePins, s, fault)
             c == g.pool
  <1>1. g = IF A.rc # OK THEN A ELSE ReadInto(a, n, s, fault)
    BY DEF GetPage
  <1>2. k \in Keys /\ b.hash[k] = NoSlot /\ Sound(c, {}) /\ View(b, n) = b.disk[n]
    BY GetPageSound, ViewFrame DEF InBuffer, Find
  <1>3. PinCount(b, n) = 0
    BY DEF PinCount, InBuffer
  <1>4. CASE A.rc # OK
    <2>1. Failed(b, fault, a)
      BY <1>4, InternalAllocSound
    <2> HIDE DEF A
    <2>2. Quiet(b, a, {})
      BY <2>1, FailedQuiet
    <2> QED
      BY <1>1, <1>4, <2>2
  <1>5. CASE A.rc = OK
    <2>1. PICK S : Took(b, s, S, a)
      BY <1>5, AllocTook
    <2> HIDE DEF A, a
    <2>2. s \in Slots /\ Sound(a, {s}) /\ a \in Pools
      BY <2>1 DEF Took, Sound
    <2>3. CASE a.disk[n] = Absent \/ n = fault[1]
      <3>1. g = Return(UNIXERR, Release(a, {s}))
        BY <1>1, <1>5, <2>3 DEF ReadInto
      <3>2. c = Release(a, {s}) /\ g.rc # OK
        BY <3>1 DEF Return, UNIXERR, OK
      <3> HIDE DEF g, c
      <3>3. c.pin = a.pin /\ c.data = a.data /\ c.hash = a.hash /\ c.disk = a.disk
        BY <2>2, <3>2, ReleaseSound
      <3>4. Moved(b, c, S, {})
        BY <2>1, <3>3, TookMoved
      <3>5. Quiet(b, c, {})
        BY <1>2, <3>4, MovedQuiet
      <3> QED
        BY <3>2, <3>5 DEF c, g
    <2>4. CASE ~(a.disk[n] = Absent \/ n = fault[1])
      <3> DEFINE r == [a EXCEPT !.data[s] = a.disk[n]]
      <3>1. g = Return(OK, Bind(r, k, s))
        BY <1>1, <1>5, <2>4 DEF ReadInto
      <3>2. c = Bind(r, k, s)
        BY <3>1 DEF Return
      <3>3. a.disk[n] \in Data
        BY <2>2, <2>4 DEF Pools
      <3>4. /\ r \in Pools /\ r.pin = a.pin /\ r.hash = a.hash /\ r.disk = a.disk
            /\ r.data = [a.data EXCEPT ![s] = a.disk[n]]
        BY <2>2, <3>3 DEF Pools
      <3> HIDE DEF r, g, c
      <3>5. BoundTo(r, k, s, c)
        <4> HIDE DEF k
        <4> QED
          BY <1>2, <2>2, <3>2, <3>4, BindEffect
      <3>6. /\ c.disk = a.disk /\ c.hash = [a.hash EXCEPT ![k] = s]
            /\ c.data = [a.data EXCEPT ![s] = a.disk[n]]
            /\ c.pin = [a.pin EXCEPT ![s] = 1]
        BY <3>4, <3>5 DEF BoundTo
      <3>7. /\ \A j \in Keys \ {k} : c.hash[j] = a.hash[j]
            /\ \A t \in Slots \ {s} : c.data[t] = a.data[t] /\ c.pin[t] = a.pin[t]
            /\ c.hash[k] = s /\ c.data[s] = a.disk[n] /\ c.pin[s] = 1
        BY <1>2, <2>2, <3>6 DEF Pools
      <3>8. Moved(b, c, S, {k})
        <4> DEFINE K == {k}
        <4>1. c.disk = a.disk /\ \A j \in Keys \ K : c.hash[j] = a.hash[j]
          BY <3>6, <3>7
        <4> HIDE DEF K
        <4>2. Moved(b, c, S, K)
          BY <2>1, <3>7, <4>1, TookMoved
        <4> QED
          BY <4>2 DEF K
      <3>9. Quiet(b, c, {k})
        BY <1>2, <3>8, MovedQuiet
      <3>10. InBuffer(c, k) /\ View(c, n) = a.disk[n] /\ PinCount(c, n) = 1
        BY <1>2, <2>2, <3>7, PageAt
      <3>11. b.disk[n] # Absent => c.disk[n] = b.disk[n]
        BY <1>2, <3>8, WrittenPage DEF Moved
      <3>12. View(c, n) = IF View(b, n) = Absent THEN c.disk[n] ELSE View(b, n)
        BY <1>2, <3>6, <3>10, <3>11
      <3>13. g.rc = OK
        BY <3>1 DEF Return
      <3> QED
        BY <1>3, <3>9, <3>10, <3>12, <3>13 DEF c, g
    <2> QED
      BY <2>3, <2>4
  <1> QED
    BY <1>4, <1>5

\* GetPage pins the page it returns and changes no page's content or place;
\* when it fails it may still have written a page it meant to evict.
OnlyPins(b, n, multiplePins, g) ==
  /\ Writes(b, g.pool) /\ Reads(b, g.pool, {}) /\ Stays(b, g.pool, {})
  /\ Contiguous(g.pool)
  /\ g.rc # OK => Pins(b, g.pool, {})
  /\ g.rc = OK =>
       /\ Pins(b, g.pool, {<<Fd, n>>})
       /\ InBuffer(g.pool, <<Fd, n>>)
       /\ PinCount(g.pool, n) = PinCount(b, n) + 1
       /\ multiplePins \/ PinCount(b, n) = 0

\* So it does, whether the page is in the buffer or has to be read.
LEMMA GetPageView ==
  ASSUME NEW b, Sound(b, {}), Contiguous(b), NEW n \in PageNums,
         NEW multiplePins \in BOOLEAN, NEW s \in Choices(b), NEW fault, IsFault(fault)
  PROVE  OnlyPins(b, n, multiplePins, GetPage(b, n, multiplePins, s, fault))
  <1> USE DEF OnlyPins
  <1> DEFINE k == <<Fd, n>>
             g == GetPage(b, n, multiplePins, s, fault)
             c == g.pool
  <1>1. k \in Keys /\ \A m \in PageNums : <<Fd, m>> = k => m = n
    BY DEF Keys, FileKeys
  <1>2. Sound(c, {})
    BY GetPageSound
  <1>3. CASE InBuffer(b, k)
    <2>1. g = GetBuffered(b, n, multiplePins)
      BY <1>3 DEF GetPage
    <2> HIDE DEF g
    <2>2. CASE g.rc # OK
      <3>1. c = b
        BY <1>3, <2>1, <2>2, GetBufferedView
      <3> QED
        BY <2>2, <3>1, StillQuiet DEF Quiet, g
    <2>3. CASE g.rc = OK
      <3>1. /\ Quiet(b, c, {k})
            /\ InBuffer(c, k)
            /\ Find(c, k) = Find(b, k)
            /\ View(c, n) = View(b, n)
            /\ PinCount(c, n) = PinCount(b, n) + 1
            /\ multiplePins \/ PinCount(b, n) = 0
        BY <1>3, <2>1, <2>3, GetBufferedView
      <3>2. /\ View(b, n) = b.data[Find(b, k)] /\ View(c, n) = c.data[Find(c, k)]
            /\ View(b, n) # Absent
        BY <1>2, <1>3, <3>1, ViewFrame
      <3> HIDE DEF c
      <3>3. Stays(b, c, {})
        BY <3>1, <3>2 DEF Quiet, Stays
      <3>4. Reads(b, c, {})
        BY <1>1, <3>1, <3>2 DEF Quiet, Reads
      <3> QED
        BY <2>3, <3>1, <3>3, <3>4 DEF Quiet, c, g
    <2> QED
      BY <2>2, <2>3
  <1>4. CASE ~InBuffer(b, k)
    <2>1. /\ g.rc # OK => Quiet(b, c, {})
          /\ g.rc = OK =>
               /\ Quiet(b, c, {k})
               /\ InBuffer(c, k)
               /\ View(c, n) = IF View(b, n) = Absent THEN c.disk[n] ELSE View(b, n)
               /\ PinCount(b, n) = 0
               /\ PinCount(c, n) = 1
      BY <1>4, GetMissView
    <2> HIDE DEF c, g
    <2>2. CASE g.rc # OK
      BY <2>1, <2>2 DEF Quiet, c, g
    <2>3. CASE g.rc = OK
      <3>1. ~Pinned(b, k)
        BY <1>4 DEF Pinned
      <3>2. Stays(b, c, {})
        BY <2>1, <2>3, <3>1 DEF Quiet, Stays
      <3>3. Reads(b, c, {})
        BY <1>1, <2>1, <2>3 DEF Quiet, Reads
      <3> QED
        BY <2>1, <2>3, <3>2, <3>3 DEF Quiet, c, g
    <2> QED
      BY <2>2, <2>3
  <1> QED
    BY <1>3, <1>4

\* A new page that its creator fills and marks dirty: it is shown as filled,
\* pinned once, and nothing else changes for callers.
ShowsNew(b, c, n, d) == Quiet(b, c, {<<Fd, n>>}) /\ View(c, n) = d /\ PinCount(c, n) = 1

\* So it is, whatever was evicted to make room for it.
LEMMA AllocateView ==
  ASSUME NEW b, Sound(b, {}), Contiguous(b), NEW n \in PageNums, ~InBuffer(b, <<Fd, n>>),
         NEW d \in Data, NEW s \in Choices(b), NEW fault,
         AllocatePage(b, n, s, fault).rc = OK
  PROVE  ShowsNew(b, MarkDirty(Store(AllocatePage(b, n, s, fault).pool, n, d), n), n, d)
  <1> USE DEF ShowsNew
  <1> DEFINE k == <<Fd, n>>
             A == InternalAlloc(b, s, fault)
             a == A.pool
             c == Bind(a, k, s)
             e == [c EXCEPT !.data[s] = d, !.dirty[s] = TRUE]
             f == Promote(e, s)
             g == AllocatePage(b, n, s, fault)
  <1>1. k \in Keys /\ b.hash[k] = NoSlot
    BY ViewFrame DEF InBuffer, Find
  <1>2. A.rc = OK /\ g.pool = c
    BY DEF AllocatePage, AllocateKey, Return
  <1>3. Sound(MarkDirty(Store(g.pool, n, d), n), {})
    BY AllocateSound
  <1>4. PICK S : Took(b, s, S, a)
    BY <1>2, AllocTook
  <1> HIDE DEF A, a, g
  <1>5. s \in Slots /\ Sound(a, {s}) /\ a \in Pools /\ s \in a.used
    BY <1>4 DEF Took, Sound
  <1>6. BoundTo(a, k, s, c)
    <2> HIDE DEF k
    <2> QED
      BY <1>1, <1>5, BindEffect
  <1> HIDE DEF c
  <1>7. /\ c \in Pools /\ c.used = a.used /\ c.disk = a.disk /\ c.data = a.data
        /\ c.hash = [a.hash EXCEPT ![k] = s] /\ c.pin = [a.pin EXCEPT ![s] = 1]
    BY <1>6 DEF BoundTo
  <1>8. Find(c, k) = s
    BY <1>1, <1>5, <1>7 DEF Find, Pools
  <1>9. MarkDirty(Store(c, n, d), n) = f
    BY <1>5, <1>7, <1>8 DEF MarkDirty, Store, Find, Pools
  <1>10. /\ e \in Pools /\ e.used = c.used /\ e.disk = c.disk /\ e.hash = c.hash
         /\ e.pin = c.pin /\ e.data = [c.data EXCEPT ![s] = d]
    BY <1>5, <1>7 DEF Pools
  <1> HIDE DEF e
  <1>11. /\ f.disk = a.disk /\ f.hash = [a.hash EXCEPT ![k] = s]
         /\ f.pin = [a.pin EXCEPT ![s] = 1] /\ f.data = [a.data EXCEPT ![s] = d]
    <2>1. f.disk = e.disk /\ f.hash = e.hash /\ f.pin = e.pin /\ f.data = e.data
      BY <1>5, <1>7, <1>10, PromoteEffect
    <2> HIDE DEF f
    <2> QED
      BY <1>7, <1>10, <2>1
  <1> HIDE DEF f
  <1>12. /\ \A j \in Keys \ {k} : f.hash[j] = a.hash[j]
         /\ \A t \in Slots \ {s} : f.data[t] = a.data[t] /\ f.pin[t] = a.pin[t]
         /\ f.hash[k] = s /\ f.data[s] = d /\ f.pin[s] = 1
    BY <1>1, <1>5, <1>11 DEF Pools
  <1>13. Sound(f, {})
    BY <1>2, <1>3, <1>9
  <1>14. Moved(b, f, S, {k})
    <2> DEFINE K == {k}
    <2>1. f.disk = a.disk /\ \A j \in Keys \ K : f.hash[j] = a.hash[j]
      BY <1>11, <1>12
    <2> HIDE DEF K
    <2>2. Moved(b, f, S, K)
      BY <1>4, <1>12, <2>1, TookMoved
    <2> QED
      BY <2>2 DEF K
  <1>15. Quiet(b, f, {k})
    BY <1>13, <1>14, MovedQuiet
  <1>16. View(f, n) = f.data[s] /\ PinCount(f, n) = f.pin[s]
    BY <1>5, <1>12, <1>13, PageAt
  <1> QED
    BY <1>2, <1>9, <1>12, <1>15, <1>16 DEF g

\* A memory block takes a frame and shows in no page.
LEMMA AllocateBlockView ==
  ASSUME NEW b, Sound(b, {}), Contiguous(b), NEW s \in Choices(b), NEW fault, IsFault(fault)
  PROVE  /\ Writes(b, AllocateBlock(b, s, fault).pool)
         /\ Reads(b, AllocateBlock(b, s, fault).pool, {})
         /\ Pins(b, AllocateBlock(b, s, fault).pool, {})
         /\ Stays(b, AllocateBlock(b, s, fault).pool, {})
         /\ Contiguous(AllocateBlock(b, s, fault).pool)
  <1> DEFINE k == <<MEMORY_FD, s>>
             A == InternalAlloc(b, s, fault)
             a == A.pool
             g == AllocateBlock(b, s, fault)
             c == Bind(a, k, s)
  <1>1. g = IF A.rc # OK THEN A ELSE Return(OK, c)
    BY DEF AllocateBlock, AllocateKey
  <1>2. Sound(g.pool, {})
    BY AllocateBlockSound
  <1>3. CASE A.rc # OK
    <2>1. Failed(b, fault, a)
      BY <1>3, InternalAllocSound
    <2>2. g.pool = a
      BY <1>1, <1>3
    <2> HIDE DEF A, g
    <2>3. Quiet(b, a, {})
      BY <2>1, FailedQuiet
    <2> QED
      BY <2>2, <2>3 DEF Quiet, g
  <1>4. CASE A.rc = OK
    <2>1. PICK S : Took(b, s, S, a)
      BY <1>4, AllocTook
    <2>2. g.pool = c
      BY <1>1, <1>4 DEF Return
    <2> HIDE DEF A, a, g
    <2>3. s \in Slots /\ Sound(a, {s}) /\ a \in Pools
      BY <2>1 DEF Took, Sound
    <2>4. k \in Keys /\ k \in BlockKeys
      BY <2>3 DEF Keys, BlockKeys
    <2>5. BoundTo(a, k, s, c)
      <3> HIDE DEF k
      <3> QED
        BY <2>3, <2>4, BindEffect
    <2> HIDE DEF c
    <2>6. /\ c.disk = a.disk /\ c.hash = [a.hash EXCEPT ![k] = s]
          /\ c.data = a.data /\ c.pin = [a.pin EXCEPT ![s] = 1]
      BY <2>5 DEF BoundTo
    <2>7. /\ \A t \in Slots \ {s} : c.data[t] = a.data[t] /\ c.pin[t] = a.pin[t]
          /\ \A j \in Keys \ {k} : c.hash[j] = a.hash[j]
      BY <2>3, <2>6 DEF Pools
    <2>8. Moved(b, c, S, {k})
      <3> DEFINE K == {k}
      <3>1. c.disk = a.disk /\ \A j \in Keys \ K : c.hash[j] = a.hash[j]
        BY <2>6, <2>7
      <3> HIDE DEF K
      <3>2. Moved(b, c, S, K)
        BY <2>1, <2>7, <3>1, TookMoved
      <3> QED
        BY <3>2 DEF K
    <2>9. Quiet(b, c, {k})
      BY <1>2, <2>2, <2>8, MovedQuiet
    <2>10. \A n \in PageNums : <<Fd, n>> # k
      BY BufferAssumption DEF MEMORY_FD
    <2>11. ~Pinned(b, k)
      <3> SUFFICES ASSUME b.hash[k] # NoSlot, b.pin[b.hash[k]] > 0 PROVE FALSE
        BY DEF Pinned, InBuffer, Find
      <3>1. b.hash[k] \in b.used /\ b.key[b.hash[k]] = k
        BY <2>4 DEF Sound
      <3>2. k = <<MEMORY_FD, b.hash[k]>>
        BY <2>4, <3>1 DEF Sound
      <3>3. s \in b.used
        BY <3>1, <3>2
      <3> QED
        BY <2>1, <3>2, <3>3 DEF Took
    <2>12. Reads(b, c, {}) /\ Pins(b, c, {})
      BY <2>9, <2>10 DEF Quiet, Reads, Pins
    <2>13. Stays(b, c, {})
      BY <2>9, <2>11 DEF Quiet, Stays
    <2> QED
      BY <2>2, <2>9, <2>12, <2>13 DEF Quiet, g
  <1> QED
    BY <1>3, <1>4

\* A store that is marked dirty shows at once, in its page and nowhere else.
LEMMA ChangeView ==
  ASSUME NEW b, Sound(b, {}), Contiguous(b), NEW n \in PageNums,
         InBuffer(b, <<Fd, n>>), NEW d \in Data
  PROVE  LET c == MarkDirty(Store(b, n, d), n)
         IN  /\ Quiet(b, c, {<<Fd, n>>})
             /\ c.disk = b.disk
             /\ Find(c, <<Fd, n>>) = Find(b, <<Fd, n>>)
             /\ c.dirty[Find(c, <<Fd, n>>)] = TRUE
             /\ View(c, n) = d
             /\ PinCount(c, n) = PinCount(b, n)
  <1> DEFINE k == <<Fd, n>>
             s == Find(b, k)
             e == [b EXCEPT !.data[s] = d, !.dirty[s] = TRUE]
             c == Promote(e, s)
  <1>1. /\ k \in Keys /\ s \in b.used /\ s \in Slots /\ b \in Pools
        /\ PinCount(b, n) = b.pin[s]
    <2>1. PinCount(b, n) = b.pin[s]
      BY DEF PinCount, InBuffer
    <2>2. b \in Pools
      BY DEF Sound
    <2> QED
      BY <2>1, <2>2, ViewFrame
  <1>2. b.hash[k] = s /\ s # NoSlot
    BY DEF Find, InBuffer
  <1>3. MarkDirty(Store(b, n, d), n) = c
    BY <1>1 DEF MarkDirty, Store, Find, Pools
  <1>4. Sound(c, {})
    BY <1>3, ChangeSound
  <1> HIDE DEF s
  <1>5. /\ e \in Pools /\ s \in e.used /\ e.hash = b.hash /\ e.pin = b.pin
        /\ e.disk = b.disk /\ e.data = [b.data EXCEPT ![s] = d]
        /\ e.dirty = [b.dirty EXCEPT ![s] = TRUE]
    BY <1>1 DEF Pools
  <1> HIDE DEF e
  <1>6. /\ c.hash = b.hash /\ c.pin = b.pin /\ c.disk = b.disk
        /\ c.data = [b.data EXCEPT ![s] = d] /\ c.dirty = [b.dirty EXCEPT ![s] = TRUE]
    BY <1>5, PromoteEffect
  <1> HIDE DEF c
  <1>7. /\ \A t \in Slots \ {s} : c.data[t] = b.data[t] /\ c.pin[t] = b.pin[t]
        /\ c.data[s] = d /\ c.dirty[s] = TRUE
    BY <1>1, <1>6 DEF Pools
  <1>8. Moved(b, c, {}, {k})
    <2>1. b.hash[k] # NoSlot /\ \A t \in Slots \ {b.hash[k]} : c.data[t] = b.data[t] /\ c.pin[t] = b.pin[t]
      BY <1>2, <1>7
    <2> HIDE DEF k
    <2> QED
      BY <1>1, <1>6, <2>1, TouchMoved
  <1>9. Quiet(b, c, {k})
    BY <1>4, <1>8, MovedQuiet
  <1>10. /\ Find(c, k) = s
         /\ View(c, n) = c.data[s] /\ PinCount(c, n) = c.pin[s]
    <2>1. c.hash[<<Fd, n>>] = s
      BY <1>2, <1>6
    <2> QED
      BY <1>1, <1>4, <2>1, PageAt
  <1> QED
    BY <1>1, <1>3, <1>6, <1>7, <1>9, <1>10 DEF s

\* UnpinPage gives one pin back and changes no content; so does DisposeBlock.
LEMMA UnpinView ==
  ASSUME NEW b, Sound(b, {}), Contiguous(b), NEW k \in Keys, Pinned(b, k)
  PROVE  LET c == UnpinPage(b, k)
         IN  /\ c.disk = b.disk /\ c.hash = b.hash /\ c.data = b.data
             /\ Contiguous(c)
             /\ \A n \in PageNums : View(c, n) = View(b, n)
             /\ Pins(b, c, {k})
             /\ \A n \in PageNums : k = <<Fd, n>> => PinCount(c, n) = PinCount(b, n) - 1
  <1> DEFINE s == Find(b, k)
             u == [b EXCEPT !.pin[s] = b.pin[s] - 1]
             c == UnpinPage(b, k)
  <1>1. b \in Pools /\ s \in b.used /\ s \in Slots /\ s = b.hash[k] /\ s # NoSlot
    <2>1. InBuffer(b, k)
      BY DEF Pinned
    <2>2. s \in b.used /\ s \in Slots
      BY <2>1, FoundSlot
    <2> QED
      BY <2>2, BufferAssumption DEF Sound, Find
  <1>2. b.pin[s] - 1 \in Nat
    <2>1. b.pin[s] > 0 /\ b.pin[s] \in Nat
      BY <1>1 DEF Pinned, Pools
    <2> QED
      BY <2>1
  <1>3. c \in {u, Promote(u, s)}
    BY <1>1 DEF UnpinPage, Pools
  <1> HIDE DEF s
  <1>4. /\ u \in Pools /\ s \in u.used /\ u.hash = b.hash /\ u.data = b.data
        /\ u.disk = b.disk /\ u.dirty = b.dirty
        /\ u.pin = [b.pin EXCEPT ![s] = b.pin[s] - 1]
    BY <1>1, <1>2 DEF Pools
  <1> HIDE DEF u, c
  <1>5. /\ c.hash = b.hash /\ c.data = b.data /\ c.disk = b.disk /\ c.dirty = b.dirty
        /\ c.pin = [b.pin EXCEPT ![s] = b.pin[s] - 1]
    BY <1>3, <1>4, PromoteEffect
  <1>6. \A n \in PageNums : View(c, n) = View(b, n)
    BY <1>5 DEF View, Find
  <1>7. ASSUME NEW n \in PageNums
        PROVE  PinCount(c, n) = IF k = <<Fd, n>> THEN PinCount(b, n) - 1 ELSE PinCount(b, n)
    <2>1. <<Fd, n>> \in Keys
      BY ViewFrame
    <2>2. CASE k = <<Fd, n>>
      BY <1>1, <1>5, <2>2 DEF PinCount, Find, Pools
    <2>3. CASE k # <<Fd, n>> /\ b.hash[<<Fd, n>>] # NoSlot
      <3>1. b.hash[<<Fd, n>>] # s /\ b.hash[<<Fd, n>>] \in Slots
        BY <1>1, <2>1, <2>3, OneKeyPerSlot DEF Sound, Pools
      <3> QED
        BY <1>1, <1>5, <2>3, <3>1 DEF PinCount, Find, Pools
    <2>4. CASE k # <<Fd, n>> /\ b.hash[<<Fd, n>>] = NoSlot
      BY <1>5, <2>4 DEF PinCount, Find
    <2> QED
      BY <2>2, <2>3, <2>4
  <1>8. Contiguous(c)
    BY <1>5 DEF Contiguous
  <1> QED
    BY <1>5, <1>6, <1>7, <1>8 DEF Pins, c

\* Slots that go back to the free list take their pages out of the hash table
\* and change nothing else that callers see.
LEMMA ForgetEffect ==
  ASSUME NEW b, Sound(b, {}), NEW S \in SUBSET b.used
  PROVE  LET c == Release(HashDelete(b, {b.key[s] : s \in S}), S)
         IN  /\ c.pin = b.pin /\ c.data = b.data /\ c.disk = b.disk
             /\ \A k \in Keys : c.hash[k] = IF b.hash[k] \in S THEN NoSlot ELSE b.hash[k]
  <1> DEFINE h == HashDelete(b, {b.key[s] : s \in S})
  <1>1. /\ Sound(h, S) /\ h.pin = b.pin /\ h.data = b.data /\ h.disk = b.disk
        /\ \A k \in Keys : h.hash[k] = IF b.hash[k] \in S THEN NoSlot ELSE b.hash[k]
    <2>1. h = [b EXCEPT !.hash = [k \in Keys |-> IF k \in {b.key[s] : s \in S} THEN NoSlot ELSE b.hash[k]]]
      BY DEF HashDelete
    <2>2. ASSUME NEW k \in Keys
          PROVE  k \in {b.key[s] : s \in S} <=> b.hash[k] \in S
      <3>1. S \subseteq b.used /\ NoSlot \notin S
        BY BufferAssumption DEF Sound, Pools
      <3> QED
        BY <3>1 DEF Sound
    <2>3. h.hash = [k \in Keys |-> IF k \in {b.key[s] : s \in S} THEN NoSlot ELSE b.hash[k]]
      BY <2>1 DEF Sound, Pools
    <2>4. Sound(h, S) /\ h.pin = b.pin /\ h.data = b.data /\ h.disk = b.disk
      BY HashDeleteEffect
    <2> HIDE DEF h
    <2> QED
      BY <2>2, <2>3, <2>4
  <1> HIDE DEF h
  <1>2. LET c == Release(h, S)
        IN  c.pin = h.pin /\ c.data = h.data /\ c.hash = h.hash /\ c.disk = h.disk
    BY <1>1, ReleaseSound
  <1> QED
    BY <1>1, <1>2 DEF h

\* Dropping unpinned slots, the dirty ones written, changes nothing for callers.
LEMMA DropView ==
  ASSUME NEW b, Sound(b, {}), Contiguous(b), NEW S \in SUBSET Unpinned(b)
  PROVE  /\ Quiet(b, Drop(b, S), {})
         /\ WritesBut(b, Drop(b, S), NoPage)
         /\ \A k \in Keys : b.hash[k] \in S => Drop(b, S).hash[k] = NoSlot
         /\ \A k \in Keys : b.hash[k] \notin S => Drop(b, S).hash[k] = b.hash[k]
  <1> DEFINE D == Dirty(b, S)
             w == WritePages(b, D)
             c == Drop(b, S)
  <1>1. S \in SUBSET b.used /\ D \in SUBSET b.used
    BY DEF Dirty, Unpinned
  <1>2. /\ Sound(w, {}) /\ w.used = b.used /\ w.key = b.key /\ w.pin = b.pin
        /\ w.data = b.data /\ w.hash = b.hash /\ w.disk = FileWith(b, D)
    BY <1>1, WritePagesEffect
  <1>3. c = Release(HashDelete(w, {w.key[s] : s \in S}), S)
    BY DEF Drop
  <1>4. Sound(c, {})
    BY <1>1, DropSound
  <1> HIDE DEF w, D, c
  <1>5. S \in SUBSET w.used
    BY <1>1, <1>2
  <1>6. /\ c.pin = w.pin /\ c.data = w.data /\ c.disk = w.disk
        /\ \A k \in Keys : c.hash[k] = IF w.hash[k] \in S THEN NoSlot ELSE w.hash[k]
    BY <1>2, <1>3, <1>5, ForgetEffect
  <1>7. \A k \in Keys : c.hash[k] = IF b.hash[k] \in S THEN NoSlot ELSE b.hash[k]
    BY <1>2, <1>6
  <1>8. ASSUME NEW k \in Keys, b.hash[k] \in S
        PROVE  b.hash[k] # NoSlot /\ b.pin[b.hash[k]] = 0 /\ (b.dirty[b.hash[k]] => b.hash[k] \in D)
    <2>1. b.hash[k] \in Slots /\ b.pin[b.hash[k]] = 0
      BY <1>8 DEF Unpinned, Sound, Pools
    <2> QED
      BY <1>8, <2>1, BufferAssumption DEF D, Dirty
  <1>9. Moved(b, c, D, {})
    BY <1>1, <1>2, <1>6, <1>7, <1>8 DEF Moved
  <1>10. Quiet(b, c, {}) /\ WritesBut(b, c, NoPage)
    BY <1>4, <1>9, MovedQuiet, MovedWrites
  <1> QED
    BY <1>7, <1>10 DEF c

\* FlushPages is quiet, however far it gets; and when it returns 0 no page of
\* the file is left in the buffer.
LEMMA FlushView ==
  ASSUME NEW b, Sound(b, {}), Contiguous(b), NEW fault, IsFault(fault)
  PROVE  /\ Quiet(b, FlushPages(b, fault).pool, {})
         /\ FlushPages(b, fault).rc = OK =>
              \A n \in PageNums : ~InBuffer(FlushPages(b, fault).pool, <<Fd, n>>)
  <1> DEFINE S == OfFile(b) \cap Unpinned(b)
             T == Scanned(b, S, fault)
             d == Drop(b, T)
             f == FlushPages(b, fault)
  <1>1. S \in SUBSET b.used /\ T \in SUBSET b.used /\ T \in SUBSET Unpinned(b)
    BY DEF Scanned, OfFile
  <1>2. f.pool = IF Blocked(b, S, fault) # {} THEN TornWrite(d, fault) ELSE d
    BY DEF FlushPages, Return
  <1>3. f.rc = OK => Blocked(b, S, fault) = {} /\ OfFile(b) \subseteq Unpinned(b)
    BY DEF FlushPages, Return, UNIXERR, PAGEPINNED, OK
  <1>4. f.rc = OK => T = OfFile(b)
    BY <1>3 DEF Scanned
  <1> HIDE DEF S
  <1>5. /\ Sound(d, {}) /\ d.used = b.used \ T /\ d.key = b.key
        /\ d.dirty = [s \in Slots |-> s \notin Dirty(b, T) /\ b.dirty[s]]
    <2> HIDE DEF T
    <2> QED
      BY <1>1, DropSound
  <1>6. /\ Quiet(b, d, {}) /\ WritesBut(b, d, NoPage)
        /\ \A k \in Keys : b.hash[k] \in T => d.hash[k] = NoSlot
        /\ \A k \in Keys : b.hash[k] \notin T => d.hash[k] = b.hash[k]
    <2> HIDE DEF T
    <2> QED
      BY <1>1, DropView
  <1> HIDE DEF d
  <1>7. CASE Blocked(b, S, fault) # {}
    <2>1. \A s \in Slots : s \notin T /\ b.dirty[s] => d.dirty[s]
      BY <1>5 DEF Dirty
    <2>2. /\ Failed(d, fault, TornWrite(d, fault))
          /\ fault[1] \in PageNums /\ InBuffer(b, <<Fd, fault[1]>>)
      BY <1>1, <1>5, <1>7, <2>1, ScanFails
    <2>3. Quiet(b, TornWrite(d, fault), {})
      BY <1>5, <1>6, <2>2, TornQuiet
    <2> QED
      BY <1>2, <1>3, <1>7, <2>3
  <1>8. CASE Blocked(b, S, fault) = {}
    <2>1. f.pool = d
      BY <1>2, <1>8
    <2> HIDE DEF f, T
    <2>2. ASSUME f.rc = OK, NEW n \in PageNums
          PROVE  ~InBuffer(d, <<Fd, n>>)
      <3> DEFINE k == <<Fd, n>>
      <3>1. k \in Keys
        BY ViewFrame
      <3>2. CASE InBuffer(b, k)
        <4>1. Find(b, k) \in b.used /\ b.key[Find(b, k)] = k
          BY <3>2, ViewFrame
        <4>2. b.hash[k] \in OfFile(b)
          BY <4>1 DEF OfFile, Find
        <4> QED
          BY <1>4, <1>6, <2>2, <3>1, <4>2 DEF InBuffer, Find
      <3>3. CASE ~InBuffer(b, k)
        BY <1>6, <3>1, <3>3 DEF InBuffer, Find
      <3> QED
        BY <3>2, <3>3
    <2> QED
      BY <1>6, <2>1, <2>2 DEF f
  <1> QED
    BY <1>7, <1>8

\* ForcePages is quiet, however far it gets.
LEMMA ForceView ==
  ASSUME NEW b, Sound(b, {}), Contiguous(b), NEW P, NEW fault, IsFault(fault)
  PROVE  Quiet(b, ForcePages(b, P, fault).pool, {})
  <1> DEFINE S == {s \in OfFile(b) : b.key[s][2] \in P}
             T == Dirty(b, Scanned(b, S, fault))
             d == WritePages(b, T)
  <1>1. S \in SUBSET b.used /\ T \in SUBSET b.used /\ T \subseteq Scanned(b, S, fault)
    BY DEF Dirty, Scanned, OfFile
  <1>2. ForcePages(b, P, fault).pool = IF Blocked(b, S, fault) # {} THEN TornWrite(d, fault) ELSE d
    BY DEF ForcePages, Return
  <1> HIDE DEF S, T
  <1>3. /\ Sound(d, {}) /\ d.used = b.used /\ d.key = b.key
        /\ d.pin = b.pin /\ d.data = b.data /\ d.hash = b.hash
        /\ d.disk = FileWith(b, T)
        /\ d.dirty = [s \in Slots |-> s \notin T /\ b.dirty[s]]
    BY <1>1, WritePagesEffect
  <1> HIDE DEF d
  <1>4. Moved(b, d, T, {})
    BY <1>1, <1>3 DEF Moved
  <1>5. Quiet(b, d, {}) /\ WritesBut(b, d, NoPage)
    BY <1>3, <1>4, MovedQuiet, MovedWrites
  <1>6. CASE Blocked(b, S, fault) # {}
    <2>1. /\ Failed(d, fault, TornWrite(d, fault))
          /\ fault[1] \in PageNums /\ InBuffer(b, <<Fd, fault[1]>>)
      BY <1>1, <1>3, <1>6, ScanFails
    <2> QED
      BY <1>2, <1>3, <1>5, <1>6, <2>1, TornQuiet
  <1> QED
    BY <1>2, <1>5, <1>6

\* ClearBuffer drops the changes of every unpinned page, and of no other.
LEMMA ClearView ==
  ASSUME NEW b, Sound(b, {}), Contiguous(b)
  PROVE  LET c == ClearBuffer(b)
         IN  /\ c.disk = b.disk
             /\ Contiguous(c)
             /\ Pins(b, c, {})
             /\ Stays(b, c, {})
             /\ \A n \in PageNums :
                  View(c, n) = IF PinCount(b, n) = 0 THEN b.disk[n] ELSE View(b, n)
  <1> DEFINE S == Unpinned(b)
             c == ClearBuffer(b)
  <1>1. S \in SUBSET b.used
    BY DEF Unpinned
  <1>2. c = Release(HashDelete(b, {b.key[s] : s \in S}), S)
    BY DEF ClearBuffer
  <1>3. Sound(c, {})
    BY ClearSound
  <1> HIDE DEF S, c
  <1>4. /\ c.pin = b.pin /\ c.data = b.data /\ c.disk = b.disk
        /\ \A k \in Keys : c.hash[k] = IF b.hash[k] \in S THEN NoSlot ELSE b.hash[k]
    BY <1>1, <1>2, ForgetEffect
  <1>5. \A k \in Keys : b.hash[k] # NoSlot => (b.hash[k] \in S <=> b.pin[b.hash[k]] = 0)
    BY DEF S, Unpinned, Sound
  <1>6. NoSlot \notin S
    BY <1>1, BufferAssumption DEF Sound, Pools
  <1>7. ASSUME NEW n \in PageNums
        PROVE  /\ PinCount(c, n) = PinCount(b, n)
               /\ View(c, n) = IF PinCount(b, n) = 0 THEN b.disk[n] ELSE View(b, n)
    <2> DEFINE k == <<Fd, n>>
    <2>1. k \in Keys
      BY ViewFrame
    <2>2. CASE InBuffer(c, k)
      <3>1. c.hash[k] = b.hash[k] /\ b.hash[k] # NoSlot /\ b.pin[b.hash[k]] # 0
        BY <1>4, <1>5, <2>1, <2>2 DEF InBuffer, Find
      <3>2. View(b, n) = b.data[b.hash[k]]
        BY <3>1, ViewFrame DEF InBuffer, Find
      <3>3. View(c, n) = b.data[b.hash[k]]
        BY <1>3, <1>4, <2>2, <3>1, ViewFrame DEF Find
      <3> QED
        BY <1>4, <3>1, <3>2, <3>3 DEF PinCount, Find
    <2>3. CASE ~InBuffer(c, k)
      <3>1. View(c, n) = b.disk[n] /\ PinCount(c, n) = 0
        BY <1>3, <1>4, <2>3, ViewFrame DEF PinCount, InBuffer
      <3>2. PinCount(b, n) = 0
        BY <1>4, <1>5, <2>1, <2>3 DEF PinCount, InBuffer, Find
      <3> QED
        BY <3>1, <3>2
    <2> QED
      BY <2>2, <2>3
  <1>8. Stays(b, c, {})
    <2> SUFFICES ASSUME NEW k \in Keys, Pinned(b, k)
                 PROVE  Find(c, k) = Find(b, k) /\ c.data[Find(b, k)] = b.data[Find(b, k)]
      BY DEF Stays
    <2>1. b.hash[k] # NoSlot /\ b.pin[b.hash[k]] # 0
      BY DEF Pinned, InBuffer, Find
    <2> QED
      BY <1>4, <1>5, <2>1 DEF Find
  <1>9. Contiguous(c)
    BY <1>4 DEF Contiguous
  <1> QED
    BY <1>4, <1>7, <1>8, <1>9 DEF Pins, c
=============================================================================

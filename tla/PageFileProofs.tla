--------------------------- MODULE PageFileProofs ---------------------------
(***************************************************************************)
(* PF_FileHandle for every number of pages, slots and pins.  Callers of    *)
(* the handle see three things of it: what each page shows, the pins on    *)
(* it, and the header.  FileInv relates them; its heart is that the free   *)
(* pages form a list, given as the sequence L of the pages on it.  Each    *)
(* method is first shown to change the three in its own way, whatever the  *)
(* buffer does below it (BufferPoolProofs), and these changes to keep      *)
(* FileInv and to be the steps of PagedFile.                               *)
(***************************************************************************)
EXTENDS PageFile, BufferPoolProofs, FiniteSetTheorems

\* Every set of natural numbers that is not empty has a least member.
LEMMA LeastMember ==
  ASSUME NEW T \in SUBSET Nat, T # {}
  PROVE  \E i \in T : \A j \in T : i <= j
  <1> DEFINE R == OpToRel(<, Nat)
  <1>1. IsWellFoundedOn(R, Nat)
    BY NatLessThanWellFounded, Zenon
  <1>2. \A x, y \in Nat : y < x => <<y, x>> \in R
    BY Zenon DEF OpToRel
  <1> HIDE DEF R
  <1>3. T \subseteq Nat
    OBVIOUS
  <1>4. \E x \in T : \A y \in T : ~(<<y, x>> \in R)
    BY <1>1, <1>3, WFMin, Zenon
  <1>5. PICK x \in T : \A y \in T : ~(<<y, x>> \in R)
    BY <1>4
  <1>6. ASSUME NEW j \in T
        PROVE  x <= j
    <2>1. ~(j < x)
      BY <1>2, <1>3, <1>5, Zenon
    <2> QED
      BY <1>3, <2>1
  <1> QED
    BY <1>6

\* v[n] is what page n shows, p[n] the pins on it, h the header.
InUse(v) == {n \in PageNums : v[n] # Absent /\ v[n].nextFree = PF_PAGE_USED}
Free(v)  == {n \in PageNums : v[n] # Absent /\ v[n].nextFree # PF_PAGE_USED}

\* L lists the k free pages in the order of their links, from first on.
IsFreeList(L, k, first, v) ==
  /\ L \in [Nat -> Int]
  /\ k \in Nat
  /\ L[0] = first
  /\ \A i \in Nat : i < k => L[i] \in Free(v) /\ L[i + 1] = v[L[i]].nextFree
  /\ \A i \in Nat : i >= k => L[i] = PF_PAGE_LIST_END
  /\ \A n \in Free(v) : \E i \in Nat : i < k /\ L[i] = n
  /\ \A i, j \in Nat : i < k /\ j < k /\ L[i] = L[j] => i = j

FileInv(v, p, h) ==
  /\ v \in [PageNums -> Data \cup {Absent}]
  /\ p \in [PageNums -> Nat]
  /\ h \in Headers
  /\ \A n \in PageNums : n < h.numPages <=> v[n] # Absent
  /\ \A n \in PageNums : p[n] > 0 => n \in InUse(v)
  /\ \E L, k : IsFreeList(L, k, h.firstFree, v)

----------------------------------------------------------------------------
\* A list that is not empty starts with a free page; the rest of it lists
\* the rest of the free pages.
LEMMA ListPop ==
  ASSUME NEW L, NEW k, NEW first, NEW v, IsFreeList(L, k, first, v),
         first # PF_PAGE_LIST_END,
         NEW w, Free(w) = Free(v) \ {first}, \A n \in Free(w) : w[n] = v[n]
  PROVE  /\ first \in Free(v)
         /\ \E M, j : IsFreeList(M, j, v[first].nextFree, w)
  <1> USE DEF IsFreeList
  <1>1. k > 0 /\ k - 1 \in Nat
    OBVIOUS
  <1>2. first \in Free(v) /\ L[1] = v[first].nextFree
    BY <1>1
  <1> DEFINE M == [i \in Nat |-> L[i + 1]]
             j == k - 1
  <1>3. M \in [Nat -> Int] /\ \A i \in Nat : M[i] = L[i + 1]
    OBVIOUS
  <1> HIDE DEF M
  <1>4. ASSUME NEW i \in Nat, i < j
        PROVE  M[i] \in Free(w) /\ M[i + 1] = w[M[i]].nextFree
    <2>1. i + 1 \in Nat /\ i + 1 < k /\ i + 1 # 0 /\ 0 \in Nat /\ 0 < k
      BY <1>1, <1>4
    <2>2. L[i + 1] \in Free(v) /\ L[i + 1] # L[0] /\ L[(i + 1) + 1] = v[L[i + 1]].nextFree
      BY <2>1
    <2> QED
      BY <1>3, <2>1, <2>2
  <1>5. \A i \in Nat : i >= j => M[i] = PF_PAGE_LIST_END
    BY <1>1, <1>3
  <1>6. ASSUME NEW n \in Free(w) PROVE \E i \in Nat : i < j /\ M[i] = n
    <2>1. PICK i \in Nat : i < k /\ L[i] = n
      OBVIOUS
    <2>2. i # 0
      BY <2>1
    <2>3. i - 1 \in Nat /\ i - 1 < j /\ M[i - 1] = n
      BY <1>3, <2>1, <2>2
    <2> QED
      BY <2>3
  <1>7. ASSUME NEW i1 \in Nat, NEW i2 \in Nat, i1 < j, i2 < j, M[i1] = M[i2]
        PROVE  i1 = i2
    <2>1. i1 + 1 = i2 + 1
      BY <1>1, <1>3, <1>7
    <2> QED
      BY <2>1
  <1>8. M[0] = v[first].nextFree
    BY <1>2, <1>3
  <1>9. IsFreeList(M, j, v[first].nextFree, w)
    BY <1>1, <1>3, <1>4, <1>5, <1>6, <1>7, <1>8
  <1> HIDE DEF IsFreeList, M, j
  <1> QED
    BY <1>2, <1>9

\* A page put in front of the list makes it a list of one page more.
LEMMA ListPush ==
  ASSUME NEW L, NEW k, NEW first, NEW v, IsFreeList(L, k, first, v),
         NEW n \in PageNums, n \notin Free(v),
         NEW w, Free(w) = Free(v) \cup {n}, \A m \in Free(v) : w[m] = v[m],
         w[n].nextFree = first
  PROVE  \E M, j : IsFreeList(M, j, n, w)
  <1> USE DEF IsFreeList
  <1> DEFINE M == [i \in Nat |-> IF i = 0 THEN n ELSE L[i - 1]]
             j == k + 1
  <1>1. n \in Int
    BY DEF PageNums
  <1>2. M \in [Nat -> Int] /\ M[0] = n /\ \A i \in Nat : M[i + 1] = L[i]
    BY <1>1
  <1>3. \A i \in Nat : i # 0 => i - 1 \in Nat /\ M[i] = L[i - 1]
    OBVIOUS
  <1> HIDE DEF M
  <1>4. ASSUME NEW i \in Nat, i < j
        PROVE  M[i] \in Free(w) /\ M[i + 1] = w[M[i]].nextFree
    <2>1. CASE i = 0
      BY <1>2, <2>1
    <2>2. CASE i # 0
      <3>1. i - 1 \in Nat /\ i - 1 < k /\ M[i] = L[i - 1] /\ M[i + 1] = L[(i - 1) + 1]
        BY <1>2, <1>3, <1>4, <2>2
      <3> QED
        BY <3>1
    <2> QED
      BY <2>1, <2>2
  <1>5. \A i \in Nat : i >= j => M[i] = PF_PAGE_LIST_END
    BY <1>3
  <1>6. ASSUME NEW m \in Free(w) PROVE \E i \in Nat : i < j /\ M[i] = m
    <2>1. CASE m = n
      BY <1>2, <2>1
    <2>2. CASE m # n
      <3>1. PICK i \in Nat : i < k /\ L[i] = m
        BY <2>2
      <3>2. i + 1 \in Nat /\ i + 1 < j /\ M[i + 1] = m
        BY <1>2, <3>1
      <3> QED
        BY <3>2
    <2> QED
      BY <2>1, <2>2
  <1>7. ASSUME NEW i1 \in Nat, NEW i2 \in Nat, i1 < j, i2 < j, M[i1] = M[i2]
        PROVE  i1 = i2
    <2>1. \A i \in Nat : i # 0 /\ i < j => M[i] \in Free(v)
      BY <1>3
    <2>2. CASE i1 = 0 \/ i2 = 0
      BY <1>2, <1>7, <2>1, <2>2
    <2>3. CASE i1 # 0 /\ i2 # 0
      <3>1. i1 - 1 = i2 - 1
        BY <1>3, <1>7, <2>3
      <3> QED
        BY <3>1
    <2> QED
      BY <2>2, <2>3
  <1>8. IsFreeList(M, j, n, w)
    BY <1>2, <1>4, <1>5, <1>6, <1>7
  <1> QED
    BY <1>8

\* The list does not depend on the pages in use.
LEMMA ListSame ==
  ASSUME NEW L, NEW k, NEW first, NEW v, IsFreeList(L, k, first, v),
         NEW w, Free(w) = Free(v), \A n \in Free(v) : w[n].nextFree = v[n].nextFree
  PROVE  IsFreeList(L, k, first, w)
  BY DEF IsFreeList

\* A list of free pages cannot be empty for its first page when there is one.
LEMMA FirstIsFree ==
  ASSUME NEW v, NEW p, NEW h, FileInv(v, p, h), h.firstFree # PF_PAGE_LIST_END
  PROVE  h.firstFree \in Free(v)
  BY DEF FileInv, IsFreeList

----------------------------------------------------------------------------
\* What the methods do to what callers see.
\* A new page: zero bytes, in use.
NewPage == [nextFree |-> PF_PAGE_USED, val |-> ZeroVal]

\* The marks of a page in use and of the end of the free list are no page
\* numbers, and differ.
LEMMA NewPageData ==
  /\ NewPage \in Data /\ NewPage # Absent /\ NewPage.nextFree = PF_PAGE_USED
  /\ PF_PAGE_USED # PF_PAGE_LIST_END /\ PF_PAGE_USED \notin PageNums
  BY PageFileAssumption, BufferAssumption
     DEF NewPage, Links, PF_PAGE_USED, PF_PAGE_LIST_END, PageNums

\* AllocatePage takes the first free page of the file.
LEMMA ReuseKeeps ==
  ASSUME NEW v, NEW p, NEW h, FileInv(v, p, h), h.firstFree # PF_PAGE_LIST_END
  PROVE  LET n == h.firstFree
         IN  FileInv([v EXCEPT ![n] = NewPage], [p EXCEPT ![n] = 1],
                     [h EXCEPT !.firstFree = v[n].nextFree])
  <1> DEFINE n == h.firstFree
             w == [v EXCEPT ![n] = NewPage]
             q == [p EXCEPT ![n] = 1]
             g == [h EXCEPT !.firstFree = v[n].nextFree]
  <1>1. n \in Free(v) /\ n \in PageNums /\ v[n] \in Data
    BY FirstIsFree DEF FileInv, Free
  <1>2. v[n].nextFree \in Links \ {PF_PAGE_USED}
    BY <1>1, PageFileAssumption DEF Free
  <1>3. g \in Headers /\ g.numPages = h.numPages /\ g.firstFree = v[n].nextFree
    BY <1>2, NewPageData DEF FileInv, Headers, Links
  <1> HIDE DEF n, g
  <1>4. /\ w \in [PageNums -> Data \cup {Absent}] /\ q \in [PageNums -> Nat]
        /\ w[n] = NewPage /\ \A m \in PageNums : m # n => w[m] = v[m] /\ q[m] = p[m]
    BY <1>1, NewPageData DEF FileInv
  <1> HIDE DEF w, q
  <1>5. Free(w) = Free(v) \ {n} /\ InUse(w) = InUse(v) \cup {n}
    BY <1>1, <1>4, NewPageData DEF Free, InUse
  <1>6. PICK L, k : IsFreeList(L, k, n, v)
    BY DEF FileInv, n
  <1>7. \E M, j : IsFreeList(M, j, v[n].nextFree, w)
    <2>1. \A m \in Free(w) : w[m] = v[m]
      BY <1>4, <1>5 DEF Free
    <2>2. n # PF_PAGE_LIST_END
      BY DEF n
    <2> QED
      BY <1>5, <1>6, <2>1, <2>2, ListPop
  <1>8. \A m \in PageNums : m < g.numPages <=> w[m] # Absent
    BY <1>1, <1>3, <1>4, NewPageData DEF FileInv, Free
  <1>9. \A m \in PageNums : q[m] > 0 => m \in InUse(w)
    BY <1>4, <1>5 DEF FileInv
  <1>10. FileInv(w, q, g)
    BY <1>3, <1>4, <1>7, <1>8, <1>9 DEF FileInv
  <1> QED
    BY <1>10 DEF w, q, g, n

\* AllocatePage appends a page when no page of the file is free.
LEMMA ExtendKeeps ==
  ASSUME NEW v, NEW p, NEW h, FileInv(v, p, h), h.numPages < MaxPages
  PROVE  LET n == h.numPages
         IN  /\ n \in PageNums /\ v[n] = Absent
             /\ FileInv([v EXCEPT ![n] = NewPage], [p EXCEPT ![n] = 1],
                        [h EXCEPT !.numPages = n + 1])
  <1> DEFINE n == h.numPages
             w == [v EXCEPT ![n] = NewPage]
             q == [p EXCEPT ![n] = 1]
             g == [h EXCEPT !.numPages = n + 1]
  <1>1. n \in PageNums /\ n \in Nat /\ MaxPages \in Nat
    BY BufferAssumption DEF FileInv, Headers, PageNums
  <1>2. v[n] = Absent
    BY <1>1 DEF FileInv
  <1>3. g \in Headers /\ g.numPages = n + 1 /\ g.firstFree = h.firstFree
    BY <1>1 DEF FileInv, Headers
  <1> HIDE DEF n, g
  <1>4. /\ w \in [PageNums -> Data \cup {Absent}] /\ q \in [PageNums -> Nat]
        /\ w[n] = NewPage /\ \A m \in PageNums : m # n => w[m] = v[m] /\ q[m] = p[m]
    BY <1>1, NewPageData DEF FileInv
  <1> HIDE DEF w, q
  <1>5. Free(w) = Free(v) /\ InUse(w) = InUse(v) \cup {n}
    BY <1>1, <1>2, <1>4, NewPageData DEF Free, InUse
  <1>6. PICK L, k : IsFreeList(L, k, h.firstFree, v)
    BY DEF FileInv
  <1>7. IsFreeList(L, k, g.firstFree, w)
    <2>1. \A m \in Free(v) : w[m].nextFree = v[m].nextFree
      BY <1>2, <1>4 DEF Free
    <2> QED
      BY <1>3, <1>5, <1>6, <2>1, ListSame
  <1>8. \A m \in PageNums : m < g.numPages <=> w[m] # Absent
    <2>1. \A m \in PageNums : m \in Int /\ (m < n <=> v[m] # Absent)
      BY DEF FileInv, n, PageNums
    <2> QED
      BY <1>1, <1>3, <1>4, <2>1, NewPageData
  <1>9. \A m \in PageNums : q[m] > 0 => m \in InUse(w)
    BY <1>4, <1>5 DEF FileInv
  <1>10. FileInv(w, q, g)
    BY <1>3, <1>4, <1>7, <1>8, <1>9 DEF FileInv
  <1> QED
    BY <1>1, <1>2, <1>10 DEF w, q, g, n

\* DisposePage puts a page that is in use and not pinned in front of the list.
LEMMA DisposeKeeps ==
  ASSUME NEW v, NEW p, NEW h, FileInv(v, p, h), NEW n \in InUse(v), p[n] = 0
  PROVE  /\ [v[n] EXCEPT !.nextFree = h.firstFree] \in Data
         /\ FileInv([v EXCEPT ![n] = [v[n] EXCEPT !.nextFree = h.firstFree]], p,
                    [h EXCEPT !.firstFree = n])
  <1> DEFINE d == [v[n] EXCEPT !.nextFree = h.firstFree]
             w == [v EXCEPT ![n] = d]
             g == [h EXCEPT !.firstFree = n]
  <1>1. n \in PageNums /\ v[n] \in Data /\ n \notin Free(v) /\ v[n] # Absent
    BY DEF InUse, Free, FileInv
  <1>2. /\ h.firstFree \in Links \ {PF_PAGE_USED}
        /\ g \in Headers /\ g.numPages = h.numPages /\ g.firstFree = n
    BY <1>1, NewPageData DEF FileInv, Headers, Links
  <1>3. d \in Data /\ d # Absent /\ d.nextFree = h.firstFree
    BY <1>1, <1>2, PageFileAssumption, BufferAssumption
  <1> HIDE DEF d, g
  <1>4. /\ w \in [PageNums -> Data \cup {Absent}]
        /\ w[n] = d /\ \A m \in PageNums : m # n => w[m] = v[m]
    BY <1>1, <1>3 DEF FileInv
  <1> HIDE DEF w
  <1>5. Free(w) = Free(v) \cup {n} /\ InUse(w) = InUse(v) \ {n}
    BY <1>1, <1>2, <1>3, <1>4 DEF Free, InUse
  <1>6. PICK L, k : IsFreeList(L, k, h.firstFree, v)
    BY DEF FileInv
  <1>7. \E M, j : IsFreeList(M, j, g.firstFree, w)
    <2>1. \A m \in Free(v) : w[m] = v[m]
      BY <1>1, <1>4 DEF Free
    <2> QED
      BY <1>1, <1>2, <1>3, <1>4, <1>5, <1>6, <2>1, ListPush
  <1>8. \A m \in PageNums : m < g.numPages <=> w[m] # Absent
    BY <1>1, <1>2, <1>3, <1>4 DEF FileInv
  <1>9. \A m \in PageNums : p[m] > 0 => m \in InUse(w)
    BY <1>5 DEF FileInv
  <1>10. FileInv(w, p, g)
    BY <1>2, <1>4, <1>7, <1>8, <1>9 DEF FileInv
  <1> QED
    BY <1>3, <1>10 DEF w, d, g

\* A store by the holder of a page leaves its link alone.
LEMMA WriteKeeps ==
  ASSUME NEW v, NEW p, NEW h, FileInv(v, p, h), NEW n \in InUse(v), NEW x \in Vals
  PROVE  /\ [v[n] EXCEPT !.val = x] \in Data
         /\ FileInv([v EXCEPT ![n] = [v[n] EXCEPT !.val = x]], p, h)
         /\ InUse([v EXCEPT ![n] = [v[n] EXCEPT !.val = x]]) = InUse(v)
  <1> DEFINE d == [v[n] EXCEPT !.val = x]
             w == [v EXCEPT ![n] = d]
  <1>1. n \in PageNums /\ v[n] \in Data /\ n \notin Free(v) /\ v[n] # Absent
    BY DEF InUse, Free, FileInv
  <1>2. d \in Data /\ d # Absent /\ d.nextFree = v[n].nextFree
    BY <1>1, PageFileAssumption, BufferAssumption
  <1> HIDE DEF d
  <1>3. /\ w \in [PageNums -> Data \cup {Absent}]
        /\ w[n] = d /\ \A m \in PageNums : m # n => w[m] = v[m]
    BY <1>1, <1>2 DEF FileInv
  <1> HIDE DEF w
  <1>4. Free(w) = Free(v) /\ InUse(w) = InUse(v)
    BY <1>1, <1>2, <1>3 DEF Free, InUse
  <1>5. PICK L, k : IsFreeList(L, k, h.firstFree, v)
    BY DEF FileInv
  <1>6. IsFreeList(L, k, h.firstFree, w)
    <2>1. \A m \in Free(v) : w[m].nextFree = v[m].nextFree
      BY <1>2, <1>3 DEF Free
    <2> QED
      BY <1>4, <1>5, <2>1, ListSame
  <1>7. \A m \in PageNums : m < h.numPages <=> w[m] # Absent
    BY <1>1, <1>2, <1>3 DEF FileInv
  <1>8. FileInv(w, p, h)
    BY <1>3, <1>4, <1>6, <1>7 DEF FileInv
  <1> QED
    BY <1>2, <1>4, <1>8 DEF w, d

\* Only pages in use are pinned; giving a pin back is always safe.
LEMMA PinsKeep ==
  ASSUME NEW v, NEW p, NEW h, FileInv(v, p, h), NEW n \in InUse(v), NEW c \in Nat
  PROVE  FileInv(v, [p EXCEPT ![n] = c], h)
  <1> DEFINE q == [p EXCEPT ![n] = c]
  <1>1. q \in [PageNums -> Nat] /\ \A m \in PageNums : m # n => q[m] = p[m]
    BY DEF FileInv
  <1> HIDE DEF q
  <1>2. FileInv(v, q, h)
    BY <1>1 DEF FileInv
  <1> QED
    BY <1>2 DEF q

----------------------------------------------------------------------------
\* What a pool shows of the pages, and the pins on them.
Shown(b) == [n \in PageNums |-> View(b, n)]
Held(b)  == [n \in PageNums |-> PinCount(b, n)]

\* A page that is not in the file stays absent when others are written: no
\* page of the file is beyond it, so none can leave a hole.
LEMMA AbsentStays ==
  ASSUME NEW b, NEW c, NEW p, NEW h, FileInv(Shown(b), p, h), Sound(b, {}),
         Writes(b, c), NEW n \in PageNums, View(b, n) = Absent
  PROVE  c.disk[n] = Absent
  <1>1. b.disk[n] = Absent
    BY ViewFrame
  <1>2. ASSUME NEW m \in PageNums, m > n PROVE View(b, m) = Absent
    <2>1. /\ n < h.numPages <=> View(b, n) # Absent
          /\ m < h.numPages <=> View(b, m) # Absent
      BY DEF FileInv, Shown
    <2>2. n \in Int /\ m \in Int /\ h.numPages \in Int
      BY DEF PageNums, FileInv, Headers
    <2> QED
      BY <1>2, <2>1, <2>2
  <1>3. PICK t : WritesBut(b, c, t) /\ t # n
    <2>1. PICK t \in {m \in PageNums : View(b, m) # Absent} \cup {NoPage} : WritesBut(b, c, t)
      BY DEF Writes
    <2>2. t # n
      BY <2>1 DEF NoPage, PageNums
    <2> QED
      BY <2>1, <2>2
  <1> QED
    BY <1>1, <1>2, <1>3 DEF WritesBut

\* A quiet step shows the same pages.
LEMMA QuietShows ==
  ASSUME NEW b, NEW c, NEW p, NEW h, FileInv(Shown(b), p, h), Sound(b, {}),
         Writes(b, c), Reads(b, c, {})
  PROVE  Shown(c) = Shown(b)
  BY AbsentStays DEF Reads, Shown

\* A step that is quiet but for page n changes what is shown of that page.
LEMMA ChangeShows ==
  ASSUME NEW b, NEW c, NEW p, NEW h, FileInv(Shown(b), p, h), Sound(b, {}),
         NEW n \in PageNums, Writes(b, c), Reads(b, c, {<<Fd, n>>})
  PROVE  Shown(c) = [Shown(b) EXCEPT ![n] = View(c, n)]
  <1>1. \A m \in PageNums : m # n => View(c, m) = View(b, m)
    <2>1. \A m \in PageNums : m # n => <<Fd, m>> \notin {<<Fd, n>>}
      OBVIOUS
    <2> QED
      BY <2>1, AbsentStays DEF Reads
  <1> QED
    BY <1>1 DEF Shown

\* A step that pins or unpins page n changes the pins of that page alone.
LEMMA ChangeHeld ==
  ASSUME NEW b, NEW c, NEW n \in PageNums, Pins(b, c, {<<Fd, n>>})
  PROVE  Held(c) = [Held(b) EXCEPT ![n] = PinCount(c, n)]
  <1>1. \A m \in PageNums : m # n => <<Fd, m>> \notin {<<Fd, n>>}
    OBVIOUS
  <1> QED
    BY <1>1 DEF Pins, Held

\* A step that pins and unpins nothing leaves the pins as they were.
LEMMA SameHeld ==
  ASSUME NEW b, NEW c, Pins(b, c, {})
  PROVE  Held(c) = Held(b)
  BY DEF Pins, Held

\* One more pin on page n.
OneMore(p, n) == [p EXCEPT ![n] = @ + 1]

\* What GetPage of page n returns, given pool b.
Got(b, n, multiplePins, g) ==
  /\ Sound(g.pool, {}) /\ Contiguous(g.pool)
  /\ Shown(g.pool) = Shown(b)
  /\ g.rc # OK => Held(g.pool) = Held(b)
  /\ g.rc = OK =>
       /\ Held(g.pool) = OneMore(Held(b), n)
       /\ InBuffer(g.pool, <<Fd, n>>)
       /\ Pinned(g.pool, <<Fd, n>>)
       /\ Frame(g.pool, n) = View(b, n)
       /\ View(b, n) # Absent
       /\ multiplePins \/ PinCount(b, n) = 0

\* GetPage, as the methods of the handle see it: it shows nothing, and pins
\* the page if it returns it.
LEMMA GetShows ==
  ASSUME NEW b, Sound(b, {}), Contiguous(b), NEW p, NEW h, FileInv(Shown(b), p, h),
         NEW n \in PageNums, NEW multiplePins \in BOOLEAN, NEW s \in Choices(b), NEW fault,
         IsFault(fault)
  PROVE  Got(b, n, multiplePins, GetPage(b, n, multiplePins, s, fault))
  <1> DEFINE g == GetPage(b, n, multiplePins, s, fault)
             c == g.pool
  <1>0. OnlyPins(b, n, multiplePins, g) /\ Sound(c, {})
    BY GetPageView, GetPageSound
  <1> HIDE DEF g
  <1>1. Writes(b, c) /\ Reads(b, c, {}) /\ Contiguous(c) /\ Sound(c, {})
    BY <1>0 DEF OnlyPins
  <1>2. g.rc # OK => Pins(b, c, {})
    BY <1>0 DEF OnlyPins
  <1>3. g.rc = OK => Pins(b, c, {<<Fd, n>>}) /\ InBuffer(c, <<Fd, n>>)
    BY <1>0 DEF OnlyPins
  <1>4. g.rc = OK => PinCount(c, n) = PinCount(b, n) + 1
    BY <1>0 DEF OnlyPins
  <1>5. g.rc = OK => multiplePins \/ PinCount(b, n) = 0
    BY <1>0 DEF OnlyPins
  <1> HIDE DEF c
  <1>6. Shown(c) = Shown(b)
    BY <1>1, QuietShows
  <1>7. g.rc # OK => Held(c) = Held(b)
    BY <1>2, SameHeld
  <1>8. ASSUME g.rc = OK
        PROVE  /\ Held(c) = OneMore(Held(b), n)
               /\ Pinned(c, <<Fd, n>>)
               /\ Frame(c, n) = View(b, n)
               /\ View(b, n) # Absent
    <2>1. Held(c) = [Held(b) EXCEPT ![n] = PinCount(c, n)]
      BY <1>3, <1>8, ChangeHeld
    <2>2. PinCount(b, n) \in Nat /\ PinCount(c, n) > 0 /\ PinCount(c, n) = PinCount(b, n) + 1
      <3>1. PinCount(b, n) \in Nat
        BY PinsOutside
      <3>2. PinCount(c, n) = PinCount(b, n) + 1
        BY <1>4, <1>8
      <3> QED
        BY <3>1, <3>2
    <2>3. Held(c) = OneMore(Held(b), n)
      BY <2>1, <2>2 DEF OneMore, Held
    <2>4. Pinned(c, <<Fd, n>>)
      BY <1>1, <2>2, PinsOutside
    <2>5. View(c, n) = c.data[Find(c, <<Fd, n>>)] /\ View(c, n) # Absent
      BY <1>1, <1>3, <1>8, ViewFrame
    <2>6. View(c, n) = View(b, n)
      BY <1>6 DEF Shown
    <2> QED
      BY <2>3, <2>4, <2>5, <2>6 DEF Frame
  <1> QED
    BY <1>1, <1>3, <1>5, <1>6, <1>7, <1>8 DEF g, c, Got

\* A store by the handle or by the holder of a page of the buffer.
LEMMA UpdateShows ==
  ASSUME NEW b, Sound(b, {}), Contiguous(b), NEW p, NEW h, FileInv(Shown(b), p, h),
         NEW n \in PageNums, InBuffer(b, <<Fd, n>>), NEW d \in Data
  PROVE  LET c == Update(b, n, d)
         IN  /\ Sound(c, {}) /\ Contiguous(c)
             /\ Shown(c) = [Shown(b) EXCEPT ![n] = d]
             /\ Held(c) = Held(b)
             /\ Pinned(b, <<Fd, n>>) => Pinned(c, <<Fd, n>>)
  <1> DEFINE c == Update(b, n, d)
  <1>1. /\ Quiet(b, c, {<<Fd, n>>}) /\ Sound(c, {})
        /\ View(c, n) = d
        /\ PinCount(c, n) = PinCount(b, n)
    BY ChangeView, ChangeSound DEF Update
  <1> HIDE DEF c
  <1>2. Shown(c) = [Shown(b) EXCEPT ![n] = d]
    BY <1>1, ChangeShows DEF Quiet
  <1>3. Held(c) = Held(b)
    <2>1. Held(c) = [Held(b) EXCEPT ![n] = PinCount(c, n)]
      BY <1>1, ChangeHeld DEF Quiet
    <2> QED
      BY <1>1, <2>1 DEF Held
  <1>4. Pinned(b, <<Fd, n>>) => Pinned(c, <<Fd, n>>)
    BY <1>1, PinsOutside
  <1> QED
    BY <1>1, <1>2, <1>3, <1>4 DEF Quiet, c

\* The last word on a page: unpin it.
LEMMA UnpinShows ==
  ASSUME NEW b, Sound(b, {}), Contiguous(b), NEW n \in PageNums, Pinned(b, <<Fd, n>>)
  PROVE  LET c == UnpinPage(b, <<Fd, n>>)
         IN  /\ Sound(c, {}) /\ Contiguous(c)
             /\ Shown(c) = Shown(b)
             /\ Held(c) = [Held(b) EXCEPT ![n] = @ - 1]
  <1> DEFINE k == <<Fd, n>>
             c == UnpinPage(b, k)
  <1>1. k \in Keys /\ Pinned(b, k)
    BY DEF Keys, FileKeys
  <1>2. /\ Sound(c, {}) /\ Contiguous(c)
        /\ \A m \in PageNums : View(c, m) = View(b, m)
        /\ Pins(b, c, {k})
        /\ \A m \in PageNums : k = <<Fd, m>> => PinCount(c, m) = PinCount(b, m) - 1
    <2> HIDE DEF k
    <2> QED
      BY <1>1, UnpinView, UnpinSound
  <1> HIDE DEF c
  <1>3. Held(c) = [Held(b) EXCEPT ![n] = PinCount(c, n)]
    BY <1>2, ChangeHeld
  <1>4. PinCount(c, n) = PinCount(b, n) - 1
    BY <1>2
  <1> QED
    BY <1>2, <1>3, <1>4 DEF Shown, Held, c

----------------------------------------------------------------------------
\* The inductive invariant of the handle: the invariant of its pool, FileInv
\* under the header in force, and what the two copies of the header and the
\* closed file have to do with it.
PInv ==
  /\ exists \in BOOLEAN /\ bFileOpen \in BOOLEAN /\ bHdrChanged \in BOOLEAN
  /\ hdr \in Headers /\ diskHdr \in Headers
  /\ Sound(pool, {}) /\ Contiguous(pool)
  /\ FileInv(Shown(pool), Held(pool), Hdr)
  /\ bFileOpen /\ ~bHdrChanged => hdr = diskHdr
  /\ ~bFileOpen => \A n \in PageNums : ~InBuffer(pool, <<Fd, n>>)
  /\ ~exists => ~bFileOpen /\ diskHdr = NewHdr

\* The pages in use, in the terms of PageFile.
LEMMA UsedAre ==
  ASSUME NEW b, NEW h, FileInv(Shown(b), Held(b), h)
  PROVE  {n \in 0 .. h.numPages - 1 : View(b, n) # Absent /\ View(b, n).nextFree = PF_PAGE_USED}
           = InUse(Shown(b))
  <1>1. h.numPages \in 0 .. MaxPages /\ MaxPages \in Int
    BY BufferAssumption DEF FileInv, Headers
  <1>2. \A n \in PageNums : n < h.numPages <=> View(b, n) # Absent
    BY DEF FileInv, Shown
  <1> QED
    BY <1>1, <1>2 DEF InUse, Shown, PageNums

\* An empty pool over a file shows the file, and nothing is pinned.
LEMMA NewPoolShows ==
  ASSUME NEW file \in [PageNums -> Data \cup {Absent}], NEW tail \in Torn \cup {Absent}
  PROVE  /\ Sound(NewPool(file, tail), {})
         /\ NewPool(file, tail).disk = file
         /\ \A n \in PageNums : ~InBuffer(NewPool(file, tail), <<Fd, n>>)
         /\ \A n \in PageNums : View(NewPool(file, tail), n) = file[n]
         /\ Held(NewPool(file, tail)) = [n \in PageNums |-> 0]
  <1>1. \A n \in PageNums : <<Fd, n>> \in Keys
    BY DEF Keys, FileKeys
  <1>2. /\ NewPool(file, tail).disk = file
        /\ \A n \in PageNums : Find(NewPool(file, tail), <<Fd, n>>) = NoSlot
    BY <1>1 DEF NewPool, Find
  <1> QED
    BY <1>2, NewPoolSound DEF InBuffer, View, PinCount, Held

\* A pool with no page in it shows the file, and nothing is pinned.
LEMMA EmptyShows ==
  ASSUME NEW b, Sound(b, {}), \A n \in PageNums : ~InBuffer(b, <<Fd, n>>)
  PROVE  /\ Shown(b) = [n \in PageNums |-> b.disk[n]]
         /\ Held(b) = [n \in PageNums |-> 0]
         /\ Shown(NewPool(b.disk, b.tail)) = Shown(b)
         /\ Held(NewPool(b.disk, b.tail)) = Held(b)
         /\ b.disk \in [PageNums -> Data \cup {Absent}]
         /\ b.tail \in Torn \cup {Absent}
  <1>1. b.disk \in [PageNums -> Data \cup {Absent}] /\ b.tail \in Torn \cup {Absent}
    BY DEF Sound, Pools
  <1>2. \A n \in PageNums : View(b, n) = b.disk[n] /\ PinCount(b, n) = 0
    BY ViewFrame DEF PinCount, InBuffer
  <1> QED
    BY <1>1, <1>2, NewPoolShows DEF Shown, Held

\* The file of no pages.
LEMMA EmptyFile ==
  LET v == [n \in PageNums |-> Absent]
      p == [n \in PageNums |-> 0]
  IN  FileInv(v, p, NewHdr) /\ NewHdr \in Headers /\ InUse(v) = {}
  <1> DEFINE v == [n \in PageNums |-> Absent]
             p == [n \in PageNums |-> 0]
             L == [i \in Nat |-> PF_PAGE_LIST_END]
  <1>1. NewHdr \in Headers /\ NewHdr.numPages = 0 /\ NewHdr.firstFree = PF_PAGE_LIST_END
    BY BufferAssumption DEF NewHdr, Headers
  <1>2. Free(v) = {} /\ InUse(v) = {}
    BY DEF Free, InUse
  <1>3. L \in [Nat -> Int] /\ \A i \in Nat : L[i] = PF_PAGE_LIST_END
    BY DEF PF_PAGE_LIST_END
  <1>4. /\ v \in [PageNums -> Data \cup {Absent}] /\ p \in [PageNums -> Nat]
        /\ \A n \in PageNums : v[n] = Absent /\ p[n] = 0 /\ ~(n < 0)
    BY DEF PageNums
  <1> HIDE DEF v, p, L
  <1>5. IsFreeList(L, 0, NewHdr.firstFree, v)
    BY <1>1, <1>2, <1>3 DEF IsFreeList
  <1>6. FileInv(v, p, NewHdr)
    BY <1>1, <1>4, <1>5 DEF FileInv
  <1> QED
    BY <1>1, <1>2, <1>6 DEF v, p

\* The constructor and no file.
LEMMA InitPInv == Init => PInv
  <1> SUFFICES ASSUME Init PROVE PInv
    OBVIOUS
  <1>1. NoFile \in [PageNums -> Data \cup {Absent}]
    BY DEF NoFile
  <1>2. /\ Sound(pool, {}) /\ pool.disk = NoFile
        /\ \A n \in PageNums : ~InBuffer(pool, <<Fd, n>>)
        /\ Shown(pool) = [n \in PageNums |-> Absent]
        /\ Held(pool) = [n \in PageNums |-> 0]
    BY <1>1, NewPoolShows DEF Init, Shown, NoFile
  <1>3. Contiguous(pool)
    BY <1>2 DEF Contiguous, NoFile
  <1>4. FileInv(Shown(pool), Held(pool), Hdr) /\ NewHdr \in Headers
    BY <1>2, EmptyFile DEF Init, Hdr
  <1> QED
    BY <1>2, <1>3, <1>4 DEF Init, PInv

----------------------------------------------------------------------------
\* The steps of PagedFile, by what they change of what callers see.
Contents(v) == [n \in InUse(v) |-> v[n].val]

\* The state of PagedFile is what the handle shows: the content of the pages
\* in use, and the pins.
LEMMA ContractState ==
  ASSUME PInv
  PROVE  /\ UsedPages = InUse(Shown(pool))
         /\ [n \in UsedPages |-> View(pool, n).val] = Contents(Shown(pool))
         /\ [n \in PageNums |-> PinCount(pool, n)] = Held(pool)
  <1>1. UsedPages = InUse(Shown(pool))
    BY UsedAre DEF PInv, UsedPages, FilePages
  <1>2. \A n \in InUse(Shown(pool)) : View(pool, n) = Shown(pool)[n]
    BY DEF InUse, Shown
  <1> QED
    BY <1>1, <1>2 DEF Held, Contents

\* The same of the state after a step.
LEMMA ContractNext ==
  ASSUME PInv'
  PROVE  /\ UsedPages' = InUse(Shown(pool'))
         /\ [n \in UsedPages |-> View(pool, n).val]' = Contents(Shown(pool'))
         /\ [n \in PageNums |-> PinCount(pool, n)]' = Held(pool')
  <1>1. UsedPages' = InUse(Shown(pool'))
    BY UsedAre DEF PInv, UsedPages, FilePages
  <1>2. \A n \in InUse(Shown(pool')) : View(pool', n) = Shown(pool')[n]
    BY DEF InUse, Shown
  <1> QED
    BY <1>1, <1>2 DEF Held, Contents

\* What callers cannot see is no step of PagedFile.
LEMMA StutterStep ==
  ASSUME PInv, PInv', bFileOpen' = bFileOpen,
         Shown(pool') = Shown(pool), Held(pool') = Held(pool)
  PROVE  [Contract!Next]_(Contract!vars)
  BY ContractState, ContractNext DEF Contract!vars

\* Opening a closed file.
LEMMA OpenStep ==
  ASSUME PInv, PInv', ~bFileOpen, bFileOpen' = TRUE,
         Shown(pool') = Shown(pool), Held(pool') = Held(pool)
  PROVE  [Contract!Next]_(Contract!vars)
  <1>1. Contract!Open
    BY ContractState, ContractNext DEF Contract!Open
  <1> QED
    BY <1>1 DEF Contract!Next

\* Closing an open file on which nobody holds a page.
LEMMA CloseStep ==
  ASSUME PInv, PInv', bFileOpen, bFileOpen' = FALSE, Shown(pool') = Shown(pool),
         Held(pool') = Held(pool), Held(pool) = [n \in PageNums |-> 0]
  PROVE  [Contract!Next]_(Contract!vars)
  <1>1. Contract!Close
    BY ContractState, ContractNext DEF Contract!Close, Contract!PageNums, PageNums
  <1> QED
    BY <1>1 DEF Contract!Next

\* Destroying a closed file leaves no pages.
LEMMA DestroyStep ==
  ASSUME PInv, PInv', ~bFileOpen, bFileOpen' = bFileOpen,
         InUse(Shown(pool')) = {}, Held(pool') = Held(pool)
  PROVE  [Contract!Next]_(Contract!vars)
  <1>1. [n \in UsedPages |-> View(pool, n).val]' = Contract!NoPages
    BY ContractNext DEF Contract!NoPages, Contents
  <1>2. Contract!Destroy
    BY <1>1, ContractState, ContractNext DEF Contract!Destroy
  <1> QED
    BY <1>2 DEF Contract!Next

\* A new page: zero bytes, and pinned once.
LEMMA AllocateStep ==
  ASSUME PInv, PInv', bFileOpen, bFileOpen' = bFileOpen,
         NEW n \in PageNums, n \notin InUse(Shown(pool)),
         Shown(pool') = [Shown(pool) EXCEPT ![n] = NewPage],
         Held(pool') = [Held(pool) EXCEPT ![n] = 1]
  PROVE  [Contract!Next]_(Contract!vars)
  <1>1. Shown(pool) \in [PageNums -> Data \cup {Absent}]
    BY DEF PInv, FileInv
  <1>2. /\ Shown(pool')[n] = NewPage
        /\ \A m \in PageNums : m # n => Shown(pool')[m] = Shown(pool)[m]
    BY <1>1
  <1>3. InUse(Shown(pool')) = InUse(Shown(pool)) \cup {n}
    BY <1>2, NewPageData DEF InUse
  <1>4. /\ Shown(pool')[n].val = ZeroVal
        /\ \A m \in InUse(Shown(pool)) : Shown(pool')[m] = Shown(pool)[m]
    BY <1>2 DEF NewPage, InUse
  <1>5. /\ DOMAIN Contents(Shown(pool)) = InUse(Shown(pool))
        /\ Contents(Shown(pool')) =
             [m \in InUse(Shown(pool)) \cup {n} |->
                IF m = n THEN ZeroVal ELSE Contents(Shown(pool))[m]]
    BY <1>3, <1>4 DEF Contents
  <1>6. Contract!Allocate(n)
    BY <1>5, ContractState, ContractNext DEF Contract!Allocate
  <1>7. n \in Contract!PageNums
    BY DEF PageNums, Contract!PageNums
  <1> QED
    BY <1>6, <1>7 DEF Contract!Next

\* A page that nobody holds goes to the free list.
LEMMA DisposeStep ==
  ASSUME PInv, PInv', bFileOpen, bFileOpen' = bFileOpen,
         NEW n \in InUse(Shown(pool)), Held(pool)[n] = 0,
         NEW d \in Data, d.nextFree # PF_PAGE_USED,
         Shown(pool') = [Shown(pool) EXCEPT ![n] = d], Held(pool') = Held(pool)
  PROVE  [Contract!Next]_(Contract!vars)
  <1>1. Shown(pool) \in [PageNums -> Data \cup {Absent}] /\ n \in PageNums
    BY DEF PInv, FileInv, InUse
  <1>2. /\ Shown(pool')[n] = d
        /\ \A m \in PageNums : m # n => Shown(pool')[m] = Shown(pool)[m]
    BY <1>1
  <1>3. InUse(Shown(pool')) = InUse(Shown(pool)) \ {n}
    BY <1>2 DEF InUse
  <1>4. \A m \in InUse(Shown(pool')) : Shown(pool')[m] = Shown(pool)[m]
    BY <1>2, <1>3 DEF InUse
  <1>5. /\ DOMAIN Contents(Shown(pool)) = InUse(Shown(pool))
        /\ Contents(Shown(pool')) =
             [m \in InUse(Shown(pool)) \ {n} |-> Contents(Shown(pool))[m]]
    BY <1>3, <1>4 DEF Contents
  <1>6. Contract!Dispose(n)
    BY <1>5, ContractState, ContractNext DEF Contract!Dispose
  <1>7. n \in Contract!PageNums
    BY <1>1 DEF PageNums, Contract!PageNums
  <1> QED
    BY <1>6, <1>7 DEF Contract!Next

\* A page in use gets one more pin.
LEMMA GetStep ==
  ASSUME PInv, PInv', bFileOpen, bFileOpen' = bFileOpen, NEW n \in InUse(Shown(pool)),
         Shown(pool') = Shown(pool), Held(pool') = [Held(pool) EXCEPT ![n] = @ + 1]
  PROVE  [Contract!Next]_(Contract!vars)
  <1>1. Contract!Get(n)
    BY ContractState, ContractNext DEF Contract!Get
  <1>2. n \in Contract!PageNums
    BY DEF InUse, PageNums, Contract!PageNums
  <1> QED
    BY <1>1, <1>2 DEF Contract!Next

\* A page that is held loses a pin.
LEMMA UnpinStep ==
  ASSUME PInv, PInv', bFileOpen' = bFileOpen, NEW n \in PageNums, Held(pool)[n] > 0,
         Shown(pool') = Shown(pool), Held(pool') = [Held(pool) EXCEPT ![n] = @ - 1]
  PROVE  [Contract!Next]_(Contract!vars)
  <1>1. Contract!Unpin(n)
    BY ContractState, ContractNext DEF Contract!Unpin
  <1>2. n \in Contract!PageNums
    BY DEF PageNums, Contract!PageNums
  <1> QED
    BY <1>1, <1>2 DEF Contract!Next

\* The holder of a page changes its content, and no link.
LEMMA WriteStep ==
  ASSUME PInv, PInv', bFileOpen' = bFileOpen, NEW n \in InUse(Shown(pool)),
         Held(pool)[n] > 0, NEW x \in Vals,
         Shown(pool') = [Shown(pool) EXCEPT ![n] = [Shown(pool)[n] EXCEPT !.val = x]],
         InUse(Shown(pool')) = InUse(Shown(pool)), Held(pool') = Held(pool)
  PROVE  [Contract!Next]_(Contract!vars)
  <1>1. Shown(pool) \in [PageNums -> Data \cup {Absent}] /\ n \in PageNums
    BY DEF PInv, FileInv, InUse
  <1>2. Shown(pool)[n] \in Data
    BY <1>1 DEF InUse
  <1>3. /\ Shown(pool')[n].val = x
        /\ \A m \in PageNums : m # n => Shown(pool')[m] = Shown(pool)[m]
    BY <1>1, <1>2, PageFileAssumption
  <1>4. \A m \in InUse(Shown(pool)) : m # n => Shown(pool')[m] = Shown(pool)[m]
    BY <1>3 DEF InUse
  <1>5. Contents(Shown(pool')) = [Contents(Shown(pool)) EXCEPT ![n] = x]
    BY <1>3, <1>4 DEF Contents
  <1>6. [k \in PageNums |-> PinCount(pool, k)][n] > 0
    BY ContractState
  <1>7. Contract!Write(n, x)
    BY <1>5, <1>6, ContractState, ContractNext DEF Contract!Write
  <1>8. n \in Contract!PageNums
    BY <1>1 DEF PageNums, Contract!PageNums
  <1> QED
    BY <1>7, <1>8 DEF Contract!Next

----------------------------------------------------------------------------
\* The actions.  Each keeps PInv and is a step of PagedFile, or none.
Kept == PInv' /\ [Contract!Next]_(Contract!vars)

\* While the file stays open, PInv is FileInv under the header of the handle.
LEMMA OpenPInv ==
  ASSUME PInv, bFileOpen, bFileOpen' = bFileOpen, exists' = exists,
         diskHdr' \in Headers, bHdrChanged' \in BOOLEAN, ~bHdrChanged' => hdr' = diskHdr',
         Sound(pool', {}), Contiguous(pool'), FileInv(Shown(pool'), Held(pool'), hdr')
  PROVE  PInv'
  BY DEF PInv, Hdr, FileInv

\* Creating a file.
LEMMA CreateKeeps ==
  ASSUME PInv, CreateFile
  PROVE  Kept
  <1>1. PInv'
    BY DEF PInv, CreateFile, Hdr
  <1> QED
    BY <1>1, StutterStep DEF Kept, CreateFile

\* Destroying a closed file.
LEMMA DestroyKeeps ==
  ASSUME PInv, DestroyFile
  PROVE  Kept
  <1>1. NoFile \in [PageNums -> Data \cup {Absent}]
    BY DEF NoFile
  <1>2. /\ Sound(pool', {}) /\ pool'.disk = NoFile
        /\ \A n \in PageNums : ~InBuffer(pool', <<Fd, n>>)
        /\ Shown(pool') = [n \in PageNums |-> Absent]
        /\ Held(pool') = [n \in PageNums |-> 0]
    BY <1>1, NewPoolShows DEF DestroyFile, Shown, NoFile
  <1>3. Contiguous(pool')
    BY <1>2 DEF Contiguous, NoFile
  <1>4. PInv'
    BY <1>2, <1>3, EmptyFile DEF PInv, DestroyFile, Hdr
  <1>5. Held(pool') = Held(pool)
    BY <1>2, EmptyShows DEF PInv, DestroyFile
  <1>6. InUse(Shown(pool')) = {}
    BY <1>2, EmptyFile
  <1> QED
    BY <1>4, <1>5, <1>6, DestroyStep DEF Kept, DestroyFile

\* Opening a file starts over with an empty buffer and the header of the file.
LEMMA OpenKeeps ==
  ASSUME PInv, OpenFile
  PROVE  Kept
  <1>1. Sound(pool, {}) /\ \A n \in PageNums : ~InBuffer(pool, <<Fd, n>>)
    BY DEF PInv, OpenFile
  <1>2. /\ Sound(pool', {}) /\ pool'.disk = pool.disk
        /\ Shown(pool') = Shown(pool) /\ Held(pool') = Held(pool)
    BY <1>1, EmptyShows, NewPoolShows DEF OpenFile
  <1>3. Contiguous(pool')
    BY <1>2 DEF PInv, Contiguous
  <1>4. PInv'
    BY <1>2, <1>3 DEF PInv, OpenFile, Hdr
  <1> QED
    BY <1>2, <1>4, OpenStep DEF Kept, OpenFile

\* A flush or a forced write shows nothing, and leaves the headers equal.
LEMMA WriteBackKeeps ==
  ASSUME PInv, bFileOpen, WriteHeader, exists' = exists, bFileOpen' = bFileOpen,
         hdr' = hdr, Sound(pool', {}), Quiet(pool, pool', {})
  PROVE  Kept
  <1>1. Shown(pool') = Shown(pool) /\ Held(pool') = Held(pool) /\ Contiguous(pool')
    BY QuietShows, SameHeld DEF PInv, Quiet
  <1>2. diskHdr' = hdr /\ bHdrChanged' = FALSE
    BY DEF WriteHeader, PInv
  <1>3. PInv'
    BY <1>1, <1>2, OpenPInv DEF PInv, Hdr
  <1> QED
    BY <1>1, <1>3, StutterStep DEF Kept

\* FlushPages writes the header and what is dirty.
LEMMA FlushKeeps ==
  ASSUME PInv, NEW fault, IsFault(fault), Flush(fault)
  PROVE  Kept
  <1>1. Sound(pool', {}) /\ Quiet(pool, pool', {})
    BY FlushSound, FlushView DEF PInv, Flush
  <1> QED
    BY <1>1, WriteBackKeeps DEF Flush

\* ForcePages does the same for one page or all of them.
LEMMA ForceKeeps ==
  ASSUME PInv, NEW P, NEW fault, IsFault(fault), ForceToDisk(P, fault)
  PROVE  Kept
  <1>1. Sound(pool', {}) /\ Quiet(pool, pool', {})
    BY ForceSound, ForceView DEF PInv, ForceToDisk
  <1> QED
    BY <1>1, WriteBackKeeps DEF ForceToDisk

\* Closing a file is a flush; it closes only if no page is left in the buffer,
\* and then the file shows what the buffer did.
LEMMA CloseKeeps ==
  ASSUME PInv, NEW fault, IsFault(fault), CloseFile(fault)
  PROVE  Kept
  <1> DEFINE f == FlushPages(pool, fault)
             b == f.pool
  <1>1. /\ bFileOpen /\ WriteHeader /\ exists' = exists /\ hdr' = hdr
        /\ bFileOpen' = (f.rc # OK)
        /\ pool' = IF f.rc = OK THEN NewPool(b.disk, b.tail) ELSE b
    BY DEF CloseFile
  <1>2. /\ Sound(b, {}) /\ Quiet(pool, b, {})
        /\ f.rc = OK => \A n \in PageNums : ~InBuffer(b, <<Fd, n>>)
    BY FlushSound, FlushView DEF PInv
  <1> HIDE DEF f, b
  <1>3. CASE f.rc # OK
    <2>1. pool' = b /\ bFileOpen' = bFileOpen
      BY <1>1, <1>3 DEF PInv
    <2> QED
      BY <1>1, <1>2, <2>1, WriteBackKeeps
  <1>4. CASE f.rc = OK
    <2>1. pool' = NewPool(b.disk, b.tail) /\ bFileOpen' = FALSE
      BY <1>1, <1>4
    <2>2. Shown(b) = Shown(pool) /\ Held(b) = Held(pool) /\ Contiguous(b)
      BY <1>2, QuietShows, SameHeld DEF PInv, Quiet
    <2>3. /\ Sound(pool', {}) /\ pool'.disk = b.disk
          /\ \A n \in PageNums : ~InBuffer(pool', <<Fd, n>>)
          /\ Shown(pool') = Shown(pool) /\ Held(pool') = Held(pool)
          /\ Held(pool) = [n \in PageNums |-> 0]
      BY <1>2, <1>4, <2>1, <2>2, EmptyShows, NewPoolShows
    <2>4. diskHdr' = hdr /\ bHdrChanged' = FALSE
      BY <1>1 DEF WriteHeader, PInv
    <2>5. Contiguous(pool')
      BY <2>2, <2>3 DEF Contiguous
    <2>6. PInv'
      BY <1>1, <2>1, <2>3, <2>4, <2>5 DEF PInv, Hdr
    <2> QED
      BY <1>1, <2>1, <2>3, <2>6, CloseStep DEF Kept
  <1> QED
    BY <1>3, <1>4

\* Giving back a pin on a page that is in use.
LEMMA UnpinKeeps ==
  ASSUME PInv, NEW n \in PageNums, Unpin(n)
  PROVE  Kept
  <1>1. /\ bFileOpen /\ bFileOpen' = bFileOpen /\ exists' = exists /\ hdr' = hdr
        /\ bHdrChanged' = bHdrChanged /\ diskHdr' = diskHdr
        /\ Pinned(pool, <<Fd, n>>) /\ pool' = UnpinPage(pool, <<Fd, n>>)
    BY DEF Unpin, IsValidPageNum
  <1>2. /\ Sound(pool', {}) /\ Contiguous(pool') /\ Shown(pool') = Shown(pool)
        /\ Held(pool') = [Held(pool) EXCEPT ![n] = @ - 1]
    BY <1>1, UnpinShows DEF PInv
  <1>3. Held(pool)[n] > 0 /\ Held(pool)[n] - 1 \in Nat /\ n \in InUse(Shown(pool))
    <2>1. Held(pool)[n] > 0 /\ Held(pool)[n] \in Nat
      BY <1>1, PinsOutside DEF PInv, Held
    <2> QED
      BY <2>1 DEF PInv, FileInv
  <1>4. FileInv(Shown(pool'), Held(pool'), hdr')
    BY <1>1, <1>2, <1>3, PinsKeep DEF PInv, Hdr
  <1>5. PInv'
    BY <1>1, <1>2, <1>4, OpenPInv DEF PInv
  <1> QED
    BY <1>1, <1>2, <1>3, <1>5, UnpinStep DEF Kept

\* A store by the holder of a page.
LEMMA StoreKeeps ==
  ASSUME PInv, NEW n \in PageNums, NEW x \in Vals, Write(n, x)
  PROVE  Kept
  <1> DEFINE d == [Shown(pool)[n] EXCEPT !.val = x]
  <1>1. /\ bFileOpen /\ bFileOpen' = bFileOpen /\ exists' = exists /\ hdr' = hdr
        /\ bHdrChanged' = bHdrChanged /\ diskHdr' = diskHdr
        /\ Pinned(pool, <<Fd, n>>)
        /\ pool' = Update(pool, n, [Frame(pool, n) EXCEPT !.val = x])
    BY DEF Write, IsValidPageNum
  <1>2. InBuffer(pool, <<Fd, n>>) /\ Frame(pool, n) = Shown(pool)[n]
    BY <1>1, ViewFrame DEF PInv, Pinned, Frame, Shown
  <1>3. Held(pool)[n] > 0 /\ n \in InUse(Shown(pool))
    <2>1. Held(pool)[n] > 0
      BY <1>1, PinsOutside DEF PInv, Held
    <2> QED
      BY <2>1 DEF PInv, FileInv
  <1>4. /\ d \in Data
        /\ FileInv([Shown(pool) EXCEPT ![n] = d], Held(pool), Hdr)
        /\ InUse([Shown(pool) EXCEPT ![n] = d]) = InUse(Shown(pool))
    BY <1>3, WriteKeeps DEF PInv
  <1>5. pool' = Update(pool, n, d)
    BY <1>1, <1>2
  <1> HIDE DEF d
  <1>6. /\ Sound(pool', {}) /\ Contiguous(pool') /\ Held(pool') = Held(pool)
        /\ Shown(pool') = [Shown(pool) EXCEPT ![n] = d]
    BY <1>2, <1>4, <1>5, UpdateShows DEF PInv
  <1>7. PInv'
    BY <1>1, <1>4, <1>6, OpenPInv DEF PInv, Hdr
  <1> QED
    BY <1>1, <1>3, <1>4, <1>6, <1>7, WriteStep DEF Kept, d

\* GetThisPage pins a page in use; a page on the free list is unpinned again.
LEMMA GetKeeps ==
  ASSUME PInv, NEW n \in PageNums, NEW s \in Choices(pool), NEW fault, IsFault(fault), Get(n, s, fault)
  PROVE  Kept
  <1> DEFINE g == GetPage(pool, n, TRUE, s, fault)
             b == g.pool
  <1>1. /\ bFileOpen /\ bFileOpen' = bFileOpen /\ exists' = exists /\ hdr' = hdr
        /\ bHdrChanged' = bHdrChanged /\ diskHdr' = diskHdr
        /\ pool' = IF g.rc = OK /\ Frame(b, n).nextFree # PF_PAGE_USED
                   THEN UnpinPage(b, <<Fd, n>>) ELSE b
    BY DEF Get, IsValidPageNum
  <1>2. /\ Sound(b, {}) /\ Contiguous(b) /\ Shown(b) = Shown(pool)
        /\ g.rc # OK => Held(b) = Held(pool)
        /\ g.rc = OK =>
             /\ Held(b) = [Held(pool) EXCEPT ![n] = @ + 1]
             /\ Pinned(b, <<Fd, n>>)
             /\ Frame(b, n) = Shown(pool)[n]
             /\ Shown(pool)[n] # Absent
    <2>1. Sound(pool, {}) /\ Contiguous(pool) /\ FileInv(Shown(pool), Held(pool), Hdr)
      BY DEF PInv
    <2>2. /\ Sound(b, {}) /\ Contiguous(b) /\ Shown(b) = Shown(pool)
          /\ g.rc # OK => Held(b) = Held(pool)
          /\ g.rc = OK =>
               /\ Held(b) = OneMore(Held(pool), n)
               /\ InBuffer(b, <<Fd, n>>)
               /\ Pinned(b, <<Fd, n>>)
               /\ Frame(b, n) = View(pool, n)
               /\ View(pool, n) # Absent
      <3>1. Got(pool, n, TRUE, g)
        BY <2>1, GetShows
      <3> HIDE DEF g
      <3> QED
        BY <3>1 DEF Got
    <2> HIDE DEF g, b
    <2> QED
      BY <2>1, <2>2 DEF OneMore, Shown
  <1> HIDE DEF g, b
  <1>3. Held(pool) \in [PageNums -> Nat]
    BY DEF PInv, FileInv
  <1>4. CASE Shown(pool') = Shown(pool) /\ Held(pool') = Held(pool)
             /\ Sound(pool', {}) /\ Contiguous(pool')
    <2>1. PInv'
      BY <1>1, <1>4, OpenPInv DEF PInv, Hdr
    <2> QED
      BY <1>1, <1>4, <2>1, StutterStep DEF Kept
  <1>5. CASE g.rc # OK
    BY <1>1, <1>2, <1>4, <1>5
  <1>6. CASE g.rc = OK /\ Frame(b, n).nextFree # PF_PAGE_USED
    <2>1. /\ Sound(pool', {}) /\ Contiguous(pool') /\ Shown(pool') = Shown(b)
          /\ Held(pool') = [Held(b) EXCEPT ![n] = @ - 1]
      BY <1>1, <1>2, <1>6, UnpinShows
    <2>2. Held(pool') = Held(pool)
      BY <1>2, <1>3, <1>6, <2>1
    <2> QED
      BY <1>2, <1>4, <2>1, <2>2
  <1>7. CASE g.rc = OK /\ Frame(b, n).nextFree = PF_PAGE_USED
    <2>1. pool' = b
      BY <1>1, <1>7
    <2>2. n \in InUse(Shown(pool)) /\ Held(pool)[n] + 1 \in Nat
      BY <1>2, <1>3, <1>7 DEF InUse
    <2>3. FileInv(Shown(pool'), Held(pool'), hdr')
      BY <1>1, <1>2, <1>7, <2>1, <2>2, PinsKeep DEF PInv, Hdr
    <2>4. PInv'
      BY <1>1, <1>2, <2>1, <2>3, OpenPInv DEF PInv
    <2> QED
      BY <1>1, <1>2, <1>7, <2>1, <2>2, <2>4, GetStep DEF Kept
  <1> QED
    BY <1>5, <1>6, <1>7

\* AllocatePage with a page of the free list.
LEMMA ReuseStep ==
  ASSUME PInv, bFileOpen, bFileOpen' = bFileOpen, exists' = exists, diskHdr' = diskHdr,
         hdr.firstFree # PF_PAGE_LIST_END, NEW s \in Choices(pool), NEW fault, IsFault(fault),
         Reuse(s, fault)
  PROVE  Kept
  <1> DEFINE n == hdr.firstFree
             g == GetPage(pool, n, TRUE, s, fault)
             b == g.pool
  <1>1. /\ g.rc = OK => /\ hdr' = [hdr EXCEPT !.firstFree = Frame(b, n).nextFree]
                        /\ bHdrChanged' = TRUE
                        /\ pool' = Update(b, n, NewPage)
        /\ g.rc # OK => pool' = b /\ hdr' = hdr /\ bHdrChanged' = bHdrChanged
    BY DEF Reuse, NewPage
  <1>2. FileInv(Shown(pool), Held(pool), hdr) /\ diskHdr \in Headers
    BY DEF PInv, Hdr
  <1>3. n \in Free(Shown(pool))
    BY <1>2, FirstIsFree
  <1>4. n \in PageNums /\ n \notin InUse(Shown(pool)) /\ Held(pool) \in [PageNums -> Nat]
    BY <1>2, <1>3 DEF Free, InUse, FileInv
  <1>5. Held(pool)[n] = 0
    BY <1>2, <1>4 DEF FileInv
  <1>6. FileInv([Shown(pool) EXCEPT ![n] = NewPage], [Held(pool) EXCEPT ![n] = 1],
                [hdr EXCEPT !.firstFree = Shown(pool)[n].nextFree])
    BY <1>2, ReuseKeeps
  <1> HIDE DEF n
  <1>7. /\ Sound(b, {}) /\ Contiguous(b) /\ Shown(b) = Shown(pool)
        /\ g.rc # OK => Held(b) = Held(pool)
        /\ g.rc = OK =>
             /\ Held(b) = [Held(pool) EXCEPT ![n] = @ + 1]
             /\ InBuffer(b, <<Fd, n>>)
             /\ Frame(b, n) = Shown(pool)[n]
    <2>1. /\ Sound(pool, {}) /\ Contiguous(pool) /\ n \in PageNums
          /\ FileInv(Shown(pool), Held(pool), hdr)
      BY <1>2, <1>4 DEF PInv
    <2>2. /\ Sound(b, {}) /\ Contiguous(b) /\ Shown(b) = Shown(pool)
          /\ g.rc # OK => Held(b) = Held(pool)
          /\ g.rc = OK =>
               /\ Held(b) = OneMore(Held(pool), n)
               /\ InBuffer(b, <<Fd, n>>)
               /\ Pinned(b, <<Fd, n>>)
               /\ Frame(b, n) = View(pool, n)
               /\ View(pool, n) # Absent
      <3>1. Got(pool, n, TRUE, g)
        BY <2>1, GetShows
      <3> HIDE DEF g
      <3> QED
        BY <3>1 DEF Got
    <2> HIDE DEF g, b
    <2> QED
      BY <2>1, <2>2 DEF OneMore, Shown
  <1> HIDE DEF g, b
  <1>8. CASE g.rc # OK
    <2>1. PInv'
      BY <1>1, <1>2, <1>7, <1>8, OpenPInv DEF PInv
    <2> QED
      BY <1>1, <1>7, <1>8, <2>1, StutterStep DEF Kept
  <1>9. CASE g.rc = OK
    <2>1. Held(b) = [Held(pool) EXCEPT ![n] = 1]
      BY <1>4, <1>5, <1>7, <1>9
    <2>2. /\ Sound(pool', {}) /\ Contiguous(pool') /\ Held(pool') = Held(b)
          /\ Shown(pool') = [Shown(pool) EXCEPT ![n] = NewPage]
      BY <1>1, <1>2, <1>4, <1>7, <1>9, NewPageData, UpdateShows
    <2>3. FileInv(Shown(pool'), Held(pool'), hdr')
      BY <1>1, <1>6, <1>7, <1>9, <2>1, <2>2
    <2>4. PInv'
      BY <1>1, <1>2, <1>9, <2>2, <2>3, OpenPInv
    <2> QED
      BY <1>4, <2>1, <2>2, <2>4, AllocateStep DEF Kept
  <1> QED
    BY <1>8, <1>9

\* AllocatePage with a new page at the end of the file.
LEMMA ExtendStep ==
  ASSUME PInv, bFileOpen, bFileOpen' = bFileOpen, exists' = exists, diskHdr' = diskHdr,
         hdr.numPages < MaxPages, ~InBuffer(pool, <<Fd, hdr.numPages>>),
         NEW s \in Choices(pool), NEW fault, IsFault(fault), Extend(s, fault)
  PROVE  Kept
  <1> DEFINE n == hdr.numPages
             g == AllocatePage(pool, n, s, fault)
             c == Update(g.pool, n, NewPage)
  <1>1. /\ g.rc = OK => /\ hdr' = [hdr EXCEPT !.numPages = n + 1]
                        /\ bHdrChanged' = TRUE
                        /\ pool' = c
        /\ g.rc # OK => pool' = g.pool /\ hdr' = hdr /\ bHdrChanged' = bHdrChanged
    BY DEF Extend, NewPage
  <1>2. /\ FileInv(Shown(pool), Held(pool), hdr) /\ diskHdr \in Headers
        /\ Sound(pool, {}) /\ Contiguous(pool)
    BY DEF PInv, Hdr
  <1>3. /\ n \in PageNums /\ Shown(pool)[n] = Absent
        /\ FileInv([Shown(pool) EXCEPT ![n] = NewPage], [Held(pool) EXCEPT ![n] = 1],
                   [hdr EXCEPT !.numPages = n + 1])
    BY <1>2, ExtendKeeps
  <1>4. n \notin InUse(Shown(pool)) /\ ~InBuffer(pool, <<Fd, n>>)
    BY <1>3 DEF InUse
  <1> HIDE DEF n
  <1>5. ASSUME g.rc # OK
        PROVE  /\ Sound(g.pool, {}) /\ Contiguous(g.pool)
               /\ Shown(g.pool) = Shown(pool) /\ Held(g.pool) = Held(pool)
    <2>1. Failed(pool, fault, g.pool)
      BY <1>2, <1>5, InternalAllocSound DEF AllocatePage, AllocateKey, Return
    <2> HIDE DEF g
    <2>2. Sound(g.pool, {}) /\ Quiet(pool, g.pool, {})
      BY <1>2, <2>1, FailedSound, FailedQuiet
    <2> QED
      BY <1>2, <2>2, QuietShows, SameHeld DEF Quiet
  <1>6. ASSUME g.rc = OK
        PROVE  /\ Sound(c, {}) /\ Contiguous(c)
               /\ Shown(c) = [Shown(pool) EXCEPT ![n] = NewPage]
               /\ Held(c) = [Held(pool) EXCEPT ![n] = 1]
    <2>1. c = MarkDirty(Store(g.pool, n, NewPage), n)
      BY DEF Update
    <2>2. Sound(c, {})
      BY <1>2, <1>3, <1>4, <1>6, <2>1, NewPageData, AllocateSound
    <2>3. Quiet(pool, c, {<<Fd, n>>}) /\ View(c, n) = NewPage /\ PinCount(c, n) = 1
      <3>1. ShowsNew(pool, MarkDirty(Store(AllocatePage(pool, n, s, fault).pool, n, NewPage), n),
                     n, NewPage)
        BY <1>2, <1>3, <1>4, <1>6, NewPageData, AllocateView
      <3> QED
        BY <2>1, <3>1 DEF ShowsNew
    <2> HIDE DEF c
    <2> QED
      BY <1>2, <1>3, <2>2, <2>3, ChangeShows, ChangeHeld DEF Quiet
  <1> HIDE DEF g, c
  <1>7. CASE g.rc # OK
    <2>1. /\ Sound(pool', {}) /\ Contiguous(pool')
          /\ Shown(pool') = Shown(pool) /\ Held(pool') = Held(pool)
      BY <1>1, <1>5, <1>7
    <2>2. PInv'
      BY <1>1, <1>2, <1>7, <2>1, OpenPInv DEF PInv
    <2> QED
      BY <2>1, <2>2, StutterStep DEF Kept
  <1>8. CASE g.rc = OK
    <2>1. FileInv(Shown(pool'), Held(pool'), hdr')
      BY <1>1, <1>3, <1>6, <1>8
    <2>2. PInv'
      BY <1>1, <1>2, <1>6, <1>8, <2>1, OpenPInv
    <2> QED
      BY <1>1, <1>3, <1>4, <1>6, <1>8, <2>2, AllocateStep DEF Kept
  <1> QED
    BY <1>7, <1>8

\* AllocatePage is one or the other, by the head of the free list.
LEMMA AllocateKeeps ==
  ASSUME PInv, NEW s \in Choices(pool), NEW fault, IsFault(fault), Allocate(s, fault)
  PROVE  Kept
  <1>1. bFileOpen /\ bFileOpen' = bFileOpen /\ exists' = exists /\ diskHdr' = diskHdr
    BY DEF Allocate
  <1>2. CASE hdr.firstFree # PF_PAGE_LIST_END /\ Reuse(s, fault)
    BY <1>1, <1>2, ReuseStep
  <1>3. CASE /\ hdr.numPages < MaxPages /\ ~InBuffer(pool, <<Fd, hdr.numPages>>)
             /\ Extend(s, fault)
    BY <1>1, <1>3, ExtendStep
  <1> QED
    BY <1>2, <1>3 DEF Allocate

\* DisposePage puts a page that is in use, and that nobody else holds, in
\* front of the free list; otherwise it changes nothing.
LEMMA DisposePageKeeps ==
  ASSUME PInv, NEW n \in PageNums, NEW s \in Choices(pool), NEW fault, IsFault(fault),
         Dispose(n, s, fault)
  PROVE  Kept
  <1> DEFINE g == GetPage(pool, n, FALSE, s, fault)
             b == g.pool
             d == [Frame(b, n) EXCEPT !.nextFree = hdr.firstFree]
             u == Update(b, n, d)
  <1>1. /\ bFileOpen /\ bFileOpen' = bFileOpen /\ exists' = exists /\ diskHdr' = diskHdr
        /\ IF g.rc = OK /\ Frame(b, n).nextFree = PF_PAGE_USED
           THEN /\ pool' = UnpinPage(u, <<Fd, n>>)
                /\ hdr' = [hdr EXCEPT !.firstFree = n]
                /\ bHdrChanged' = TRUE
           ELSE /\ pool' = IF g.rc = OK THEN UnpinPage(b, <<Fd, n>>) ELSE b
                /\ hdr' = hdr /\ bHdrChanged' = bHdrChanged
    BY DEF Dispose, IsValidPageNum
  <1>2. /\ FileInv(Shown(pool), Held(pool), hdr) /\ diskHdr \in Headers
        /\ Sound(pool, {}) /\ Contiguous(pool)
    BY <1>1 DEF PInv, Hdr
  <1>3. /\ Sound(b, {}) /\ Contiguous(b) /\ Shown(b) = Shown(pool)
        /\ g.rc # OK => Held(b) = Held(pool)
        /\ g.rc = OK =>
             /\ Held(b) = OneMore(Held(pool), n)
             /\ InBuffer(b, <<Fd, n>>)
             /\ Pinned(b, <<Fd, n>>)
             /\ Frame(b, n) = View(pool, n)
             /\ View(pool, n) # Absent
             /\ PinCount(pool, n) = 0
    <2>1. Got(pool, n, FALSE, g)
      BY <1>2, GetShows
    <2> HIDE DEF g
    <2> QED
      BY <2>1 DEF Got
  <1>4. Held(pool) \in [PageNums -> Nat]
    BY <1>2 DEF FileInv
  <1> HIDE DEF g, b, u
  <1>5. CASE Shown(pool') = Shown(pool) /\ Held(pool') = Held(pool)
             /\ Sound(pool', {}) /\ Contiguous(pool')
             /\ hdr' = hdr /\ bHdrChanged' = bHdrChanged
    <2>1. PInv'
      BY <1>1, <1>2, <1>5, OpenPInv DEF PInv
    <2> QED
      BY <1>1, <1>5, <2>1, StutterStep DEF Kept
  <1>6. CASE g.rc # OK
    BY <1>1, <1>3, <1>5, <1>6
  <1>7. CASE g.rc = OK /\ Frame(b, n).nextFree # PF_PAGE_USED
    <2>1. /\ Sound(pool', {}) /\ Contiguous(pool') /\ Shown(pool') = Shown(b)
          /\ Held(pool') = [Held(b) EXCEPT ![n] = @ - 1]
      BY <1>1, <1>3, <1>7, UnpinShows
    <2>2. Held(pool') = Held(pool)
      BY <1>3, <1>4, <1>7, <2>1 DEF OneMore
    <2> QED
      BY <1>1, <1>3, <1>5, <1>7, <2>1, <2>2
  <1>8. CASE g.rc = OK /\ Frame(b, n).nextFree = PF_PAGE_USED
    <2>1. n \in InUse(Shown(pool)) /\ Held(pool)[n] = 0 /\ Frame(b, n) = Shown(pool)[n]
      BY <1>3, <1>8 DEF InUse, Shown, Held
    <2>2. /\ d \in Data
          /\ FileInv([Shown(pool) EXCEPT ![n] = d], Held(pool), [hdr EXCEPT !.firstFree = n])
      BY <1>2, <2>1, DisposeKeeps
    <2>3. d.nextFree # PF_PAGE_USED
      <3>1. Shown(pool)[n] \in Data /\ hdr.firstFree # PF_PAGE_USED
        BY <1>2, <2>1, NewPageData DEF FileInv, InUse, Headers
      <3> QED
        BY <2>1, <3>1, PageFileAssumption
    <2> HIDE DEF d
    <2>4. /\ Sound(u, {}) /\ Contiguous(u) /\ Held(u) = Held(b)
          /\ Shown(u) = [Shown(b) EXCEPT ![n] = d] /\ Pinned(u, <<Fd, n>>)
      <3>1. FileInv(Shown(b), Held(pool), hdr)
        BY <1>2, <1>3
      <3> QED
        BY <1>3, <1>8, <2>2, <3>1, UpdateShows DEF u
    <2>5. /\ Sound(pool', {}) /\ Contiguous(pool') /\ Shown(pool') = Shown(u)
          /\ Held(pool') = [Held(u) EXCEPT ![n] = @ - 1]
      <3>1. pool' = UnpinPage(u, <<Fd, n>>)
        BY <1>1, <1>8
      <3> QED
        BY <2>4, <3>1, UnpinShows
    <2>6. Held(pool') = Held(pool)
      BY <1>3, <1>4, <1>8, <2>4, <2>5 DEF OneMore
    <2>7. Shown(pool') = [Shown(pool) EXCEPT ![n] = d]
      BY <1>3, <2>4, <2>5
    <2>8. PInv'
      BY <1>1, <1>2, <1>8, <2>2, <2>5, <2>6, <2>7, OpenPInv
    <2> QED
      BY <1>1, <2>1, <2>2, <2>3, <2>6, <2>7, <2>8, DisposeStep DEF Kept
  <1> QED
    BY <1>6, <1>7, <1>8

\* A block of memory shows nothing of itself, whatever is evicted for it.
LEMMA NewBlockKeeps ==
  ASSUME PInv, NEW s \in Choices(pool), NEW fault, IsFault(fault), NewBlock(s, fault)
  PROVE  Kept
  <1>1. Sound(pool', {}) /\ Quiet(pool, pool', {})
    BY AllocateBlockSound, AllocateBlockView DEF PInv, NewBlock, Quiet
  <1>2. /\ Shown(pool') = Shown(pool) /\ Held(pool') = Held(pool) /\ Contiguous(pool')
    BY <1>1, QuietShows, SameHeld DEF PInv, Quiet
  <1>3. PInv'
    BY <1>1, <1>2, OpenPInv DEF PInv, Hdr, NewBlock
  <1> QED
    BY <1>2, <1>3, StutterStep DEF Kept, NewBlock

\* Nor does giving it back.
LEMMA DisposeBlockKeeps ==
  ASSUME PInv, NEW s \in Slots, DisposeBlock(s)
  PROVE  Kept
  <1> DEFINE k == <<MEMORY_FD, s>>
  <1>1. /\ k \in Keys /\ Pinned(pool, k) /\ pool' = UnpinPage(pool, k)
        /\ \A n \in PageNums : <<Fd, n>> # k
    BY BufferAssumption DEF DisposeBlock, Keys, BlockKeys, MEMORY_FD
  <1>2. /\ Sound(pool', {}) /\ Contiguous(pool')
        /\ \A n \in PageNums : View(pool', n) = View(pool, n)
        /\ Pins(pool, pool', {k})
    <2> HIDE DEF k
    <2> QED
      BY <1>1, UnpinView, UnpinSound DEF PInv
  <1>3. Shown(pool') = Shown(pool) /\ Held(pool') = Held(pool)
    BY <1>1, <1>2 DEF Pins, Shown, Held
  <1>4. PInv'
    BY <1>2, <1>3, OpenPInv DEF PInv, Hdr, DisposeBlock
  <1> QED
    BY <1>3, <1>4, StutterStep DEF Kept, DisposeBlock

\* What the header's and the pages' write() calls that fail may leave behind.
LEMMA FaultsAre == \A fault \in Faults \cup {HDR} : IsFault(fault)
  BY DEF Faults, NoFault, HDR, IsFault

\* Every step keeps PInv and is a step of PagedFile.
LEMMA NextKeeps ==
  ASSUME PInv, [Next]_vars
  PROVE  Kept
  <1>1. CASE CreateFile
    BY <1>1, CreateKeeps
  <1>2. CASE DestroyFile
    BY <1>2, DestroyKeeps
  <1>3. CASE OpenFile
    BY <1>3, OpenKeeps
  <1>4. ASSUME NEW fault \in Faults \cup {HDR}, Flush(fault)
        PROVE  Kept
    BY <1>4, FaultsAre, FlushKeeps
  <1>5. ASSUME NEW fault \in Faults \cup {HDR}, CloseFile(fault)
        PROVE  Kept
    BY <1>5, FaultsAre, CloseKeeps
  <1>6. ASSUME NEW P, NEW fault \in Faults \cup {HDR}, ForceToDisk(P, fault)
        PROVE  Kept
    BY <1>6, FaultsAre, ForceKeeps
  <1>7. ASSUME NEW s \in Choices(pool), NEW fault \in Faults, Allocate(s, fault)
        PROVE  Kept
    BY <1>7, FaultsAre, AllocateKeeps
  <1>8. ASSUME NEW s \in Choices(pool), NEW fault \in Faults, NEW n \in PageNums, Get(n, s, fault)
        PROVE  Kept
    BY <1>8, FaultsAre, GetKeeps
  <1>9. ASSUME NEW s \in Choices(pool), NEW fault \in Faults, NEW n \in PageNums, Dispose(n, s, fault)
        PROVE  Kept
    BY <1>9, FaultsAre, DisposePageKeeps
  <1>10. ASSUME NEW n \in PageNums, NEW x \in Vals, Write(n, x)
         PROVE  Kept
    BY <1>10, StoreKeeps
  <1>11. ASSUME NEW n \in PageNums, Unpin(n)
         PROVE  Kept
    BY <1>11, UnpinKeeps
  <1>12. ASSUME NEW s \in Choices(pool), NEW fault \in Faults, NewBlock(s, fault)
         PROVE  Kept
    BY <1>12, FaultsAre, NewBlockKeeps
  <1>13. ASSUME NEW s \in Slots, DisposeBlock(s)
         PROVE  Kept
    BY <1>13, DisposeBlockKeeps
  <1>14. CASE UNCHANGED vars
    <2>1. PInv'
      BY <1>14 DEF vars, PInv, Hdr
    <2> QED
      BY <1>14, <2>1, StutterStep DEF Kept, vars
  <1> QED
    BY <1>1, <1>2, <1>3, <1>4, <1>5, <1>6, <1>7, <1>8, <1>9, <1>10, <1>11, <1>12, <1>13, <1>14
       DEF Next

\* The invariant holds of every run, however many pages, slots and pins.
THEOREM AlwaysPInv == Spec => []PInv
  <1>1. PInv /\ [Next]_vars => PInv'
    BY NextKeeps DEF Kept
  <1> QED
    BY <1>1, InitPInv, PTL DEF Spec

\* PF_FileHandle never reaches a state outside its types: no header beyond
\* its bounds, no ill-formed pool.
THEOREM TypeCorrect == Spec => []TypeOK
  <1>1. PInv => TypeOK
    BY DEF PInv, TypeOK, Sound
  <1> QED
    BY <1>1, AlwaysPInv, PTL

\* The file on disk has the pages its header counts whenever it is closed,
\* and the handle knows when its header is not the one on disk.
THEOREM HeadersAgree == Spec => []HeaderMatchesFile
  <1>1. PInv => HeaderMatchesFile
    <2> SUFFICES ASSUME PInv PROVE HeaderMatchesFile
      OBVIOUS
    <2>1. ASSUME ~bFileOpen, NEW n \in PageNums
          PROVE  n < diskHdr.numPages <=> pool.disk[n] # Absent
      <3>1. Shown(pool)[n] = pool.disk[n]
        BY <2>1, EmptyShows DEF PInv
      <3> QED
        BY <2>1, <3>1 DEF PInv, Hdr, FileInv
    <2> QED
      BY <2>1 DEF PInv, HeaderMatchesFile
  <1> QED
    BY <1>1, AlwaysPInv, PTL

\* A pinned page is in use and so never on the free list: no second caller is
\* given it as a new page, and it is not disposed of under its holder.
THEOREM HeldAreUsed == Spec => []HeldPagesInUse
  <1>1. PInv => HeldPagesInUse
    <2> SUFFICES ASSUME PInv, NEW n \in PageNums, Pinned(pool, <<Fd, n>>)
                 PROVE  bFileOpen /\ n \in UsedPages
      BY DEF HeldPagesInUse
    <2>1. Held(pool)[n] > 0
      BY PinsOutside DEF PInv, Held
    <2>2. n \in UsedPages
      BY <2>1, ContractState DEF PInv, FileInv
    <2>3. bFileOpen
      BY DEF PInv, Pinned
    <2> QED
      BY <2>2, <2>3
  <1> QED
    BY <1>1, AlwaysPInv, PTL

\* The handle over its buffer pool is a paged file: what is written to a page
\* stays until it is disposed of, whatever is evicted, flushed, forced, closed
\* and opened, and whichever reads and writes fail.
THEOREM Refinement == Spec => ImplementsPagedFile
  <1>1. Init => Contract!Init
    <2> SUFFICES ASSUME Init PROVE Contract!Init
      OBVIOUS
    <2>1. PInv
      BY InitPInv
    <2>2. /\ Shown(pool) = [n \in PageNums |-> Absent]
          /\ Held(pool) = [n \in PageNums |-> 0]
      <3>1. NoFile \in [PageNums -> Data \cup {Absent}]
        BY DEF NoFile
      <3> QED
        BY <3>1, NewPoolShows DEF Init, Shown, NoFile
    <2>3. InUse(Shown(pool)) = {}
      BY <2>2, EmptyFile
    <2> QED
      BY <2>1, <2>2, <2>3, ContractState
         DEF Contract!Init, Contract!NoPages, Contents, Init, Contract!PageNums, PageNums
  <1>2. PInv /\ [Next]_vars => [Contract!Next]_(Contract!vars)
    BY NextKeeps DEF Kept
  <1> QED
    BY <1>1, <1>2, AlwaysPInv, PTL DEF Spec, Contract!Spec, ImplementsPagedFile

----------------------------------------------------------------------------
\* The length of the free list is the number of the free pages.
LEMMA ListCounts ==
  ASSUME NEW L, NEW k, NEW first, NEW v, IsFreeList(L, k, first, v)
  PROVE  /\ Cardinality(Free(v)) = k /\ k \in 0 .. MaxPages
         /\ {L[i] : i \in 0 .. k - 1} = Free(v)
  <1> USE DEF IsFreeList
  <1> DEFINE F == [i \in 1 .. k |-> L[i - 1]]
  <1>1. \A i \in 1 .. k : i - 1 \in Nat /\ i - 1 < k
    OBVIOUS
  <1>2. F \in [1 .. k -> Free(v)]
    BY <1>1
  <1>3. \A n \in Free(v) : \E i \in 1 .. k : F[i] = n
    <2> SUFFICES ASSUME NEW n \in Free(v) PROVE \E i \in 1 .. k : F[i] = n
      OBVIOUS
    <2>1. PICK i \in Nat : i < k /\ L[i] = n
      OBVIOUS
    <2>2. i + 1 \in 1 .. k /\ F[i + 1] = n
      BY <2>1
    <2> QED
      BY <2>2
  <1>4. ASSUME NEW i \in 1 .. k, NEW j \in 1 .. k, F[i] = F[j]
        PROVE  i = j
    <2>1. i - 1 = j - 1
      BY <1>1, <1>4
    <2> QED
      BY <2>1
  <1>5. ExistsBijection(1 .. k, Free(v))
    <2> HIDE DEF F
    <2>1. F \in Bijection(1 .. k, Free(v))
      BY <1>2, <1>3, <1>4 DEF Bijection, Injection, Surjection, IsInjective
    <2> QED
      BY <2>1 DEF ExistsBijection
  <1>6. Cardinality(Free(v)) = k
    BY <1>5, FS_CountingElements
  <1>7. IsFiniteSet(PageNums) /\ Cardinality(PageNums) = MaxPages /\ Free(v) \in SUBSET PageNums
    <2> HIDE DEF IsFreeList, F
    <2>1. MaxPages \in Nat
      BY BufferAssumption
    <2>2. PageNums = 0 .. MaxPages - 1
      BY DEF PageNums
    <2>3. IsFiniteSet(0 .. MaxPages - 1)
      BY <2>1, FS_Interval
    <2>4. Cardinality(0 .. MaxPages - 1) = MaxPages
      BY <2>1, FS_Interval
    <2>5. Free(v) \in SUBSET PageNums
      BY DEF Free
    <2> QED
      BY <2>2, <2>3, <2>4, <2>5
  <1>8. k <= MaxPages
    BY <1>6, <1>7, FS_Subset
  <1>9. {L[i] : i \in 0 .. k - 1} = Free(v)
    <2>1. \A i \in 0 .. k - 1 : L[i] \in Free(v)
      OBVIOUS
    <2>2. \A n \in Free(v) : \E i \in 0 .. k - 1 : L[i] = n
      OBVIOUS
    <2> QED
      BY <2>1, <2>2
  <1> QED
    BY <1>6, <1>8, <1>9, BufferAssumption

\* Following the links from the header walks the free list.
LEMMA WalkFollowsList ==
  ASSUME PInv, NEW L, NEW k, IsFreeList(L, k, Hdr.firstFree, Shown(pool))
  PROVE  \A i \in 0 .. MaxPages : FreeAt[i] = L[i]
  <1> DEFINE Link(a) == IF a \in FilePages /\ View(pool, a) # Absent
                        THEN View(pool, a).nextFree ELSE a
             IsWalk(f) == f = [i \in 0 .. MaxPages |->
                                 IF i = 0 THEN Hdr.firstFree ELSE Link(f[i - 1])]
             M == [i \in 0 .. MaxPages |-> L[i]]
  <1>0. MaxPages \in Nat
    BY BufferAssumption
  <1>1. \A i \in Nat : L[i + 1] = Link(L[i])
    <2> SUFFICES ASSUME NEW i \in Nat PROVE L[i + 1] = Link(L[i])
      OBVIOUS
    <2>1. CASE i < k
      <3>1. L[i] \in Free(Shown(pool)) /\ L[i + 1] = Shown(pool)[L[i]].nextFree
        BY <2>1 DEF IsFreeList
      <3>2. L[i] \in PageNums /\ View(pool, L[i]) # Absent
        BY <3>1 DEF Free, Shown
      <3>3. L[i] \in FilePages
        <4>1. L[i] < Hdr.numPages /\ Hdr.numPages \in 0 .. MaxPages
          BY <3>2 DEF PInv, FileInv, Shown, Headers
        <4> QED
          BY <1>0, <3>2, <4>1 DEF FilePages, PageNums
      <3> QED
        BY <3>1, <3>2, <3>3 DEF Shown
    <2>2. CASE i >= k
      <3>1. L[i] = PF_PAGE_LIST_END /\ L[i + 1] = PF_PAGE_LIST_END
        BY <2>2 DEF IsFreeList
      <3>2. L[i] \notin FilePages
        BY <3>1 DEF FilePages, PF_PAGE_LIST_END
      <3> QED
        BY <3>1, <3>2
    <2> QED
      BY <2>1, <2>2 DEF IsFreeList
  <1>2. FreeAt = CHOOSE f : IsWalk(f)
    BY DEF FreeAt
  <1> HIDE DEF Link
  <1>3. IsWalk(M)
    <2>1. \A i \in 0 .. MaxPages : i # 0 => i - 1 \in 0 .. MaxPages /\ L[i] = Link(L[i - 1])
      BY <1>0, <1>1
    <2>2. L[0] = Hdr.firstFree
      BY DEF IsFreeList
    <2> QED
      BY <2>1, <2>2
  <1>4. IsWalk(FreeAt)
    <2> HIDE DEF IsWalk, M
    <2> QED
      BY <1>2, <1>3
  <1>5. /\ FreeAt[0] = Hdr.firstFree
        /\ \A i \in 0 .. MaxPages : i # 0 => FreeAt[i] = Link(FreeAt[i - 1])
    <2> DEFINE W == FreeAt
    <2>1. W = [i \in 0 .. MaxPages |-> IF i = 0 THEN Hdr.firstFree ELSE Link(W[i - 1])]
      BY <1>4
    <2> HIDE DEF W
    <2>2. /\ W[0] = Hdr.firstFree
          /\ \A i \in 0 .. MaxPages : i # 0 => W[i] = Link(W[i - 1])
      BY <1>0, <2>1
    <2> QED
      BY <2>2 DEF W
  <1> DEFINE T == {i \in 0 .. MaxPages : FreeAt[i] # L[i]}
  <1>6. ASSUME T # {} PROVE FALSE
    <2>0. T \in SUBSET Nat
      BY <1>0
    <2>1. PICK i \in T : \A j \in T : i <= j
      <3> HIDE DEF T
      <3> QED
        BY <1>6, <2>0, LeastMember
    <2>2. i # 0
      BY <1>5, <2>1 DEF IsFreeList
    <2>3. i - 1 \in 0 .. MaxPages /\ i - 1 \notin T
      BY <1>0, <2>1, <2>2
    <2>4. FreeAt[i] = L[i]
      BY <1>0, <1>1, <1>5, <2>1, <2>2, <2>3
    <2> QED
      BY <2>1, <2>4
  <1> QED
    BY <1>6

\* The free list that starts in the header holds exactly the pages that are
\* not in use, each once, and ends: AllocatePage never hands out a page that
\* is in use, never loses one that is free, and never runs into a cycle.
THEOREM FreeListIsExact == Spec => []FreeListExact
  <1>1. PInv => FreeListExact
    <2> SUFFICES ASSUME PInv PROVE FreeListExact
      OBVIOUS
    <2>1. PICK L, k : IsFreeList(L, k, Hdr.firstFree, Shown(pool))
      BY DEF PInv, FileInv
    <2>2. FilePages \ UsedPages = Free(Shown(pool))
      <3>1. MaxPages \in Nat /\ Hdr.numPages \in 0 .. MaxPages
        BY BufferAssumption DEF PInv, FileInv, Headers
      <3>2. \A n \in PageNums : n < Hdr.numPages <=> View(pool, n) # Absent
        BY DEF PInv, FileInv, Shown
      <3> QED
        BY <3>1, <3>2 DEF FilePages, UsedPages, Free, Shown, PageNums
    <2>3. /\ Cardinality(Free(Shown(pool))) = k /\ k \in 0 .. MaxPages
          /\ {L[i] : i \in 0 .. k - 1} = Free(Shown(pool))
      BY <2>1, ListCounts
    <2>4. \A i \in 0 .. MaxPages : FreeAt[i] = L[i]
      BY <2>1, WalkFollowsList
    <2>5. FreeAt[k] = PF_PAGE_LIST_END
      BY <2>1, <2>3, <2>4 DEF IsFreeList
    <2>6. \A i \in 0 .. k - 1 : FreeAt[i] = L[i]
      BY <2>3, <2>4, BufferAssumption
    <2>7. {FreeAt[i] : i \in 0 .. k - 1} = Free(Shown(pool))
      BY <2>3, <2>6
    <2> QED
      BY <2>2, <2>3, <2>5, <2>7 DEF FreeListExact
  <1> QED
    BY <1>1, AlwaysPInv, PTL
=============================================================================

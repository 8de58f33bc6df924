-------------------------- MODULE PoolTablesProofs --------------------------
(***************************************************************************)
(* The links and chains of the buffer, for every number of slots, buckets  *)
(* and pages.  A list of slots is given as a function L from all integers: *)
(* L[0] .. L[n - 1] are its slots and every other L[i] is INVALID_SLOT, so *)
(* that the neighbour of an end needs no case of its own.  Linked says     *)
(* that the fields of bufTable thread such lists; each operation is shown  *)
(* to put a slot in front of one (Push) or take it out (Cut), and walks    *)
(* along next and prev to meet them in order.                              *)
(***************************************************************************)
EXTENDS PoolTables, NaturalsInduction, FiniteSetTheorems, TLAPS

\* Recursion without an operator for a parameter: the models say with a recursive
\* function what a walk meets.  Such a function is known by its equation only when
\* there is one that solves it; Iterates and Folds give it for the shapes they use.

\* Every set of natural numbers that is not empty has a least member.
LEMMA LeastMember ==
  ASSUME NEW T \in SUBSET Nat, T # {}
  PROVE  \E i \in T : \A j \in T : i <= j
  <1> DEFINE R == OpToRel(<, Nat)
  <1>1. IsWellFoundedOn(R, Nat)
    BY NatLessThanWellFounded, Zenon
  <1>2. \A x, y \in Nat : y < x => <<y, x>> \in R
    BY Zenon DEF OpToRel
  <1> HIDE DEF R
  <1>3. T \subseteq Nat
    OBVIOUS
  <1>4. \E x \in T : \A y \in T : ~(<<y, x>> \in R)
    BY <1>1, <1>3, WFMin, Zenon
  <1>5. PICK x \in T : \A y \in T : ~(<<y, x>> \in R)
    BY <1>4
  <1>6. ASSUME NEW j \in T
        PROVE  x <= j
    <2>1. ~(j < x)
      BY <1>2, <1>3, <1>5, Zenon
    <2> QED
      BY <1>3, <2>1
  <1> QED
    BY <1>6

\* A step f can be taken any number of times from any start x.
IsIteration(g, x, f, N) == g[0] = x /\ \A i \in 0 .. N : i # 0 => g[i] = f[g[i - 1]]

\* There is such a function for every x, f and N.
LEMMA Iterates ==
  ASSUME NEW N \in Nat, NEW x, NEW f
  PROVE  \E g : IsIteration(g, x, f, N)
  <1> USE DEF IsIteration
  <1> DEFINE Solves(g, k) == IsIteration(g, x, f, k)
             T == {k \in Nat : \A g : ~Solves(g, k)}
  <1>0. \A k \in Nat : k \in T <=> \A g : ~Solves(g, k)
    <2> HIDE DEF Solves
    <2> QED
      OBVIOUS
  <1>1. ASSUME N \in T PROVE FALSE
    <2>1. PICK k \in T : \A j \in T : k <= j
      BY <1>1, LeastMember
    <2>2. k # 0
      <3> DEFINE g == [i \in 0 .. 0 |-> x]
      <3>1. Solves(g, 0)
        OBVIOUS
      <3> QED
        BY <1>0, <2>1, <3>1
    <2>3. PICK g : Solves(g, k - 1)
      <3>1. k \in Nat
        OBVIOUS
      <3> HIDE DEF Solves, T
      <3>2. k - 1 \in Nat /\ k - 1 \notin T
        BY <2>1, <2>2, <3>1
      <3> QED
        BY <1>0, <3>2
    <2> DEFINE h == [i \in 0 .. k |-> IF i = k THEN f[g[k - 1]] ELSE g[i]]
    <2>4. \A i \in 0 .. k : i # 0 => h[i] = f[h[i - 1]]
      <3>1. \A i \in 0 .. k - 1 : i # 0 => g[i] = f[g[i - 1]]
        BY <2>3
      <3>2. \A i \in 0 .. k : i # 0 => i - 1 \in 0 .. k /\ i - 1 # k /\ (i # k => i \in 0 .. k - 1)
        BY <2>1, <2>2
      <3> QED
        BY <3>1, <3>2
    <2>5. h[0] = x
      BY <2>1, <2>2, <2>3
    <2>6. Solves(h, k)
      BY <2>1, <2>4, <2>5
    <2> QED
      BY <1>0, <2>1, <2>6
  <1> QED
    BY <1>0, <1>1

\* A fold over a finite set takes one member at a time, c[s] of what is left.
IsFold(g, S, x, c, f) ==
  \A s \in SUBSET S : g[s] = IF s = {} THEN x ELSE f[<<c[s], g[s \ {c[s]}]>>]

\* There is such a function when c chooses a member of each set.
LEMMA Folds ==
  ASSUME NEW S, IsFiniteSet(S), NEW x, NEW c, NEW f,
         \A s \in SUBSET S : s # {} => c[s] \in s
  PROVE  \E g : IsFold(g, S, x, c, f)
  <1> DEFINE Value(g, s) == IF s = {} THEN x ELSE f[<<c[s], g[s \ {c[s]}]>>]
             Small(k) == {s \in SUBSET S : Cardinality(s) <= k}
             T == {k \in Nat : \A g : ~(\A s \in Small(k) : g[s] = Value(g, s))}
  <1>0. \A k \in Nat : k \in T <=> \A g : ~(\A s \in Small(k) : g[s] = Value(g, s))
    <2> HIDE DEF Value, Small
    <2> QED
      OBVIOUS
  <1>1. \A s \in SUBSET S : IsFiniteSet(s) /\ Cardinality(s) \in Nat /\ Cardinality(s) <= Cardinality(S)
    BY FS_Subset, FS_CardinalityType
  <1>2. \A s \in SUBSET S : s # {} => Cardinality(s \ {c[s]}) = Cardinality(s) - 1
    BY <1>1, FS_RemoveElement
  <1>3. \A s \in SUBSET S : Cardinality(s) <= 0 => s = {}
    BY <1>1, FS_EmptySet
  <1>4. ASSUME T # {} PROVE FALSE
    <2>1. PICK k \in T : \A j \in T : k <= j
      BY <1>4, LeastMember
    <2>2. k # 0
      <3> DEFINE g == [s \in SUBSET S |-> x]
      <3>1. \A s \in Small(0) : g[s] = Value(g, s)
        BY <1>3
      <3> HIDE DEF Value, Small, T, g
      <3> QED
        BY <1>0, <3>1
    <2>3. PICK g : \A s \in Small(k - 1) : g[s] = Value(g, s)
      <3>1. k \in Nat
        OBVIOUS
      <3> HIDE DEF Value, Small, T
      <3>2. k - 1 \in Nat /\ k - 1 \notin T
        BY <2>1, <2>2, <3>1
      <3> QED
        BY <1>0, <3>2
    <2> DEFINE h == [s \in SUBSET S |-> IF s \in Small(k - 1) THEN g[s] ELSE Value(g, s)]
    <2>4. ASSUME NEW s \in Small(k), s # {} PROVE s \ {c[s]} \in Small(k - 1)
      BY <1>1, <1>2, <2>1, <2>4
    <2>5. \A s \in Small(k) : h[s] = Value(g, s)
      BY <2>3
    <2>6. ASSUME NEW s \in Small(k) PROVE Value(g, s) = Value(h, s)
      BY <2>4
    <2>7. \A s \in Small(k) : h[s] = Value(h, s)
      BY <2>5, <2>6
    <2>8. k \in T
      OBVIOUS
    <2> HIDE DEF Value, Small, h
    <2>10. k \in Nat
      BY <2>8
    <2> HIDE DEF T
    <2>9. ~(\A s \in Small(k) : h[s] = Value(h, s))
      BY <1>0, <2>8, <2>10
    <2> QED
      BY <2>7, <2>9
  <1>5. Cardinality(S) \in Nat /\ Small(Cardinality(S)) = SUBSET S
    <2>1. Cardinality(S) \in Nat
      BY FS_CardinalityType
    <2> HIDE DEF Value, T
    <2> QED
      BY <1>1, <2>1
  <1>6. PICK g : \A s \in SUBSET S : g[s] = Value(g, s)
    <2> HIDE DEF Value, Small, T
    <2> QED
      BY <1>0, <1>4, <1>5
  <1> QED
    BY <1>6 DEF IsFold

\* L lists n slots, each once.
IsList(L, n) ==
  /\ L \in [Int -> Links]
  /\ n \in Nat
  /\ \A i \in Int : L[i] \in Slots <=> 0 <= i /\ i < n
  /\ \A i, j \in Int : L[i] \in Slots /\ L[i] = L[j] => i = j

\* The slots of a list, and which comes before which.
On(L)    == {s \in Slots : \E i \in Int : L[i] = s}
Order(L) == {p \in Slots \X Slots : \E i, j \in Int : i < j /\ p = <<L[i], L[j]>>}

Push(L, s) == [i \in Int |-> IF i = 0 THEN s ELSE IF i > 0 THEN L[i - 1] ELSE INVALID_SLOT]
Cut(L, k)  == [i \in Int |-> IF i < k THEN L[i] ELSE L[i + 1]]

\* The fields thread the used list U and the free list F.
Threads(l, U, F) ==
  /\ l.first = U[0]
  /\ l.free = F[0]
  /\ \A i \in Int : U[i] \in Slots => l.next[U[i]] = U[i + 1] /\ l.prev[U[i]] = U[i - 1]
  /\ \A i \in Int : F[i] \in Slots => l.next[F[i]] = F[i + 1]

Linked(l, U, n, F, m) ==
  /\ l \in Lists
  /\ IsList(U, n) /\ IsList(F, m)
  /\ On(U) \cap On(F) = {}
  /\ Threads(l, U, F)
  /\ l.last = U[n - 1]

----------------------------------------------------------------------------
\* INVALID_SLOT names no slot.
LEMMA NoSlotIsInvalid ==
  /\ NumPages \in Nat /\ NumPages > 0
  /\ INVALID_SLOT \notin Slots /\ Links = Slots \cup {INVALID_SLOT}
  /\ \A s \in Links : s \notin Slots <=> s = INVALID_SLOT
  BY NumPagesAssumption DEF Slots, INVALID_SLOT, Links

\* Outside its slots a list holds INVALID_SLOT.
LEMMA ListEnds ==
  ASSUME NEW L, NEW n, IsList(L, n), NEW i \in Int
  PROVE  L[i] = INVALID_SLOT <=> ~(0 <= i /\ i < n)
  BY NoSlotIsInvalid DEF IsList

\* A slot that is on no list can be put in front of one.
LEMMA PushIsList ==
  ASSUME NEW L, NEW n, IsList(L, n), NEW s \in Slots, s \notin On(L)
  PROVE  /\ IsList(Push(L, s), n + 1)
         /\ On(Push(L, s)) = On(L) \cup {s}
         /\ Order(Push(L, s)) = Order(L) \cup ({s} \X On(L))
  <1> DEFINE M == Push(L, s)
  <1>1. /\ M \in [Int -> Links]
        /\ M[0] = s
        /\ \A i \in Int : i > 0 => M[i] = L[i - 1]
        /\ \A i \in Int : i < 0 => M[i] = INVALID_SLOT
    BY NoSlotIsInvalid DEF IsList, Push
  <1>2. \A i \in Int : i - 1 \in Int /\ i + 1 \in Int
    OBVIOUS
  <1>3. \A i \in Int : L[i] \in Slots => i >= 0 /\ L[i] \in On(L) /\ M[i + 1] = L[i]
    BY <1>1 DEF IsList, On
  <1>4. \A i \in Int : i # 0 /\ M[i] \in Slots => i > 0 /\ M[i] = L[i - 1] /\ M[i] \in On(L)
    BY <1>1, <1>2, NoSlotIsInvalid DEF On
  <1> HIDE DEF M
  <1>5. \A i \in Int : M[i] \in Slots <=> 0 <= i /\ i < n + 1
    <2> SUFFICES ASSUME NEW i \in Int PROVE M[i] \in Slots <=> 0 <= i /\ i < n + 1
      OBVIOUS
    <2>1. CASE i = 0
      BY <1>1, <2>1 DEF IsList
    <2>2. CASE i > 0
      BY <1>1, <1>2, <2>2 DEF IsList
    <2>3. CASE i < 0
      BY <1>1, <2>3, NoSlotIsInvalid
    <2> QED
      BY <2>1, <2>2, <2>3
  <1>6. ASSUME NEW i \in Int, NEW j \in Int, M[i] \in Slots, M[i] = M[j] PROVE i = j
    <2>1. CASE i = 0 \/ j = 0
      BY <1>1, <1>4, <1>6, <2>1
    <2>2. CASE i # 0 /\ j # 0
      <3>1. i - 1 = j - 1
        BY <1>2, <1>4, <1>6, <2>2 DEF IsList
      <3> QED
        BY <3>1
    <2> QED
      BY <2>1, <2>2
  <1>7. IsList(M, n + 1)
    BY <1>1, <1>5, <1>6 DEF IsList
  <1>8. On(M) = On(L) \cup {s}
    <2>1. \A t \in On(M) : t \in On(L) \cup {s}
      BY <1>1, <1>4 DEF On
    <2>2. \A t \in On(L) : t \in On(M)
      BY <1>2, <1>3 DEF On
    <2>3. s \in On(M)
      BY <1>1 DEF On
    <2> QED
      BY <2>1, <2>2, <2>3
  <1>9. Order(M) = Order(L) \cup ({s} \X On(L))
    <2>1. ASSUME NEW p \in Order(M) PROVE p \in Order(L) \cup ({s} \X On(L))
      <3>1. PICK i \in Int, j \in Int : i < j /\ p = <<M[i], M[j]>> /\ M[i] \in Slots /\ M[j] \in Slots
        BY <2>1 DEF Order
      <3>2. i >= 0 /\ M[j] = L[j - 1] /\ M[j] \in On(L)
        BY <1>4, <1>5, <3>1
      <3>3. CASE i = 0
        BY <1>1, <3>1, <3>2, <3>3
      <3>4. CASE i # 0
        <4>1. i - 1 < j - 1 /\ p = <<L[i - 1], L[j - 1]>>
          BY <1>4, <3>1, <3>2, <3>4
        <4> QED
          BY <1>2, <3>1, <4>1 DEF Order
      <3> QED
        BY <3>3, <3>4
    <2>2. ASSUME NEW p \in Order(L) PROVE p \in Order(M)
      <3>1. PICK i \in Int, j \in Int : i < j /\ p = <<L[i], L[j]>> /\ L[i] \in Slots /\ L[j] \in Slots
        BY <2>2 DEF Order
      <3>2. i + 1 < j + 1 /\ p = <<M[i + 1], M[j + 1]>>
        BY <1>3, <3>1
      <3> QED
        BY <1>2, <3>1, <3>2 DEF Order
    <2>3. ASSUME NEW t \in On(L) PROVE <<s, t>> \in Order(M)
      <3>1. PICK i \in Int : L[i] = t /\ t \in Slots
        BY <2>3 DEF On
      <3>2. 0 < i + 1 /\ <<s, t>> = <<M[0], M[i + 1]>>
        BY <1>1, <1>3, <3>1
      <3> QED
        BY <1>2, <3>1, <3>2 DEF Order
    <2> QED
      BY <2>1, <2>2, <2>3
  <1> QED
    BY <1>7, <1>8, <1>9 DEF M

\* The slot at place k can be taken out.
LEMMA CutIsList ==
  ASSUME NEW L, NEW n, IsList(L, n), NEW k \in Int, L[k] \in Slots
  PROVE  /\ IsList(Cut(L, k), n - 1)
         /\ On(Cut(L, k)) = On(L) \ {L[k]}
         /\ Order(Cut(L, k)) = {p \in Order(L) : p[1] # L[k] /\ p[2] # L[k]}
  <1> DEFINE M == Cut(L, k)
             To(i) == IF i < k THEN i ELSE i + 1
             From(i) == IF i < k THEN i ELSE i - 1
  <1>1. /\ M \in [Int -> Links]
        /\ \A i \in Int : M[i] = L[To(i)]
    BY DEF IsList, Cut
  <1>2. /\ \A i \in Int : To(i) \in Int /\ To(i) # k /\ From(i) \in Int
        /\ \A i \in Int : i # k => To(From(i)) = i
        /\ \A i, j \in Int : i < j <=> To(i) < To(j)
        /\ \A i, j \in Int : To(i) = To(j) => i = j
        /\ \A i, j \in Int : i # k /\ j # k /\ i < j => From(i) < From(j)
    OBVIOUS
  <1>3. 0 <= k /\ k < n /\ n \in Nat
    BY DEF IsList
  <1>4. \A i \in Int : M[i] \in Slots <=> 0 <= i /\ i < n - 1
    BY <1>1, <1>3 DEF IsList
  <1> HIDE DEF M, To, From
  <1>5. \A i, j \in Int : M[i] \in Slots /\ M[i] = M[j] => i = j
    BY <1>1, <1>2 DEF IsList
  <1>6. IsList(M, n - 1)
    BY <1>1, <1>3, <1>4, <1>5 DEF IsList
  <1>7. \A i \in Int : L[i] \in Slots /\ L[i] # L[k] => i # k /\ M[From(i)] = L[i]
    BY <1>1, <1>2
  <1>8. \A i \in Int : M[i] \in Slots => M[i] # L[k]
    BY <1>1, <1>2 DEF IsList
  <1>9. On(M) = On(L) \ {L[k]}
    <2>1. \A t \in On(M) : t \in On(L) \ {L[k]}
      BY <1>1, <1>2, <1>8 DEF On
    <2>2. \A t \in On(L) \ {L[k]} : t \in On(M)
      BY <1>2, <1>7 DEF On
    <2> QED
      BY <2>1, <2>2
  <1>10. Order(M) = {p \in Order(L) : p[1] # L[k] /\ p[2] # L[k]}
    <2>1. ASSUME NEW p \in Order(M) PROVE p \in Order(L) /\ p[1] # L[k] /\ p[2] # L[k]
      <3>1. PICK i \in Int, j \in Int : i < j /\ p = <<M[i], M[j]>> /\ M[i] \in Slots /\ M[j] \in Slots
        BY <2>1 DEF Order
      <3>2. To(i) < To(j) /\ p = <<L[To(i)], L[To(j)]>> /\ p[1] # L[k] /\ p[2] # L[k]
        BY <1>1, <1>2, <1>8, <3>1
      <3>3. p \in Slots \X Slots
        BY <3>1
      <3> QED
        BY <1>2, <3>2, <3>3 DEF Order
    <2>2. ASSUME NEW p \in Order(L), p[1] # L[k], p[2] # L[k] PROVE p \in Order(M)
      <3>1. PICK i \in Int, j \in Int : i < j /\ p = <<L[i], L[j]>> /\ L[i] \in Slots /\ L[j] \in Slots
        BY <2>2 DEF Order
      <3>2. i # k /\ j # k /\ M[From(i)] = L[i] /\ M[From(j)] = L[j]
        BY <1>7, <2>2, <3>1
      <3>3. From(i) < From(j) /\ p = <<M[From(i)], M[From(j)]>> /\ p \in Slots \X Slots
        BY <1>2, <3>1, <3>2
      <3> QED
        BY <1>2, <3>3 DEF Order
    <2> QED
      BY <2>1, <2>2
  <1> QED
    BY <1>6, <1>9, <1>10 DEF M

----------------------------------------------------------------------------
\* A list is no longer than the table.
LEMMA ListFits ==
  ASSUME NEW L, NEW n, IsList(L, n)
  PROVE  n <= NumPages
  <1> DEFINE f == [i \in 1 .. n |-> L[i - 1]]
  <1>0. n \in Nat /\ \A i \in 1 .. n : i - 1 \in Int /\ L[i - 1] \in Slots
    BY DEF IsList
  <1>1. \A i \in 1 .. n : f[i] = L[i - 1]
    OBVIOUS
  <1>2. f \in [1 .. n -> On(L)]
    BY <1>0 DEF On
  <1> HIDE DEF f
  <1>3. \A s \in On(L) : \E i \in 1 .. n : f[i] = s
    <2> SUFFICES ASSUME NEW s \in On(L) PROVE \E i \in 1 .. n : f[i] = s
      OBVIOUS
    <2>1. PICK i \in Int : L[i] = s /\ s \in Slots
      BY DEF On
    <2>2. i + 1 \in 1 .. n /\ L[(i + 1) - 1] = s
      BY <2>1 DEF IsList
    <2> QED
      BY <1>1, <2>2
  <1>4. ASSUME NEW i \in 1 .. n, NEW j \in 1 .. n, f[i] = f[j] PROVE i = j
    <2>1. i - 1 = j - 1
      BY <1>0, <1>1, <1>4 DEF IsList
    <2> QED
      BY <2>1
  <1>5. ExistsBijection(1 .. n, On(L))
    <2>1. f \in Bijection(1 .. n, On(L))
      BY <1>2, <1>3, <1>4 DEF Bijection, Injection, Surjection, IsInjective
    <2> QED
      BY <2>1 DEF ExistsBijection
  <1>6. Cardinality(On(L)) = n
    BY <1>0, <1>5, FS_CountingElements
  <1>7. IsFiniteSet(Slots) /\ Cardinality(Slots) = NumPages /\ On(L) \in SUBSET Slots
    BY NumPagesAssumption, FS_Interval DEF Slots, On
  <1> QED
    BY <1>6, <1>7, FS_Subset

\* LinkHead puts a slot that is on no list in front of the used list.
LEMMA LinkHeadLinks ==
  ASSUME NEW l, NEW U, NEW n, NEW F, NEW m, Linked(l, U, n, F, m),
         NEW s \in Slots, s \notin On(U), s \notin On(F)
  PROVE  Linked(LinkHead(l, s), Push(U, s), n + 1, F, m)
  <1> DEFINE M == Push(U, s)
             c == LinkHead(l, s)
  <1>1. IsList(M, n + 1) /\ On(M) = On(U) \cup {s}
    BY PushIsList DEF Linked
  <1>2. /\ M[0] = s
        /\ \A i \in Int : i > 0 => M[i] = U[i - 1]
        /\ \A i \in Int : i < 0 => M[i] = INVALID_SLOT
    BY DEF Push
  <1>3. /\ c.next = [l.next EXCEPT ![s] = U[0]]
        /\ c.prev = Point([l.prev EXCEPT ![s] = INVALID_SLOT], U[0], s)
        /\ c.first = s /\ c.free = F[0]
        /\ c.last = IF l.last = INVALID_SLOT THEN s ELSE l.last
        /\ c \in [first : Slots, last : Links, free : Links,
                  next : {c.next}, prev : {c.prev}]
    BY NoSlotIsInvalid DEF LinkHead, Linked, Threads, Lists
  <1>4. l.next \in [Slots -> Links] /\ l.prev \in [Slots -> Links] /\ U[0] \in Links /\ U[0] # s
    BY DEF Linked, Lists, IsList, On
  <1>5. /\ c.next \in [Slots -> Links] /\ c.prev \in [Slots -> Links]
        /\ c.next[s] = U[0] /\ c.prev[s] = INVALID_SLOT
        /\ U[0] \in Slots => c.prev[U[0]] = s
        /\ \A t \in Slots : t # s => c.next[t] = l.next[t]
        /\ \A t \in Slots : t # s /\ t # U[0] => c.prev[t] = l.prev[t]
    BY <1>3, <1>4, NoSlotIsInvalid DEF Point
  <1>6. c \in Lists
    BY <1>3, <1>5, NoSlotIsInvalid DEF Lists
  <1> HIDE DEF M, c
  <1>7. ASSUME NEW i \in Int, M[i] \in Slots
        PROVE  c.next[M[i]] = M[i + 1] /\ c.prev[M[i]] = M[i - 1]
    <2>1. CASE i = 0
      BY <1>2, <1>5, <2>1
    <2>2. CASE i # 0
      <3>1. i > 0 /\ M[i] = U[i - 1] /\ M[i + 1] = U[i] /\ U[i - 1] \in Slots /\ U[i - 1] # s
        BY <1>2, <1>7, <2>2, NoSlotIsInvalid DEF On
      <3>2. l.next[U[i - 1]] = U[i] /\ l.prev[U[i - 1]] = U[i - 2]
        <4>1. i - 1 \in Int /\ (i - 1) + 1 = i /\ (i - 1) - 1 = i - 2
          OBVIOUS
        <4> QED
          BY <3>1, <4>1 DEF Linked, Threads
      <3>3. CASE i = 1
        BY <1>2, <1>5, <3>1, <3>2, <3>3
      <3>4. CASE i # 1
        <4>1. U[i - 1] # U[0] /\ M[i - 1] = U[i - 2]
          BY <1>2, <2>2, <3>1, <3>4 DEF Linked, IsList
        <4> QED
          BY <1>5, <3>1, <3>2, <4>1
      <3> QED
        BY <3>3, <3>4
    <2> QED
      BY <2>1, <2>2
  <1>8. \A i \in Int : F[i] \in Slots => c.next[F[i]] = F[i + 1]
    BY <1>5 DEF Linked, Threads, On
  <1>9. c.last = M[(n + 1) - 1]
    <2>1. l.last = U[n - 1] /\ n \in Nat /\ IsList(U, n)
      BY DEF Linked, IsList
    <2>2. l.last = INVALID_SLOT <=> n = 0
      BY <2>1, ListEnds
    <2>3. n # 0 => M[n] = U[n - 1]
      BY <1>2, <2>1
    <2>4. (n + 1) - 1 = n
      BY <2>1
    <2> QED
      BY <1>2, <1>3, <2>1, <2>2, <2>3, <2>4
  <1>10. On(M) \cap On(F) = {}
    BY <1>1 DEF Linked
  <1>11. Threads(c, M, F)
    BY <1>2, <1>3, <1>7, <1>8 DEF Threads
  <1>12. Linked(c, M, n + 1, F, m)
    BY <1>1, <1>6, <1>9, <1>10, <1>11 DEF Linked
  <1> QED
    BY <1>12 DEF M, c

\* Unlink takes a slot out of the used list.
LEMMA UnlinkLinks ==
  ASSUME NEW l, NEW U, NEW n, NEW F, NEW m, Linked(l, U, n, F, m),
         NEW k \in Int, U[k] \in Slots
  PROVE  Linked(Unlink(l, U[k]), Cut(U, k), n - 1, F, m)
  <1> DEFINE M == Cut(U, k)
             s == U[k]
             c == Unlink(l, s)
  <1>1. IsList(M, n - 1) /\ On(M) = On(U) \ {s}
    BY CutIsList DEF Linked
  <1>2. /\ \A i \in Int : i < k => M[i] = U[i]
        /\ \A i \in Int : i >= k => M[i] = U[i + 1]
    BY DEF Cut
  <1>3. l.next[s] = U[k + 1] /\ l.prev[s] = U[k - 1] /\ l.last = U[n - 1]
    BY DEF Linked, Threads
  <1>4. /\ c.next = [Point(l.next, U[k - 1], U[k + 1]) EXCEPT ![s] = INVALID_SLOT]
        /\ c.prev = [Point(l.prev, U[k + 1], U[k - 1]) EXCEPT ![s] = INVALID_SLOT]
        /\ c.first = (IF U[0] = s THEN U[k + 1] ELSE U[0]) /\ c.free = F[0]
        /\ c.last = IF U[n - 1] = s THEN U[k - 1] ELSE U[n - 1]
        /\ c \in [first : {c.first}, last : {c.last}, free : Links,
                  next : {c.next}, prev : {c.prev}]
    BY <1>3 DEF Unlink, Linked, Threads, Lists
  <1>5. /\ l.next \in [Slots -> Links] /\ l.prev \in [Slots -> Links]
        /\ \A i \in Int : U[i] \in Links
        /\ U[k - 1] # s /\ U[k + 1] # s /\ n \in Nat
    BY DEF Linked, Lists, IsList
  <1>6. /\ c.next \in [Slots -> Links] /\ c.prev \in [Slots -> Links]
        /\ U[k - 1] \in Slots => c.next[U[k - 1]] = U[k + 1]
        /\ U[k + 1] \in Slots => c.prev[U[k + 1]] = U[k - 1]
        /\ \A t \in Slots : t # s /\ t # U[k - 1] => c.next[t] = l.next[t]
        /\ \A t \in Slots : t # s /\ t # U[k + 1] => c.prev[t] = l.prev[t]
    <2>1. k - 1 \in Int /\ k + 1 \in Int
      OBVIOUS
    <2> QED
      BY <1>4, <1>5, <2>1, NoSlotIsInvalid DEF Point
  <1>7. c \in Lists
    <2>1. k - 1 \in Int /\ k + 1 \in Int /\ 0 \in Int /\ n - 1 \in Int
      BY <1>5
    <2> QED
      BY <1>4, <1>5, <1>6, <2>1 DEF Lists
  <1>8. U[0] = s <=> k = 0
    BY DEF Linked, IsList
  <1>9. U[n - 1] = s <=> k = n - 1
    BY <1>5 DEF Linked, IsList
  <1> HIDE DEF M, s, c
  <1>10. c.first = M[0]
    <2>1. CASE k = 0
      BY <1>2, <1>4, <1>8, <2>1
    <2>2. CASE k # 0
      <3>1. 0 < k
        BY <2>2 DEF Linked, IsList
      <3> QED
        BY <1>2, <1>4, <1>8, <2>2, <3>1
    <2> QED
      BY <2>1, <2>2
  <1>11. c.last = M[n - 1 - 1]
    <2>1. k < n /\ n - 2 \in Int /\ n - 1 - 1 = n - 2 /\ n - 2 + 1 = n - 1
      BY <1>5 DEF Linked, IsList
    <2>2. CASE k = n - 1
      BY <1>2, <1>4, <1>5, <1>9, <2>1, <2>2
    <2>3. CASE k # n - 1
      <3>1. n - 2 >= k
        BY <1>5, <2>1, <2>3
      <3> QED
        BY <1>2, <1>4, <1>9, <2>1, <2>3, <3>1
    <2> QED
      BY <2>2, <2>3
  <1>12. ASSUME NEW i \in Int, M[i] \in Slots
         PROVE  c.next[M[i]] = M[i + 1] /\ c.prev[M[i]] = M[i - 1]
    <2> DEFINE j == IF i < k THEN i ELSE i + 1
    <2>1. j \in Int /\ M[i] = U[j] /\ j # k
      BY <1>2
    <2>2. /\ l.next[U[j]] = U[j + 1] /\ l.prev[U[j]] = U[j - 1] /\ U[j] \in Slots /\ U[j] # s
          /\ U[j] = U[k - 1] <=> j = k - 1
          /\ U[j] = U[k + 1] <=> j = k + 1
      BY <1>12, <2>1 DEF Linked, Threads, IsList, s
    <2>3. c.next[M[i]] = IF j = k - 1 THEN U[k + 1] ELSE U[j + 1]
      BY <1>6, <2>1, <2>2
    <2>4. c.prev[M[i]] = IF j = k + 1 THEN U[k - 1] ELSE U[j - 1]
      BY <1>6, <2>1, <2>2
    <2>5. M[i + 1] = IF j = k - 1 THEN U[k + 1] ELSE U[j + 1]
      BY <1>2
    <2>6. M[i - 1] = IF j = k + 1 THEN U[k - 1] ELSE U[j - 1]
      BY <1>2
    <2> QED
      BY <2>3, <2>4, <2>5, <2>6
  <1>13. \A i \in Int : F[i] \in Slots => c.next[F[i]] = F[i + 1]
    <2> SUFFICES ASSUME NEW i \in Int, F[i] \in Slots PROVE c.next[F[i]] = F[i + 1]
      OBVIOUS
    <2>1. F[i] # s /\ F[i] # U[k - 1]
      <3>1. k - 1 \in Int /\ F[i] \in On(F)
        BY DEF On
      <3> QED
        BY <3>1 DEF Linked, On, s
    <2> QED
      BY <1>6, <2>1 DEF Linked, Threads
  <1>14. On(M) \cap On(F) = {}
    BY <1>1 DEF Linked
  <1>15. Threads(c, M, F)
    BY <1>4, <1>10, <1>12, <1>13 DEF Threads
  <1>16. Linked(c, M, n - 1, F, m)
    BY <1>1, <1>7, <1>11, <1>14, <1>15 DEF Linked
  <1> QED
    BY <1>16 DEF M, c, s

\* InsertFree puts a slot that is on no list in front of the free list.
LEMMA InsertFreeLinks ==
  ASSUME NEW l, NEW U, NEW n, NEW F, NEW m, Linked(l, U, n, F, m),
         NEW s \in Slots, s \notin On(U), s \notin On(F)
  PROVE  Linked(InsertFree(l, s), U, n, Push(F, s), m + 1)
  <1> DEFINE G == Push(F, s)
             c == InsertFree(l, s)
  <1>1. IsList(G, m + 1) /\ On(G) = On(F) \cup {s}
    BY PushIsList DEF Linked
  <1>2. /\ G[0] = s
        /\ \A i \in Int : i > 0 => G[i] = F[i - 1]
        /\ \A i \in Int : i < 0 => G[i] = INVALID_SLOT
    BY DEF Push
  <1>3. /\ c.next = [l.next EXCEPT ![s] = F[0]] /\ c.prev = l.prev
        /\ c.first = U[0] /\ c.free = s /\ c.last = U[n - 1]
        /\ c \in [first : {c.first}, last : {c.last}, free : Slots,
                  next : {c.next}, prev : {c.prev}]
    BY DEF InsertFree, Linked, Threads, Lists
  <1>4. /\ l.next \in [Slots -> Links] /\ l.prev \in [Slots -> Links]
        /\ l.first \in Links /\ l.last \in Links
        /\ F[0] \in Links /\ l.first = U[0] /\ l.last = U[n - 1]
    BY DEF Linked, Lists, IsList, Threads
  <1>5. c.next \in [Slots -> Links] /\ c.next[s] = F[0]
        /\ \A t \in Slots : t # s => c.next[t] = l.next[t]
    BY <1>3, <1>4
  <1>6. c \in Lists
    BY <1>3, <1>4, <1>5, NoSlotIsInvalid DEF Lists
  <1> HIDE DEF G, c
  <1>7. ASSUME NEW i \in Int, U[i] \in Slots
        PROVE  c.next[U[i]] = U[i + 1] /\ c.prev[U[i]] = U[i - 1]
    <2>1. U[i] # s
      BY <1>7 DEF On
    <2> QED
      BY <1>3, <1>5, <1>7, <2>1 DEF Linked, Threads
  <1>8. ASSUME NEW i \in Int, G[i] \in Slots
        PROVE  c.next[G[i]] = G[i + 1]
    <2>1. CASE i = 0
      BY <1>2, <1>5, <2>1
    <2>2. CASE i # 0
      <3>1. /\ i > 0 /\ G[i] = F[i - 1] /\ G[i + 1] = F[i] /\ F[i - 1] \in Slots
            /\ F[i - 1] # s /\ i - 1 \in Int /\ (i - 1) + 1 = i
        BY <1>2, <1>8, <2>2, NoSlotIsInvalid DEF On
      <3>2. l.next[F[i - 1]] = F[i]
        BY <3>1 DEF Linked, Threads
      <3> QED
        BY <1>5, <3>1, <3>2
    <2> QED
      BY <2>1, <2>2
  <1>9. On(U) \cap On(G) = {}
    BY <1>1 DEF Linked
  <1>10. Threads(c, U, G)
    BY <1>2, <1>3, <1>7, <1>8 DEF Threads
  <1>11. Linked(c, U, n, G, m + 1)
    BY <1>1, <1>3, <1>6, <1>9, <1>10 DEF Linked
  <1> QED
    BY <1>11 DEF G, c

\* InternalAlloc takes the first slot of the free list.
LEMMA TakeFreeLinks ==
  ASSUME NEW l, NEW U, NEW n, NEW F, NEW m, Linked(l, U, n, F, m), F[0] \in Slots
  PROVE  Linked(TakeFree(l), Push(U, F[0]), n + 1, Cut(F, 0), m - 1)
  <1> DEFINE G == Cut(F, 0)
             c == [l EXCEPT !.free = l.next[l.free]]
  <1>1. IsList(G, m - 1) /\ On(G) = On(F) \ {F[0]}
    BY CutIsList DEF Linked
  <1>2. /\ \A i \in Int : i < 0 => G[i] = F[i]
        /\ \A i \in Int : i >= 0 => G[i] = F[i + 1]
    BY DEF Cut
  <1>3. /\ c.next = l.next /\ c.prev = l.prev /\ c.free = F[1]
        /\ c.first = U[0] /\ c.last = U[n - 1]
        /\ c \in Lists
    BY DEF Linked, Threads, Lists, IsList
  <1> HIDE DEF G, c
  <1>4. ASSUME NEW i \in Int, G[i] \in Slots
        PROVE  c.next[G[i]] = G[i + 1]
    <2>1. 0 <= i
      BY <1>1, <1>4 DEF IsList
    <2>2. G[i] = F[i + 1] /\ G[i + 1] = F[(i + 1) + 1] /\ i + 1 \in Int
      BY <1>2, <2>1
    <2> QED
      BY <1>3, <1>4, <2>2 DEF Linked, Threads
  <1>5. Threads(c, U, G)
    BY <1>2, <1>3, <1>4 DEF Linked, Threads
  <1>6. Linked(c, U, n, G, m - 1)
    BY <1>1, <1>3, <1>5 DEF Linked
  <1>7. F[0] \notin On(U) /\ F[0] \notin On(G)
    BY <1>1 DEF Linked, On
  <1>8. TakeFree(l) = LinkHead(c, F[0])
    BY DEF TakeFree, Linked, Threads, c
  <1> QED
    BY <1>6, <1>7, <1>8, LinkHeadLinks DEF G

\* A slot of the used list moves to its head.
LEMMA PromoteLinks ==
  ASSUME NEW l, NEW U, NEW n, NEW F, NEW m, Linked(l, U, n, F, m),
         NEW k \in Int, U[k] \in Slots
  PROVE  Linked(LinkHead(Unlink(l, U[k]), U[k]), Push(Cut(U, k), U[k]), n, F, m)
  <1>1. Linked(Unlink(l, U[k]), Cut(U, k), n - 1, F, m)
    BY UnlinkLinks
  <1>2. U[k] \notin On(Cut(U, k)) /\ U[k] \notin On(F)
    BY CutIsList DEF Linked, On
  <1>3. (n - 1) + 1 = n
    BY DEF Linked, IsList
  <1>4. Linked(LinkHead(Unlink(l, U[k]), U[k]), Push(Cut(U, k), U[k]), (n - 1) + 1, F, m)
    BY <1>1, <1>2, LinkHeadLinks
  <1> QED
    BY <1>3, <1>4

\* A slot of the used list goes to the free list.
LEMMA ReleaseLinks ==
  ASSUME NEW l, NEW U, NEW n, NEW F, NEW m, Linked(l, U, n, F, m),
         NEW k \in Int, U[k] \in Slots
  PROVE  /\ Linked(InsertFree(Unlink(l, U[k]), U[k]), Cut(U, k), n - 1, Push(F, U[k]), m + 1)
         /\ On(Push(F, U[k])) = On(F) \cup {U[k]}
  <1>1. Linked(Unlink(l, U[k]), Cut(U, k), n - 1, F, m)
    BY UnlinkLinks
  <1>2. U[k] \notin On(Cut(U, k)) /\ U[k] \notin On(F)
    BY CutIsList DEF Linked, On
  <1> QED
    BY <1>1, <1>2, InsertFreeLinks, PushIsList DEF Linked

----------------------------------------------------------------------------
\* A walk along links that thread a list meets its slots in order, and then
\* stays at INVALID_SLOT.
LEMMA WalkMeets ==
  ASSUME NEW L, NEW n, IsList(L, n), NEW f, NEW x, x = L[0],
         \A i \in Int : L[i] \in Slots => f[L[i]] = L[i + 1]
  PROVE  \A i \in 0 .. NumPages : Walk(f, x)[i] = L[i]
  <1> DEFINE Link(s) == IF s = INVALID_SLOT THEN INVALID_SLOT ELSE f[s]
             IsWalk(w) == w = [i \in 0 .. NumPages |-> IF i = 0 THEN x ELSE Link(w[i - 1])]
             M == [i \in 0 .. NumPages |-> L[i]]
             W == Walk(f, x)
  <1>0. NumPages \in Nat
    BY NoSlotIsInvalid
  <1>1. \A i \in Int : i > 0 => L[i] = Link(L[i - 1])
    <2> SUFFICES ASSUME NEW i \in Int, i > 0 PROVE L[i] = Link(L[i - 1])
      OBVIOUS
    <2>1. i - 1 \in Int /\ (i - 1) + 1 = i
      OBVIOUS
    <2>2. CASE L[i - 1] = INVALID_SLOT
      <3>1. L[i] = INVALID_SLOT
        <4>1. ~(0 <= i - 1 /\ i - 1 < n)
          BY <2>1, <2>2, ListEnds
        <4>2. ~(0 <= i /\ i < n)
          BY <4>1 DEF IsList
        <4> QED
          BY <4>2, ListEnds
      <3> QED
        BY <2>2, <3>1
    <2>3. CASE L[i - 1] # INVALID_SLOT
      <3>1. L[i - 1] \in Slots
        BY <2>1, <2>3, NoSlotIsInvalid DEF IsList
      <3>2. f[L[i - 1]] = L[(i - 1) + 1]
        BY <2>1, <3>1
      <3> QED
        BY <2>1, <2>3, <3>2
    <2> QED
      BY <2>2, <2>3
  <1>2. IsWalk(M)
    <2> HIDE DEF Link
    <2>1. \A i \in 0 .. NumPages : i # 0 => i - 1 \in 0 .. NumPages /\ L[i] = Link(L[i - 1])
      BY <1>0, <1>1
    <2> QED
      BY <2>1
  <1>3. W = CHOOSE w : IsWalk(w)
    BY DEF Walk
  <1> HIDE DEF Link
  <1>4. IsWalk(W)
    <2> HIDE DEF IsWalk, M, W
    <2> QED
      BY <1>2, <1>3
  <1> HIDE DEF W
  <1>5. /\ W[0] = x
        /\ \A i \in 0 .. NumPages : i # 0 => W[i] = Link(W[i - 1])
    <2>1. W = [i \in 0 .. NumPages |-> IF i = 0 THEN x ELSE Link(W[i - 1])]
      BY <1>4
    <2> HIDE DEF IsWalk, M
    <2>2. \A i \in 0 .. NumPages : W[i] = IF i = 0 THEN x ELSE Link(W[i - 1])
      BY <2>1, Zenon
    <2> QED
      BY <1>0, <2>2
  <1> DEFINE T == {i \in 0 .. NumPages : W[i] # L[i]}
  <1>6. ASSUME T # {} PROVE FALSE
    <2>1. T \in SUBSET Nat
      BY NoSlotIsInvalid
    <2>2. PICK i \in T : \A j \in T : i <= j
      <3> HIDE DEF T
      <3> QED
        BY <1>6, <2>1, LeastMember
    <2>3. i # 0 /\ i \in Nat
      BY <1>5, <2>2
    <2>4. i - 1 \in 0 .. NumPages /\ i - 1 \notin T
      BY <2>2, <2>3, NoSlotIsInvalid
    <2>5. W[i - 1] = L[i - 1]
      BY <2>4
    <2>6. W[i] = L[i]
      BY <1>1, <1>5, <2>3, <2>5
    <2> QED
      BY <2>6
  <1> QED
    BY <1>6 DEF W

\* What such a walk visits is the list.
LEMMA VisitsList ==
  ASSUME NEW L, NEW n, IsList(L, n), NEW f, NEW x, x = L[0],
         \A i \in Int : L[i] \in Slots => f[L[i]] = L[i + 1]
  PROVE  /\ Visited(f, x) = On(L)
         /\ Walk(f, x)[NumPages] = INVALID_SLOT
         /\ {<<Walk(f, x)[p[1]], Walk(f, x)[p[2]]>> :
               p \in {q \in (0 .. NumPages) \X (0 .. NumPages) :
                        q[1] < q[2] /\ Walk(f, x)[q[2]] # INVALID_SLOT}} = Order(L)
  <1> DEFINE W == Walk(f, x)
             P == {q \in (0 .. NumPages) \X (0 .. NumPages) :
                     q[1] < q[2] /\ W[q[2]] # INVALID_SLOT}
  <1>1. \A i \in 0 .. NumPages : W[i] = L[i]
    BY WalkMeets
  <1>2. n \in Nat /\ n <= NumPages /\ NumPages \in Nat
    BY ListFits, NoSlotIsInvalid DEF IsList
  <1>3. \A i \in Int : L[i] \in Slots => i \in 0 .. NumPages
    BY <1>2 DEF IsList
  <1>4. \A i \in 0 .. NumPages : W[i] # INVALID_SLOT <=> L[i] \in Slots
    BY <1>1, <1>2, NoSlotIsInvalid DEF IsList
  <1>5. W[NumPages] = INVALID_SLOT
    BY <1>2, <1>4 DEF IsList
  <1>6. Visited(f, x) = {W[i] : i \in 0 .. NumPages} \ {INVALID_SLOT}
    BY DEF Visited
  <1> HIDE DEF W
  <1>7. Visited(f, x) = On(L)
    <2>1. \A s \in Visited(f, x) : s \in On(L)
      BY <1>1, <1>2, <1>4, <1>6 DEF On
    <2>2. \A s \in On(L) : s \in Visited(f, x)
      BY <1>1, <1>3, <1>6, NoSlotIsInvalid DEF On
    <2> QED
      BY <2>1, <2>2
  <1>8. {<<W[p[1]], W[p[2]]>> : p \in P} = Order(L)
    <2>1. ASSUME NEW p \in P PROVE <<W[p[1]], W[p[2]]>> \in Order(L)
      <3>1. p[1] \in Int /\ p[2] \in Int /\ p[1] < p[2] /\ W[p[1]] = L[p[1]] /\ W[p[2]] = L[p[2]]
            /\ 0 <= p[1] /\ L[p[2]] \in Slots
        BY <1>1, <1>2, <1>4
      <3>2. L[p[1]] \in Slots
        BY <3>1 DEF IsList
      <3> QED
        BY <3>1, <3>2 DEF Order
    <2>2. ASSUME NEW o \in Order(L) PROVE \E p \in P : o = <<W[p[1]], W[p[2]]>>
      <3>1. PICK i \in Int, j \in Int : i < j /\ o = <<L[i], L[j]>> /\ L[i] \in Slots /\ L[j] \in Slots
        BY <2>2 DEF Order
      <3>2. i \in 0 .. NumPages /\ j \in 0 .. NumPages
        BY <1>3, <3>1
      <3>3. <<i, j>> \in P /\ o = <<W[i], W[j]>>
        BY <1>1, <1>4, <3>1, <3>2
      <3> QED
        BY <3>3
    <2> QED
      BY <2>1, <2>2
  <1> QED
    BY <1>5, <1>7, <1>8 DEF W

\* The sets and the order that BufferPool has for the lists.
LEMMA ListsAre ==
  ASSUME NEW l, NEW U, NEW n, NEW F, NEW m, Linked(l, U, n, F, m)
  PROVE  /\ Used(l) = On(U) /\ Free(l) = On(F) /\ Newer(l) = Order(U)
         /\ Walk(l.next, l.free)[NumPages] = INVALID_SLOT
  <1>1. /\ IsList(U, n) /\ l.first = U[0]
        /\ \A i \in Int : U[i] \in Slots => l.next[U[i]] = U[i + 1]
        /\ IsList(F, m) /\ l.free = F[0]
        /\ \A i \in Int : F[i] \in Slots => l.next[F[i]] = F[i + 1]
    BY DEF Linked, Threads
  <1>2. Used(l) = On(U) /\ Newer(l) = Order(U)
    BY <1>1, VisitsList DEF Used, Newer
  <1>3. Free(l) = On(F) /\ Walk(l.next, l.free)[NumPages] = INVALID_SLOT
    BY <1>1, VisitsList DEF Free
  <1> QED
    BY <1>2, <1>3

\* The scan of InternalAlloc walks back from last and stops at the last slot
\* that is not pinned: no unpinned slot comes after it.
LEMMA ScanFindsVictim ==
  ASSUME NEW l, NEW U, NEW n, NEW F, NEW m, Linked(l, U, n, F, m),
         NEW pinned, pinned \subseteq On(U)
  PROVE  LET open == On(U) \ pinned
             v    == FirstUnpinned(l, pinned)
         IN  /\ v \in open \cup {INVALID_SLOT}
             /\ v = INVALID_SLOT <=> open = {}
             /\ {s \in open : \A t \in open : <<s, t>> \notin Order(U)} = {v} \cap Slots
  <1> DEFINE open == On(U) \ pinned
             v == FirstUnpinned(l, pinned)
             R == [i \in Int |-> U[n - 1 - i]]
             W == Walk(l.prev, l.last)
             hits == {i \in 0 .. NumPages : W[i] \notin pinned}
  <1>1. IsList(U, n) /\ n \in Nat /\ n <= NumPages /\ NumPages \in Nat
    BY ListFits, NoSlotIsInvalid DEF Linked, IsList
  <1>2. \A i \in Int : n - 1 - i \in Int /\ n - 1 - (n - 1 - i) = i /\ (n - 1 - i) - 1 = n - 1 - (i + 1)
    BY <1>1
  <1>3. IsList(R, n)
    <2>1. \A i \in Int : R[i] \in Slots <=> 0 <= i /\ i < n
      BY <1>1, <1>2 DEF IsList
    <2>2. ASSUME NEW i \in Int, NEW j \in Int, R[i] \in Slots, R[i] = R[j] PROVE i = j
      <3>1. n - 1 - i = n - 1 - j
        BY <1>1, <1>2, <2>2 DEF IsList
      <3> QED
        BY <1>1, <3>1
    <2>3. R \in [Int -> Links]
      BY <1>1, <1>2 DEF IsList
    <2> QED
      BY <1>1, <2>1, <2>2, <2>3 DEF IsList
  <1>4. /\ l.last = R[0]
        /\ \A i \in Int : R[i] \in Slots => l.prev[R[i]] = R[i + 1]
    BY <1>1, <1>2 DEF Linked, Threads
  <1> HIDE DEF R
  <1>5. \A i \in 0 .. NumPages : W[i] = R[i]
    BY <1>3, <1>4, WalkMeets
  <1>6. v = W[CHOOSE i \in hits : \A j \in hits : i <= j]
    BY DEF FirstUnpinned
  <1> HIDE DEF W, v
  <1>7. NumPages \in hits
    <2>1. R[NumPages] = INVALID_SLOT
      BY <1>1, <1>3, ListEnds
    <2> QED
      BY <1>1, <1>5, <2>1, NoSlotIsInvalid DEF On
  <1>8. PICK k \in hits : v = W[k] /\ \A j \in hits : k <= j
    <2>1. hits \in SUBSET Nat /\ hits # {}
      BY <1>1, <1>7
    <2> HIDE DEF hits
    <2>2. \E i \in hits : \A j \in hits : i <= j
      BY <2>1, LeastMember
    <2> QED
      BY <1>6, <2>2
  <1>9. k \in 0 .. NumPages /\ v = R[k] /\ v \notin pinned
    BY <1>5, <1>8
  <1>10. \A j \in Int : 0 <= j /\ j < k => R[j] \in pinned
    <2> SUFFICES ASSUME NEW j \in Int, 0 <= j, j < k PROVE R[j] \in pinned
      OBVIOUS
    <2>1. j \in 0 .. NumPages /\ ~(k <= j)
      BY <1>1, <1>9
    <2> QED
      BY <1>5, <1>8, <2>1
  <1>11. \A s \in On(U) : \E j \in Int : 0 <= j /\ R[j] = s /\ U[n - 1 - j] = s
    <2> SUFFICES ASSUME NEW s \in On(U) PROVE \E j \in Int : 0 <= j /\ R[j] = s /\ U[n - 1 - j] = s
      OBVIOUS
    <2>1. PICK i \in Int : U[i] = s /\ s \in Slots
      BY DEF On
    <2>2. n - 1 - i \in Int /\ R[n - 1 - i] = s /\ U[n - 1 - (n - 1 - i)] = s
      BY <1>2, <2>1 DEF R
    <2>3. 0 <= n - 1 - i
      BY <1>1, <2>1 DEF IsList
    <2> QED
      BY <2>2, <2>3
  <1>12. \A j \in Int : R[j] = U[n - 1 - j]
    BY DEF R
  <1>13. CASE v \in Slots
    <2>1. v \in open
      BY <1>2, <1>9, <1>12, <1>13 DEF On
    <2>2. ASSUME NEW t \in open PROVE <<v, t>> \notin Order(U)
      <3>1. SUFFICES ASSUME <<v, t>> \in Order(U) PROVE FALSE
        OBVIOUS
      <3>2. PICK i \in Int, j \in Int : i < j /\ v = U[i] /\ t = U[j] /\ t \in Slots
        BY <3>1 DEF Order
      <3>3. i = n - 1 - k
        <4>1. U[n - 1 - k] = v /\ n - 1 - k \in Int
          BY <1>2, <1>9, <1>12
        <4> QED
          BY <1>1, <1>13, <3>2, <4>1 DEF IsList
      <3>4. 0 <= n - 1 - j /\ n - 1 - j < k
        BY <1>1, <1>9, <3>2, <3>3 DEF IsList
      <3>5. R[n - 1 - j] = t
        BY <1>2, <1>12, <3>2
      <3> QED
        BY <1>2, <1>10, <2>2, <3>4, <3>5
    <2>3. ASSUME NEW s \in open, s # v PROVE <<s, v>> \in Order(U)
      <3>1. PICK j \in Int : 0 <= j /\ R[j] = s /\ U[n - 1 - j] = s
        BY <1>11
      <3>2. k < j
        BY <1>9, <1>10, <2>3, <3>1
      <3>3. n - 1 - j < n - 1 - k /\ U[n - 1 - k] = v
        BY <1>1, <1>9, <1>12, <3>2
      <3>4. s \in Slots
        BY DEF On
      <3>5. n - 1 - j \in Int /\ n - 1 - k \in Int
        BY <1>1, <1>9
      <3>6. <<s, v>> \in Slots \X Slots /\ <<s, v>> = <<U[n - 1 - j], U[n - 1 - k]>>
        BY <1>13, <3>1, <3>3, <3>4
      <3> QED
        BY <3>3, <3>5, <3>6 DEF Order
    <2>4. {s \in open : \A t \in open : <<s, t>> \notin Order(U)} = {v}
      BY <2>1, <2>2, <2>3
    <2> HIDE DEF open
    <2> QED
      BY <1>13, <2>1, <2>4, NoSlotIsInvalid DEF open, v
  <1>14. CASE v \notin Slots
    <2>1. v = INVALID_SLOT
      BY <1>3, <1>9, <1>14, NoSlotIsInvalid DEF IsList
    <2>2. open = {}
      <3>1. SUFFICES ASSUME NEW s \in open PROVE FALSE
        OBVIOUS
      <3>2. PICK j \in Int : 0 <= j /\ R[j] = s
        BY <1>11
      <3>3. s \in Slots
        BY DEF On
      <3>4. ~(0 <= k /\ k < n) /\ j < n
        BY <1>3, <1>9, <1>14, <3>2, <3>3 DEF IsList
      <3>5. j < k
        BY <1>1, <1>9, <3>4
      <3> QED
        BY <1>10, <3>1, <3>2, <3>5
    <2> QED
      BY <1>14, <2>1, <2>2 DEF v
  <1> QED
    BY <1>13, <1>14

----------------------------------------------------------------------------
\* The releasing scan.  After i steps it has released the slots of S among
\* the first i of the used list U, and stands at U[i] with the rest of U
\* before it, as it was.
Outside(O, S) == {p \in O : p[1] \notin S /\ p[2] \notin S}
Passed(U, S, i) == {s \in S : \E j \in Int : 0 <= j /\ j < i /\ U[j] = s}

ScanStates == [l : Lists, slot : Links]
ScanStep(p, S) ==
  IF p.slot = INVALID_SLOT THEN p
  ELSE [l    |-> IF p.slot \in S
                 THEN InsertFree(Unlink(p.l, p.slot), p.slot)
                 ELSE p.l,
        slot |-> p.l.next[p.slot]]

Reduced(l, U, F, S, V) ==
  \E n, G, m : /\ Linked(l, V, n, G, m)
               /\ On(V) = On(U) \ S
               /\ Order(V) = Outside(Order(U), S)
               /\ On(G) = On(F) \cup S

\* V has, somewhere, what is left of U from i on.
Ends(V, U, i) == \E k \in Int : \A d \in Nat : V[k + d] = U[i + d]

ScanIsAt(p, U, F, S, i) ==
  /\ p \in ScanStates
  /\ p.slot = U[i]
  /\ \E V : Reduced(p.l, U, F, Passed(U, S, i), V) /\ Ends(V, U, i)

\* One more slot is passed.
LEMMA PassedNext ==
  ASSUME NEW U, NEW n, IsList(U, n), NEW S, S \subseteq On(U), NEW i \in Nat
  PROVE  Passed(U, S, i + 1) = Passed(U, S, i) \cup ({U[i]} \cap S)
  <1>1. \A j \in Int : 0 <= j /\ j < i + 1 <=> (0 <= j /\ j < i) \/ j = i
    OBVIOUS
  <1> QED
    BY <1>1 DEF Passed

\* Each step of the scan passes one more slot of the list, or none at its end.
LEMMA ScanAdvances ==
  ASSUME NEW U, NEW n, IsList(U, n), NEW F, NEW S, S \subseteq On(U), NEW i \in Nat,
         NEW p, ScanIsAt(p, U, F, S, i)
  PROVE  ScanIsAt(ScanStep(p, S), U, F, S, i + 1)
  <1> DEFINE q == ScanStep(p, S)
             A == Passed(U, S, i)
             B == Passed(U, S, i + 1)
  <1>0. PICK V : Reduced(p.l, U, F, A, V) /\ Ends(V, U, i)
    BY DEF ScanIsAt
  <1>1. PICK k \in Int : \A d \in Nat : V[k + d] = U[i + d]
    BY <1>0 DEF Ends
  <1>2. PICK h, G, m : /\ Linked(p.l, V, h, G, m)
                       /\ On(V) = On(U) \ A
                       /\ Order(V) = Outside(Order(U), A)
                       /\ On(G) = On(F) \cup A
    BY <1>0 DEF Reduced
  <1>3. p.slot = U[i] /\ p.l \in Lists /\ V[k] = U[i] /\ V[k + 1] = U[i + 1] /\ U[i + 1] \in Links
    <2>1. V[k + 0] = U[i + 0] /\ V[k + 1] = U[i + 1]
      BY <1>1
    <2> QED
      BY <2>1 DEF ScanIsAt, ScanStates, IsList
  <1>4. B = A \cup ({U[i]} \cap S)
    BY PassedNext
  <1>5. \A d \in Nat : V[k + 1 + d] = U[i + 1 + d]
    <2>1. \A d \in Nat : d + 1 \in Nat /\ k + (d + 1) = k + 1 + d /\ i + (d + 1) = i + 1 + d
      OBVIOUS
    <2> QED
      BY <1>1, <2>1
  <1>6. ASSUME NEW c \in ScanStates, c.slot = U[i + 1], NEW X, Reduced(c.l, U, F, B, X),
               Ends(X, U, i + 1)
        PROVE  ScanIsAt(c, U, F, S, i + 1)
    BY <1>6 DEF ScanIsAt
  <1> HIDE DEF A, B
  <1>7. CASE U[i] = INVALID_SLOT
    <2>1. q = p
      BY <1>3, <1>7 DEF ScanStep
    <2>2. U[i + 1] = INVALID_SLOT
      <3>1. ~(i < n)
        BY <1>7, ListEnds
      <3>2. ~(0 <= i + 1 /\ i + 1 < n)
        BY <3>1 DEF IsList
      <3> QED
        BY <3>2, ListEnds
    <2>3. B = A
      BY <1>4, <1>7, NoSlotIsInvalid DEF On
    <2>4. p \in ScanStates /\ p.slot = U[i + 1] /\ Reduced(p.l, U, F, B, V)
      BY <1>0, <1>3, <1>7, <2>2, <2>3 DEF ScanIsAt
    <2>5. Ends(V, U, i + 1)
      <3>1. k + 1 \in Int
        OBVIOUS
      <3> QED
        BY <1>5, <3>1 DEF Ends
    <2>6. ScanIsAt(p, U, F, S, i + 1)
      BY <1>6, <2>4, <2>5
    <2> QED
      BY <2>1, <2>6 DEF q
  <1>8. CASE U[i] # INVALID_SLOT
    <2>1. V[k] \in Slots
      BY <1>3, <1>8, NoSlotIsInvalid DEF IsList
    <2>2. q = [l    |-> IF V[k] \in S THEN InsertFree(Unlink(p.l, V[k]), V[k]) ELSE p.l,
               slot |-> U[i + 1]]
      BY <1>2, <1>3, <1>8, <2>1 DEF ScanStep, Linked, Threads
    <2>3. CASE V[k] \in S
      <3>1. /\ Linked(q.l, Cut(V, k), h - 1, Push(G, V[k]), m + 1)
            /\ On(Push(G, V[k])) = On(G) \cup {V[k]}
        BY <1>2, <2>1, <2>2, <2>3, ReleaseLinks
      <3>2. /\ On(Cut(V, k)) = On(V) \ {V[k]}
            /\ Order(Cut(V, k)) = Outside(Order(V), {V[k]})
        BY <1>2, <2>1, CutIsList DEF Linked, Outside
      <3>3. B = A \cup {V[k]}
        BY <1>3, <1>4, <2>3
      <3>4. Reduced(q.l, U, F, B, Cut(V, k))
        <4>1. Outside(Outside(Order(U), A), {V[k]}) = Outside(Order(U), B)
          BY <3>3 DEF Outside
        <4>2. On(Cut(V, k)) = On(U) \ B /\ On(Push(G, V[k])) = On(F) \cup B
          BY <1>2, <3>1, <3>2, <3>3
        <4>3. Order(Cut(V, k)) = Outside(Order(U), B)
          BY <1>2, <3>2, <4>1
        <4> QED
          BY <3>1, <4>2, <4>3 DEF Reduced
      <3>5. \A d \in Nat : Cut(V, k)[k + d] = U[i + 1 + d]
        <4>1. \A d \in Nat : k + d \in Int /\ ~(k + d < k) /\ k + d + 1 = k + 1 + d
          OBVIOUS
        <4> QED
          BY <1>5, <4>1 DEF Cut
      <3>7. Ends(Cut(V, k), U, i + 1)
        BY <3>5 DEF Ends
      <3>6. q \in ScanStates
        BY <1>3, <2>2, <3>1 DEF ScanStates, Linked
      <3> QED
        BY <1>6, <2>2, <3>4, <3>6, <3>7 DEF q
    <2>4. CASE V[k] \notin S
      <3>1. B = A /\ q = [l |-> p.l, slot |-> U[i + 1]]
        BY <1>3, <1>4, <2>2, <2>4
      <3>2. q \in ScanStates /\ Reduced(q.l, U, F, B, V)
        BY <1>0, <1>3, <3>1 DEF ScanStates
      <3>3. q.slot = U[i + 1] /\ k + 1 \in Int
        BY <3>1
      <3>4. Ends(V, U, i + 1)
        BY <1>5, <3>3 DEF Ends
      <3> HIDE DEF q
      <3>5. ScanIsAt(q, U, F, S, i + 1)
        BY <1>6, <3>2, <3>3, <3>4
      <3> QED
        BY <3>5 DEF q
    <2> QED
      BY <2>3, <2>4
  <1> QED
    BY <1>7, <1>8

\* The scan releases the slots of S, all of them, and leaves the others in
\* their order.
LEMMA ReleaseAllLinks ==
  ASSUME NEW l, NEW U, NEW n, NEW F, NEW m, Linked(l, U, n, F, m),
         NEW S, S \subseteq On(U)
  PROVE  \E V : Reduced(ReleaseAll(l, S), U, F, S, V)
  <1> DEFINE Start == [l |-> l, slot |-> l.first]
             Step(p) == ScanStep(p, S)
             IsScan(w) == w = [i \in 0 .. NumPages |-> IF i = 0 THEN Start ELSE Step(w[i - 1])]
             At(p, i) == ScanIsAt(p, U, F, S, i)
             f == [p \in ScanStates |-> Step(p)]
  <1>0. NumPages \in Nat /\ IsList(U, n)
    BY NoSlotIsInvalid DEF Linked
  <1>1. At(Start, 0)
    <2>1. Passed(U, S, 0) = {}
      BY DEF Passed
    <2>2. Reduced(l, U, F, {}, U)
      <3>1. Outside(Order(U), {}) = Order(U)
        BY DEF Outside
      <3> QED
        BY <3>1 DEF Reduced
    <2>3. Ends(U, U, 0)
      <3>1. 0 \in Int /\ \A d \in Nat : U[0 + d] = U[0 + d]
        OBVIOUS
      <3> QED
        BY <3>1 DEF Ends
    <2>4. Start \in ScanStates /\ Start.slot = U[0]
      BY DEF ScanStates, Linked, Lists, Threads
    <2> QED
      BY <2>1, <2>2, <2>3, <2>4 DEF ScanIsAt
  <1>2. \A p : \A i \in Nat : At(p, i) => At(Step(p), i + 1) /\ p \in ScanStates
    <2> SUFFICES ASSUME NEW p, NEW i \in Nat, ScanIsAt(p, U, F, S, i)
                 PROVE  ScanIsAt(ScanStep(p, S), U, F, S, i + 1) /\ p \in ScanStates
      OBVIOUS
    <2>1. ScanIsAt(ScanStep(p, S), U, F, S, i + 1)
      BY <1>0, ScanAdvances
    <2>2. p \in ScanStates
      BY DEF ScanIsAt
    <2> QED
      BY <2>1, <2>2
  <1> HIDE DEF Start, Step, At
  <1>3. ASSUME NEW w, w[0] = Start,
               \A i \in 0 .. NumPages :
                 i # 0 /\ w[i - 1] \in ScanStates => w[i] = Step(w[i - 1])
        PROVE  \A i \in 0 .. NumPages : At(w[i], i)
    <2> DEFINE T == {i \in 0 .. NumPages : ~At(w[i], i)}
    <2>1. ASSUME T # {} PROVE FALSE
      <3>1. T \in SUBSET Nat
        BY <1>0
      <3>2. PICK i \in T : \A j \in T : i <= j
        <4> HIDE DEF T
        <4> QED
          BY <2>1, <3>1, LeastMember
      <3>3. i # 0 /\ i \in Nat
        BY <1>1, <1>3, <3>2
      <3>4. i - 1 \in 0 .. NumPages /\ i - 1 \notin T
        BY <1>0, <3>2, <3>3
      <3>5. At(w[i - 1], i - 1) /\ (i - 1) + 1 = i /\ i - 1 \in Nat
        BY <3>3, <3>4
      <3>6. At(Step(w[i - 1]), i) /\ w[i - 1] \in ScanStates
        BY <1>2, <3>5
      <3>7. At(w[i], i)
        BY <1>3, <3>2, <3>3, <3>6
      <3> QED
        BY <3>2, <3>7
    <2> QED
      BY <2>1
  <1>4. PICK g : g[0] = Start /\ \A i \in 0 .. NumPages : i # 0 => g[i] = f[g[i - 1]]
    <2> HIDE DEF f
    <2>1. \E g : IsIteration(g, Start, f, NumPages)
      BY <1>0, Iterates
    <2> QED
      BY <2>1 DEF IsIteration
  <1>5. \A i \in 0 .. NumPages : At(g[i], i)
    BY <1>3, <1>4
  <1> DEFINE M == [i \in 0 .. NumPages |-> g[i]]
  <1>6. \A i \in 0 .. NumPages : i # 0 => i - 1 \in 0 .. NumPages /\ i - 1 \in Nat
    BY <1>0
  <1>7. IsScan(M)
    <2>1. \A i \in 0 .. NumPages : i # 0 => g[i] = Step(g[i - 1]) /\ i - 1 \in 0 .. NumPages
      BY <1>2, <1>4, <1>5, <1>6
    <2> HIDE DEF f
    <2> QED
      BY <1>4, <2>1
  <1> DEFINE w == CHOOSE w : IsScan(w)
  <1>8. IsScan(w)
    <2> HIDE DEF IsScan
    <2> QED
      BY <1>7
  <1>9. ReleaseAll(l, S) = w[NumPages].l
    BY DEF ReleaseAll, Start, Step, ScanStep
  <1> HIDE DEF w
  <1>10. /\ w[0] = Start
         /\ \A i \in 0 .. NumPages : i # 0 => w[i] = Step(w[i - 1])
    <2>1. w = [i \in 0 .. NumPages |-> IF i = 0 THEN Start ELSE Step(w[i - 1])]
      BY <1>8
    <2> HIDE DEF IsScan
    <2>2. \A i \in 0 .. NumPages : w[i] = IF i = 0 THEN Start ELSE Step(w[i - 1])
      BY <2>1, Zenon
    <2> QED
      BY <1>0, <2>2
  <1>11. At(w[NumPages], NumPages)
    BY <1>0, <1>3, <1>10
  <1>12. Passed(U, S, NumPages) = S
    <2> SUFFICES ASSUME NEW s \in S PROVE \E j \in Int : 0 <= j /\ j < NumPages /\ U[j] = s
      BY DEF Passed
    <2>1. PICK j \in Int : U[j] = s /\ s \in Slots
      BY DEF On
    <2>2. 0 <= j /\ j < n /\ n <= NumPages /\ n \in Nat
      BY <1>0, <2>1, ListFits DEF IsList
    <2> QED
      BY <1>0, <2>1, <2>2
  <1> QED
    BY <1>9, <1>11, <1>12 DEF At, ScanIsAt

----------------------------------------------------------------------------
\* Chains.  No key is in a chain twice.
Entries == [key : Keys, slot : Slots]
Tabs    == [Buckets -> Seq(Entries)]
Distinct(c) == \A i, j \in 1 .. Len(c) : c[i].key = c[j].key => i = j

\* The table holds the map h: an entry for each key that h gives a slot, in
\* the bucket Find looks in, and no other.
Represents(t, h) ==
  /\ t \in Tabs
  /\ h \in [Keys -> Links]
  /\ \A b \in Buckets : Distinct(t[b])
  /\ \A b \in Buckets : \A i \in 1 .. Len(t[b]) :
       Hash(t[b][i].key) = b /\ h[t[b][i].key] = t[b][i].slot
  /\ \A k \in Keys : h[k] \in Slots =>
       Hash(k) \in Buckets /\ \E i \in 1 .. Len(t[Hash(k)]) : t[Hash(k)][i].key = k

\* IndexIn finds a key if it is there.
LEMMA IndexInIs ==
  ASSUME NEW c \in Seq(Entries), NEW k
  PROVE  /\ IndexIn(c, k) = 0 <=> \A i \in 1 .. Len(c) : c[i].key # k
         /\ IndexIn(c, k) # 0 => IndexIn(c, k) \in 1 .. Len(c) /\ c[IndexIn(c, k)].key = k
  <1> DEFINE I == {i \in 1 .. Len(c) : c[i].key = k}
  <1>1. IndexIn(c, k) = IF I # {} THEN Min(I) ELSE 0
    BY DEF IndexIn, SelectInSeq
  <1>2. I \in SUBSET Nat /\ \A i \in I : i # 0
    OBVIOUS
  <1>3. I # {} => Min(I) \in I
    <2> HIDE DEF I
    <2> SUFFICES ASSUME I # {} PROVE Min(I) \in I
      OBVIOUS
    <2>1. \E i \in I : \A j \in I : i <= j
      BY <1>2, LeastMember
    <2> QED
      BY <2>1 DEF Min
  <1> HIDE DEF I
  <1>4. IndexIn(c, k) = 0 <=> I = {}
    BY <1>1, <1>2, <1>3
  <1>5. IndexIn(c, k) # 0 => IndexIn(c, k) \in I
    BY <1>1, <1>3
  <1> QED
    BY <1>4, <1>5 DEF I

\* In a chain without double keys it is where the key is.
LEMMA IndexInAt ==
  ASSUME NEW c \in Seq(Entries), Distinct(c), NEW i \in 1 .. Len(c)
  PROVE  IndexIn(c, c[i].key) = i
  BY IndexInIs DEF Distinct

\* RemoveAt closes the gap.
LEMMA RemoveAtIs ==
  ASSUME NEW c \in Seq(Entries), NEW i \in 1 .. Len(c)
  PROVE  /\ RemoveAt(c, i) \in Seq(Entries)
         /\ Len(RemoveAt(c, i)) = Len(c) - 1
         /\ \A j \in 1 .. Len(c) - 1 : RemoveAt(c, i)[j] = IF j < i THEN c[j] ELSE c[j + 1]
  <1> DEFINE p == SubSeq(c, 1, i - 1)
             q == SubSeq(c, i + 1, Len(c))
  <1>1. /\ p \in Seq(Entries) /\ Len(p) = i - 1
        /\ \A j \in 1 .. i - 1 : p[j] = c[j]
    OBVIOUS
  <1>2. /\ q \in Seq(Entries) /\ Len(q) = Len(c) - i
        /\ \A j \in 1 .. Len(c) - i : q[j] = c[i + j]
    OBVIOUS
  <1> HIDE DEF p, q
  <1>3. /\ p \o q \in Seq(Entries) /\ Len(p \o q) = Len(c) - 1
        /\ \A j \in 1 .. Len(c) - 1 : (p \o q)[j] = IF j < i THEN c[j] ELSE c[j + 1]
    <2>1. Len(c) \in Nat
      OBVIOUS
    <2>2. p \o q \in Seq(Entries) /\ Len(p \o q) = Len(c) - 1
      <3>1. p \o q \in Seq(Entries) /\ Len(p \o q) = Len(p) + Len(q)
        <4>1. p \in Seq(Entries) /\ q \in Seq(Entries)
          BY <1>1, <1>2
        <4> QED
          BY <4>1
      <3>2. (i - 1) + (Len(c) - i) = Len(c) - 1
        BY <2>1
      <3> QED
        BY <1>1, <1>2, <3>1, <3>2
    <2>3. \A j \in 1 .. Len(c) - 1 : (p \o q)[j] = IF j <= i - 1 THEN p[j] ELSE q[j - (i - 1)]
      BY <1>1, <1>2, <2>1
    <2>4. \A j \in 1 .. Len(c) - 1 : j > i - 1 =>
            j - (i - 1) \in 1 .. Len(c) - i /\ i + (j - (i - 1)) = j + 1
      BY <2>1
    <2>5. ASSUME NEW j \in 1 .. Len(c) - 1, j < i PROVE (p \o q)[j] = c[j]
      BY <1>1, <2>1, <2>3, <2>5
    <2>6. ASSUME NEW j \in 1 .. Len(c) - 1, ~(j < i) PROVE (p \o q)[j] = c[j + 1]
      <3> DEFINE x == j - (i - 1)
      <3>1. x \in 1 .. Len(c) - i /\ i + x = j + 1
        BY <2>4, <2>6
      <3>2. (p \o q)[j] = q[x]
        <4>1. ~(j <= i - 1)
          BY <2>1, <2>6
        <4> HIDE DEF x
        <4>2. (p \o q)[j] = IF j <= i - 1 THEN p[j] ELSE q[j - (i - 1)]
          BY <2>3
        <4> QED
          BY <4>1, <4>2 DEF x
      <3> HIDE DEF x
      <3>3. q[x] = c[i + x]
        BY <1>2, <3>1
      <3> QED
        BY <3>1, <3>2, <3>3
    <2> QED
      BY <2>2, <2>5, <2>6
  <1> QED
    BY <1>3 DEF RemoveAt, p, q

\* The bucket of a key that is not negative is there.
LEMMA HashRange ==
  ASSUME NEW k \in Keys
  PROVE  Hash(k) \in Int /\ (Hash(k) < 0 \/ Hash(k) \in Buckets)
  <1>1. NumBuckets \in Nat /\ NumBuckets > 0 /\ k[1] + k[2] \in Int
    BY NumBucketsAssumption, PoolTablesAssumption, NumPagesAssumption
       DEF Keys, FileKeys, BlockKeys, MEMORY_FD, Slots
  <1> DEFINE a == k[1] + k[2]
  <1> HIDE DEF a
  <1>2. CASE a >= 0
    <2>1. a % NumBuckets \in 0 .. NumBuckets - 1
      BY <1>1, <1>2 DEF a
    <2> QED
      BY <1>1, <1>2, <2>1 DEF Hash, Remainder, Buckets, a
  <1>3. CASE a < 0
    <2>1. (-a) % NumBuckets \in 0 .. NumBuckets - 1
      BY <1>1, <1>3 DEF a
    <2>2. Remainder(a, NumBuckets) = -((-a) % NumBuckets)
      BY <1>1, <1>3 DEF Remainder, a
    <2>3. -((-a) % NumBuckets) \in Int /\ (-((-a) % NumBuckets) < 0 \/ -((-a) % NumBuckets) = 0)
      BY <1>1, <2>1
    <2> QED
      BY <1>1, <2>2, <2>3 DEF Hash, Buckets, a
  <1> QED
    BY <1>1, <1>2, <1>3 DEF a

\* The empty table holds the empty map.
LEMMA EmptyRepresents ==
  Represents(NewTable, [k \in Keys |-> INVALID_SLOT])
  BY NoSlotIsInvalid DEF Represents, NewTable, Tabs, Distinct

\* Find reads the map.
LEMMA FindReads ==
  ASSUME NEW t, NEW h, Represents(t, h), NEW k \in Keys
  PROVE  Find(t, k) = h[k]
  <1>1. HASHNOTFOUND = INVALID_SLOT /\ h[k] \in Links
    BY DEF HASHNOTFOUND, INVALID_SLOT, Represents
  <1>2. CASE Hash(k) < 0
    <2>1. Hash(k) \notin Buckets
      BY <1>2, HashRange, NumBucketsAssumption DEF Buckets
    <2> QED
      BY <1>1, <1>2, <2>1, NoSlotIsInvalid DEF Find, Represents
  <1>3. CASE ~(Hash(k) < 0)
    <2> DEFINE c == t[Hash(k)]
               i == IndexIn(c, k)
    <2>1. Hash(k) \in Buckets /\ c \in Seq(Entries)
      BY <1>3, HashRange DEF Represents, Tabs
    <2>2. Find(t, k) = IF i = 0 THEN INVALID_SLOT ELSE c[i].slot
      BY <1>1, <1>3 DEF Find
    <2> HIDE DEF i, c
    <2>3. CASE i = 0
      <3>1. \A j \in 1 .. Len(c) : c[j].key # k
        BY <2>1, <2>3, IndexInIs DEF i
      <3>2. h[k] \notin Slots
        BY <3>1 DEF Represents, c
      <3> QED
        BY <1>1, <2>2, <2>3, <3>2, NoSlotIsInvalid
    <2>4. CASE i # 0
      <3>1. i \in 1 .. Len(c) /\ c[i].key = k
        BY <2>1, <2>4, IndexInIs DEF i
      <3> QED
        BY <2>1, <2>2, <2>4, <3>1 DEF Represents, c
    <2> QED
      BY <2>3, <2>4
  <1> QED
    BY <1>2, <1>3

\* Insert adds a key that is not there.
LEMMA InsertRepresents ==
  ASSUME NEW t, NEW h, Represents(t, h), NEW k \in Keys, Hash(k) \in Buckets,
         h[k] \notin Slots, NEW s \in Slots
  PROVE  Represents(HashInsert(t, k, s), [h EXCEPT ![k] = s])
  <1> DEFINE b == Hash(k)
             c == t[b]
             e == [key |-> k, slot |-> s]
             d == <<e>> \o c
             u == [t EXCEPT ![b] = d]
             g == [h EXCEPT ![k] = s]
  <1>1. c \in Seq(Entries) /\ e \in Entries /\ t \in Tabs /\ h \in [Keys -> Links]
    BY DEF Represents, Tabs, Entries
  <1>2. \A i \in 1 .. Len(c) : c[i].key # k /\ c[i].key \in Keys
    <2>1. \A i \in 1 .. Len(c) : h[c[i].key] = c[i].slot /\ c[i] \in Entries
      BY <1>1 DEF Represents
    <2> QED
      BY <2>1 DEF Entries
  <1>3. /\ d \in Seq(Entries) /\ Len(d) = Len(c) + 1 /\ d[1] = e /\ Len(c) \in Nat
        /\ \A i \in 2 .. Len(d) : d[i] = c[i - 1]
    BY <1>1
  <1>4. e.key = k /\ e.slot = s
    OBVIOUS
  <1>5. HashInsert(t, k, s) = u
    <2>1. IndexIn(c, k) = 0
      BY <1>1, <1>2, IndexInIs
    <2> QED
      BY <2>1 DEF HashInsert
  <1>6. /\ u \in Tabs /\ u[b] = d /\ \A a \in Buckets : a # b => u[a] = t[a]
        /\ g \in [Keys -> Links] /\ g[k] = s /\ \A j \in Keys : j # k => g[j] = h[j]
    BY <1>1, <1>3, NoSlotIsInvalid DEF Tabs
  <1> HIDE DEF d, e, u, g, c
  <1>7. \A i \in 2 .. Len(d) : i - 1 \in 1 .. Len(c)
    BY <1>3
  <1>8. Distinct(d)
    <2> SUFFICES ASSUME NEW i \in 1 .. Len(d), NEW j \in 1 .. Len(d), d[i].key = d[j].key
                 PROVE  i = j
      BY DEF Distinct
    <2>1. CASE i = 1 \/ j = 1
      BY <1>2, <1>3, <1>4, <1>7, <2>1
    <2>2. CASE i # 1 /\ j # 1
      <3>1. /\ i \in 2 .. Len(d) /\ j \in 2 .. Len(d)
            /\ c[i - 1].key = c[j - 1].key
        BY <1>3, <2>2
      <3>2. i - 1 = j - 1
        BY <1>7, <3>1 DEF Represents, Distinct, c
      <3> QED
        BY <3>1, <3>2
    <2> QED
      BY <2>1, <2>2
  <1>9. ASSUME NEW a \in Buckets, NEW i \in 1 .. Len(u[a])
        PROVE  Hash(u[a][i].key) = a /\ g[u[a][i].key] = u[a][i].slot
    <2>1. CASE a # b
      <3>1. u[a] = t[a] /\ t[a] \in Seq(Entries) /\ i \in 1 .. Len(t[a])
        BY <1>1, <1>6, <1>9, <2>1 DEF Tabs
      <3>2. t[a][i] \in Entries
        BY <3>1
      <3>3. Hash(t[a][i].key) = a /\ h[t[a][i].key] = t[a][i].slot /\ t[a][i].key \in Keys
        BY <3>1, <3>2 DEF Represents, Entries
      <3> QED
        BY <1>6, <2>1, <3>1, <3>3
    <2>2. CASE a = b /\ i = 1
      BY <1>3, <1>4, <1>6, <2>2
    <2>3. CASE a = b /\ i # 1
      <3>1. i \in 2 .. Len(d) /\ u[a][i] = c[i - 1] /\ i - 1 \in 1 .. Len(c)
        BY <1>3, <1>6, <1>7, <2>3
      <3>2. Hash(c[i - 1].key) = b /\ h[c[i - 1].key] = c[i - 1].slot
        BY <3>1 DEF Represents, c
      <3> QED
        BY <1>2, <1>6, <2>3, <3>1, <3>2
    <2> QED
      BY <2>1, <2>2, <2>3
  <1>10. ASSUME NEW j \in Keys, g[j] \in Slots
         PROVE  Hash(j) \in Buckets /\ \E i \in 1 .. Len(u[Hash(j)]) : u[Hash(j)][i].key = j
    <2>1. CASE j = k
      <3>1. 1 \in 1 .. Len(u[b]) /\ u[b][1].key = k
        BY <1>3, <1>4, <1>6
      <3> QED
        BY <2>1, <3>1
    <2>2. CASE j # k
      <3>1. Hash(j) \in Buckets
        BY <1>6, <1>10, <2>2 DEF Represents
      <3>2. PICK i \in 1 .. Len(t[Hash(j)]) : t[Hash(j)][i].key = j
        BY <1>6, <1>10, <2>2 DEF Represents
      <3>3. CASE Hash(j) # b
        BY <1>6, <3>1, <3>2, <3>3
      <3>4. CASE Hash(j) = b
        <4>1. i + 1 \in 2 .. Len(d) /\ (i + 1) - 1 = i
          BY <1>3, <3>2, <3>4 DEF c
        <4>2. i + 1 \in 1 .. Len(u[b]) /\ u[b][i + 1].key = j
          BY <1>3, <1>6, <3>2, <3>4, <4>1 DEF c
        <4> QED
          BY <3>1, <3>4, <4>2
      <3> QED
        BY <3>3, <3>4
    <2> QED
      BY <2>1, <2>2
  <1>11. \A a \in Buckets : Distinct(u[a])
    BY <1>6, <1>8 DEF Represents
  <1>12. Represents(u, g)
    BY <1>6, <1>9, <1>10, <1>11 DEF Represents
  <1> QED
    BY <1>5, <1>12 DEF g

\* Delete takes a key out.
LEMMA DeleteRepresents ==
  ASSUME NEW t, NEW h, Represents(t, h), NEW k \in Keys, Hash(k) \in Buckets
  PROVE  Represents(HashDelete(t, k), [h EXCEPT ![k] = INVALID_SLOT])
  <1> DEFINE b == Hash(k)
             c == t[b]
             x == IndexIn(c, k)
             d == RemoveAt(c, x)
             u == [t EXCEPT ![b] = d]
             g == [h EXCEPT ![k] = INVALID_SLOT]
  <1>1. /\ c \in Seq(Entries) /\ t \in Tabs /\ h \in [Keys -> Links] /\ Distinct(c)
        /\ g \in [Keys -> Links] /\ g[k] = INVALID_SLOT /\ \A j \in Keys : j # k => g[j] = h[j]
    BY NoSlotIsInvalid DEF Represents, Tabs
  <1>2. HashDelete(t, k) = IF x = 0 THEN t ELSE u
    BY DEF HashDelete
  <1> HIDE DEF d, u, g, c, x
  <1>3. CASE x = 0
    <2>1. \A i \in 1 .. Len(c) : c[i].key # k
      BY <1>1, <1>3, IndexInIs DEF x
    <2>2. h[k] \notin Slots
      BY <2>1 DEF Represents, c
    <2>3. h = g
      <3>1. h[k] = INVALID_SLOT
        BY <1>1, <2>2, NoSlotIsInvalid
      <3> QED
        BY <1>1, <3>1 DEF g
    <2> QED
      BY <1>2, <1>3, <2>3 DEF g
  <1>4. CASE x # 0
    <2>1. x \in 1 .. Len(c) /\ c[x].key = k
      BY <1>1, <1>4, IndexInIs DEF x
    <2>2. /\ d \in Seq(Entries) /\ Len(d) = Len(c) - 1 /\ Len(c) \in Nat
          /\ \A j \in 1 .. Len(d) : d[j] = IF j < x THEN c[j] ELSE c[j + 1]
      BY <1>1, <2>1, RemoveAtIs DEF d
    <2> DEFINE To(j) == IF j < x THEN j ELSE j + 1
               From(j) == IF j < x THEN j ELSE j - 1
    <2>3. /\ \A j \in 1 .. Len(d) : To(j) \in 1 .. Len(c) /\ To(j) # x /\ d[j] = c[To(j)]
          /\ \A j \in 1 .. Len(c) : j # x => From(j) \in 1 .. Len(d) /\ To(From(j)) = j
          /\ \A i, j \in 1 .. Len(d) : To(i) = To(j) => i = j
      <3>1. \A j \in 1 .. Len(d) : To(j) \in 1 .. Len(c) /\ To(j) # x
        BY <2>1, <2>2
      <3>2. \A j \in 1 .. Len(d) : d[j] = c[To(j)]
        BY <2>2
      <3>3. \A j \in 1 .. Len(c) : j # x => From(j) \in 1 .. Len(d)
        BY <2>1, <2>2
      <3>4. \A j \in 1 .. Len(c) : j # x => To(From(j)) = j
        BY <2>1
      <3>5. \A i, j \in 1 .. Len(d) : To(i) = To(j) => i = j
        BY <2>1
      <3> QED
        BY <3>1, <3>2, <3>3, <3>4, <3>5
    <2> HIDE DEF To, From
    <2>4. /\ u \in Tabs /\ u[b] = d /\ \A a \in Buckets : a # b => u[a] = t[a]
      BY <1>1, <2>2 DEF Tabs, u
    <2>5. \A j \in 1 .. Len(c) : c[j] \in Entries /\ c[j].key \in Keys /\ (j # x => c[j].key # k)
      <3>1. \A j \in 1 .. Len(c) : c[j] \in Entries
        BY <1>1
      <3>2. \A j \in 1 .. Len(c) : c[j].key \in Keys
        BY <3>1 DEF Entries
      <3>3. \A j \in 1 .. Len(c) : c[j].key = c[x].key => j = x
        BY <1>1, <2>1 DEF Distinct
      <3> QED
        BY <2>1, <3>1, <3>2, <3>3
    <2>6. Distinct(d)
      BY <1>1, <2>3 DEF Distinct
    <2>7. ASSUME NEW a \in Buckets, NEW i \in 1 .. Len(u[a])
          PROVE  Hash(u[a][i].key) = a /\ g[u[a][i].key] = u[a][i].slot
      <3>1. CASE a # b
        <4>1. u[a] = t[a] /\ t[a] \in Seq(Entries) /\ i \in 1 .. Len(t[a])
          BY <1>1, <2>4, <2>7, <3>1 DEF Tabs
        <4>2. t[a][i] \in Entries
          BY <4>1
        <4>3. Hash(t[a][i].key) = a /\ h[t[a][i].key] = t[a][i].slot /\ t[a][i].key \in Keys
          BY <4>1, <4>2 DEF Represents, Entries
        <4> QED
          BY <1>1, <3>1, <4>1, <4>3
      <3>2. CASE a = b
        <4>1. u[a][i] = c[To(i)] /\ To(i) \in 1 .. Len(c) /\ To(i) # x
          BY <2>3, <2>4, <3>2
        <4>2. Hash(c[To(i)].key) = b /\ h[c[To(i)].key] = c[To(i)].slot
          BY <4>1 DEF Represents, c
        <4> QED
          BY <1>1, <2>5, <3>2, <4>1, <4>2
      <3> QED
        BY <3>1, <3>2
    <2>8. ASSUME NEW j \in Keys, g[j] \in Slots
          PROVE  Hash(j) \in Buckets /\ \E i \in 1 .. Len(u[Hash(j)]) : u[Hash(j)][i].key = j
      <3>1. j # k /\ h[j] \in Slots
        BY <1>1, <2>8, NoSlotIsInvalid
      <3>2. Hash(j) \in Buckets
        BY <3>1 DEF Represents
      <3>3. PICK i \in 1 .. Len(t[Hash(j)]) : t[Hash(j)][i].key = j
        BY <3>1 DEF Represents
      <3>4. CASE Hash(j) # b
        BY <2>4, <3>2, <3>3, <3>4
      <3>5. CASE Hash(j) = b
        <4>1. i \in 1 .. Len(c) /\ c[i].key = j
          BY <3>3, <3>5 DEF c
        <4>2. i # x
          BY <2>1, <3>1, <4>1
        <4>3. From(i) \in 1 .. Len(u[b]) /\ u[b][From(i)].key = j
          BY <2>3, <2>4, <4>1, <4>2
        <4> QED
          BY <3>2, <3>5, <4>3
      <3> QED
        BY <3>4, <3>5
    <2>9. \A a \in Buckets : Distinct(u[a])
      BY <2>4, <2>6 DEF Represents
    <2>10. Represents(u, g)
      BY <1>1, <2>4, <2>7, <2>8, <2>9 DEF Represents
    <2> QED
      BY <1>2, <1>4, <2>10 DEF g
  <1> QED
    BY <1>3, <1>4

\* The calls that release the slots of S delete the page of each, in any
\* order.
DeleteAll(t, page, S) == FoldSet(LAMBDA s, u : HashDelete(u, page[s]), t, S)
Without(h, K) == [k \in Keys |-> IF k \in K THEN INVALID_SLOT ELSE h[k]]

\* The pages of a set of slots are deleted one by one, each from the table the
\* others left.
LEMMA DeletesRepresent ==
  ASSUME NEW t, NEW h, Represents(t, h), NEW page, NEW S, S \subseteq Slots,
         \A s \in S : page[s] \in Keys /\ Hash(page[s]) \in Buckets
  PROVE  Represents(DeleteAll(t, page, S), Without(h, {page[s] : s \in S}))
  <1> DEFINE c == [T \in SUBSET S |-> CHOOSE x \in T : TRUE]
             f == [q \in S \X Tabs |-> HashDelete(q[2], page[q[1]])]
             Del(u, s) == HashDelete(u, page[s])
             IsFoldOf(w) == w = [T \in SUBSET S |->
                                   IF T = {} THEN t
                                   ELSE Del(w[T \ {CHOOSE x \in T : TRUE}], CHOOSE x \in T : TRUE)]
             Holds(u, T) == Represents(u, Without(h, {page[s] : s \in T}))
  <1>1. \A T \in SUBSET S : T # {} => c[T] \in T /\ c[T] \in S /\ T \ {c[T]} \in SUBSET S
    OBVIOUS
  <1>2. IsFiniteSet(S)
    <2>1. NumPages - 1 \in Int
      BY NumPagesAssumption
    <2>2. IsFiniteSet(Slots)
      BY <2>1, FS_Interval DEF Slots
    <2> QED
      BY <2>2, FS_Subset
  <1>3. Holds(t, {})
    <2>1. Without(h, {}) = h
      BY DEF Without, Represents
    <2> QED
      BY <2>1
  <1>4. ASSUME NEW T \in SUBSET S, NEW s \in T, NEW u, Holds(u, T \ {s})
        PROVE  u \in Tabs /\ Holds(Del(u, s), T)
    <2> DEFINE K == {page[r] : r \in T \ {s}}
    <2>1. page[s] \in Keys /\ Hash(page[s]) \in Buckets
      OBVIOUS
    <2>2. Represents(Del(u, s), [Without(h, K) EXCEPT ![page[s]] = INVALID_SLOT])
      BY <1>4, <2>1, DeleteRepresents
    <2>3. {page[r] : r \in T} = K \cup {page[s]}
      OBVIOUS
    <2> HIDE DEF K
    <2>4. [Without(h, K) EXCEPT ![page[s]] = INVALID_SLOT] = Without(h, K \cup {page[s]})
      BY <2>1 DEF Without
    <2>5. Represents(u, Without(h, K))
      BY <1>4 DEF K
    <2>6. u \in Tabs
      BY <2>5 DEF Represents
    <2>7. Represents(Del(u, s), Without(h, {page[r] : r \in T}))
      BY <2>2, <2>3, <2>4
    <2> QED
      BY <2>6, <2>7
  <1> HIDE DEF Holds, Del
  <1>5. ASSUME NEW w, w[{}] = t,
               \A T \in SUBSET S : T # {} /\ w[T \ {c[T]}] \in Tabs =>
                 w[T] = Del(w[T \ {c[T]}], c[T])
        PROVE  \A T \in SUBSET S : Holds(w[T], T)
    <2> DEFINE Bad == {T \in SUBSET S : ~Holds(w[T], T)}
               N == {Cardinality(T) : T \in Bad}
    <2>1. \A T \in SUBSET S : IsFiniteSet(T) /\ Cardinality(T) \in Nat
      BY <1>2, FS_Subset, FS_CardinalityType
    <2>2. ASSUME Bad # {} PROVE FALSE
      <3>1. N \in SUBSET Nat /\ N # {}
        BY <2>1, <2>2
      <3>2. PICK n \in N : \A k \in N : n <= k
        <4> HIDE DEF N
        <4> QED
          BY <3>1, LeastMember
      <3>3. PICK T \in Bad : n = Cardinality(T)
        BY <3>2
      <3>4. T # {}
        BY <1>3, <1>5, <3>3
      <3>5. Cardinality(T \ {c[T]}) = n - 1 /\ n \in Nat
        <4>1. IsFiniteSet(T) /\ c[T] \in T
          BY <1>1, <2>1, <3>3, <3>4
        <4> HIDE DEF c
        <4> QED
          BY <2>1, <3>3, <4>1, FS_RemoveElement
      <3>6. T \ {c[T]} \notin Bad
        <4>1. n - 1 \notin N
          BY <3>2, <3>5
        <4> HIDE DEF Bad
        <4> QED
          BY <3>5, <4>1
      <3>7. Holds(w[T \ {c[T]}], T \ {c[T]}) /\ T \in SUBSET S /\ c[T] \in T
        BY <1>1, <3>3, <3>4, <3>6
      <3>8. Holds(w[T], T)
        <4> HIDE DEF c
        <4> QED
          BY <1>4, <1>5, <3>4, <3>7
      <3> QED
        BY <3>3, <3>8
    <2> QED
      BY <2>2
  <1>6. PICK g : \A T \in SUBSET S : g[T] = IF T = {} THEN t ELSE f[<<c[T], g[T \ {c[T]}]>>]
    <2> HIDE DEF f
    <2>1. \A T \in SUBSET S : T # {} => c[T] \in T
      BY <1>1
    <2> HIDE DEF c
    <2>2. \E g : IsFold(g, S, t, c, f)
      BY <1>2, <2>1, Folds
    <2> QED
      BY <2>2 DEF IsFold
  <1>7. \A T \in SUBSET S : T # {} /\ g[T \ {c[T]}] \in Tabs => g[T] = Del(g[T \ {c[T]}], c[T])
    <2> SUFFICES ASSUME NEW T \in SUBSET S, T # {}, g[T \ {c[T]}] \in Tabs
                 PROVE  g[T] = Del(g[T \ {c[T]}], c[T])
      OBVIOUS
    <2>1. <<c[T], g[T \ {c[T]}]>> \in S \X Tabs
      BY <1>1
    <2> HIDE DEF c
    <2>2. f[<<c[T], g[T \ {c[T]}]>>] = Del(g[T \ {c[T]}], c[T])
      BY <2>1 DEF Del
    <2> QED
      BY <1>6, <2>2
  <1>8. \A T \in SUBSET S : Holds(g[T], T)
    <2>1. g[{}] = t
      BY <1>6
    <2> HIDE DEF c
    <2> QED
      BY <1>5, <1>7, <2>1
  <1> DEFINE M == [T \in SUBSET S |-> g[T]]
  <1>9. IsFoldOf(M)
    <2>1. \A T \in SUBSET S : T # {} => /\ g[T] = Del(g[T \ {c[T]}], c[T])
                                        /\ T \ {c[T]} \in SUBSET S
                                        /\ c[T] = CHOOSE x \in T : TRUE
      <3> SUFFICES ASSUME NEW T \in SUBSET S, T # {}
                   PROVE  /\ g[T] = Del(g[T \ {c[T]}], c[T])
                          /\ T \ {c[T]} \in SUBSET S
                          /\ c[T] = CHOOSE x \in T : TRUE
        OBVIOUS
      <3>1. c[T] = CHOOSE x \in T : TRUE
        OBVIOUS
      <3>2. c[T] \in T /\ T \ {c[T]} \in SUBSET S
        BY <1>1
      <3> HIDE DEF c
      <3>3. g[T \ {c[T]}] \in Tabs
        BY <1>4, <1>8, <3>2
      <3> QED
        BY <1>7, <3>1, <3>2, <3>3
    <2>2. g[{}] = t
      BY <1>6
    <2> HIDE DEF c
    <2>3. \A T \in SUBSET S : g[T] = IF T = {} THEN t
                                     ELSE Del(M[T \ {CHOOSE x \in T : TRUE}], CHOOSE x \in T : TRUE)
      <3> SUFFICES ASSUME NEW T \in SUBSET S, T # {}
                   PROVE  g[T] = Del(M[T \ {CHOOSE x \in T : TRUE}], CHOOSE x \in T : TRUE)
        BY <2>2
      <3>1. M[T \ {c[T]}] = g[T \ {c[T]}]
        BY <2>1
      <3> HIDE DEF M
      <3> QED
        BY <2>1, <3>1
    <2> QED
      BY <2>3
  <1> DEFINE w == CHOOSE w : IsFoldOf(w)
  <1>10. IsFoldOf(w)
    <2> HIDE DEF IsFoldOf, M
    <2> QED
      BY <1>9
  <1>11. DeleteAll(t, page, S) = w[S]
    BY DEF DeleteAll, FoldSet, MapThenFoldSet, Del
  <1> HIDE DEF w
  <1>12. /\ w[{}] = t
         /\ \A T \in SUBSET S : T # {} => w[T] = Del(w[T \ {c[T]}], c[T])
    <2>1. \A T \in SUBSET S : w[T] = IF T = {} THEN t
                                     ELSE Del(w[T \ {CHOOSE x \in T : TRUE}], CHOOSE x \in T : TRUE)
      BY <1>10, Zenon
    <2>2. \A T \in SUBSET S : c[T] = CHOOSE x \in T : TRUE
      OBVIOUS
    <2> HIDE DEF c
    <2> QED
      BY <2>1, <2>2
  <1>13. Holds(w[S], S)
    <2> HIDE DEF c
    <2> QED
      BY <1>5, <1>12
  <1> QED
    BY <1>11, <1>13 DEF Holds

----------------------------------------------------------------------------
\* The lists as the calls of the buffer manager change them: a record that
\* threads some two lists, and what it comes to.
Ahead(s, T) == {s} \X T
Threaded(l) == \E U, n, F, m : Linked(l, U, n, F, m)
Comes(l, used, newer, free) ==
  Threaded(l) /\ Used(l) = used /\ Newer(l) = newer /\ Free(l) = free

\* No slot is on both lists, and the free list is empty when free is
\* INVALID_SLOT.
LEMMA ThreadedLists ==
  ASSUME NEW l, Threaded(l)
  PROVE  /\ l \in Lists
         /\ Used(l) \subseteq Slots /\ Free(l) \subseteq Slots
         /\ Used(l) \cap Free(l) = {}
         /\ Newer(l) \subseteq Used(l) \X Used(l)
         /\ IF l.free = INVALID_SLOT THEN Free(l) = {} ELSE l.free \in Free(l)
         /\ Walk(l.next, l.free)[NumPages] = INVALID_SLOT
  <1>1. PICK U, n, F, m : Linked(l, U, n, F, m)
    BY DEF Threaded
  <1>2. /\ Used(l) = On(U) /\ Free(l) = On(F) /\ Newer(l) = Order(U)
        /\ Walk(l.next, l.free)[NumPages] = INVALID_SLOT
    BY <1>1, ListsAre
  <1>3. l \in Lists /\ On(U) \cap On(F) = {} /\ l.free = F[0] /\ IsList(F, m)
    BY <1>1 DEF Linked, Threads
  <1>4. IF l.free = INVALID_SLOT THEN On(F) = {} ELSE l.free \in On(F)
    <2>1. CASE l.free = INVALID_SLOT
      <3>1. ~(0 < m)
        <4>1. F[0] = INVALID_SLOT /\ 0 \in Int
          BY <1>3, <2>1
        <4>2. F[0] \notin Slots
          BY <4>1, NoSlotIsInvalid
        <4> QED
          BY <1>3, <4>1, <4>2 DEF IsList
      <3>2. \A i \in Int : F[i] \notin Slots
        BY <1>3, <3>1 DEF IsList
      <3> QED
        BY <2>1, <3>2 DEF On
    <2>2. CASE l.free # INVALID_SLOT
      <3>1. F[0] \in Slots
        BY <1>3, <2>2, NoSlotIsInvalid DEF IsList
      <3> QED
        BY <1>3, <2>2, <3>1 DEF On
    <2> QED
      BY <2>1, <2>2
  <1>5. Order(U) \subseteq On(U) \X On(U)
    BY DEF Order, On
  <1> QED
    BY <1>2, <1>3, <1>4, <1>5 DEF On

\* The slot that free names becomes the most recent one.
LEMMA TakeFreeComes ==
  ASSUME NEW l, Threaded(l), l.free # INVALID_SLOT
  PROVE  Comes(TakeFree(l), Used(l) \cup {l.free},
               Newer(l) \cup Ahead(l.free, Used(l)), Free(l) \ {l.free})
  <1>1. PICK U, n, F, m : Linked(l, U, n, F, m)
    BY DEF Threaded
  <1>2. /\ IsList(U, n) /\ IsList(F, m) /\ l.free = F[0] /\ On(U) \cap On(F) = {}
    BY <1>1 DEF Linked, Threads
  <1>3. F[0] \in Slots /\ F[0] \notin On(U)
    <2>1. F[0] \in Slots
      BY <1>2, NoSlotIsInvalid DEF IsList
    <2> QED
      BY <1>2, <2>1 DEF On
  <1>4. Linked(TakeFree(l), Push(U, F[0]), n + 1, Cut(F, 0), m - 1)
    BY <1>1, <1>3, TakeFreeLinks
  <1>5. /\ On(Push(U, F[0])) = On(U) \cup {F[0]}
        /\ Order(Push(U, F[0])) = Order(U) \cup Ahead(F[0], On(U))
    BY <1>2, <1>3, PushIsList DEF Ahead
  <1>6. On(Cut(F, 0)) = On(F) \ {F[0]}
    BY <1>2, <1>3, CutIsList
  <1>7. Used(l) = On(U) /\ Newer(l) = Order(U) /\ Free(l) = On(F)
    BY <1>1, ListsAre
  <1>8. /\ Used(TakeFree(l)) = On(Push(U, F[0])) /\ Newer(TakeFree(l)) = Order(Push(U, F[0]))
        /\ Free(TakeFree(l)) = On(Cut(F, 0))
    BY <1>4, ListsAre
  <1>9. Threaded(TakeFree(l))
    BY <1>4 DEF Threaded
  <1> QED
    BY <1>2, <1>5, <1>6, <1>7, <1>8, <1>9 DEF Comes

\* A slot of the used list that is unlinked and linked at the head becomes the
\* most recent one, and the others keep their order.
LEMMA PromoteComes ==
  ASSUME NEW l, Threaded(l), NEW s \in Used(l)
  PROVE  Comes(LinkHead(Unlink(l, s), s), Used(l),
               Outside(Newer(l), {s}) \cup Ahead(s, Used(l) \ {s}), Free(l))
  <1>1. PICK U, n, F, m : Linked(l, U, n, F, m)
    BY DEF Threaded
  <1>2. Used(l) = On(U) /\ Newer(l) = Order(U) /\ Free(l) = On(F)
    BY <1>1, ListsAre
  <1>3. PICK k \in Int : U[k] = s /\ s \in Slots
    BY <1>2 DEF On
  <1> DEFINE M == Cut(U, k)
             c == LinkHead(Unlink(l, s), s)
  <1>4. IsList(M, n - 1) /\ On(M) = On(U) \ {s} /\ Order(M) = Outside(Order(U), {s})
    <2>1. IsList(U, n)
      BY <1>1 DEF Linked
    <2> QED
      BY <1>3, <2>1, CutIsList DEF Outside
  <1>5. Linked(c, Push(M, s), n, F, m)
    BY <1>1, <1>3, PromoteLinks
  <1> HIDE DEF M, c
  <1>6. On(Push(M, s)) = On(M) \cup {s} /\ Order(Push(M, s)) = Order(M) \cup Ahead(s, On(M))
    BY <1>3, <1>4, PushIsList DEF Ahead
  <1>7. Used(c) = On(Push(M, s)) /\ Newer(c) = Order(Push(M, s)) /\ Free(c) = On(F)
    BY <1>5, ListsAre
  <1>8. Threaded(c)
    BY <1>5 DEF Threaded
  <1>9. Used(c) = Used(l)
    BY <1>2, <1>4, <1>6, <1>7
  <1> QED
    BY <1>2, <1>4, <1>6, <1>7, <1>8, <1>9 DEF Comes, c

\* A slot of the used list that is unlinked and inserted in the free list
\* changes lists.
LEMMA ReleaseComes ==
  ASSUME NEW l, Threaded(l), NEW s \in Used(l)
  PROVE  Comes(InsertFree(Unlink(l, s), s), Used(l) \ {s},
               Outside(Newer(l), {s}), Free(l) \cup {s})
  <1>1. PICK U, n, F, m : Linked(l, U, n, F, m)
    BY DEF Threaded
  <1>2. Used(l) = On(U) /\ Newer(l) = Order(U) /\ Free(l) = On(F)
    BY <1>1, ListsAre
  <1>3. PICK k \in Int : U[k] = s /\ s \in Slots
    BY <1>2 DEF On
  <1> DEFINE c == InsertFree(Unlink(l, s), s)
  <1>4. On(Cut(U, k)) = On(U) \ {s} /\ Order(Cut(U, k)) = Outside(Order(U), {s})
    <2>1. IsList(U, n)
      BY <1>1 DEF Linked
    <2> QED
      BY <1>3, <2>1, CutIsList DEF Outside
  <1>5. Linked(c, Cut(U, k), n - 1, Push(F, s), m + 1) /\ On(Push(F, s)) = On(F) \cup {s}
    BY <1>1, <1>3, ReleaseLinks
  <1> HIDE DEF c
  <1>6. Used(c) = On(Cut(U, k)) /\ Newer(c) = Order(Cut(U, k)) /\ Free(c) = On(Push(F, s))
    BY <1>5, ListsAre
  <1>7. Threaded(c)
    BY <1>5 DEF Threaded
  <1> QED
    BY <1>2, <1>4, <1>5, <1>6, <1>7 DEF Comes, c

\* The same of the scan that releases the slots of S.
LEMMA ReleaseAllComes ==
  ASSUME NEW l, Threaded(l), NEW S \in SUBSET Used(l)
  PROVE  Comes(ReleaseAll(l, S), Used(l) \ S, Outside(Newer(l), S), Free(l) \cup S)
  <1>1. PICK U, n, F, m : Linked(l, U, n, F, m)
    BY DEF Threaded
  <1>2. Used(l) = On(U) /\ Newer(l) = Order(U) /\ Free(l) = On(F)
    BY <1>1, ListsAre
  <1>3. PICK V : Reduced(ReleaseAll(l, S), U, F, S, V)
    BY <1>1, <1>2, ReleaseAllLinks
  <1> DEFINE c == ReleaseAll(l, S)
  <1> HIDE DEF c
  <1>4. PICK h, G, g : /\ Linked(c, V, h, G, g)
                       /\ On(V) = On(U) \ S
                       /\ Order(V) = Outside(Order(U), S)
                       /\ On(G) = On(F) \cup S
    BY <1>3 DEF Reduced, c
  <1>5. Used(c) = On(V) /\ Newer(c) = Order(V) /\ Free(c) = On(G)
    BY <1>4, ListsAre
  <1>6. Threaded(c)
    BY <1>4 DEF Threaded
  <1> QED
    BY <1>2, <1>4, <1>5, <1>6 DEF Comes, c

\* The slot the scan of InternalAlloc finds is the least recently used of the
\* unpinned ones.
LEMMA VictimComes ==
  ASSUME NEW l, Threaded(l), NEW pinned \in SUBSET Used(l)
  PROVE  LET open == Used(l) \ pinned
             v    == FirstUnpinned(l, pinned)
         IN  /\ v \in open \cup {INVALID_SLOT}
             /\ v = INVALID_SLOT <=> open = {}
             /\ {s \in open : \A t \in open : <<s, t>> \notin Newer(l)} = {v} \cap Slots
  <1>1. PICK U, n, F, m : Linked(l, U, n, F, m)
    BY DEF Threaded
  <1>2. Used(l) = On(U) /\ Newer(l) = Order(U)
    BY <1>1, ListsAre
  <1> QED
    BY <1>1, <1>2, ScanFindsVictim

----------------------------------------------------------------------------
\* The hash table as the calls use it: the map that Find reads.
Reads(t)  == [k \in Keys |-> Find(t, k)]
Hashed(t) == Represents(t, Reads(t))

\* A table that holds some map holds the one Find reads.
LEMMA HoldsWhatItReads ==
  ASSUME NEW t, NEW h, Represents(t, h)
  PROVE  Hashed(t) /\ Reads(t) = h
  <1>1. \A k \in Keys : Find(t, k) = h[k]
    BY FindReads
  <1>2. h \in [Keys -> Links]
    BY DEF Represents
  <1>3. Reads(t) = h
    BY <1>1, <1>2 DEF Reads
  <1> QED
    BY <1>3 DEF Hashed

\* An insertion adds one key to that map.
LEMMA HashedInsert ==
  ASSUME NEW t, Hashed(t), NEW k \in Keys, Hash(k) \in Buckets,
         Reads(t)[k] \notin Slots, NEW s \in Slots
  PROVE  /\ Hashed(HashInsert(t, k, s))
         /\ Reads(HashInsert(t, k, s)) = [Reads(t) EXCEPT ![k] = s]
  <1>1. Represents(HashInsert(t, k, s), [Reads(t) EXCEPT ![k] = s])
    BY InsertRepresents DEF Hashed
  <1> QED
    BY <1>1, HoldsWhatItReads

\* A deletion takes one key out of the map.
LEMMA HashedDelete ==
  ASSUME NEW t, Hashed(t), NEW k \in Keys, Hash(k) \in Buckets
  PROVE  /\ Hashed(HashDelete(t, k))
         /\ Reads(HashDelete(t, k)) = Without(Reads(t), {k})
  <1>1. Represents(HashDelete(t, k), [Reads(t) EXCEPT ![k] = INVALID_SLOT])
    BY DeleteRepresents DEF Hashed
  <1>2. [Reads(t) EXCEPT ![k] = INVALID_SLOT] = Without(Reads(t), {k})
    BY DEF Reads, Without
  <1> QED
    BY <1>1, <1>2, HoldsWhatItReads

\* The deletions of a scan take the pages of its slots out.
LEMMA HashedDeletes ==
  ASSUME NEW t, Hashed(t), NEW page, NEW S, S \subseteq Slots,
         \A s \in S : page[s] \in Keys /\ Hash(page[s]) \in Buckets
  PROVE  /\ Hashed(DeleteAll(t, page, S))
         /\ Reads(DeleteAll(t, page, S)) = Without(Reads(t), {page[s] : s \in S})
  <1>1. Represents(DeleteAll(t, page, S), Without(Reads(t), {page[s] : s \in S}))
    BY DeletesRepresent DEF Hashed
  <1> QED
    BY <1>1, HoldsWhatItReads

----------------------------------------------------------------------------
\* The pages that the descriptors name and the map agree: the page of a used
\* slot leads to it, a slot that is found holds what was looked for, and a
\* block is named by the slot it is in.
Keyed(used, page, h) ==
  /\ page \in [Slots -> Keys \cup {NoKey}]
  /\ \A s \in used : page[s] \in Keys /\ h[page[s]] = s
  /\ \A k \in Keys : h[k] \in Slots => h[k] \in used /\ page[h[k]] = k
  /\ \A s \in used : page[s][1] = MEMORY_FD => page[s][2] = s

\* Slots leave with their pages.
LEMMA KeyedDrop ==
  ASSUME NEW used \in SUBSET Slots, NEW page, NEW h \in [Keys -> Links], Keyed(used, page, h),
         NEW S \in SUBSET used
  PROVE  Keyed(used \ S, page, Without(h, {page[s] : s \in S}))
  <1> DEFINE K == {page[s] : s \in S}
             g == Without(h, K)
  <1>1. \A k \in Keys : g[k] = IF k \in K THEN INVALID_SLOT ELSE h[k]
    BY DEF Without
  <1>2. \A s \in used \ S : page[s] \notin K
    BY DEF Keyed
  <1>3. \A k \in Keys : k \notin K /\ h[k] \in Slots => h[k] \notin S
    BY DEF Keyed
  <1> HIDE DEF g, K
  <1>4. \A s \in used \ S : page[s] \in Keys /\ g[page[s]] = s
    BY <1>1, <1>2 DEF Keyed
  <1>5. \A k \in Keys : g[k] \in Slots => g[k] \in used \ S /\ page[g[k]] = k
    BY <1>1, <1>3, NoSlotIsInvalid DEF Keyed
  <1>6. Keyed(used \ S, page, g)
    BY <1>4, <1>5 DEF Keyed
  <1> QED
    BY <1>6 DEF g, K

\* A slot comes with a page that is not there.
LEMMA KeyedLoad ==
  ASSUME NEW used \in SUBSET Slots, NEW page, NEW h \in [Keys -> Links], Keyed(used, page, h),
         NEW s \in Slots, s \notin used, NEW k \in Keys, h[k] \notin Slots,
         k[1] = MEMORY_FD => k[2] = s
  PROVE  Keyed(used \cup {s}, [page EXCEPT ![s] = k], [h EXCEPT ![k] = s])
  <1> DEFINE p == [page EXCEPT ![s] = k]
             g == [h EXCEPT ![k] = s]
  <1>1. /\ p \in [Slots -> Keys \cup {NoKey}]
        /\ p[s] = k /\ \A r \in used : p[r] = page[r]
        /\ g[k] = s /\ \A j \in Keys : j # k => g[j] = h[j]
    BY DEF Keyed
  <1>2. \A r \in used : page[r] # k /\ page[r] \in Keys /\ h[page[r]] = r
    BY DEF Keyed
  <1> HIDE DEF p, g
  <1>3. \A r \in used \cup {s} : p[r] \in Keys /\ g[p[r]] = r
    BY <1>1, <1>2
  <1>4. \A j \in Keys : g[j] \in Slots => g[j] \in used \cup {s} /\ p[g[j]] = j
    BY <1>1, <1>2 DEF Keyed
  <1>5. \A r \in used \cup {s} : p[r][1] = MEMORY_FD => p[r][2] = r
    BY <1>1 DEF Keyed
  <1>6. Keyed(used \cup {s}, p, g)
    BY <1>1, <1>3, <1>4, <1>5 DEF Keyed
  <1> QED
    BY <1>6 DEF p, g

----------------------------------------------------------------------------
\* BufferPool's operators on a pool in which nothing is pinned or dirty.
NoPins  == [s \in Slots |-> 0]
AllZero == [s \in Slots |-> 0]
AllClean == [s \in Slots |-> FALSE]
ZeroFile == [n \in 0 .. MaxPages - 1 |-> 0]
PoolOf(used, newer, free, page, h) ==
  [used |-> used, newer |-> newer, free |-> free, key |-> page, hash |-> h,
   pin  |-> NoPins, dirty |-> AllClean, data |-> AllZero, disk |-> ZeroFile,
   tail |-> INVALID_SLOT]
TablesOf(used, newer, free, page, h) ==
  [used |-> used, newer |-> newer, free |-> free, key |-> page, hash |-> h]

\* What the tables come to is what BufferPool is shown.
LEMMA PoolIs ==
  Pool({}) = PoolOf(Used(lists), Newer(lists), Free(lists), key, Reads(table))
  BY DEF Pool, PoolOf, Reads, NoPins, AllZero, AllClean, ZeroFile

\* HashDelete of the pages of K.
LEMMA PoolDeletes ==
  ASSUME NEW used, NEW newer, NEW free, NEW page, NEW h, NEW K
  PROVE  BP!HashDelete(PoolOf(used, newer, free, page, h), K)
           = PoolOf(used, newer, free, page, Without(h, K))
  <1> DEFINE b == PoolOf(used, newer, free, page, h)
             g == Without(h, K)
  <1>1. BP!Keys = Keys
    BY DEF BP!Keys, BP!FileKeys, BP!BlockKeys, BP!MEMORY_FD, BP!PageNums,
           Keys, FileKeys, BlockKeys, MEMORY_FD
  <1>2. b.hash = h
    BY DEF PoolOf
  <1>3. BP!HashDelete(b, K) = [b EXCEPT !.hash = g]
    BY <1>1, <1>2 DEF BP!HashDelete, Without
  <1> HIDE DEF g
  <1>4. [b EXCEPT !.hash = g] = PoolOf(used, newer, free, page, g)
    BY DEF PoolOf
  <1> QED
    BY <1>3, <1>4 DEF g

\* Unlink of the slots of a set.
LEMMA PoolUnlinks ==
  ASSUME NEW used, NEW newer, NEW free, NEW page, NEW h, NEW S
  PROVE  BP!Unlink(PoolOf(used, newer, free, page, h), S)
           = PoolOf(used \ S, Outside(newer, S), free, page, h)
  <1> DEFINE b == PoolOf(used, newer, free, page, h)
             u == used \ S
             o == Outside(newer, S)
             c == PoolOf(u, newer, free, page, h)
  <1>1. b.used = used /\ b.newer = newer
    BY DEF PoolOf
  <1>2. BP!Unlink(b, S) = [b EXCEPT !.used = u, !.newer = o]
    <2> HIDE DEF b
    <2> QED
      BY <1>1 DEF BP!Unlink, Outside
  <1> HIDE DEF u, o
  <1>3. [b EXCEPT !.used = u] = c
    BY DEF PoolOf
  <1>4. [c EXCEPT !.newer = o] = PoolOf(u, o, free, page, h)
    BY DEF PoolOf
  <1>5. [b EXCEPT !.used = u, !.newer = o] = [[b EXCEPT !.used = u] EXCEPT !.newer = o]
    OBVIOUS
  <1>6. BP!Unlink(b, S) = PoolOf(u, o, free, page, h)
    BY <1>2, <1>3, <1>4, <1>5, Zenon
  <1> QED
    BY <1>6 DEF u, o

\* LinkHead of a slot.
LEMMA PoolLinks ==
  ASSUME NEW used, NEW newer, NEW free, NEW page, NEW h, NEW s,
         NEW u, u = used \cup {s}, NEW o, o = newer \cup Ahead(s, used)
  PROVE  BP!LinkHead(PoolOf(used, newer, free, page, h), s) = PoolOf(u, o, free, page, h)
  <1> DEFINE b == PoolOf(used, newer, free, page, h)
             c == PoolOf(u, newer, free, page, h)
  <1>1. b.used = used /\ b.newer = newer
    BY DEF PoolOf
  <1>2. BP!LinkHead(b, s) = [b EXCEPT !.used = u, !.newer = o]
    <2> HIDE DEF b
    <2> QED
      BY <1>1 DEF BP!LinkHead, Ahead
  <1>3. [b EXCEPT !.used = u] = c
    BY DEF PoolOf
  <1>4. [c EXCEPT !.newer = o] = PoolOf(u, o, free, page, h)
    BY DEF PoolOf
  <1>5. [b EXCEPT !.used = u, !.newer = o] = [[b EXCEPT !.used = u] EXCEPT !.newer = o]
    OBVIOUS
  <1>6. BP!LinkHead(b, s) = PoolOf(u, o, free, page, h)
    BY <1>2, <1>3, <1>4, <1>5, Zenon
  <1> QED
    BY <1>6

\* InternalAlloc of a free slot.
LEMMA PoolTakes ==
  ASSUME NEW used, NEW newer, NEW free, NEW page, NEW h, NEW s \in free \ {INVALID_SLOT}
  PROVE  BP!InternalAlloc(PoolOf(used, newer, free, page, h), s, BP!NoFault).pool
           = PoolOf(used \cup {s}, newer \cup Ahead(s, used), free \ {s}, page, h)
  BY DEF BP!InternalAlloc, BP!Return, BP!LinkHead, PoolOf, Ahead

\* InternalAlloc of a used slot: its page leaves and it becomes the most recent.
LEMMA PoolEvicts ==
  ASSUME NEW used, NEW newer, NEW free, NEW page, NEW h, NEW s \in Slots, s \notin free
  PROVE  BP!InternalAlloc(PoolOf(used, newer, free, page, h), s, BP!NoFault).pool
           = PoolOf((used \ {s}) \cup {s},
                    Outside(newer, {s}) \cup Ahead(s, used \ {s}), free,
                    page, Without(h, {page[s]}))
  <1> DEFINE b == PoolOf(used, newer, free, page, h)
             d == PoolOf(used, newer, free, page, Without(h, {page[s]}))
             u == PoolOf(used \ {s}, Outside(newer, {s}), free, page, Without(h, {page[s]}))
  <1>1. s # INVALID_SLOT /\ s \notin b.free /\ ~b.dirty[s] /\ b.key[s] = page[s]
    BY NoSlotIsInvalid DEF PoolOf, AllClean
  <1>2. BP!HashDelete(b, {page[s]}) = d
    BY PoolDeletes
  <1>3. BP!Unlink(d, {s}) = u
    BY PoolUnlinks
  <1>4. BP!Evict(b, s) = u
    BY <1>1, <1>2, <1>3 DEF BP!Evict
  <1> HIDE DEF b, d
  <1>5. BP!InternalAlloc(b, s, BP!NoFault) = BP!Return(BP!OK, BP!LinkHead(u, s))
    BY <1>1, <1>4 DEF BP!InternalAlloc
  <1>6. BP!LinkHead(u, s) = PoolOf((used \ {s}) \cup {s},
                                   Outside(newer, {s}) \cup Ahead(s, used \ {s}), free,
                                   page, Without(h, {page[s]}))
    <2> DEFINE r == used \ {s}
               o == Outside(newer, {s})
               g == Without(h, {page[s]})
               all == r \cup {s}
               more == o \cup Ahead(s, r)
    <2>1. all = r \cup {s} /\ more = o \cup Ahead(s, r)
      OBVIOUS
    <2> HIDE DEF r, o, g, all, more
    <2>2. BP!LinkHead(PoolOf(r, o, free, page, g), s) = PoolOf(all, more, free, page, g)
      BY <2>1, PoolLinks
    <2> QED
      BY <2>2 DEF r, o, g, all, more
  <1> QED
    BY <1>5, <1>6 DEF BP!Return, b

\* Bind of a page to a slot.
LEMMA PoolBinds ==
  ASSUME NEW used, NEW newer, NEW free, NEW page, NEW h, NEW k, NEW s
  PROVE  Tables(BP!Bind(PoolOf(used, newer, free, page, h), k, s))
           = TablesOf(used, newer, free, [page EXCEPT ![s] = k], [h EXCEPT ![k] = s])
  BY DEF BP!Bind, BP!InitPageDesc, BP!HashInsert, Tables, PoolOf, TablesOf

\* Release of the slots of a set.
LEMMA PoolReleases ==
  ASSUME NEW used, NEW newer, NEW free, NEW page, NEW h, NEW S
  PROVE  Tables(BP!Release(PoolOf(used, newer, free, page, h), S))
           = TablesOf(used \ S, Outside(newer, S), free \cup S, page, h)
  BY DEF BP!Release, BP!InsertFree, BP!Unlink, Tables, PoolOf, TablesOf, Outside

\* Promote of a used slot.
LEMMA PoolPromotes ==
  ASSUME NEW used, NEW newer, NEW free, NEW page, NEW h, NEW s \in used
  PROVE  Tables(BP!Promote(PoolOf(used, newer, free, page, h), s))
           = TablesOf(used, Outside(newer, {s}) \cup Ahead(s, used \ {s}), free, page, h)
  <1>1. (used \ {s}) \cup {s} = used
    OBVIOUS
  <1> QED
    BY <1>1 DEF BP!Promote, BP!LinkHead, BP!Unlink, Tables, PoolOf, TablesOf, Outside, Ahead

----------------------------------------------------------------------------
\* The inductive invariant: the links thread two lists, every slot is on one
\* of them, no chain has two entries for a key, and the pages of the used
\* slots and the entries of the chains are the same map.
IInv ==
  /\ Threaded(lists)
  /\ Used(lists) \cup Free(lists) = Slots
  /\ Hashed(table)
  /\ Keyed(Used(lists), key, Reads(table))

\* Find returns a slot or INVALID_SLOT.
LEMMA ReadsLinks ==
  ASSUME NEW t, Hashed(t)
  PROVE  Reads(t) \in [Keys -> Links]
  BY DEF Hashed, Represents

\* The bucket of the page of a used slot is there.
LEMMA UsedHashed ==
  ASSUME IInv, NEW s \in Used(lists)
  PROVE  key[s] \in Keys /\ Hash(key[s]) \in Buckets /\ Find(table, key[s]) = s
  <1>1. key[s] \in Keys /\ Reads(table)[key[s]] = s /\ s \in Slots
    BY ThreadedLists DEF IInv, Keyed
  <1>2. Hash(key[s]) \in Buckets
    BY <1>1 DEF IInv, Hashed, Represents
  <1> QED
    BY <1>1, <1>2 DEF Reads

\* The constructor: no list of used slots, and all of them on the free list.
LEMMA InitIInv == Init => IInv
  <1> SUFFICES ASSUME Init PROVE IInv
    OBVIOUS
  <1> DEFINE U == [i \in Int |-> INVALID_SLOT]
             F == [i \in Int |-> IF i \in Slots THEN i ELSE INVALID_SLOT]
  <1>1. NumPages \in Nat /\ NumPages > 0 /\ NumPages - 1 \in Slots /\ 0 \in Slots
        /\ \A i \in Int : i \in Slots <=> 0 <= i /\ i < NumPages
    BY NumPagesAssumption DEF Slots
  <1>2. IsList(U, 0) /\ On(U) = {}
    BY NoSlotIsInvalid DEF IsList, On
  <1>3. IsList(F, NumPages) /\ On(F) = Slots
    <2>1. \A i \in Int : F[i] \in Slots <=> i \in Slots
      BY NoSlotIsInvalid
    <2>2. \A i \in Slots : i \in Int /\ F[i] = i
      BY DEF Slots
    <2>3. F \in [Int -> Links]
      BY NoSlotIsInvalid
    <2>4. \A i, j \in Int : F[i] \in Slots /\ F[i] = F[j] => i = j
      BY <2>1, <2>2
    <2> HIDE DEF F
    <2>5. IsList(F, NumPages)
      BY <1>1, <2>1, <2>3, <2>4 DEF IsList
    <2>6. On(F) = Slots
      BY <2>1, <2>2 DEF On
    <2> QED
      BY <2>5, <2>6
  <1>4. /\ lists = NewLists
        /\ \A s \in Slots : lists.next[s] = IF s = NumPages - 1 THEN INVALID_SLOT ELSE s + 1
        /\ lists.first = INVALID_SLOT /\ lists.last = INVALID_SLOT /\ lists.free = 0
    BY DEF Init, NewLists
  <1>5. lists \in Lists
    <2>1. \A s \in Slots : (s # NumPages - 1 => s + 1 \in Slots) /\ s - 1 \in Links
      BY <1>1 DEF Slots, Links, INVALID_SLOT
    <2> QED
      BY <1>1, <1>4, <2>1 DEF NewLists, Lists, Links
  <1>6. Threads(lists, U, F)
    <2>1. U[0] = INVALID_SLOT /\ F[0] = 0
      BY <1>1
    <2>2. \A i \in Int : U[i] \notin Slots
      BY NoSlotIsInvalid
    <2>3. ASSUME NEW i \in Int, F[i] \in Slots PROVE lists.next[F[i]] = F[i + 1]
      <3>1. F[i] = i /\ i \in Slots
        BY <2>3, NoSlotIsInvalid
      <3>2. i = NumPages - 1 <=> i + 1 \notin Slots
        BY <1>1, <3>1
      <3>3. F[i + 1] = IF i + 1 \in Slots THEN i + 1 ELSE INVALID_SLOT
        OBVIOUS
      <3> QED
        BY <1>4, <3>1, <3>2, <3>3
    <2> HIDE DEF U, F
    <2> QED
      BY <1>4, <2>1, <2>2, <2>3 DEF Threads
  <1>7. lists.last = U[0 - 1]
    BY <1>4
  <1> HIDE DEF U, F
  <1>8. Linked(lists, U, 0, F, NumPages)
    BY <1>2, <1>3, <1>5, <1>6, <1>7 DEF Linked
  <1>9. Threaded(lists) /\ Used(lists) = {} /\ Free(lists) = Slots
    BY <1>2, <1>3, <1>8, ListsAre DEF Threaded
  <1>10. Hashed(table) /\ Reads(table) = [k \in Keys |-> INVALID_SLOT]
    BY EmptyRepresents, HoldsWhatItReads DEF Init
  <1>11. Keyed({}, key, [k \in Keys |-> INVALID_SLOT])
    BY NoSlotIsInvalid DEF Keyed, Init
  <1> QED
    BY <1>9, <1>10, <1>11 DEF IInv

----------------------------------------------------------------------------
\* InternalAlloc: the slot becomes the most recent one, and its page leaves
\* with it if it had one.
Fronted(l, s) == Outside(Newer(l), {s}) \cup Ahead(s, Used(l) \ {s})
AllocPool(s)  == BP!InternalAlloc(Pool({}), s, BP!NoFault).pool
Allocated(s) ==
  /\ s \in Slots
  /\ Comes(AllocLists(s), Used(lists) \cup {s}, Fronted(lists, s), Free(lists) \ {s})
  /\ Hashed(AllocTable(s))
  /\ Reads(AllocTable(s)) = Without(Reads(table), {key[r] : r \in Used(lists) \cap {s}})
  /\ AllocPool(s) = PoolOf(Used(lists) \cup {s}, Fronted(lists, s), Free(lists) \ {s},
                           key, Reads(AllocTable(s)))

\* A slot is taken from the free list while there is one.
LEMMA AllocTakes ==
  ASSUME IInv, lists.free # INVALID_SLOT
  PROVE  Allocated(lists.free)
  <1> DEFINE s == lists.free
  <1>1. /\ s \in Free(lists) /\ s \in Slots /\ s \notin Used(lists)
        /\ Newer(lists) \subseteq Used(lists) \X Used(lists)
    BY ThreadedLists DEF IInv
  <1>2. Fronted(lists, s) = Newer(lists) \cup Ahead(s, Used(lists))
    <2>1. Outside(Newer(lists), {s}) = Newer(lists)
      BY <1>1 DEF Outside
    <2>2. Used(lists) \ {s} = Used(lists)
      BY <1>1
    <2> QED
      BY <2>1, <2>2 DEF Fronted
  <1>3. Comes(AllocLists(s), Used(lists) \cup {s}, Fronted(lists, s), Free(lists) \ {s})
    <2>1. AllocLists(s) = TakeFree(lists)
      BY DEF AllocLists
    <2>2. Comes(TakeFree(lists), Used(lists) \cup {s}, Newer(lists) \cup Ahead(s, Used(lists)),
                Free(lists) \ {s})
      BY TakeFreeComes DEF IInv
    <2> QED
      BY <1>2, <2>1, <2>2
  <1>4. AllocTable(s) = table /\ Hashed(table)
    BY DEF AllocTable, IInv
  <1>5. Reads(table) = Without(Reads(table), {key[r] : r \in Used(lists) \cap {s}})
    <2>1. {key[r] : r \in Used(lists) \cap {s}} = {}
      BY <1>1
    <2>2. Without(Reads(table), {}) = Reads(table)
      BY DEF Without, Reads
    <2> QED
      BY <2>1, <2>2
  <1>6. AllocPool(s) = PoolOf(Used(lists) \cup {s}, Fronted(lists, s), Free(lists) \ {s},
                             key, Reads(table))
    <2>1. s \in Free(lists) \ {INVALID_SLOT}
      BY <1>1
    <2> DEFINE used == Used(lists)
               newer == Newer(lists)
               free == Free(lists)
               h == Reads(table)
    <2> HIDE DEF used, newer, free, h, s
    <2>2. BP!InternalAlloc(PoolOf(used, newer, free, key, h), s, BP!NoFault).pool
            = PoolOf(used \cup {s}, newer \cup Ahead(s, used), free \ {s}, key, h)
      BY <2>1, PoolTakes DEF free
    <2> QED
      BY <1>2, <2>2, PoolIs DEF AllocPool, used, newer, free, h
  <1> HIDE DEF s
  <1> QED
    BY <1>1, <1>3, <1>4, <1>5, <1>6 DEF Allocated, s

\* When there is none, a used slot is evicted.
LEMMA AllocEvicts ==
  ASSUME IInv, lists.free = INVALID_SLOT, NEW s \in Used(lists)
  PROVE  Allocated(s)
  <1>1. /\ s \in Slots /\ Free(lists) = {}
    BY ThreadedLists DEF IInv
  <1>2. Used(lists) \cup {s} = Used(lists) /\ Free(lists) \ {s} = Free(lists)
        /\ (Used(lists) \ {s}) \cup {s} = Used(lists)
    BY <1>1
  <1>3. Comes(AllocLists(s), Used(lists) \cup {s}, Fronted(lists, s), Free(lists) \ {s})
    <2>1. AllocLists(s) = LinkHead(Unlink(lists, s), s)
      BY DEF AllocLists
    <2>2. Comes(LinkHead(Unlink(lists, s), s), Used(lists), Fronted(lists, s), Free(lists))
      BY PromoteComes DEF IInv, Fronted, Ahead
    <2> QED
      BY <1>2, <2>1, <2>2
  <1>4. {key[r] : r \in Used(lists) \cap {s}} = {key[s]}
    OBVIOUS
  <1>5. Hashed(AllocTable(s)) /\ Reads(AllocTable(s)) = Without(Reads(table), {key[s]})
    <2>1. AllocTable(s) = HashDelete(table, key[s])
      BY DEF AllocTable
    <2>2. key[s] \in Keys /\ Hash(key[s]) \in Buckets
      BY UsedHashed
    <2>3. Hashed(HashDelete(table, key[s]))
          /\ Reads(HashDelete(table, key[s])) = Without(Reads(table), {key[s]})
      BY <2>2, HashedDelete DEF IInv
    <2> QED
      BY <2>1, <2>3
  <1>6. AllocPool(s) = PoolOf(Used(lists), Fronted(lists, s), Free(lists),
                             key, Without(Reads(table), {key[s]}))
    <2> DEFINE used == Used(lists)
               newer == Newer(lists)
               free == Free(lists)
               h == Reads(table)
    <2>1. s \in Slots /\ s \notin free
      BY <1>1
    <2> HIDE DEF used, newer, free, h
    <2>2. BP!InternalAlloc(PoolOf(used, newer, free, key, h), s, BP!NoFault).pool
            = PoolOf((used \ {s}) \cup {s},
                     Outside(newer, {s}) \cup Ahead(s, used \ {s}), free,
                     key, Without(h, {key[s]}))
      BY <2>1, PoolEvicts
    <2> QED
      BY <1>2, <2>2, PoolIs DEF AllocPool, Fronted, used, newer, free, h
  <1> QED
    BY <1>1, <1>2, <1>3, <1>4, <1>5, <1>6 DEF Allocated

\* Whatever is pinned, the slot is one of these.
LEMMA AllocSlotsAllocate ==
  ASSUME IInv, NEW s \in AllocSlots
  PROVE  Allocated(s)
  <1>1. PICK pinned \in SUBSET Used(lists) : s = AllocSlot(pinned) /\ s # INVALID_SLOT
    BY DEF AllocSlots
  <1>2. CASE lists.free # INVALID_SLOT
    BY <1>1, <1>2, AllocTakes DEF AllocSlot
  <1>3. CASE lists.free = INVALID_SLOT
    <2>1. s \in Used(lists)
      BY <1>1, <1>3, VictimComes DEF AllocSlot, IInv
    <2> QED
      BY <1>3, <2>1, AllocEvicts
  <1> QED
    BY <1>2, <1>3

\* After a call: the tables as BufferPool is shown them.
LEMMA TablesNext ==
  Tables(Pool({}))' = TablesOf(Used(lists'), Newer(lists'), Free(lists'), key', Reads(table'))
  BY DEF Tables, Pool, TablesOf, Reads

\* What allocation leaves of the pages: the slot taken has none.
LEMMA AllocKeyed ==
  ASSUME IInv, NEW s, Allocated(s)
  PROVE  Keyed(Used(lists) \ {s}, key, Reads(AllocTable(s)))
  <1> DEFINE S == Used(lists) \cap {s}
  <1>1. Used(lists) \in SUBSET Slots /\ Used(lists) \ S = Used(lists) \ {s} /\ S \in SUBSET Used(lists)
    BY ThreadedLists DEF IInv
  <1>2. Reads(table) \in [Keys -> Links] /\ Keyed(Used(lists), key, Reads(table))
    BY ReadsLinks DEF IInv
  <1>3. Keyed(Used(lists) \ S, key, Without(Reads(table), {key[r] : r \in S}))
    BY <1>1, <1>2, KeyedDrop
  <1> QED
    BY <1>1, <1>3 DEF Allocated

\* A key that was not found is not found after an allocation, and a block is
\* not found once its slot is taken.
LEMMA AllocMisses ==
  ASSUME IInv, NEW s, Allocated(s), NEW k \in Keys,
         Find(table, k) = HASHNOTFOUND \/ k = <<MEMORY_FD, s>>
  PROVE  Reads(AllocTable(s))[k] \notin Slots
  <1> DEFINE h == Reads(AllocTable(s))
  <1>1. CASE Find(table, k) = HASHNOTFOUND
    <2>1. Reads(table)[k] = INVALID_SLOT
      BY <1>1 DEF Reads, HASHNOTFOUND, INVALID_SLOT
    <2>2. h[k] = INVALID_SLOT
      BY <2>1 DEF Allocated, Without
    <2> QED
      BY <2>2, NoSlotIsInvalid
  <1>2. CASE k = <<MEMORY_FD, s>>
    <2> SUFFICES ASSUME h[k] \in Slots PROVE FALSE
      OBVIOUS
    <2>1. Keyed(Used(lists) \ {s}, key, h)
      BY AllocKeyed
    <2> HIDE DEF h
    <2>2. h[k] \in Used(lists) \ {s} /\ key[h[k]] = k
      BY <2>1 DEF Keyed
    <2>3. k[1] = MEMORY_FD /\ k[2] = s
      BY <1>2
    <2>4. k[2] = h[k]
      BY <2>1, <2>2, <2>3 DEF Keyed
    <2> QED
      BY <2>2, <2>3, <2>4
  <1> QED
    BY <1>1, <1>2

\* Load keeps the invariant and does what Bind does.
LEMMA LoadStep ==
  ASSUME IInv, NEW s, Allocated(s), NEW k \in Keys, Load(k, s),
         Find(table, k) = HASHNOTFOUND \/ k = <<MEMORY_FD, s>>,
         k[1] = MEMORY_FD => k[2] = s
  PROVE  IInv' /\ Tables(Pool({}))' = Tables(BP!Bind(AllocPool(s), k, s))
  <1> DEFINE u == Used(lists) \cup {s}
             o == Fronted(lists, s)
             f == Free(lists) \ {s}
             h == Reads(AllocTable(s))
             g == [h EXCEPT ![k] = s]
             p == [key EXCEPT ![s] = k]
  <1>1. /\ Threaded(lists') /\ Used(lists') = u /\ Newer(lists') = o /\ Free(lists') = f
        /\ s \in Slots /\ Hash(k) \in Buckets
    BY DEF Allocated, Comes, Load
  <1>2. h[k] \notin Slots
    BY AllocMisses
  <1>3. Hashed(table') /\ Reads(table') = g
    <2>1. table' = HashInsert(AllocTable(s), k, s) /\ Hashed(AllocTable(s))
      BY DEF Load, Allocated
    <2> QED
      BY <1>1, <1>2, <2>1, HashedInsert
  <1>4. key' = p
    BY DEF Load
  <1>5. Used(lists) \cup Free(lists) = Slots /\ Used(lists) \subseteq Slots
    BY ThreadedLists DEF IInv
  <1>6. Keyed(u, p, g)
    <2> DEFINE r == Used(lists) \ {s}
    <2>1. r \in SUBSET Slots /\ s \notin r /\ r \cup {s} = u
      BY <1>5
    <2>2. Keyed(r, key, h)
      BY AllocKeyed
    <2>3. h \in [Keys -> Links]
      BY ReadsLinks DEF Allocated
    <2> HIDE DEF r, u, h
    <2>4. Keyed(r \cup {s}, p, g)
      BY <1>1, <1>2, <2>1, <2>2, <2>3, KeyedLoad
    <2> QED
      BY <2>1, <2>4
  <1>7. u \cup f = Slots
    BY <1>1, <1>5
  <1>8. AllocPool(s) = PoolOf(u, o, f, key, h)
    BY DEF Allocated
  <1> HIDE DEF u, o, f, h
  <1>9. Tables(BP!Bind(PoolOf(u, o, f, key, h), k, s)) = TablesOf(u, o, f, p, g)
    BY PoolBinds
  <1> HIDE DEF p, g
  <1>10. Tables(Pool({}))' = TablesOf(u, o, f, p, g)
    BY <1>1, <1>3, <1>4, TablesNext
  <1>11. IInv'
    BY <1>1, <1>3, <1>4, <1>6, <1>7 DEF IInv
  <1> QED
    BY <1>8, <1>9, <1>10, <1>11

\* So does a read that fails, which releases the slot again.
LEMMA FailedMissStep ==
  ASSUME IInv, NEW s, Allocated(s), NEW n, FailedMiss(n, s)
  PROVE  IInv' /\ Tables(Pool({}))' = Tables(BP!Release(AllocPool(s), {s}))
  <1> DEFINE l == AllocLists(s)
             u == Used(lists) \cup {s}
             o == Fronted(lists, s)
             f == Free(lists) \ {s}
             h == Reads(AllocTable(s))
  <1>1. /\ Threaded(l) /\ Used(l) = u /\ Newer(l) = o /\ Free(l) = f
        /\ s \in Slots /\ s \in u
    BY DEF Allocated, Comes
  <1>2. lists' = InsertFree(Unlink(l, s), s) /\ table' = AllocTable(s) /\ key' = key
    BY DEF FailedMiss
  <1>3. Used(lists) \cup Free(lists) = Slots /\ Used(lists) \subseteq Slots
    BY ThreadedLists DEF IInv
  <1>4. u \ {s} = Used(lists) \ {s} /\ (u \ {s}) \cup (f \cup {s}) = Slots
    BY <1>1, <1>3
  <1>5. Keyed(Used(lists) \ {s}, key, h) /\ Hashed(AllocTable(s))
    BY AllocKeyed DEF Allocated
  <1>6. AllocPool(s) = PoolOf(u, o, f, key, h)
    BY DEF Allocated
  <1> HIDE DEF l, u, o, f, h
  <1>7. Comes(lists', u \ {s}, Outside(o, {s}), f \cup {s})
    BY <1>1, <1>2, ReleaseComes
  <1>8. Reads(table') = h
    BY <1>2 DEF h
  <1>9. Tables(BP!Release(PoolOf(u, o, f, key, h), {s}))
          = TablesOf(u \ {s}, Outside(o, {s}), f \cup {s}, key, h)
    BY PoolReleases
  <1>10. Tables(Pool({}))' = TablesOf(u \ {s}, Outside(o, {s}), f \cup {s}, key, h)
    BY <1>2, <1>7, <1>8, TablesNext DEF Comes
  <1>11. IInv'
    BY <1>2, <1>4, <1>5, <1>7, <1>8 DEF IInv, Comes
  <1> QED
    BY <1>6, <1>9, <1>10, <1>11

\* A page that is found becomes the most recent one.
LEMMA PromoteStep ==
  ASSUME IInv, NEW k \in Keys, Promote(k)
  PROVE  IInv' /\ Tables(Pool({}))' = Tables(BP!Promote(Pool({}), Find(table, k)))
  <1> DEFINE s == Find(table, k)
             u == Used(lists)
             o == Fronted(lists, s)
             f == Free(lists)
             h == Reads(table)
  <1>1. s \in u
    <2>1. h[k] = s /\ h[k] \in Links /\ s # INVALID_SLOT
      BY ReadsLinks DEF Reads, Promote, HASHNOTFOUND, INVALID_SLOT, IInv
    <2>2. h[k] \in Slots
      BY <2>1, NoSlotIsInvalid
    <2> QED
      BY <2>1, <2>2 DEF IInv, Keyed
  <1>2. lists' = LinkHead(Unlink(lists, s), s) /\ table' = table /\ key' = key
    BY DEF Promote
  <1>3. Comes(lists', u, o, f)
    BY <1>1, <1>2, PromoteComes DEF IInv, Fronted
  <1> HIDE DEF s
  <1>4. Tables(BP!Promote(Pool({}), s)) = TablesOf(u, o, f, key, h)
    <2> DEFINE r == Newer(lists)
    <2> HIDE DEF u, f, h, r
    <2>1. Tables(BP!Promote(PoolOf(u, r, f, key, h), s))
            = TablesOf(u, Outside(r, {s}) \cup Ahead(s, u \ {s}), f, key, h)
      BY <1>1, PoolPromotes
    <2> QED
      BY <2>1, PoolIs DEF u, f, h, r, Fronted
  <1>5. Tables(Pool({}))' = TablesOf(u, o, f, key, h)
    BY <1>2, <1>3, TablesNext DEF Comes
  <1>6. IInv'
    BY <1>2, <1>3 DEF IInv, Comes
  <1> QED
    BY <1>4, <1>5, <1>6 DEF s

\* The scans release the slots of a set, wherever they are in the list.
LEMMA ReleaseStep ==
  ASSUME IInv, NEW S \in SUBSET Used(lists), Release(S)
  PROVE  /\ IInv'
         /\ Tables(Pool({}))' =
              Tables(BP!Release(BP!HashDelete(Pool({}), {key[s] : s \in S}), S))
  <1> DEFINE u == Used(lists)
             o == Newer(lists)
             f == Free(lists)
             K == {key[s] : s \in S}
             h == Reads(table)
  <1>1. lists' = ReleaseAll(lists, S) /\ table' = DeleteAll(table, key, S) /\ key' = key
    BY DEF Release, DeleteAll
  <1>2. u \in SUBSET Slots /\ S \subseteq Slots /\ S \in SUBSET u /\ u \cup f = Slots
    BY ThreadedLists DEF IInv
  <1>3. Comes(lists', u \ S, Outside(o, S), f \cup S)
    BY <1>1, ReleaseAllComes DEF IInv
  <1>4. Hashed(table') /\ Reads(table') = Without(h, K)
    <2>1. \A s \in S : key[s] \in Keys /\ Hash(key[s]) \in Buckets
      BY UsedHashed
    <2>2. Hashed(table)
      BY DEF IInv
    <2> QED
      BY <1>1, <1>2, <2>1, <2>2, HashedDeletes
  <1>5. Keyed(u \ S, key, Without(h, K))
    <2>1. h \in [Keys -> Links] /\ Keyed(u, key, h)
      BY ReadsLinks DEF IInv
    <2> QED
      BY <1>2, <2>1, KeyedDrop
  <1>6. Pool({}) = PoolOf(u, o, f, key, h)
    BY PoolIs
  <1>7. (u \ S) \cup (f \cup S) = Slots
    BY <1>2
  <1> HIDE DEF u, o, f, K, h
  <1>8. BP!HashDelete(PoolOf(u, o, f, key, h), K) = PoolOf(u, o, f, key, Without(h, K))
    BY PoolDeletes
  <1>9. Tables(BP!Release(PoolOf(u, o, f, key, Without(h, K)), S))
          = TablesOf(u \ S, Outside(o, S), f \cup S, key, Without(h, K))
    BY PoolReleases
  <1>10. Tables(Pool({}))' = TablesOf(u \ S, Outside(o, S), f \cup S, key, Without(h, K))
    BY <1>1, <1>3, <1>4, TablesNext DEF Comes
  <1>11. IInv'
    BY <1>1, <1>3, <1>4, <1>5, <1>7 DEF IInv, Comes
  <1> QED
    BY <1>6, <1>8, <1>9, <1>10, <1>11 DEF K

\* Every call keeps the invariant and does what BufferPool's operator does.
LEMMA NextStep ==
  ASSUME IInv, Next
  PROVE  IInv' /\ StepActsAsPool
  <1>1. ASSUME NEW s \in AllocSlots, NEW n \in 0 .. MaxPages - 1, Miss(n, s)
        PROVE  IInv' /\ Tables(Pool({}))' = Tables(BP!Bind(AllocPool(s), <<Fd, n>>, s))
    <2> DEFINE k == <<Fd, n>>
    <2>1. /\ k \in Keys /\ Load(k, s) /\ Find(table, k) = HASHNOTFOUND
          /\ (k[1] = MEMORY_FD => k[2] = s)
      BY <1>1, PoolTablesAssumption DEF Miss, Keys, FileKeys, MEMORY_FD
    <2>2. Allocated(s)
      BY AllocSlotsAllocate
    <2> HIDE DEF k
    <2>3. IInv' /\ Tables(Pool({}))' = Tables(BP!Bind(AllocPool(s), k, s))
      BY <2>1, <2>2, LoadStep
    <2> QED
      BY <2>3 DEF k
  <1>2. ASSUME NEW s \in AllocSlots, NEW n \in 0 .. MaxPages - 1, FailedMiss(n, s)
        PROVE  IInv' /\ Tables(Pool({}))' = Tables(BP!Release(AllocPool(s), {s}))
    BY <1>2, AllocSlotsAllocate, FailedMissStep
  <1>3. ASSUME NEW s \in AllocSlots, NewBlock(s)
        PROVE  IInv' /\ Tables(Pool({}))' = Tables(BP!Bind(AllocPool(s), <<MEMORY_FD, s>>, s))
    <2> DEFINE k == <<MEMORY_FD, s>>
    <2>1. Allocated(s)
      BY AllocSlotsAllocate
    <2>2. k \in Keys /\ Load(k, s) /\ (k[1] = MEMORY_FD => k[2] = s)
      BY <1>3, <2>1 DEF NewBlock, Keys, BlockKeys, Allocated
    <2>3. k = <<MEMORY_FD, s>>
      OBVIOUS
    <2> HIDE DEF k
    <2>4. IInv' /\ Tables(Pool({}))' = Tables(BP!Bind(AllocPool(s), k, s))
      BY <2>1, <2>2, <2>3, LoadStep
    <2> QED
      BY <2>4 DEF k
  <1>4. CASE \E s \in AllocSlots :
               \/ \E n \in 0 .. MaxPages - 1 : Miss(n, s) \/ FailedMiss(n, s)
               \/ NewBlock(s)
    <2>1. \E s \in AllocSlots :
            \/ \E n \in 0 .. MaxPages - 1 :
                 \/ /\ Miss(n, s)
                    /\ Tables(Pool({}))' = Tables(BP!Bind(AllocPool(s), <<Fd, n>>, s))
                 \/ /\ FailedMiss(n, s)
                    /\ Tables(Pool({}))' = Tables(BP!Release(AllocPool(s), {s}))
            \/ /\ NewBlock(s)
               /\ Tables(Pool({}))' = Tables(BP!Bind(AllocPool(s), <<MEMORY_FD, s>>, s))
      BY <1>1, <1>2, <1>3, <1>4, Zenon
    <2>2. IInv'
      BY <1>1, <1>2, <1>3, <1>4
    <2> QED
      BY <2>1, <2>2, Zenon DEF StepActsAsPool, AllocPool
  <1>5. CASE \E k \in Keys : Promote(k)
    BY <1>5, PromoteStep DEF StepActsAsPool
  <1>6. CASE \E S \in SUBSET Used(lists) : Release(S)
    BY <1>6, ReleaseStep DEF StepActsAsPool
  <1> QED
    BY <1>4, <1>5, <1>6 DEF Next

----------------------------------------------------------------------------
\* The invariant holds in every state: whatever is loaded, promoted, evicted,
\* released or not read, next and prev thread the same used list, next the
\* free list, every slot is on one of the two, and the chains hold an entry
\* for the page of each used slot and no other.
THEOREM AlwaysIInv == Spec => []IInv
  <1>1. IInv /\ [Next]_vars => IInv'
    <2> SUFFICES ASSUME IInv, [Next]_vars PROVE IInv'
      OBVIOUS
    <2>1. CASE Next
      BY <2>1, NextStep
    <2>2. CASE UNCHANGED vars
      BY <2>2 DEF vars, IInv
    <2> QED
      BY <2>1, <2>2
  <1> QED
    BY InitIInv, <1>1, PTL DEF Spec

\* Every link is a slot or INVALID_SLOT, the free list ends, and every chain
\* holds keys and slots.
THEOREM TypeCorrect == Spec => []TypeOK
  <1>1. IInv => TypeOK
    <2> SUFFICES ASSUME IInv PROVE TypeOK
      OBVIOUS
    <2>1. lists \in Lists /\ Walk(lists.next, lists.free)[NumPages] = INVALID_SLOT
      BY ThreadedLists DEF IInv
    <2>2. table \in [Buckets -> Seq([key : Keys, slot : Slots])]
      BY DEF IInv, Hashed, Represents, Tabs, Entries
    <2>3. key \in [Slots -> Keys \cup {NoKey}]
      BY DEF IInv, Keyed
    <2> QED
      BY <2>1, <2>2, <2>3 DEF TypeOK
  <1> QED
    BY AlwaysIInv, <1>1, PTL

\* Find leads to each page on the used list, and every entry of a chain, in
\* the bucket Find looks in and not shadowed by another, names the page of a
\* slot on it.
THEOREM ChainsAgree == Spec => []ChainsMatchLists
  <1>1. IInv => ChainsMatchLists
    <2> SUFFICES ASSUME IInv PROVE ChainsMatchLists
      OBVIOUS
    <2>1. \A s \in Used(lists) : Find(table, key[s]) = s
      BY UsedHashed
    <2>2. ASSUME NEW b \in Buckets, NEW i \in DOMAIN table[b]
          PROVE  /\ table[b][i].slot \in Used(lists)
                 /\ table[b][i].key = key[table[b][i].slot]
                 /\ Hash(table[b][i].key) = b
                 /\ IndexIn(table[b], table[b][i].key) = i
      <3> DEFINE c == table[b]
                 h == Reads(table)
      <3>1. c \in Seq(Entries) /\ Distinct(c)
        BY DEF IInv, Hashed, Represents, Tabs
      <3>2. i \in 1 .. Len(c)
        BY <3>1
      <3>3. Hash(c[i].key) = b /\ h[c[i].key] = c[i].slot
        BY <3>2 DEF IInv, Hashed, Represents
      <3>4. c[i] \in Entries
        BY <3>1, <3>2
      <3>5. c[i].key \in Keys /\ c[i].slot \in Slots
        BY <3>4 DEF Entries
      <3>6. IndexIn(c, c[i].key) = i
        BY <3>1, <3>2, IndexInAt
      <3> HIDE DEF c, h
      <3>7. h[c[i].key] \in Used(lists) /\ key[h[c[i].key]] = c[i].key
        BY <3>3, <3>5 DEF IInv, Keyed, h
      <3> QED
        BY <3>3, <3>6, <3>7 DEF c
    <2> QED
      BY <2>1, <2>2 DEF ChainsMatchLists
  <1> QED
    BY AlwaysIInv, <1>1, PTL

\* The slot that the scan back from last finds is an unpinned one with no
\* unpinned slot less recently used, and there is none only when every slot
\* is pinned.
THEOREM VictimIsLeastRecent == Spec => []EvictsLeastRecent
  <1>1. IInv => EvictsLeastRecent
    <2> SUFFICES ASSUME IInv, lists.free = INVALID_SLOT, NEW pinned \in SUBSET Used(lists)
                 PROVE  BP!Choices(Pool(pinned)) = {AllocSlot(pinned)}
      BY DEF EvictsLeastRecent
    <2> DEFINE b == Pool(pinned)
               open == Used(lists) \ pinned
               v == FirstUnpinned(lists, pinned)
    <2>1. Threaded(lists) /\ Free(lists) = {} /\ Used(lists) \subseteq Slots
      BY ThreadedLists DEF IInv
    <2>2. b.free = {} /\ b.newer = Newer(lists) /\ b.used = Used(lists)
      BY <2>1 DEF Pool
    <2>3. BP!Unpinned(b) = open
      <3>1. \A s \in Slots : b.pin[s] = IF s \in pinned THEN 1 ELSE 0
        BY DEF Pool
      <3> HIDE DEF b
      <3> QED
        BY <2>1, <2>2, <3>1 DEF BP!Unpinned
    <2>4. AllocSlot(pinned) = v
      BY DEF AllocSlot
    <2>5. /\ v \in open \cup {INVALID_SLOT}
          /\ {s \in open : \A t \in open : <<s, t>> \notin Newer(lists)} = {v} \cap Slots
      BY <2>1, VictimComes
    <2> HIDE DEF b, open, v
    <2>6. BP!Candidates(b) = {v} \cap Slots
      BY <2>2, <2>3, <2>5 DEF BP!Candidates, BP!Victims
    <2>7. v \in Slots \/ v = INVALID_SLOT
      BY <2>1, <2>5 DEF open
    <2>8. BP!Choices(b) = {v}
      BY <2>6, <2>7, NoSlotIsInvalid DEF BP!Choices
    <2> QED
      BY <2>4, <2>8 DEF b
  <1> QED
    BY AlwaysIInv, <1>1, PTL

\* Every call does to the links and the chains what BufferPool's operator does
\* to its sets and its map.
THEOREM ActsLikePool == Spec => ActsAsPool
  <1>1. IInv /\ [Next]_vars => [StepActsAsPool]_vars
    BY NextStep
  <1> QED
    BY AlwaysIInv, <1>1, PTL DEF Spec, ActsAsPool
=============================================================================

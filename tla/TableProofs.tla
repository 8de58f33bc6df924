---------------------------- MODULE TableProofs ----------------------------
(***************************************************************************)
(* A table of any number of columns and pages, with as many rows as the    *)
(* leaf of an index has room for (IndexesAreLeaves), in a session that     *)
(* stays clear of what the code does not do.  Columns are worked on one    *)
(* after the other and share nothing, so that they agree only because each *)
(* makes the same of the same calls: Alike(f, g) says that two record      *)
(* files have the same free slots on the same chain, and every call keeps  *)
(* that.  An index is exact because record file and index change together: *)
(* Indexed(f, ix) is kept by each pair of calls of a statement.            *)
(***************************************************************************)
EXTENDS Table, FileProofs, SequenceTheorems

\* An entry of an index, and an index in the order of its keys.
EntrySpace == [key : Vals, rid : RidSpace]
Ascending(ix) ==
  /\ ix \in Seq(EntrySpace)
  /\ \A i, j \in DOMAIN ix : i < j => ix[i].key <= ix[j].key /\ ix[i] # ix[j]

----------------------------------------------------------------------------
\* What holds at 0, and at each number up to n if at the one before, holds up to n.
LEMMA UpTo ==
  ASSUME NEW n \in Nat, NEW T, 0 \in T, \A k \in 1 .. n : k - 1 \in T => k \in T
  PROVE  \A k \in 0 .. n : k \in T
<1> DEFINE Not == {k \in 0 .. n : k \notin T}
<1>1. ASSUME NEW m \in Not PROVE FALSE
  <2>1. Not \in SUBSET Nat /\ Not # {}
    BY <1>1
  <2> HIDE DEF Not
  <2>2. PICK k \in Not : \A j \in Not : k <= j
    BY <2>1, LeastMember
  <2> USE DEF Not
  <2>3. k \in 0 .. n /\ k # 0
    BY <2>2
  <2>4. k - 1 \in 0 .. n /\ ~(k <= k - 1)
    BY <2>3
  <2>5. k - 1 \in T
    BY <2>2, <2>4
  <2> QED
    BY <2>2, <2>3, <2>5
<1> QED
  BY <1>1

\* The largest of the first k numbers and of a set that has k.
LEMMA MaxOfFirst ==
  ASSUME NEW k \in Nat, NEW s \in SUBSET (1 .. k), k \in s
  PROVE  Max(s) = k
<1>1. \A y \in s : k >= y
  OBVIOUS
<1>2. \A x \in s : (\A y \in s : x >= y) => x = k
  OBVIOUS
<1> QED
  BY <1>1, <1>2 DEF Max

\* An element put into a sequence moves those behind it up by one.
LEMMA InsertedAt ==
  ASSUME NEW S, NEW s \in Seq(S), NEW i \in 1 .. Len(s) + 1, NEW e \in S
  PROVE  /\ InsertAt(s, i, e) \in Seq(S)
         /\ Len(InsertAt(s, i, e)) = Len(s) + 1
         /\ \A j \in 1 .. Len(s) + 1 :
              InsertAt(s, i, e)[j] = IF j < i THEN s[j] ELSE IF j = i THEN e ELSE s[j - 1]
<1> DEFINE n == Len(s)
           a == SubSeq(s, 1, i - 1)
           b == SubSeq(s, i, n)
           c == a \o <<e>>
<1>1. n \in Nat /\ i \in 1 .. n + 1 /\ \A j \in 1 .. n : s[j] \in S
  BY LenProperties, ElementOfSeq
<1>2. a \in Seq(S) /\ Len(a) = i - 1 /\ \A j \in 1 .. i - 1 : a[j] = s[j]
  <2>1. 1 \in Int /\ i - 1 \in Int /\ \A j \in 1 .. i - 1 : s[j] \in S
    BY <1>1
  <2> QED
    BY <2>1, <1>1, SubSeqProperties
<1>3. b \in Seq(S) /\ Len(b) = n - i + 1 /\ \A j \in 1 .. n - i + 1 : b[j] = s[i + j - 1]
  <2>1. i \in Int /\ n \in Int /\ \A j \in i .. n : s[j] \in S
    BY <1>1
  <2> QED
    BY <2>1, <1>1, SubSeqProperties
<1>4. <<e>> \in Seq(S) /\ Len(<<e>>) = 1 /\ <<e>>[1] = e
  OBVIOUS
<1> HIDE DEF n, a, b
<1>5. c \in Seq(S) /\ Len(c) = i /\ \A j \in 1 .. i : c[j] = IF j < i THEN s[j] ELSE e
  <2>1. /\ c \in Seq(S) /\ Len(c) = Len(a) + 1
        /\ \A j \in 1 .. Len(a) + 1 : c[j] = IF j <= Len(a) THEN a[j] ELSE <<e>>[j - Len(a)]
    BY <1>2, <1>4, ConcatProperties
  <2> HIDE DEF c
  <2>2. ASSUME NEW j \in 1 .. i PROVE c[j] = IF j < i THEN s[j] ELSE e
    <3>1. CASE j < i
      BY <3>1, <2>1, <1>2
    <3>2. CASE j = i
      <4>1. c[j] = <<e>>[j - Len(a)]
        BY <3>2, <2>1, <1>2
      <4>2. j - Len(a) = 1
        BY <3>2, <1>2
      <4> QED
        BY <3>2, <4>1, <4>2, <1>4
    <3> QED
      BY <3>1, <3>2, <1>1
  <2> QED
    BY <2>1, <2>2, <1>2
<1> HIDE DEF c
<1>6. /\ c \o b \in Seq(S) /\ Len(c \o b) = n + 1
      /\ \A j \in 1 .. n + 1 : (c \o b)[j] = IF j <= i THEN c[j] ELSE b[j - i]
  <2>1. Len(c) + Len(b) = n + 1
    BY <1>1, <1>3, <1>5
  <2>2. \A j \in 1 .. Len(c) + Len(b) : (c \o b)[j] = IF j <= Len(c) THEN c[j] ELSE b[j - Len(c)]
    BY <1>3, <1>5, ConcatProperties
  <2>3. c \o b \in Seq(S) /\ Len(c \o b) = Len(c) + Len(b)
    BY <1>3, <1>5, ConcatProperties
  <2> QED
    BY <2>1, <2>2, <2>3, <1>5
<1>7. ASSUME NEW j \in 1 .. n + 1
      PROVE  (c \o b)[j] = IF j < i THEN s[j] ELSE IF j = i THEN e ELSE s[j - 1]
  <2>1. CASE j <= i
    BY <2>1, <1>5, <1>6
  <2>2. CASE ~(j <= i)
    <3>1. j - i \in 1 .. n - i + 1 /\ i + (j - i) - 1 = j - 1
      BY <2>2, <1>1
    <3>2. b[j - i] = s[i + (j - i) - 1]
      BY <3>1, <1>3
    <3>3. ~(j < i) /\ j # i
      BY <2>2, <1>1
    <3> QED
      BY <2>2, <3>1, <3>2, <3>3, <1>6
  <2> QED
    BY <2>1, <2>2
<1>8. InsertAt(s, i, e) = c \o b
  BY DEF InsertAt, a, b, c, n
<1> QED
  BY <1>6, <1>7, <1>8 DEF n

\* One taken out moves those behind it down.
LEMMA RemovedAt ==
  ASSUME NEW S, NEW s \in Seq(S), NEW i \in 1 .. Len(s)
  PROVE  /\ RemoveAt(s, i) \in Seq(S)
         /\ Len(RemoveAt(s, i)) = Len(s) - 1
         /\ \A j \in 1 .. Len(s) - 1 : RemoveAt(s, i)[j] = IF j < i THEN s[j] ELSE s[j + 1]
<1> DEFINE n == Len(s)
           a == SubSeq(s, 1, i - 1)
           b == SubSeq(s, i + 1, n)
<1>1. n \in Nat /\ i \in 1 .. n /\ \A j \in 1 .. n : s[j] \in S
  BY LenProperties, ElementOfSeq
<1>2. a \in Seq(S) /\ Len(a) = i - 1 /\ \A j \in 1 .. i - 1 : a[j] = s[j]
  <2>1. 1 \in Int /\ i - 1 \in Int /\ \A j \in 1 .. i - 1 : s[j] \in S
    BY <1>1
  <2> QED
    BY <2>1, <1>1, SubSeqProperties
<1>3. b \in Seq(S) /\ Len(b) = n - i /\ \A j \in 1 .. n - i : b[j] = s[i + j]
  <2>1. i + 1 \in Int /\ n \in Int /\ \A j \in i + 1 .. n : s[j] \in S
    BY <1>1
  <2>2. /\ b \in Seq(S) /\ Len(b) = IF i + 1 <= n THEN n - (i + 1) + 1 ELSE 0
        /\ \A j \in 1 .. n - (i + 1) + 1 : b[j] = s[(i + 1) + j - 1]
    BY <2>1, SubSeqProperties
  <2> HIDE DEF b
  <2> QED
    BY <2>2, <1>1
<1> HIDE DEF n, a, b
<1>4. /\ a \o b \in Seq(S) /\ Len(a \o b) = n - 1
      /\ \A j \in 1 .. n - 1 : (a \o b)[j] = IF j <= i - 1 THEN a[j] ELSE b[j - (i - 1)]
  <2>1. Len(a) + Len(b) = n - 1
    BY <1>1, <1>2, <1>3
  <2> QED
    BY <2>1, <1>2, <1>3, ConcatProperties
<1>5. ASSUME NEW j \in 1 .. n - 1
      PROVE  (a \o b)[j] = IF j < i THEN s[j] ELSE s[j + 1]
  <2>1. CASE j < i
    BY <2>1, <1>1, <1>2, <1>4
  <2>2. CASE ~(j < i)
    <3>1. j - (i - 1) \in 1 .. n - i /\ i + (j - (i - 1)) = j + 1
      BY <2>2, <1>1
    <3>2. b[j - (i - 1)] = s[i + (j - (i - 1))]
      BY <3>1, <1>3
    <3>3. ~(j <= i - 1)
      BY <2>2, <1>1
    <3> QED
      BY <2>2, <3>1, <3>2, <3>3, <1>4
  <2> QED
    BY <2>1, <2>2
<1>6. RemoveAt(s, i) = a \o b
  BY DEF RemoveAt, a, b, n
<1> QED
  BY <1>4, <1>5, <1>6 DEF n

----------------------------------------------------------------------------
\* FindKey splits an index at k: what is before it is smaller, and what is from
\* there on is not.
LEMMA FindKeySplits ==
  ASSUME NEW ix, Ascending(ix), NEW k \in Nat
  PROVE  /\ Index!FindKey(ix, k) \in 1 .. Len(ix) + 1
         /\ \A i \in 1 .. Len(ix) : i < Index!FindKey(ix, k) <=> ix[i].key < k
<1> DEFINE n == Len(ix)
           P(i) == (i = n + 1 \/ ix[i].key >= k) /\ \A j \in 1 .. i - 1 : ix[j].key < k
           T == {i \in 1 .. n + 1 : i = n + 1 \/ ix[i].key >= k}
<1>1. n \in Nat /\ DOMAIN ix = 1 .. n /\ \A i \in 1 .. n : ix[i].key \in Nat
  <2>1. ix \in Seq(EntrySpace)
    BY DEF Ascending
  <2>2. \A i \in 1 .. n : ix[i] \in EntrySpace
    BY <2>1, ElementOfSeq
  <2> QED
    BY <2>1, <2>2, LenProperties, TableAssumption DEF EntrySpace
<1>2. PICK i \in T : \A j \in T : i <= j
  <2>1. T \in SUBSET Nat /\ n + 1 \in T
    BY <1>1
  <2> HIDE DEF T
  <2> QED
    BY <2>1, LeastMember
<1>3. P(i) /\ i \in 1 .. n + 1
  <2>1. ASSUME NEW j \in 1 .. i - 1 PROVE ix[j].key < k
    <3>1. j \in 1 .. n /\ ~(i <= j)
      BY <1>1, <2>1
    <3>2. j \notin T
      BY <1>2, <3>1
    <3> QED
      BY <1>1, <3>1, <3>2
  <2> QED
    BY <1>2, <2>1
<1> DEFINE f == Index!FindKey(ix, k)
<1>4. P(f) /\ f \in 1 .. n + 1
  <2>1. f = CHOOSE x \in 1 .. n + 1 : P(x)
    BY DEF Index!FindKey
  <2> HIDE DEF P, f
  <2> QED
    BY <1>3, <2>1
<1> HIDE DEF f
<1>5. ASSUME NEW j \in 1 .. n PROVE j < f <=> ix[j].key < k
  <2>1. CASE j < f
    <3>1. j \in 1 .. f - 1
      BY <1>1, <1>4, <2>1
    <3> QED
      BY <1>4, <2>1, <3>1
  <2>2. CASE ~(j < f)
    <3>1. f \in 1 .. n /\ ix[f].key >= k
      BY <1>1, <1>4, <2>2
    <3>2. ix[f].key <= ix[j].key
      <4>1. CASE f = j
        BY <4>1, <1>1
      <4>2. CASE f # j
        <5>1. f < j
          BY <1>1, <1>4, <2>2, <4>2
        <5> QED
          BY <1>1, <3>1, <5>1 DEF Ascending
      <4> QED
        BY <4>1, <4>2
    <3>3. ix[f].key \in Nat /\ ix[j].key \in Nat
      BY <1>1, <3>1
    <3>4. ~(ix[j].key < k)
      BY <3>1, <3>2, <3>3
    <3> QED
      BY <2>2, <3>4
  <2> QED
    BY <2>1, <2>2
<1> QED
  BY <1>4, <1>5 DEF f

\* The entries of an index are its positions; no two are equal.
LEMMA EntriesOn ==
  ASSUME NEW ix, Ascending(ix)
  PROVE  /\ Len(ix) \in Nat /\ DOMAIN ix = 1 .. Len(ix)
         /\ \A i \in 1 .. Len(ix) :
              /\ ix[i] \in EntrySpace /\ ix[i].key \in Nat
              /\ ix[i] \in Index!Entries(ix)
         /\ \A e \in Index!Entries(ix) : \E i \in 1 .. Len(ix) : e = ix[i]
         /\ \A i, j \in 1 .. Len(ix) : ix[i] = ix[j] => i = j
         /\ \A i, j \in 1 .. Len(ix) : i < j => ix[i].key <= ix[j].key
<1>1. ix \in Seq(EntrySpace)
  BY DEF Ascending
<1>2. Len(ix) \in Nat /\ DOMAIN ix = 1 .. Len(ix) /\ \A i \in 1 .. Len(ix) : ix[i] \in EntrySpace
  BY <1>1, LenProperties, ElementOfSeq
<1>3. \A i \in 1 .. Len(ix) : ix[i].key \in Nat
  BY <1>2, TableAssumption DEF EntrySpace
<1>4. Index!Entries(ix) = {ix[i] : i \in 1 .. Len(ix)}
  BY <1>2 DEF Index!Entries
<1>5. ASSUME NEW i \in 1 .. Len(ix), NEW j \in 1 .. Len(ix), ix[i] = ix[j] PROVE i = j
  <2>1. ~(i < j) /\ ~(j < i)
    BY <1>2, <1>5 DEF Ascending
  <2> QED
    BY <2>1
<1>6. \A i, j \in 1 .. Len(ix) : i < j => ix[i].key <= ix[j].key
  BY <1>2 DEF Ascending
<1> QED
  BY <1>2, <1>3, <1>4, <1>5, <1>6

\* InsertEntry adds an entry that is not there, in its place.
LEMMA EntryInserted ==
  ASSUME NEW ix, Ascending(ix), NEW k \in Vals, NEW rid \in RidSpace,
         Index!Entry(k, rid) \notin Index!Entries(ix)
  PROVE  /\ Ascending(Index!InsertEntry(ix, k, rid))
         /\ Index!Entries(Index!InsertEntry(ix, k, rid)) = Index!Entries(ix) \cup {Index!Entry(k, rid)}
<1> DEFINE n == Len(ix)
           f == Index!FindKey(ix, k)
           e == Index!Entry(k, rid)
           t == Index!InsertEntry(ix, k, rid)
<1>1. /\ n \in Nat /\ DOMAIN ix = 1 .. n
      /\ \A i \in 1 .. n : ix[i] \in EntrySpace /\ ix[i].key \in Nat
      /\ \A i, j \in 1 .. n : i < j => ix[i].key <= ix[j].key /\ ix[i] # ix[j]
  BY EntriesOn DEF Ascending
<1>2. k \in Nat /\ e \in EntrySpace /\ e.key = k
  BY TableAssumption DEF Index!Entry, EntrySpace
<1>3. f \in 1 .. n + 1 /\ \A i \in 1 .. n : i < f <=> ix[i].key < k
  BY <1>2, FindKeySplits
<1>4. /\ t \in Seq(EntrySpace) /\ Len(t) = n + 1
      /\ \A j \in 1 .. n + 1 : t[j] = IF j < f THEN ix[j] ELSE IF j = f THEN e ELSE ix[j - 1]
  <2>1. ix \in Seq(EntrySpace)
    BY DEF Ascending
  <2>2. t = InsertAt(ix, f, e)
    BY DEF Index!InsertEntry, InsertAt
  <2>3. e \in EntrySpace /\ f \in 1 .. Len(ix) + 1
    BY <1>2, <1>3
  <2> HIDE DEF t, e, f
  <2>4. /\ InsertAt(ix, f, e) \in Seq(EntrySpace)
        /\ Len(InsertAt(ix, f, e)) = Len(ix) + 1
        /\ \A j \in 1 .. Len(ix) + 1 :
             InsertAt(ix, f, e)[j] = IF j < f THEN ix[j] ELSE IF j = f THEN e ELSE ix[j - 1]
    BY <2>1, <2>3, InsertedAt
  <2> QED
    BY <2>2, <2>4
<1>5. DOMAIN t = 1 .. n + 1
  BY <1>4, LenProperties
<1>6. Index!Entries(ix) = {ix[i] : i \in 1 .. n} /\ Index!Entries(t) = {t[i] : i \in 1 .. n + 1}
  BY <1>1, <1>5 DEF Index!Entries
<1> HIDE DEF t, e, f, n
<1>7. \A i \in 1 .. n : ix[i] # e
  BY <1>6 DEF e
<1>8. \A i \in 1 .. n : i >= f => k <= ix[i].key
  BY <1>1, <1>2, <1>3
<1>9. ASSUME NEW i \in 1 .. n + 1, NEW j \in 1 .. n + 1, i < j
      PROVE  t[i].key <= t[j].key /\ t[i] # t[j]
  <2>1. CASE i < f /\ j < f
    BY <1>1, <1>3, <1>4, <1>9, <2>1
  <2>2. CASE i < f /\ j = f
    <3>1. t[i] = ix[i] /\ t[j] = e /\ i \in 1 .. n
      BY <1>1, <1>3, <1>4, <2>2
    <3> QED
      BY <1>1, <1>2, <1>3, <1>7, <2>2, <3>1
  <2>3. CASE i < f /\ j > f
    <3>1. t[i] = ix[i] /\ t[j] = ix[j - 1] /\ i \in 1 .. n /\ j - 1 \in 1 .. n /\ i < j - 1
      BY <1>1, <1>3, <1>4, <2>3
    <3> QED
      BY <1>1, <3>1
  <2>4. CASE i = f
    <3>1. t[i] = e /\ t[j] = ix[j - 1] /\ j - 1 \in 1 .. n /\ j - 1 >= f
      BY <1>1, <1>3, <1>4, <1>9, <2>4
    <3> QED
      BY <1>2, <1>7, <1>8, <3>1
  <2>5. CASE i > f
    <3>1. t[i] = ix[i - 1] /\ t[j] = ix[j - 1] /\ i - 1 \in 1 .. n /\ j - 1 \in 1 .. n /\ i - 1 < j - 1
      BY <1>1, <1>3, <1>4, <1>9, <2>5
    <3> QED
      BY <1>1, <3>1
  <2> QED
    BY <1>3, <2>1, <2>2, <2>3, <2>4, <2>5
<1>10. \A i \in 1 .. n : ix[i] \in Index!Entries(t)
  <2> TAKE i \in 1 .. n
  <2>1. CASE i < f
    <3>1. t[i] = ix[i] /\ i \in 1 .. n + 1
      BY <1>1, <1>4, <2>1
    <3> QED
      BY <1>6, <3>1
  <2>2. CASE ~(i < f)
    <3>1. i + 1 \in 1 .. n + 1 /\ ~(i + 1 < f) /\ i + 1 # f /\ (i + 1) - 1 = i
      BY <1>1, <1>3, <2>2
    <3>2. t[i + 1] = ix[i]
      BY <1>4, <3>1
    <3> QED
      BY <1>6, <3>1, <3>2
  <2> QED
    BY <2>1, <2>2
<1>11. e \in Index!Entries(t)
  <2>1. t[f] = e
    BY <1>3, <1>4
  <2> QED
    BY <1>3, <1>6, <2>1
<1>12. \A j \in 1 .. n + 1 : t[j] \in Index!Entries(ix) \cup {e}
  <2> TAKE j \in 1 .. n + 1
  <2>1. j < f => j \in 1 .. n
    BY <1>1, <1>3
  <2>2. ~(j < f) /\ j # f => j - 1 \in 1 .. n
    BY <1>1, <1>3
  <2> QED
    BY <1>4, <1>6, <2>1, <2>2
<1>13. Index!Entries(t) = Index!Entries(ix) \cup {e}
  BY <1>6, <1>10, <1>11, <1>12
<1>14. Ascending(t)
  BY <1>4, <1>5, <1>9 DEF Ascending
<1> QED
  BY <1>13, <1>14 DEF t, e

\* DeleteEntry removes the entry with its rid, when keys are as they were
\* inserted and no other entry has that rid.
LEMMA EntryDeleted ==
  ASSUME NEW ix, Ascending(ix), NEW k \in Vals, NEW rid,
         Index!Entry(k, rid) \in Index!Entries(ix),
         \A e \in Index!Entries(ix) : e.rid = rid => e = Index!Entry(k, rid)
  PROVE  /\ Index!From(ix, k, rid) # {}
         /\ Ascending(Index!DeleteEntry(ix, k, rid))
         /\ Index!Entries(Index!DeleteEntry(ix, k, rid)) = Index!Entries(ix) \ {Index!Entry(k, rid)}
<1> DEFINE n == Len(ix)
           e == Index!Entry(k, rid)
           t == Index!DeleteEntry(ix, k, rid)
<1>1. /\ n \in Nat /\ DOMAIN ix = 1 .. n
      /\ \A i \in 1 .. n : ix[i] \in EntrySpace /\ ix[i].key \in Nat
      /\ \A i, j \in 1 .. n : i < j => ix[i].key <= ix[j].key /\ ix[i] # ix[j]
      /\ \A i, j \in 1 .. n : ix[i] = ix[j] => i = j
      /\ Index!Entries(ix) = {ix[i] : i \in 1 .. n}
  BY EntriesOn DEF Ascending, Index!Entries
<1>2. k \in Nat /\ e.key = k /\ e.rid = rid
  BY TableAssumption DEF Index!Entry
<1>3. PICK p \in 1 .. n : ix[p] = e
  BY <1>1
<1>4. \A i \in 1 .. n : ix[i].rid = rid <=> i = p
  BY <1>1, <1>2, <1>3
<1>5. Index!From(ix, k, rid) = {p}
  <2>0. ~(ix[p].key < k)
    BY <1>2, <1>3
  <2>1. Index!FindKey(ix, k) \in 1 .. n + 1 /\ ~(p < Index!FindKey(ix, k))
    BY <1>2, <2>0, FindKeySplits
  <2>2. p \in Index!FindKey(ix, k) .. n /\ \A i \in Index!FindKey(ix, k) .. n : i \in 1 .. n
    BY <1>1, <2>1
  <2> QED
    BY <1>4, <2>2 DEF Index!From
<1>6. t = RemoveAt(ix, p)
  <2>1. t = Index!Without(ix, p)
    BY <1>5 DEF Index!DeleteEntry
  <2> QED
    BY <2>1 DEF Index!Without, RemoveAt
<1>7. /\ t \in Seq(EntrySpace) /\ Len(t) = n - 1
      /\ \A j \in 1 .. n - 1 : t[j] = IF j < p THEN ix[j] ELSE ix[j + 1]
  <2>1. ix \in Seq(EntrySpace)
    BY DEF Ascending
  <2> HIDE DEF t
  <2> QED
    BY <1>6, <2>1, RemovedAt
<1> HIDE DEF t, e, n
<1>8. DOMAIN t = 1 .. n - 1
  BY <1>7, LenProperties
<1>9. ASSUME NEW i \in 1 .. n - 1, NEW j \in 1 .. n - 1, i < j
      PROVE  t[i].key <= t[j].key /\ t[i] # t[j]
  <2> DEFINE a == IF i < p THEN i ELSE i + 1
             b == IF j < p THEN j ELSE j + 1
  <2>1. a \in 1 .. n /\ b \in 1 .. n /\ a < b
    BY <1>1, <1>9
  <2>2. t[i] = ix[a] /\ t[j] = ix[b]
    BY <1>7
  <2> HIDE DEF a, b
  <2> QED
    BY <1>1, <2>1, <2>2
<1>10. Index!Entries(t) = {t[j] : j \in 1 .. n - 1}
  BY <1>8 DEF Index!Entries
<1>11. \A j \in 1 .. n - 1 : t[j] \in Index!Entries(ix) \ {e}
  <2> TAKE j \in 1 .. n - 1
  <2> DEFINE b == IF j < p THEN j ELSE j + 1
  <2>1. b \in 1 .. n /\ b # p
    BY <1>1
  <2>2. t[j] = ix[b]
    BY <1>7
  <2> HIDE DEF b
  <2> QED
    BY <1>1, <1>3, <2>1, <2>2
<1>12. \A i \in 1 .. n : i # p => ix[i] \in Index!Entries(t)
  <2> TAKE i \in 1 .. n
  <2> HAVE i # p
  <2> DEFINE j == IF i < p THEN i ELSE i - 1
  <2>1. j \in 1 .. n - 1 /\ i = IF j < p THEN j ELSE j + 1
    BY <1>1
  <2> HIDE DEF j
  <2>2. t[j] = ix[i]
    BY <1>7, <2>1
  <2> QED
    BY <1>10, <2>1, <2>2
<1>13. Index!Entries(t) = Index!Entries(ix) \ {e}
  BY <1>1, <1>3, <1>10, <1>11, <1>12
<1>14. Ascending(t)
  BY <1>7, <1>8, <1>9 DEF Ascending
<1> QED
  BY <1>5, <1>13, <1>14 DEF t, e

----------------------------------------------------------------------------
\* The largest of a set of the first k numbers is one of them, and what is left
\* when k is taken out are some of the first k - 1.
LEMMA WithoutLast ==
  ASSUME NEW k \in Nat \ {0}, NEW s \in SUBSET (1 .. k)
  PROVE  /\ k \in s => Max(s) = k /\ s \ {k} \in SUBSET (1 .. k - 1)
         /\ k \notin s => s \in SUBSET (1 .. k - 1)
<1>1. k \in s => Max(s) = k
  BY MaxOfFirst
<1> QED
  BY <1>1

\* The entries of a scan, one after the other.
Selected(es, op, v) == Index!FoldLeft(LAMBDA got, e : Index!Taken(got, e, op, v), <<>>, es)

IsSelection(g, es, n, op, v) ==
  /\ g[0] = <<>>
  /\ \A k \in 1 .. n : g[k] = Index!Taken(g[k - 1], es[k], op, v)
  /\ g[n] = Selected(es, op, v)

\* The fold of a scan has a sequence of partial results, one for each entry.
LEMMA SelectedStepwise ==
  ASSUME NEW op, NEW v, NEW n \in Nat, NEW es, DOMAIN es = 1 .. n
  PROVE  \E g : IsSelection(g, es, n, op, v)
<1> DEFINE Step(w, i) == Index!Taken(w, es[i], op, v)
           Solves(w, k) == w = [s \in SUBSET (1 .. k) |->
                                  IF s = {} THEN <<>> ELSE Step(w[s \ {Max(s)}], Max(s))]
           T == {k \in 0 .. n : \E w : Solves(w, k)}
<1>1. 0 \in T
  <2> DEFINE w == [s \in SUBSET (1 .. 0) |-> <<>>]
  <2>1. SUBSET (1 .. 0) = {{}}
    OBVIOUS
  <2>2. Solves(w, 0)
    <3> HIDE DEF Step
    <3> QED
      BY <2>1
  <2>3. 0 \in 0 .. n /\ \E w0 : Solves(w0, 0)
    <3> HIDE DEF Solves
    <3> QED
      BY <2>2
  <2> HIDE DEF Solves, w
  <2> QED
    BY <2>3
<1>2. ASSUME NEW k \in 1 .. n, k - 1 \in T PROVE k \in T
  <2>1. PICK w : Solves(w, k - 1)
    BY <1>2
  <2> HIDE DEF Step
  <2>2. \A s \in SUBSET (1 .. k - 1) : w[s] = IF s = {} THEN <<>> ELSE Step(w[s \ {Max(s)}], Max(s))
    BY <2>1
  <2> HIDE DEF Solves, T
  <2> DEFINE u == [s \in SUBSET (1 .. k) |-> IF k \in s THEN Step(w[s \ {k}], k) ELSE w[s]]
  <2>3. ASSUME NEW s \in SUBSET (1 .. k)
        PROVE  u[s] = IF s = {} THEN <<>> ELSE Step(u[s \ {Max(s)}], Max(s))
    <3>1. CASE k \in s
      <4>1. Max(s) = k /\ s \ {k} \in SUBSET (1 .. k - 1) /\ k \notin s \ {k}
        BY <3>1, WithoutLast
      <4>2. s \ {k} \in SUBSET (1 .. k)
        OBVIOUS
      <4>3. u[s \ {k}] = w[s \ {k}]
        BY <4>1, <4>2
      <4>4. u[s] = Step(w[s \ {k}], k)
        BY <3>1
      <4> QED
        BY <3>1, <4>1, <4>3, <4>4
    <3>2. CASE k \notin s
      <4>1. s \in SUBSET (1 .. k - 1)
        BY <3>2, WithoutLast
      <4>2. u[s] = w[s]
        BY <3>2
      <4>3. s \ {Max(s)} \in SUBSET (1 .. k) /\ k \notin s \ {Max(s)}
        BY <3>2
      <4>4. u[s \ {Max(s)}] = w[s \ {Max(s)}]
        BY <4>3
      <4> QED
        BY <2>2, <4>1, <4>2, <4>4
    <3> QED
      BY <3>1, <3>2
  <2>4. u = [s \in SUBSET (1 .. k) |-> IF s = {} THEN <<>> ELSE Step(u[s \ {Max(s)}], Max(s))]
    <3> DEFINE r == [s \in SUBSET (1 .. k) |-> IF s = {} THEN <<>> ELSE Step(u[s \ {Max(s)}], Max(s))]
    <3>1. \A s \in SUBSET (1 .. k) : u[s] = r[s]
      BY <2>3
    <3> QED
      BY <3>1
  <2>5. Solves(u, k)
    BY <2>4 DEF Solves
  <2> QED
    BY <2>5 DEF T
<1>3. n \in T
  <2> HIDE DEF T
  <2> QED
    BY <1>1, <1>2, UpTo
<1> DEFINE w == CHOOSE u : Solves(u, n)
<1>4. Solves(w, n)
  <2>1. \E u : Solves(u, n)
    BY <1>3
  <2> HIDE DEF Solves
  <2> QED
    BY <2>1
<1>5. Selected(es, op, v) = w[1 .. n]
  BY DEF Selected, Index!FoldLeft, Index!MapThenFoldSet, Index!Max, Max
<1> HIDE DEF w, T
<1>6. \A s \in SUBSET (1 .. n) : w[s] = IF s = {} THEN <<>> ELSE Step(w[s \ {Max(s)}], Max(s))
  <2> HIDE DEF Step
  <2> QED
    BY <1>4
<1> DEFINE g == [k \in 0 .. n |-> w[1 .. k]]
<1>7. g[0] = <<>>
  <2>1. 1 .. 0 = {} /\ 0 \in 0 .. n
    OBVIOUS
  <2> QED
    BY <1>6, <2>1
<1>8. ASSUME NEW k \in 1 .. n PROVE g[k] = Index!Taken(g[k - 1], es[k], op, v)
  <2>0. k \in Nat /\ 1 .. k \in SUBSET (1 .. k) /\ k \in 1 .. k
    OBVIOUS
  <2>4. Max(1 .. k) = k
    BY <2>0, MaxOfFirst
  <2>1. Max(1 .. k) = k /\ (1 .. k) \ {k} = 1 .. k - 1 /\ 1 .. k # {}
    BY <2>0, <2>4
  <2>2. g[k] = w[1 .. k] /\ g[k - 1] = w[1 .. k - 1]
    OBVIOUS
  <2>3. 1 .. k \in SUBSET (1 .. n)
    OBVIOUS
  <2> QED
    BY <1>6, <2>1, <2>2, <2>3
<1>9. Selected(es, op, v) = g[n]
  BY <1>5
<1> HIDE DEF g
<1> QED
  BY <1>7, <1>8, <1>9 DEF IsSelection

\* got is what a scan took of the first k entries: those that satisfy the
\* condition, each once.
Picked(got, es, k, op, v) ==
  /\ got \in Seq(EntrySpace)
  /\ \A a \in 1 .. Len(got) : \E i \in 1 .. k : got[a] = es[i] /\ Index!Satisfies(es[i].key, op, v)
  /\ \A i \in 1 .. k : Index!Satisfies(es[i].key, op, v) => \E a \in 1 .. Len(got) : got[a] = es[i]
  /\ \A a, b \in 1 .. Len(got) : got[a] = got[b] => a = b

\* A scan that has picked what it should stays so with the next entry.
LEMMA PickedNext ==
  ASSUME NEW op, NEW v, NEW es \in Seq(EntrySpace),
         \A i, j \in 1 .. Len(es) : es[i] = es[j] => i = j,
         NEW k \in 1 .. Len(es), NEW got, Picked(got, es, k - 1, op, v)
  PROVE  Picked(Index!Taken(got, es[k], op, v), es, k, op, v)
<1> DEFINE e == es[k]
           t == Index!Taken(got, e, op, v)
<1>0. /\ Len(es) \in Nat /\ k \in 1 .. Len(es) /\ e \in EntrySpace
      /\ got \in Seq(EntrySpace) /\ Len(got) \in Nat
  BY LenProperties, ElementOfSeq DEF Picked
<1>1. CASE ~Index!Satisfies(e.key, op, v)
  <2>1. t = got
    BY <1>1 DEF Index!Taken
  <2>2. ASSUME NEW a \in 1 .. Len(got)
        PROVE  \E i \in 1 .. k : got[a] = es[i] /\ Index!Satisfies(es[i].key, op, v)
    <3>1. PICK i \in 1 .. k - 1 : got[a] = es[i] /\ Index!Satisfies(es[i].key, op, v)
      BY DEF Picked
    <3>2. i \in 1 .. k
      BY <1>0
    <3> QED
      BY <3>1, <3>2
  <2>3. ASSUME NEW i \in 1 .. k, Index!Satisfies(es[i].key, op, v)
        PROVE  \E a \in 1 .. Len(got) : got[a] = es[i]
    <3>1. i # k
      BY <1>1, <2>3
    <3>2. i \in 1 .. k - 1
      BY <1>0, <3>1
    <3> QED
      BY <2>3, <3>2 DEF Picked
  <2>4. Picked(got, es, k, op, v)
    BY <2>2, <2>3 DEF Picked
  <2> QED
    BY <2>1, <2>4
<1>2. CASE Index!Satisfies(e.key, op, v)
  <2> DEFINE m == Len(got)
  <2>1. t = Append(got, e)
    BY <1>2 DEF Index!Taken
  <2>2. /\ t \in Seq(EntrySpace) /\ Len(t) = m + 1 /\ t[m + 1] = e
        /\ \A a \in 1 .. m : t[a] = got[a]
    BY <1>0, <2>1, AppendProperties
  <2> HIDE DEF t
  <2>3. ASSUME NEW a \in 1 .. m
        PROVE  \E i \in 1 .. k - 1 : t[a] = es[i] /\ Index!Satisfies(es[i].key, op, v)
    BY <2>2 DEF Picked
  <2> HIDE DEF e
  <2>4. ASSUME NEW a \in 1 .. m + 1
        PROVE  \E i \in 1 .. k : t[a] = es[i] /\ Index!Satisfies(es[i].key, op, v)
    <3>1. CASE a = m + 1
      <4>1. t[a] = es[k] /\ Index!Satisfies(es[k].key, op, v) /\ k \in 1 .. k
        BY <1>0, <1>2, <2>2, <3>1 DEF e
      <4> QED
        BY <4>1
    <3>2. CASE a \in 1 .. m
      <4>1. PICK i \in 1 .. k - 1 : t[a] = es[i] /\ Index!Satisfies(es[i].key, op, v)
        BY <2>3, <3>2
      <4>2. i \in 1 .. k
        BY <1>0
      <4> QED
        BY <4>1, <4>2
    <3> QED
      BY <1>0, <3>1, <3>2
  <2>5. ASSUME NEW i \in 1 .. k, Index!Satisfies(es[i].key, op, v)
        PROVE  \E a \in 1 .. m + 1 : t[a] = es[i]
    <3>1. CASE i = k
      <4>1. m + 1 \in 1 .. m + 1 /\ t[m + 1] = es[i]
        BY <1>0, <2>2, <3>1 DEF e
      <4> QED
        BY <4>1
    <3>2. CASE i # k
      <4>1. i \in 1 .. k - 1
        BY <1>0, <3>2
      <4>2. PICK a \in 1 .. m : got[a] = es[i]
        BY <2>5, <4>1 DEF Picked
      <4>3. a \in 1 .. m + 1 /\ t[a] = es[i]
        BY <1>0, <2>2, <4>2
      <4> QED
        BY <4>3
    <3> QED
      BY <3>1, <3>2
  <2>6. \A a \in 1 .. m : t[a] # e
    <3> TAKE a \in 1 .. m
    <3>1. PICK i \in 1 .. k - 1 : t[a] = es[i]
      BY <2>3
    <3>2. i \in 1 .. Len(es) /\ i # k
      BY <1>0
    <3> QED
      BY <3>1, <3>2 DEF e
  <2>7. ASSUME NEW a \in 1 .. m + 1, NEW b \in 1 .. m + 1, t[a] = t[b] PROVE a = b
    <3>1. (a = m + 1 \/ a \in 1 .. m) /\ (b = m + 1 \/ b \in 1 .. m)
      BY <1>0
    <3>2. CASE a \in 1 .. m /\ b \in 1 .. m
      BY <2>2, <2>7, <3>2 DEF Picked
    <3> QED
      BY <2>2, <2>6, <2>7, <3>1, <3>2
  <2>8. Picked(t, es, k, op, v)
    BY <2>2, <2>4, <2>5, <2>7 DEF Picked
  <2> QED
    BY <2>8 DEF t, e
<1> QED
  BY <1>1, <1>2

\* A scan of a sequence of different entries.
LEMMA SelectedPicks ==
  ASSUME NEW op, NEW v, NEW es \in Seq(EntrySpace),
         \A i, j \in 1 .. Len(es) : es[i] = es[j] => i = j
  PROVE  Picked(Selected(es, op, v), es, Len(es), op, v)
<1> DEFINE n == Len(es)
<1>1. n \in Nat /\ DOMAIN es = 1 .. n
  BY LenProperties
<1>2. PICK g : IsSelection(g, es, n, op, v)
  BY <1>1, SelectedStepwise
<1> DEFINE T == {k \in 0 .. n : Picked(g[k], es, k, op, v)}
<1>3. 0 \in T
  <2>1. g[0] \in Seq(EntrySpace) /\ 1 .. Len(g[0]) = {} /\ 1 .. 0 = {}
    BY <1>2 DEF IsSelection
  <2>2. Picked(g[0], es, 0, op, v)
    BY <2>1 DEF Picked
  <2> QED
    BY <1>1, <2>2
<1>4. ASSUME NEW k \in 1 .. n, k - 1 \in T PROVE k \in T
  <2>1. Picked(Index!Taken(g[k - 1], es[k], op, v), es, k, op, v)
    BY <1>4, PickedNext
  <2>2. Picked(g[k], es, k, op, v)
    BY <1>2, <2>1 DEF IsSelection
  <2> QED
    BY <2>2
<1>5. n \in T
  <2> HIDE DEF T, n
  <2>1. \A k \in 0 .. n : k \in T
    BY <1>1, <1>3, <1>4, UpTo
  <2> QED
    BY <1>1, <2>1
<1> QED
  BY <1>2, <1>5 DEF IsSelection

\* es is a part of an index in which no entry is twice and none is missing that
\* satisfies the condition.
Covers(es, ix, op, v) ==
  /\ es \in Seq(EntrySpace)
  /\ \A i, j \in 1 .. Len(es) : es[i] = es[j] => i = j
  /\ \A i \in 1 .. Len(es) : es[i] \in Index!Entries(ix)
  /\ \A e \in Index!Entries(ix) : Index!Satisfies(e.key, op, v) => \E i \in 1 .. Len(es) : es[i] = e

\* From the first position that is not below v to the right.
LEMMA RightwardCovers ==
  ASSUME NEW ix, Ascending(ix), ix # <<>>, NEW op \in {"EQ", "GE"}, NEW v \in Nat
  PROVE  Covers(Index!Rightward(ix, v), ix, op, v)
<1> DEFINE n  == Len(ix)
           st == Index!Start(ix, v)
           es == Index!Rightward(ix, v)
<1>1. /\ n \in Nat /\ \A i \in 1 .. n : ix[i] \in EntrySpace /\ ix[i].key \in Nat /\ ix[i] \in Index!Entries(ix)
      /\ \A e \in Index!Entries(ix) : \E i \in 1 .. n : e = ix[i]
      /\ \A i, j \in 1 .. n : ix[i] = ix[j] => i = j
  BY EntriesOn
<1>2. n # 0
  <2>1. ix \in Seq(EntrySpace)
    BY DEF Ascending
  <2> QED
    BY <2>1, EmptySeq
<1>3. st \in 1 .. n /\ \A i \in 1 .. n : i < st => ix[i].key < v
  <2>1. Index!FindKey(ix, v) \in 1 .. n + 1 /\ \A i \in 1 .. n : i < Index!FindKey(ix, v) <=> ix[i].key < v
    BY FindKeySplits
  <2> QED
    BY <1>1, <1>2, <2>1 DEF Index!Start
<1> HIDE DEF st, n
<1>4. /\ es \in Seq(EntrySpace) /\ Len(es) = n - st + 1
      /\ \A i \in 1 .. n - st + 1 : es[i] = ix[st + i - 1]
  <2>1. st \in Int /\ n \in Int /\ st <= n /\ \A i \in st .. n : ix[i] \in EntrySpace
    BY <1>1, <1>3
  <2>2. es = SubSeq(ix, st, n)
    BY DEF Index!Rightward, st, n
  <2> HIDE DEF es
  <2>3. /\ SubSeq(ix, st, n) \in Seq(EntrySpace)
        /\ Len(SubSeq(ix, st, n)) = IF st <= n THEN n - st + 1 ELSE 0
        /\ \A i \in 1 .. n - st + 1 : SubSeq(ix, st, n)[i] = ix[st + i - 1]
    BY <2>1, SubSeqProperties
  <2> QED
    BY <2>1, <2>2, <2>3
<1> HIDE DEF es
<1>5. \A i \in 1 .. Len(es) : st + i - 1 \in 1 .. n /\ es[i] = ix[st + i - 1]
  BY <1>1, <1>3, <1>4
<1>6. ASSUME NEW i \in 1 .. Len(es), NEW j \in 1 .. Len(es), es[i] = es[j] PROVE i = j
  <2> DEFINE a == st + i - 1
             b == st + j - 1
  <2>1. a \in 1 .. n /\ b \in 1 .. n /\ ix[a] = ix[b]
    BY <1>5, <1>6
  <2>2. a = b
    <3> HIDE DEF a, b
    <3> QED
      BY <1>1, <2>1
  <2> QED
    BY <1>3, <1>4, <2>2
<1>7. ASSUME NEW e \in Index!Entries(ix), Index!Satisfies(e.key, op, v)
      PROVE  \E i \in 1 .. Len(es) : es[i] = e
  <2>1. PICK i \in 1 .. n : e = ix[i]
    BY <1>1
  <2>2. ~(ix[i].key < v)
    <3>1. ix[i].key \in Nat
      BY <1>1
    <3>2. CASE op = "EQ"
      BY <1>7, <2>1, <3>1, <3>2 DEF Index!Satisfies
    <3>3. CASE op = "GE"
      <4>1. ix[i].key >= v
        BY <1>7, <2>1, <3>3 DEF Index!Satisfies
      <4> QED
        BY <3>1, <4>1
    <3> QED
      BY <3>2, <3>3
  <2>3. i - st + 1 \in 1 .. Len(es) /\ st + (i - st + 1) - 1 = i
    BY <1>1, <1>3, <1>4, <2>2
  <2>4. es[i - st + 1] = e
    BY <1>5, <2>1, <2>3
  <2> QED
    BY <2>3, <2>4
<1> QED
  BY <1>1, <1>4, <1>5, <1>6, <1>7 DEF Covers, es

\* From there to the left.
LEMMA LeftwardCovers ==
  ASSUME NEW ix, Ascending(ix), ix # <<>>, NEW v \in Nat
  PROVE  Covers(Index!Leftward(ix, v), ix, "LT", v)
<1> DEFINE n  == Len(ix)
           st == Index!Start(ix, v)
           es == Index!Leftward(ix, v)
           s  == SubSeq(ix, 1, st)
<1>1. /\ n \in Nat /\ \A i \in 1 .. n : ix[i] \in EntrySpace /\ ix[i].key \in Nat /\ ix[i] \in Index!Entries(ix)
      /\ \A e \in Index!Entries(ix) : \E i \in 1 .. n : e = ix[i]
      /\ \A i, j \in 1 .. n : ix[i] = ix[j] => i = j
  BY EntriesOn
<1>2. n # 0
  <2>1. ix \in Seq(EntrySpace)
    BY DEF Ascending
  <2> QED
    BY <2>1, EmptySeq
<1>3. st \in 1 .. n /\ \A i \in 1 .. n : ix[i].key < v => i <= st
  <2>1. Index!FindKey(ix, v) \in 1 .. n + 1 /\ \A i \in 1 .. n : i < Index!FindKey(ix, v) <=> ix[i].key < v
    BY FindKeySplits
  <2> QED
    BY <1>1, <1>2, <2>1 DEF Index!Start
<1> HIDE DEF st, n
<1>4. s \in Seq(EntrySpace) /\ Len(s) = st /\ \A i \in 1 .. st : s[i] = ix[i]
  <2>1. 1 \in Int /\ st \in Int /\ 1 <= st /\ \A i \in 1 .. st : ix[i] \in EntrySpace
    BY <1>1, <1>3
  <2>2. /\ s \in Seq(EntrySpace) /\ Len(s) = IF 1 <= st THEN st - 1 + 1 ELSE 0
        /\ \A i \in 1 .. st - 1 + 1 : s[i] = ix[1 + i - 1]
    BY <2>1, SubSeqProperties
  <2> HIDE DEF s
  <2> QED
    BY <2>1, <2>2
<1>5. es = [i \in 1 .. Len(s) |-> s[(Len(s) - i) + 1]]
  BY DEF Index!Leftward, Index!Reverse, s, st
<1> HIDE DEF es, s
<1>6. \A i \in 1 .. st : st - i + 1 \in 1 .. st /\ es[i] = ix[st - i + 1]
  BY <1>3, <1>4, <1>5
<1>7. es \in Seq(EntrySpace) /\ Len(es) = st
  <2>1. \A i \in 1 .. st : es[i] \in EntrySpace
    BY <1>1, <1>3, <1>6
  <2>2. es \in [1 .. st -> EntrySpace] /\ st \in Nat
    BY <1>3, <1>4, <1>5, <2>1
  <2>3. es \in Seq(EntrySpace)
    BY <2>2, SeqDef
  <2> QED
    BY <2>2, <2>3, LenProperties
<1>8. ASSUME NEW i \in 1 .. st, NEW j \in 1 .. st, es[i] = es[j] PROVE i = j
  <2>1. st - i + 1 \in 1 .. n /\ st - j + 1 \in 1 .. n
    BY <1>1, <1>3
  <2> DEFINE a == st - i + 1
             b == st - j + 1
  <2>2. a \in 1 .. n /\ b \in 1 .. n /\ ix[a] = ix[b]
    BY <1>6, <1>8, <2>1
  <2>3. a = b
    <3> HIDE DEF a, b
    <3> QED
      BY <1>1, <2>2
  <2> QED
    BY <1>3, <2>3
<1>9. \A i \in 1 .. st : es[i] \in Index!Entries(ix)
  <2> TAKE i \in 1 .. st
  <2>1. st - i + 1 \in 1 .. n
    BY <1>1, <1>3
  <2> QED
    BY <1>1, <1>6, <2>1
<1>10. ASSUME NEW e \in Index!Entries(ix), Index!Satisfies(e.key, "LT", v)
       PROVE  \E i \in 1 .. st : es[i] = e
  <2>1. PICK i \in 1 .. n : e = ix[i]
    BY <1>1
  <2>2. ix[i].key < v
    BY <1>10, <2>1 DEF Index!Satisfies
  <2>3. st - i + 1 \in 1 .. st /\ st - (st - i + 1) + 1 = i
    BY <1>1, <1>3, <2>2
  <2>4. es[st - i + 1] = e
    BY <1>6, <2>1, <2>3
  <2> QED
    BY <2>3, <2>4
<1>11. Covers(es, ix, "LT", v)
  BY <1>7, <1>8, <1>9, <1>10 DEF Covers
<1> QED
  BY <1>11 DEF es

\* A scan returns the rids of the entries that satisfy the condition, each once.
LEMMA ScanFinds ==
  ASSUME NEW ix, Ascending(ix), ix # <<>>, NEW op \in {"EQ", "GE", "LT"}, NEW v \in Nat,
         \A d, e \in Index!Entries(ix) : d.rid = e.rid => d = e
  PROVE  /\ Index!Scan(ix, op, v) \in Seq(RidSpace)
         /\ \A i, j \in 1 .. Len(Index!Scan(ix, op, v)) :
              Index!Scan(ix, op, v)[i] = Index!Scan(ix, op, v)[j] => i = j
         /\ ToSet(Index!Scan(ix, op, v)) = {e.rid : e \in {d \in Index!Entries(ix) : Index!Satisfies(d.key, op, v)}}
<1> DEFINE es == IF op \in {"LT", "LE"} THEN Index!Leftward(ix, v) ELSE Index!Rightward(ix, v)
           r  == Index!GetNextEntry(ix, op, v)
           t  == Index!Scan(ix, op, v)
<1>1. Covers(es, ix, op, v)
  BY LeftwardCovers, RightwardCovers
<1>2. r = Selected(es, op, v)
  BY DEF Index!GetNextEntry, Selected
<1>3. t = [i \in DOMAIN r |-> r[i].rid]
  BY DEF Index!Scan, Index!RidsOf
<1> HIDE DEF es, r, t
<1>4. es \in Seq(EntrySpace) /\ \A i, j \in 1 .. Len(es) : es[i] = es[j] => i = j
  BY <1>1 DEF Covers
<1>5. Picked(r, es, Len(es), op, v)
  BY <1>2, <1>4, SelectedPicks
<1> DEFINE m == Len(r)
<1>6. /\ r \in Seq(EntrySpace) /\ m \in Nat /\ DOMAIN r = 1 .. m
      /\ \A i \in 1 .. m : r[i] \in EntrySpace
  BY <1>5, LenProperties, ElementOfSeq DEF Picked
<1>7. \A a \in 1 .. m : r[a] \in Index!Entries(ix) /\ Index!Satisfies(r[a].key, op, v)
  BY <1>1, <1>5 DEF Picked, Covers
<1>8. \A e \in Index!Entries(ix) : Index!Satisfies(e.key, op, v) => \E a \in 1 .. m : r[a] = e
  BY <1>1, <1>5 DEF Picked, Covers
<1>9. \A a, b \in 1 .. m : r[a] = r[b] => a = b
  BY <1>5 DEF Picked
<1> HIDE DEF m
<1>10. t \in [1 .. m -> RidSpace] /\ \A a \in 1 .. m : t[a] = r[a].rid
  BY <1>3, <1>6 DEF EntrySpace
<1>11. t \in Seq(RidSpace) /\ Len(t) = m /\ DOMAIN t = 1 .. m
  <2>1. t \in Seq(RidSpace)
    BY <1>6, <1>10, SeqDef
  <2> QED
    BY <1>6, <1>10, <2>1, LenProperties
<1>12. \A a, b \in 1 .. m : t[a] = t[b] => a = b
  BY <1>7, <1>9, <1>10
<1>13. ToSet(t) = {e.rid : e \in {d \in Index!Entries(ix) : Index!Satisfies(d.key, op, v)}}
  <2>1. ToSet(t) = {t[a] : a \in 1 .. m}
    BY <1>11 DEF ToSet
  <2>2. \A a \in 1 .. m : t[a] \in {e.rid : e \in {d \in Index!Entries(ix) : Index!Satisfies(d.key, op, v)}}
    BY <1>7, <1>10
  <2>3. ASSUME NEW e \in Index!Entries(ix), Index!Satisfies(e.key, op, v)
        PROVE  e.rid \in {t[a] : a \in 1 .. m}
    BY <1>8, <1>10, <2>3
  <2> QED
    BY <2>1, <2>2, <2>3
<1> QED
  BY <1>11, <1>12, <1>13 DEF t

----------------------------------------------------------------------------
\* An index holds one entry for each record that is not NULL.
EntriesFor(f) == {Index!Entry(Rec(f, r), r) : r \in {q \in Used(f) : Rec(f, q) # Null}}
Indexed(f, ix) ==
  /\ Ascending(ix)
  /\ Index!Entries(ix) = EntriesFor(f)
  /\ Used(f) \subseteq RidSpace
  /\ \A r \in Used(f) : Rec(f, r) \in Vals

\* In an exact index each record that is not NULL has its entry, and each entry
\* its record; no two entries have the same rid.
LEMMA EntriesMeet ==
  ASSUME NEW f, NEW ix, Indexed(f, ix)
  PROVE  /\ \A r \in Used(f) : Rec(f, r) # Null => Index!Entry(Rec(f, r), r) \in Index!Entries(ix)
         /\ \A e \in Index!Entries(ix) : /\ e.rid \in Used(f) /\ Rec(f, e.rid) # Null
                                   /\ e = Index!Entry(Rec(f, e.rid), e.rid)
                                   /\ e.key = Rec(f, e.rid)
         /\ \A d, e \in Index!Entries(ix) : d.rid = e.rid => d = e
<1>1. \A r \in Used(f) : Rec(f, r) # Null => Index!Entry(Rec(f, r), r) \in Index!Entries(ix)
  BY DEF Indexed, EntriesFor
<1>2. ASSUME NEW e \in Index!Entries(ix)
      PROVE  /\ e.rid \in Used(f) /\ Rec(f, e.rid) # Null
             /\ e = Index!Entry(Rec(f, e.rid), e.rid)
             /\ e.key = Rec(f, e.rid)
  <2>1. PICK r \in Used(f) : Rec(f, r) # Null /\ e = Index!Entry(Rec(f, r), r)
    BY DEF Indexed, EntriesFor
  <2>2. e.rid = r /\ e.key = Rec(f, r)
    BY <2>1 DEF Index!Entry
  <2> QED
    BY <2>1, <2>2
<1>3. \A d, e \in Index!Entries(ix) : d.rid = e.rid => d = e
  BY <1>2
<1> QED
  BY <1>1, <1>2, <1>3

\* A record is stored with its key, or NULL without one.
LEMMA IndexedInsert ==
  ASSUME NEW f, NEW g, NEW ix, Indexed(f, ix), NEW v \in Vals, NEW rid \in RidSpace,
         rid \notin Used(f), Used(g) = Used(f) \cup {rid}, Rec(g, rid) = v,
         \A r \in Used(f) : Rec(g, r) = Rec(f, r)
  PROVE  Indexed(g, IF v = Null THEN ix ELSE Index!InsertEntry(ix, v, rid))
<1>1. Ascending(ix) /\ Index!Entries(ix) = EntriesFor(f)
  BY DEF Indexed
<1>2. /\ Used(g) \subseteq RidSpace
      /\ \A r \in Used(g) : Rec(g, r) \in Vals
  BY DEF Indexed
<1>3. CASE v = Null
  <2>1. EntriesFor(g) = EntriesFor(f)
    BY <1>3 DEF EntriesFor
  <2> QED
    BY <1>1, <1>2, <1>3, <2>1 DEF Indexed
<1>4. CASE v # Null
  <2> DEFINE t == Index!InsertEntry(ix, v, rid)
  <2>1. Index!Entry(v, rid) \notin Index!Entries(ix)
    BY EntriesMeet DEF Index!Entry
  <2>2. Ascending(t) /\ Index!Entries(t) = Index!Entries(ix) \cup {Index!Entry(v, rid)}
    BY <1>1, <2>1, EntryInserted
  <2>3. EntriesFor(g) = EntriesFor(f) \cup {Index!Entry(v, rid)}
    <3>1. ASSUME NEW e \in EntriesFor(g) PROVE e \in EntriesFor(f) \cup {Index!Entry(v, rid)}
      BY <3>1 DEF EntriesFor
    <3>2. EntriesFor(f) \subseteq EntriesFor(g)
      BY DEF EntriesFor
    <3>3. Index!Entry(v, rid) \in EntriesFor(g)
      BY <1>4 DEF EntriesFor
    <3> QED
      BY <3>1, <3>2, <3>3
  <2> HIDE DEF t
  <2>4. Indexed(g, t)
    BY <1>1, <1>2, <2>2, <2>3 DEF Indexed
  <2> QED
    BY <1>4, <2>4 DEF t
<1> QED
  BY <1>3, <1>4

\* A record leaves, and its key if it had one.
LEMMA IndexedDelete ==
  ASSUME NEW f, NEW g, NEW ix, Indexed(f, ix), NEW rid \in Used(f),
         Used(g) = Used(f) \ {rid},
         \A r \in Used(g) : Rec(g, r) = Rec(f, r)
  PROVE  /\ Rec(f, rid) # Null => Index!From(ix, Rec(f, rid), rid) # {}
         /\ Indexed(g, IF Rec(f, rid) = Null THEN ix ELSE Index!DeleteEntry(ix, Rec(f, rid), rid))
<1> DEFINE k == Rec(f, rid)
           e == Index!Entry(k, rid)
<1>1. Ascending(ix) /\ Index!Entries(ix) = EntriesFor(f)
  BY DEF Indexed
<1>2. /\ Used(g) \subseteq RidSpace
      /\ \A r \in Used(g) : Rec(g, r) \in Vals
      /\ k \in Vals
  BY DEF Indexed
<1>3. CASE k = Null
  <2>1. EntriesFor(g) = EntriesFor(f)
    BY <1>3 DEF EntriesFor
  <2> QED
    BY <1>1, <1>2, <1>3, <2>1 DEF Indexed
<1>4. CASE k # Null
  <2> DEFINE t == Index!DeleteEntry(ix, k, rid)
  <2>1. e \in Index!Entries(ix) /\ \A d \in Index!Entries(ix) : d.rid = rid => d = e
    BY <1>4, EntriesMeet
  <2>2. Index!From(ix, k, rid) # {} /\ Ascending(t) /\ Index!Entries(t) = Index!Entries(ix) \ {e}
    BY <1>1, <1>2, <2>1, EntryDeleted
  <2>3. EntriesFor(g) = EntriesFor(f) \ {e}
    <3>1. ASSUME NEW d \in EntriesFor(g) PROVE d \in EntriesFor(f) \ {e}
      <4>1. PICK r \in Used(g) : Rec(g, r) # Null /\ d = Index!Entry(Rec(g, r), r)
        BY <3>1 DEF EntriesFor
      <4>2. r \in Used(f) /\ r # rid /\ Rec(g, r) = Rec(f, r)
        OBVIOUS
      <4>3. d \in EntriesFor(f)
        BY <4>1, <4>2 DEF EntriesFor
      <4>4. d.rid = r /\ e.rid = rid
        BY <4>1 DEF Index!Entry
      <4> QED
        BY <4>2, <4>3, <4>4
    <3>2. ASSUME NEW d \in EntriesFor(f), d # e PROVE d \in EntriesFor(g)
      <4>1. PICK r \in Used(f) : Rec(f, r) # Null /\ d = Index!Entry(Rec(f, r), r)
        BY DEF EntriesFor
      <4>2. r \in Used(g) /\ Rec(g, r) = Rec(f, r)
        BY <3>2, <4>1
      <4> QED
        BY <4>1, <4>2 DEF EntriesFor
    <3> QED
      BY <3>1, <3>2
  <2> HIDE DEF t
  <2>4. Indexed(g, t)
    BY <1>1, <1>2, <2>2, <2>3 DEF Indexed
  <2> QED
    BY <1>4, <2>2, <2>4 DEF t
<1> QED
  BY <1>3, <1>4

----------------------------------------------------------------------------
\* Two record files in which the same slots are free, on the same chain.
PageAlike(a, b) ==
  /\ a.nextFree = b.nextFree /\ a.numFreeSlots = b.numFreeSlots
  /\ FreeSlots(a) = FreeSlots(b)
Alike(f, g) ==
  /\ f.hdr = g.hdr /\ f.diskHdr = g.diskHdr /\ f.bHdrChanged = g.bHdrChanged
  /\ Len(f.pages) = Len(g.pages)
  /\ \A p \in 1 .. Len(f.pages) : PageAlike(f.pages[p], g.pages[p])

\* Being alike is an equivalence.
LEMMA AlikeChains ==
  ASSUME NEW f, NEW g, NEW h, Alike(f, g), Alike(g, h)
  PROVE  Alike(f, h)
  BY DEF Alike, PageAlike

\* Alike is symmetric.
LEMMA AlikeBack ==
  ASSUME NEW f, NEW g, Alike(f, g)
  PROVE  Alike(g, f)
  BY DEF Alike, PageAlike

\* Such files use the same rids.
LEMMA AlikeUse ==
  ASSUME NEW N \in Nat \ {0}, NEW f, NEW g, FileSound(N, f), FileSound(N, g), Alike(f, g)
  PROVE  Used(f) = Used(g)
<1> DEFINE All == (1 .. Len(f.pages)) \X (0 .. N - 1)
<1>1. Used(f) = {r \in All : Rec(f, r) # Free} /\ Used(g) = {r \in All : Rec(g, r) # Free}
  BY RidsInUse DEF Alike
<1>2. ASSUME NEW p \in 1 .. Len(f.pages), NEW s \in 0 .. N - 1
      PROVE  f.pages[p].rec[s] = Free <=> g.pages[p].rec[s] = Free
  <2>1. f.pages[p] \in Page(N) /\ g.pages[p] \in Page(N) /\ PageAlike(f.pages[p], g.pages[p])
    BY PagesTyped DEF Alike
  <2>2. DOMAIN f.pages[p].rec = 0 .. N - 1 /\ DOMAIN g.pages[p].rec = 0 .. N - 1
    BY <2>1 DEF Page
  <2> QED
    BY <2>1, <2>2 DEF PageAlike, FreeSlots
<1>3. \A r \in All : Rec(f, r) = Free <=> Rec(g, r) = Free
  BY <1>2 DEF Rec
<1> QED
  BY <1>1, <1>3

\* The same change to the same page of both.
LEMMA AlikeReplaced ==
  ASSUME NEW N \in Nat \ {0}, NEW f, NEW g, FileSound(N, f), FileSound(N, g), Alike(f, g),
         NEW p \in 1 .. Len(f.pages), NEW a \in Page(N), NEW b \in Page(N), PageAlike(a, b), NEW h
  PROVE  Alike(Replaced(f, p, a, h), Replaced(g, p, b, h))
<1> DEFINE r == Replaced(f, p, a, h)
           q == Replaced(g, p, b, h)
<1>1. f \in File(N) /\ g \in File(N)
  BY DEF FileSound
<1>2. /\ r.hdr = h /\ r.diskHdr = f.diskHdr /\ r.bHdrChanged = f.bHdrChanged
      /\ r.pages = [f.pages EXCEPT ![p] = a]
      /\ q.hdr = h /\ q.diskHdr = g.diskHdr /\ q.bHdrChanged = g.bHdrChanged
      /\ q.pages = [g.pages EXCEPT ![p] = b]
  BY <1>1 DEF Replaced, File
<1> HIDE DEF r, q
<1>3. f.pages \in Seq(Page(N)) /\ g.pages \in Seq(Page(N)) /\ Len(g.pages) = Len(f.pages)
  BY PagesTyped DEF Alike
<1>4. /\ Len(r.pages) = Len(f.pages)
      /\ \A i \in 1 .. Len(f.pages) : r.pages[i] = IF i = p THEN a ELSE f.pages[i]
  BY <1>2, <1>3, ExceptSeq
<1>5. /\ Len(q.pages) = Len(f.pages)
      /\ \A i \in 1 .. Len(f.pages) : q.pages[i] = IF i = p THEN b ELSE g.pages[i]
  BY <1>2, <1>3, ExceptSeq
<1>6. \A i \in 1 .. Len(f.pages) : PageAlike(r.pages[i], q.pages[i])
  BY <1>4, <1>5 DEF Alike
<1>7. Alike(r, q)
  BY <1>2, <1>4, <1>5, <1>6 DEF Alike
<1> QED
  BY <1>7 DEF r, q

\* GetNextFreePage decides by the header and the counts.
LEMMA AlikeGrow ==
  ASSUME NEW N \in Nat \ {0}, NEW f, NEW g, FileSound(N, f), FileSound(N, g), Alike(f, g)
  PROVE  Alike(GetNextFreePage(f), GetNextFreePage(g))
<1> DEFINE n == Len(f.pages)
           e == EmptyPage(N, RM_PAGE_LIST_END)
<1>1. /\ f \in File(N) /\ g \in File(N) /\ n \in Nat /\ Len(g.pages) = n
      /\ f.pages \in Seq(Page(N)) /\ g.pages \in Seq(Page(N)) /\ f.slots = N /\ g.slots = N
  BY PagesTyped DEF FileSound, Alike
<1>2. NeedsPage(f) <=> NeedsPage(g)
  <2>1. f.hdr = g.hdr
    BY DEF Alike
  <2>2. f.hdr.firstFree \in {RM_PAGE_LIST_END} \cup 1 .. n
    BY DEF FileSound, HeaderSound
  <2>3. \A p \in 1 .. n : f.pages[p].numFreeSlots = g.pages[p].numFreeSlots
    BY DEF Alike, PageAlike
  <2> QED
    BY <2>1, <2>2, <2>3 DEF NeedsPage
<1>3. CASE ~NeedsPage(f)
  BY <1>2, <1>3 DEF GetNextFreePage
<1>4. CASE NeedsPage(f)
  <2> DEFINE r == AddPage(f)
             q == AddPage(g)
             h == [firstFree |-> n + 1, numPages |-> f.hdr.numPages + 1]
  <2>1. /\ r.hdr = h /\ r.diskHdr = f.diskHdr /\ r.bHdrChanged = TRUE /\ r.pages = Append(f.pages, e)
        /\ q.hdr = h /\ q.diskHdr = g.diskHdr /\ q.bHdrChanged = TRUE /\ q.pages = Append(g.pages, e)
    BY <1>1 DEF AddPage, File, Alike
  <2>2. e \in Page(N)
    BY EmptyPageSound DEF PageSound
  <2> HIDE DEF r, q, e
  <2>3. /\ Len(r.pages) = n + 1 /\ r.pages[n + 1] = e /\ \A i \in 1 .. n : r.pages[i] = f.pages[i]
        /\ Len(q.pages) = n + 1 /\ q.pages[n + 1] = e /\ \A i \in 1 .. n : q.pages[i] = g.pages[i]
    <3>1. ASSUME NEW s \in Seq(Page(N)), Len(s) = n
          PROVE  /\ Len(Append(s, e)) = n + 1 /\ Append(s, e)[n + 1] = e
                 /\ \A i \in 1 .. n : Append(s, e)[i] = s[i]
      BY <2>2, <3>1, AppendProperties
    <3>2. Len(f.pages) = n
      OBVIOUS
    <3> HIDE DEF n
    <3> QED
      BY <1>1, <2>1, <3>1, <3>2
  <2>4. ASSUME NEW i \in 1 .. n + 1 PROVE PageAlike(r.pages[i], q.pages[i])
    <3>1. CASE i = n + 1
      BY <2>3, <3>1 DEF PageAlike
    <3>2. CASE i \in 1 .. n
      BY <2>3, <3>2 DEF Alike
    <3> QED
      BY <1>1, <3>1, <3>2
  <2>5. Alike(r, q)
    BY <2>1, <2>3, <2>4 DEF Alike
  <2>6. GetNextFreePage(f) = r /\ GetNextFreePage(g) = q
    BY <1>2, <1>4 DEF GetNextFreePage, r, q
  <2> QED
    BY <2>5, <2>6
<1> QED
  BY <1>3, <1>4

\* InsertRec takes the same slot in both, and whatever it stores there the same
\* slots are left.
LEMMA AlikeFill ==
  ASSUME NEW N \in Nat \ {0}, NEW f, NEW g, FileSound(N, f), FileSound(N, g), Alike(f, g),
         NEW p \in 1 .. Len(f.pages), f.pages[p].numFreeSlots > 0,
         NEW s \in FreeSlots(f.pages[p]), NEW v \in Vals, NEW w \in Vals
  PROVE  Alike(Fill(f, p, s, v), Fill(g, p, s, w))
<1> DEFINE left == f.pages[p].numFreeSlots - 1
           next == f.pages[p].nextFree
           New(x, y) == [nextFree     |-> IF left = 0 THEN RM_PAGE_FULLY_USED ELSE next,
                         numFreeSlots |-> left,
                         rec          |-> Stored(x, s, y)]
           h == [f.hdr EXCEPT !.firstFree = IF left = 0 THEN next ELSE p]
           a == New(f.pages[p], v)
           b == New(g.pages[p], w)
<1>1. f.pages[p] \in Page(N) /\ g.pages[p] \in Page(N) /\ PageAlike(f.pages[p], g.pages[p])
  BY PagesTyped DEF Alike
<1>2. Fill(f, p, s, v) = Replaced(f, p, a, h)
  BY DEF Fill, Replaced, Stored
<1>3. Fill(g, p, s, w) = Replaced(g, p, b, h)
  <2>1. g.pages[p].nextFree = next /\ g.pages[p].numFreeSlots - 1 = left /\ g.hdr = f.hdr
    BY <1>1 DEF PageAlike, Alike
  <2> HIDE DEF next, left
  <2> QED
    BY <2>1 DEF Fill, Replaced, Stored
<1>4. left \in 0 .. N /\ next \in Int /\ RM_PAGE_FULLY_USED \in Int
  <2>1. f.pages[p].numFreeSlots \in 0 .. N /\ next \in Int
    BY <1>1 DEF Page
  <2>2. left \in 0 .. N
    BY <2>1
  <2> QED
    BY <2>1, <2>2 DEF RM_PAGE_FULLY_USED
<1>5. s \in 0 .. N - 1
  BY <1>1, FreeSlotsFinite
<1> HIDE DEF left, next
<1>6. ASSUME NEW x \in Page(N), NEW y \in Vals
      PROVE  New(x, y) \in Page(N) /\ FreeSlots(New(x, y)) = FreeSlots(x) \ {s}
  <2>1. x.rec \in [0 .. N - 1 -> Vals \cup {Free}]
    BY DEF Page
  <2>2. Stored(x, s, y) \in [0 .. N - 1 -> Vals \cup {Free}]
    BY <1>5, <2>1 DEF Stored
  <2>3. \A t \in 0 .. N - 1 : Stored(x, s, y)[t] = Free <=> x.rec[t] = Free /\ t # s
    BY <1>5, <2>1, RecordAssumption DEF Stored
  <2>4. New(x, y) \in Page(N)
    BY <1>4, <2>2 DEF Page
  <2>5. FreeSlots(New(x, y)) = {t \in 0 .. N - 1 : Stored(x, s, y)[t] = Free}
    BY <2>2 DEF FreeSlots
  <2>6. FreeSlots(x) = {t \in 0 .. N - 1 : x.rec[t] = Free}
    BY <2>1 DEF FreeSlots
  <2> QED
    BY <2>3, <2>4, <2>5, <2>6
<1>7. a \in Page(N) /\ b \in Page(N)
  BY <1>1, <1>6
<1>8. FreeSlots(a) = FreeSlots(b)
  BY <1>1, <1>6 DEF PageAlike
<1>9. PageAlike(a, b)
  BY <1>8 DEF PageAlike
<1> HIDE DEF a, b, h
<1> QED
  BY <1>2, <1>3, <1>7, <1>9, AlikeReplaced

\* InsertRec gives the same rid in two such files, whatever it stores, and leaves
\* them alike.
LEMMA AlikeInsert ==
  ASSUME NEW N \in Nat \ {0}, NEW f, NEW g, FileSound(N, f), FileSound(N, g), Alike(f, g),
         NEW v \in Vals, NEW w \in Vals
  PROVE  /\ InsertRid(f) = InsertRid(g)
         /\ Alike(InsertRec(f, v).file, InsertRec(g, w).file)
<1> DEFINE ff == GetNextFreePage(f)
           gg == GetNextFreePage(g)
           p  == ff.hdr.firstFree
           s  == First(FreeSlots(ff.pages[p]))
<1>1. Alike(ff, gg) /\ FileSound(N, ff) /\ FileSound(N, gg)
  BY AlikeGrow, NextFreePage
<1>2. p \in 1 .. Len(ff.pages) /\ ff.pages[p].numFreeSlots > 0 /\ s \in FreeSlots(ff.pages[p])
  BY InsertSound, NextFreePage
<1>3. gg.hdr.firstFree = p /\ FreeSlots(gg.pages[p]) = FreeSlots(ff.pages[p])
  BY <1>1, <1>2 DEF Alike, PageAlike
<1>4. InsertRec(f, v).file = Fill(ff, p, s, v)
  BY InsertSound DEF Return
<1>5. InsertRec(g, w).file = Fill(gg, p, s, w)
  BY <1>3, InsertSound DEF Return
<1>6. InsertRid(f) = InsertRid(g)
  BY <1>3 DEF InsertRid
<1> HIDE DEF ff, gg, p, s
<1>7. Alike(Fill(ff, p, s, v), Fill(gg, p, s, w))
  BY <1>1, <1>2, AlikeFill
<1> QED
  BY <1>4, <1>5, <1>6, <1>7

\* DeleteRec frees the same slot of both.
LEMMA AlikeDelete ==
  ASSUME NEW N \in Nat \ {0}, NEW f, NEW g, FileSound(N, f), FileSound(N, g), Alike(f, g),
         NEW rid \in Used(f)
  PROVE  Alike(DeleteRec(f, rid).file, DeleteRec(g, rid).file)
<1> DEFINE p == rid[1]
           s == rid[2]
           count == f.pages[p].numFreeSlots
           next  == IF count = 0 THEN f.hdr.firstFree ELSE f.pages[p].nextFree
           New(x) == [nextFree     |-> next,
                      numFreeSlots |-> count + 1,
                      rec          |-> Stored(x, s, Free)]
           h == [f.hdr EXCEPT !.firstFree = IF count = 0 THEN p ELSE f.hdr.firstFree]
           a == New(f.pages[p])
           b == New(g.pages[p])
<1>0. Used(g) = Used(f) /\ rid \in RidSpace
  <2>1. Used(g) = Used(f)
    BY AlikeUse
  <2> QED
    BY <2>1, RidsInUse DEF RidSpace
<1>1. /\ p \in 1 .. Len(f.pages) /\ s \in 0 .. N - 1
      /\ f.pages[p].rec[s] # Free /\ g.pages[p].rec[s] # Free
  BY <1>0, RidsInUse DEF Rec
<1>2. f.pages[p] \in Page(N) /\ g.pages[p] \in Page(N) /\ PageAlike(f.pages[p], g.pages[p])
  BY <1>1, PagesTyped DEF Alike
<1>3. HasRec(f, rid) /\ HasRec(g, rid)
  BY <1>0, RidsInUse
<1>4. DeleteRec(f, rid).file = Clear(f, p, s) /\ DeleteRec(g, rid).file = Clear(g, p, s)
  BY <1>3 DEF HasRec, DeleteRec, Return
<1>5. Clear(f, p, s) = Replaced(f, p, a, h)
  BY DEF Clear, Replaced, Stored
<1>6. Clear(g, p, s) = Replaced(g, p, b, h)
  <2>1. g.pages[p].nextFree = f.pages[p].nextFree /\ g.pages[p].numFreeSlots = count /\ g.hdr = f.hdr
    BY <1>2 DEF PageAlike, Alike
  <2> HIDE DEF count, p, s
  <2> QED
    BY <2>1 DEF Clear, Replaced, Stored
<1>7. count + 1 \in 0 .. N /\ next \in Int
  <2>1. PageSound(N, f.pages[p], Len(f.pages))
    BY <1>1 DEF FileSound
  <2>2. f.pages[p].numFreeSlots + 1 \in 0 .. N
    BY <1>1, <1>2, <2>1, FreedSlots DEF PageSound
  <2>3. f.hdr.firstFree \in Int
    BY DEF FileSound, HeaderSound, Header
  <2> QED
    BY <1>2, <2>2, <2>3 DEF Page
<1> HIDE DEF count, next
<1>8. ASSUME NEW x \in Page(N)
      PROVE  New(x) \in Page(N) /\ FreeSlots(New(x)) = FreeSlots(x) \cup {s}
  <2>1. x.rec \in [0 .. N - 1 -> Vals \cup {Free}]
    BY DEF Page
  <2>2. Stored(x, s, Free) \in [0 .. N - 1 -> Vals \cup {Free}]
    BY <1>1, <2>1 DEF Stored
  <2>3. \A t \in 0 .. N - 1 : Stored(x, s, Free)[t] = Free <=> x.rec[t] = Free \/ t = s
    BY <1>1, <2>1, RecordAssumption DEF Stored
  <2>4. New(x) \in Page(N)
    BY <1>7, <2>2 DEF Page
  <2>5. FreeSlots(New(x)) = {t \in 0 .. N - 1 : Stored(x, s, Free)[t] = Free}
    BY <2>2 DEF FreeSlots
  <2>6. FreeSlots(x) = {t \in 0 .. N - 1 : x.rec[t] = Free}
    BY <2>1 DEF FreeSlots
  <2> HIDE DEF New, s
  <2> QED
    BY <1>1, <2>3, <2>4, <2>5, <2>6
<1>9. a \in Page(N) /\ b \in Page(N)
  BY <1>2, <1>8
<1>10. FreeSlots(a) = FreeSlots(b)
  BY <1>2, <1>8 DEF PageAlike
<1>11. PageAlike(a, b)
  BY <1>10 DEF PageAlike
<1> HIDE DEF a, b, h, p, s
<1> QED
  BY <1>1, <1>4, <1>5, <1>6, <1>9, <1>11, AlikeReplaced

\* UpdateRec of a record changes no slot that is free.
LEMMA AlikeUpdate ==
  ASSUME NEW N \in Nat \ {0}, NEW f, FileSound(N, f), NEW rid \in Used(f), NEW v \in Vals
  PROVE  Alike(f, UpdateRec(f, rid, v).file)
<1> DEFINE p == rid[1]
           s == rid[2]
           a == f.pages[p]
           b == [a EXCEPT !.rec = [a.rec EXCEPT ![s] = v]]
<1>0. rid \in RidSpace
  BY RidsInUse DEF RidSpace
<1>1. p \in 1 .. Len(f.pages) /\ s \in 0 .. N - 1 /\ a.rec[s] # Free
  BY RidsInUse DEF Rec
<1>2. a \in Page(N)
  BY <1>1, PagesTyped
<1>3. b \in Page(N) /\ PageAlike(a, b)
  <2> HIDE DEF a
  <2> QED
    BY <1>1, <1>2, RecordAssumption DEF Page, FreeSlots, PageAlike
<1>4. HasRec(f, rid)
  BY <1>0, RidsInUse
<1>5. f \in File(N)
  BY DEF FileSound
<1>6. UpdateRec(f, rid, v).file = Replaced(f, p, b, f.hdr)
  <2>1. UpdateRec(f, rid, v).file = [f EXCEPT !.pages = [f.pages EXCEPT ![p] = b]]
    BY <1>4 DEF UpdateRec, Return, HasRec
  <2> HIDE DEF b, p
  <2> QED
    BY <1>5, <2>1 DEF File, Replaced
<1>7. f = Replaced(f, p, a, f.hdr)
  <2>1. [f.pages EXCEPT ![p] = a] = f.pages
    <3>1. f.pages \in Seq(Page(N))
      BY PagesTyped
    <3> QED
      BY <1>1, <3>1
  <2> HIDE DEF a, p
  <2> QED
    BY <1>5, <2>1 DEF File, Replaced
<1>8. Alike(f, f)
  BY DEF Alike, PageAlike
<1> HIDE DEF a, b, p
<1>9. Alike(Replaced(f, p, a, f.hdr), Replaced(f, p, b, f.hdr))
  BY <1>1, <1>2, <1>3, <1>8, AlikeReplaced
<1> QED
  BY <1>6, <1>7, <1>9

\* CloseRMFile leaves two such files alike: both write the header or neither does.
LEMMA AlikeClose ==
  ASSUME NEW N \in Nat \ {0}, NEW f, NEW g, FileSound(N, f), FileSound(N, g), Alike(f, g)
  PROVE  Alike(CloseRM(f), CloseRM(g))
<1> DEFINE h == IF f.bHdrChanged THEN f.hdr ELSE f.diskHdr
<1>1. f \in File(N) /\ g \in File(N)
  BY DEF FileSound
<1>2. /\ CloseRM(f) = [f EXCEPT !.hdr = h, !.diskHdr = h, !.bHdrChanged = FALSE]
      /\ CloseRM(g) = [g EXCEPT !.hdr = h, !.diskHdr = h, !.bHdrChanged = FALSE]
  BY DEF CloseRM, Alike
<1> HIDE DEF h
<1>3. /\ CloseRM(f).hdr = h /\ CloseRM(f).diskHdr = h /\ CloseRM(f).bHdrChanged = FALSE
      /\ CloseRM(f).pages = f.pages
      /\ CloseRM(g).hdr = h /\ CloseRM(g).diskHdr = h /\ CloseRM(g).bHdrChanged = FALSE
      /\ CloseRM(g).pages = g.pages
  BY <1>1, <1>2 DEF File
<1> QED
  BY <1>3 DEF Alike

----------------------------------------------------------------------------
\* What is asked of the constants: columns of equal length, no value of zero
\* bytes, and the comparisons that a scan implements for duplicates.
Careful(N) ==
  /\ \A c \in Columns : Slots[c] = N
  /\ Null \notin Given
  /\ Ops \subseteq {"=", "<", ">="}
  /\ <<>> \notin Schemas

\* The two files of a column between statements.
ColumnSound(N, f, ix) ==
  /\ FileSound(N, f)
  /\ f.hdr = f.diskHdr /\ f.bHdrChanged = FALSE
  /\ Len(f.pages) <= MaxPages
  /\ Indexed(f, ix)

\* A file is closed with the records it has.
LEMMA ClosedFile ==
  ASSUME NEW N \in Nat \ {0}, NEW f, FileSound(N, f)
  PROVE  /\ FileSound(N, CloseRM(f)) /\ Len(CloseRM(f).pages) = Len(f.pages)
         /\ CloseRM(f).hdr = CloseRM(f).diskHdr /\ CloseRM(f).bHdrChanged = FALSE
         /\ Used(CloseRM(f)) = Used(f)
         /\ \A r \in Used(f) : Rec(CloseRM(f), r) = Rec(f, r)
<1> DEFINE g == CloseRM(f)
<1>1. FileSound(N, g) /\ g.pages = f.pages /\ g.hdr = g.diskHdr
  BY CloseSound
<1>2. f \in File(N)
  BY DEF FileSound
<1>3. g.bHdrChanged = FALSE /\ g.slots = f.slots
  BY <1>2 DEF CloseRM, File
<1> HIDE DEF g
<1>4. Used(g) = Used(f) /\ \A r \in Used(f) : Rec(g, r) = Rec(f, r)
  BY <1>1, <1>3 DEF Used, Rec, SlotsOf
<1> QED
  BY <1>1, <1>3, <1>4 DEF g

\* An index knows of a file what its records are.
LEMMA IndexedSame ==
  ASSUME NEW f, NEW g, NEW ix, Indexed(f, ix), Used(g) = Used(f),
         \A r \in Used(f) : Rec(g, r) = Rec(f, r)
  PROVE  Indexed(g, ix)
<1>1. EntriesFor(g) = EntriesFor(f)
  BY DEF EntriesFor
<1> QED
  BY <1>1 DEF Indexed

\* InsertRec stores v at InsertRid, which no record had.
LEMMA InsertedFile ==
  ASSUME NEW N \in Nat \ {0}, NEW f, FileSound(N, f), NEW v \in Vals
  PROVE  /\ InsertRec(f, v).rc = OK
         /\ FileSound(N, InsertRec(f, v).file)
         /\ InsertRid(f) \in RidSpace /\ InsertRid(f) \notin Used(f)
         /\ Used(InsertRec(f, v).file) = Used(f) \cup {InsertRid(f)}
         /\ Rec(InsertRec(f, v).file, InsertRid(f)) = v
         /\ \A r \in Used(f) : Rec(InsertRec(f, v).file, r) = Rec(f, r)
<1> DEFINE g == GetNextFreePage(f)
           p == g.hdr.firstFree
           s == First(FreeSlots(g.pages[p]))
           h == Fill(g, p, s, v)
<1>1. /\ InsertRec(f, v) = Return(OK, h) /\ FileSound(N, InsertRec(f, v).file)
      /\ p \in 1 .. Len(g.pages) /\ s \in FreeSlots(g.pages[p])
  BY InsertSound
<1>2. FileSound(N, g)
  BY NextFreePage
<1>3. Used(g) = Used(f) /\ \A r \in Used(f) : Rec(g, r) = Rec(f, r)
  BY GrownFile
<1>4. InsertRid(f) = <<p, s>>
  BY DEF InsertRid
<1>5. InsertRec(f, v).rc = OK /\ InsertRec(f, v).file = h
  BY <1>1 DEF Return
<1>6. g.pages[p] \in Page(N)
  BY <1>1, <1>2, PagesTyped
<1>7. s \in 0 .. N - 1
  BY <1>1, <1>6, FreeSlotsFinite
<1>8. <<p, s>> \in RidSpace
  BY <1>1, <1>7 DEF RidSpace
<1> HIDE DEF g, p, s
<1>9. /\ <<p, s>> \notin Used(g) /\ Used(h) = Used(g) \cup {<<p, s>>}
      /\ Rec(h, <<p, s>>) = v /\ \A r \in Used(g) : Rec(h, r) = Rec(g, r)
  BY <1>1, <1>2, FilledFile
<1> HIDE DEF h
<1> QED
  BY <1>1, <1>3, <1>4, <1>5, <1>8, <1>9

\* What an INSERT stores in a column.
ValueOf(e, c) == IF c \in DOMAIN e THEN e[c] ELSE Null

\* InsertEntry in one column.
LEMMA InsertedColumn ==
  ASSUME NEW N \in Nat \ {0}, Careful(N), NEW c, ColumnSound(N, data[c], index[c]),
         NEW e, c \in DOMAIN e => e[c] \in Given, Len(InsertInto(c, e).file.pages) <= MaxPages
  PROVE  /\ InsertInto(c, e).rc = OK
         /\ InsertInto(c, e).file = CloseRM(InsertRec(data[c], ValueOf(e, c)).file)
         /\ ColumnSound(N, InsertInto(c, e).file, InsertInto(c, e).ix)
         /\ InsertRid(data[c]) \in RidSpace \ Used(data[c])
         /\ Used(InsertInto(c, e).file) = Used(data[c]) \cup {InsertRid(data[c])}
         /\ Rec(InsertInto(c, e).file, InsertRid(data[c])) = ValueOf(e, c)
         /\ \A r \in Used(data[c]) : Rec(InsertInto(c, e).file, r) = Rec(data[c], r)
<1> DEFINE f == data[c]
           v == ValueOf(e, c)
           g == InsertRec(f, v).file
           h == CloseRM(g)
           w == InsertInto(c, e)
           rid == InsertRid(f)
           ix  == IF v = Null THEN index[c] ELSE Index!InsertEntry(index[c], v, rid)
<1>1. v \in Vals /\ (v = Null <=> c \notin DOMAIN e) /\ FileSound(N, f) /\ Indexed(f, index[c])
  BY TableAssumption, RecordAssumption DEF Careful, ColumnSound, ValueOf
<1>2. /\ InsertRec(f, v).rc = OK /\ FileSound(N, g)
      /\ rid \in RidSpace \ Used(f) /\ Used(g) = Used(f) \cup {rid}
      /\ Rec(g, rid) = v /\ \A r \in Used(f) : Rec(g, r) = Rec(f, r)
  BY <1>1, InsertedFile
<1>3. w.rc = OK /\ w.file = h /\ w.ix = ix
  BY <1>1, <1>2 DEF InsertInto, ValueOf
<1>8. Len(w.file.pages) <= MaxPages
  OBVIOUS
<1> HIDE DEF f, g, w, ix, rid, v
<1>4. /\ FileSound(N, h) /\ h.hdr = h.diskHdr /\ h.bHdrChanged = FALSE
      /\ Used(h) = Used(g) /\ \A r \in Used(g) : Rec(h, r) = Rec(g, r)
  BY <1>2, ClosedFile
<1> HIDE DEF h
<1>5. /\ Used(h) = Used(f) \cup {rid} /\ Rec(h, rid) = v
      /\ \A r \in Used(f) : Rec(h, r) = Rec(f, r)
  BY <1>2, <1>4
<1>6. Indexed(h, ix)
  BY <1>1, <1>2, <1>5, IndexedInsert DEF ix
<1>7. ColumnSound(N, h, ix)
  BY <1>3, <1>4, <1>6, <1>8 DEF ColumnSound
<1> QED
  BY <1>2, <1>3, <1>5, <1>7 DEF f, w, h, g, rid, v

----------------------------------------------------------------------------
\* The rows of a DELETE in one column, one after the other.
IsDeletion(g, c, rids, n) ==
  /\ g[0] = Files(c)
  /\ \A k \in 1 .. n : g[k] = DeleteRow(g[k - 1], rids[k])
  /\ g[n] = DeleteRows(c, rids)

\* The fold of a DELETE over the rids has a sequence of partial results.
LEMMA DeletesStepwise ==
  ASSUME NEW c, NEW n \in Nat, NEW rids, DOMAIN rids = 1 .. n
  PROVE  \E g : IsDeletion(g, c, rids, n)
<1> DEFINE Step(w, i) == DeleteRow(w, rids[i])
           Solves(w, k) == w = [s \in SUBSET (1 .. k) |->
                                  IF s = {} THEN Files(c) ELSE Step(w[s \ {Max(s)}], Max(s))]
           T == {k \in 0 .. n : \E w : Solves(w, k)}
<1>1. 0 \in T
  <2> DEFINE w == [s \in SUBSET (1 .. 0) |-> Files(c)]
  <2>1. SUBSET (1 .. 0) = {{}}
    OBVIOUS
  <2>2. Solves(w, 0)
    <3> HIDE DEF Step
    <3> QED
      BY <2>1
  <2>3. 0 \in 0 .. n /\ \E w0 : Solves(w0, 0)
    <3> HIDE DEF Solves
    <3> QED
      BY <2>2
  <2> HIDE DEF Solves, w
  <2> QED
    BY <2>3
<1>2. ASSUME NEW k \in 1 .. n, k - 1 \in T PROVE k \in T
  <2>1. PICK w : Solves(w, k - 1)
    BY <1>2
  <2> HIDE DEF Step
  <2>2. \A s \in SUBSET (1 .. k - 1) : w[s] = IF s = {} THEN Files(c) ELSE Step(w[s \ {Max(s)}], Max(s))
    BY <2>1
  <2> HIDE DEF Solves, T
  <2> DEFINE u == [s \in SUBSET (1 .. k) |-> IF k \in s THEN Step(w[s \ {k}], k) ELSE w[s]]
  <2>3. ASSUME NEW s \in SUBSET (1 .. k)
        PROVE  u[s] = IF s = {} THEN Files(c) ELSE Step(u[s \ {Max(s)}], Max(s))
    <3>1. CASE k \in s
      <4>1. Max(s) = k /\ s \ {k} \in SUBSET (1 .. k - 1) /\ k \notin s \ {k}
        BY <3>1, WithoutLast
      <4>2. s \ {k} \in SUBSET (1 .. k)
        OBVIOUS
      <4>3. u[s \ {k}] = w[s \ {k}]
        BY <4>1, <4>2
      <4>4. u[s] = Step(w[s \ {k}], k)
        BY <3>1
      <4> QED
        BY <3>1, <4>1, <4>3, <4>4
    <3>2. CASE k \notin s
      <4>1. s \in SUBSET (1 .. k - 1)
        BY <3>2, WithoutLast
      <4>2. u[s] = w[s]
        BY <3>2
      <4>3. s \ {Max(s)} \in SUBSET (1 .. k) /\ k \notin s \ {Max(s)}
        BY <3>2
      <4>4. u[s \ {Max(s)}] = w[s \ {Max(s)}]
        BY <4>3
      <4> QED
        BY <2>2, <4>1, <4>2, <4>4
    <3> QED
      BY <3>1, <3>2
  <2>4. u = [s \in SUBSET (1 .. k) |-> IF s = {} THEN Files(c) ELSE Step(u[s \ {Max(s)}], Max(s))]
    <3> DEFINE r == [s \in SUBSET (1 .. k) |-> IF s = {} THEN Files(c) ELSE Step(u[s \ {Max(s)}], Max(s))]
    <3>1. \A s \in SUBSET (1 .. k) : u[s] = r[s]
      BY <2>3
    <3> QED
      BY <3>1
  <2>5. Solves(u, k)
    BY <2>4 DEF Solves
  <2> QED
    BY <2>5 DEF T
<1>3. n \in T
  <2> HIDE DEF T
  <2> QED
    BY <1>1, <1>2, UpTo
<1> DEFINE w == CHOOSE u : Solves(u, n)
<1>4. Solves(w, n)
  <2>1. \E u : Solves(u, n)
    BY <1>3
  <2> HIDE DEF Solves
  <2> QED
    BY <2>1
<1>5. DeleteRows(c, rids) = w[1 .. n]
  BY DEF DeleteRows, FoldLeft, MapThenFoldSet
<1> HIDE DEF w, T
<1>6. \A s \in SUBSET (1 .. n) : w[s] = IF s = {} THEN Files(c) ELSE Step(w[s \ {Max(s)}], Max(s))
  <2> HIDE DEF Step
  <2> QED
    BY <1>4
<1> DEFINE g == [k \in 0 .. n |-> w[1 .. k]]
<1>7. g[0] = Files(c)
  <2>1. 1 .. 0 = {} /\ 0 \in 0 .. n
    OBVIOUS
  <2> QED
    BY <1>6, <2>1
<1>8. ASSUME NEW k \in 1 .. n PROVE g[k] = DeleteRow(g[k - 1], rids[k])
  <2>0. k \in Nat /\ 1 .. k \in SUBSET (1 .. k) /\ k \in 1 .. k
    OBVIOUS
  <2>4. Max(1 .. k) = k
    BY <2>0, MaxOfFirst
  <2>1. Max(1 .. k) = k /\ (1 .. k) \ {k} = 1 .. k - 1 /\ 1 .. k # {}
    BY <2>0, <2>4
  <2>2. g[k] = w[1 .. k] /\ g[k - 1] = w[1 .. k - 1]
    OBVIOUS
  <2>3. 1 .. k \in SUBSET (1 .. n)
    OBVIOUS
  <2> QED
    BY <1>6, <2>1, <2>2, <2>3
<1>9. DeleteRows(c, rids) = g[n]
  BY <1>5
<1> HIDE DEF g
<1> QED
  BY <1>7, <1>8, <1>9 DEF IsDeletion

\* What the first k of them leave of f.
Deleted(N, f, w, rids, k) ==
  /\ w.rc = OK /\ FileSound(N, w.file) /\ Indexed(w.file, w.ix)
  /\ Len(w.file.pages) = Len(f.pages)
  /\ Used(w.file) = Used(f) \ {rids[i] : i \in 1 .. k}
  /\ \A r \in Used(w.file) : Rec(w.file, r) = Rec(f, r)

\* DeleteEntry of a row that is there.
LEMMA RowDeleted ==
  ASSUME NEW N \in Nat \ {0}, NEW f, NEW rids, NEW k \in Nat \ {0}, NEW w,
         Deleted(N, f, w, rids, k - 1), rids[k] \in Used(w.file)
  PROVE  /\ Deleted(N, f, DeleteRow(w, rids[k]), rids, k)
         /\ DeleteRow(w, rids[k]).file = DeleteRec(w.file, rids[k]).file
<1> DEFINE rid == rids[k]
           g   == DeleteRec(w.file, rid).file
           x   == DeleteRow(w, rid)
           old == Rec(w.file, rid)
           ix  == IF old = Null THEN w.ix ELSE Index!DeleteEntry(w.ix, old, rid)
<1>1. w.rc = OK /\ FileSound(N, w.file) /\ Indexed(w.file, w.ix) /\ rid \in RidSpace
  BY DEF Deleted, Indexed
<1>2. HasRec(w.file, rid)
  BY <1>1, RidsInUse
<1> HIDE DEF rid
<1>3. /\ Used(g) = Used(w.file) \ {rid}
      /\ \A r \in Used(g) : Rec(g, r) = Rec(w.file, r)
  BY <1>1, <1>2, ClearedFile
<1>4. FileSound(N, g) /\ Len(g.pages) = Len(w.file.pages)
  BY <1>1, DeleteSound
<1>5. (old # Null => Index!From(w.ix, old, rid) # {}) /\ Indexed(g, ix)
  BY <1>1, <1>3, IndexedDelete DEF rid
<1>6. x = [file |-> g, ix |-> ix, rc |-> OK]
  BY <1>1, <1>2, <1>5 DEF DeleteRow
<1>7. x.rc = OK /\ x.file = g /\ x.ix = ix
  BY <1>6
<1> HIDE DEF g, x, ix, old
<1>8. /\ Len(w.file.pages) = Len(f.pages)
      /\ Used(w.file) = Used(f) \ {rids[i] : i \in 1 .. k - 1}
      /\ \A r \in Used(w.file) : Rec(w.file, r) = Rec(f, r)
  BY DEF Deleted
<1>9. {rids[i] : i \in 1 .. k} = {rids[i] : i \in 1 .. k - 1} \cup {rid}
  <2>1. 1 .. k = (1 .. k - 1) \cup {k}
    OBVIOUS
  <2> QED
    BY <2>1 DEF rid
<1>10. Used(g) = Used(f) \ {rids[i] : i \in 1 .. k}
  BY <1>3, <1>8, <1>9
<1>11. \A r \in Used(g) : Rec(g, r) = Rec(f, r)
  BY <1>3, <1>8
<1>12. Deleted(N, f, x, rids, k)
  BY <1>4, <1>5, <1>7, <1>8, <1>10, <1>11 DEF Deleted
<1> QED
  BY <1>7, <1>12 DEF x, g, rid

\* A DELETE of different rows that are there, in two columns alike.
LEMMA RowsDeleted ==
  ASSUME NEW N \in Nat \ {0}, NEW c, NEW d,
         ColumnSound(N, data[c], index[c]), ColumnSound(N, data[d], index[d]),
         Alike(data[c], data[d]),
         NEW rids \in Seq(RidSpace), \A i, j \in 1 .. Len(rids) : rids[i] = rids[j] => i = j,
         \A i \in 1 .. Len(rids) : rids[i] \in Used(data[c])
  PROVE  /\ Deleted(N, data[c], DeleteRows(c, rids), rids, Len(rids))
         /\ Deleted(N, data[d], DeleteRows(d, rids), rids, Len(rids))
         /\ Alike(DeleteRows(c, rids).file, DeleteRows(d, rids).file)
<1> DEFINE n == Len(rids)
<1>1. n \in Nat /\ DOMAIN rids = 1 .. n
  BY LenProperties
<1>2. PICK g : IsDeletion(g, c, rids, n)
  BY <1>1, DeletesStepwise
<1>3. PICK h : IsDeletion(h, d, rids, n)
  BY <1>1, DeletesStepwise
<1>4. /\ g[0] = Files(c) /\ g[n] = DeleteRows(c, rids)
      /\ h[0] = Files(d) /\ h[n] = DeleteRows(d, rids)
      /\ \A k \in 1 .. n : g[k] = DeleteRow(g[k - 1], rids[k]) /\ h[k] = DeleteRow(h[k - 1], rids[k])
  BY <1>2, <1>3 DEF IsDeletion
<1>5. FileSound(N, data[c]) /\ FileSound(N, data[d]) /\ Used(data[d]) = Used(data[c])
  BY AlikeUse DEF ColumnSound
<1> DEFINE T == {k \in 0 .. n : /\ Deleted(N, data[c], g[k], rids, k)
                                /\ Deleted(N, data[d], h[k], rids, k)
                                /\ Alike(g[k].file, h[k].file)}
<1>6. 0 \in T
  <2>1. /\ g[0].file = data[c] /\ g[0].ix = index[c] /\ g[0].rc = OK
        /\ h[0].file = data[d] /\ h[0].ix = index[d] /\ h[0].rc = OK
    BY <1>4 DEF Files
  <2>2. 1 .. 0 = {}
    OBVIOUS
  <2>3. Deleted(N, data[c], g[0], rids, 0) /\ Deleted(N, data[d], h[0], rids, 0)
    BY <2>1, <2>2 DEF Deleted, ColumnSound
  <2> QED
    BY <1>1, <2>1, <2>3
<1>7. ASSUME NEW k \in 1 .. n, k - 1 \in T PROVE k \in T
  <2>0. k \in Nat \ {0}
    OBVIOUS
  <2>1. /\ Deleted(N, data[c], g[k - 1], rids, k - 1)
        /\ Deleted(N, data[d], h[k - 1], rids, k - 1)
        /\ Alike(g[k - 1].file, h[k - 1].file)
    BY <1>7
  <2>2. rids[k] \notin {rids[i] : i \in 1 .. k - 1}
    <3>1. \A i \in 1 .. k - 1 : i \in 1 .. n /\ i # k
      BY <1>1
    <3> QED
      BY <3>1
  <2>3. rids[k] \in Used(g[k - 1].file) /\ rids[k] \in Used(h[k - 1].file)
    BY <1>5, <2>1, <2>2 DEF Deleted
  <2>4. /\ Deleted(N, data[c], g[k], rids, k) /\ g[k].file = DeleteRec(g[k - 1].file, rids[k]).file
        /\ Deleted(N, data[d], h[k], rids, k) /\ h[k].file = DeleteRec(h[k - 1].file, rids[k]).file
    BY <1>4, <2>0, <2>1, <2>3, RowDeleted
  <2>5. Alike(g[k].file, h[k].file)
    <3>1. FileSound(N, g[k - 1].file) /\ FileSound(N, h[k - 1].file)
      BY <2>1 DEF Deleted
    <3>2. Alike(DeleteRec(g[k - 1].file, rids[k]).file, DeleteRec(h[k - 1].file, rids[k]).file)
      BY <2>1, <2>3, <3>1, AlikeDelete
    <3> QED
      BY <2>4, <3>2
  <2> QED
    BY <2>4, <2>5
<1>8. n \in T
  <2> HIDE DEF T, n
  <2>1. \A k \in 0 .. n : k \in T
    BY <1>1, <1>6, <1>7, UpTo
  <2> QED
    BY <1>1, <2>1
<1> QED
  BY <1>4, <1>8

----------------------------------------------------------------------------
\* What holds between the statements of a careful session.
TableSound(N) ==
  /\ attrs \in Seq(Columns) /\ attrs # <<>> /\ IsInjective(attrs)
  /\ DOMAIN data = Attrs /\ DOMAIN index = Attrs
  /\ \A c \in Attrs : ColumnSound(N, data[c], index[c])
  /\ \A c, d \in Attrs : Alike(data[c], data[d])

\* An UPDATE of one value: the key of the old one leaves the index, if it has
\* one, and that of the new one enters.
LEMMA RowUpdated ==
  ASSUME NEW N \in Nat \ {0}, NEW f, NEW ix, ColumnSound(N, f, ix), NEW rid \in Used(f),
         NEW v \in Vals \ {Null}, NEW w, w.file = f, w.ix = ix, UpdateRow(w, rid, v).rc = OK
  PROVE  /\ ColumnSound(N, UpdateRow(w, rid, v).file, UpdateRow(w, rid, v).ix)
         /\ Alike(f, UpdateRow(w, rid, v).file)
         /\ Used(UpdateRow(w, rid, v).file) = Used(f)
         /\ Rec(UpdateRow(w, rid, v).file, rid) = v
         /\ \A r \in Used(f) : r # rid => Rec(UpdateRow(w, rid, v).file, r) = Rec(f, r)
<1> DEFINE old == Rec(f, rid)
           u   == UpdateRec(f, rid, v).file
           g   == CloseRM(u)
           h   == DeleteRec(f, rid).file
           x   == UpdateRow(w, rid, v)
           jx  == Index!DeleteEntry(ix, old, rid)
<1>1. /\ FileSound(N, f) /\ Indexed(f, ix) /\ rid \in RidSpace /\ old \in Vals
      /\ f.hdr = f.diskHdr /\ f.bHdrChanged = FALSE /\ Len(f.pages) <= MaxPages
  BY DEF ColumnSound, Indexed
<1>2. HasRec(f, rid)
  BY <1>1, RidsInUse
<1>3. x.file = g /\ x.ix = Index!InsertEntry(jx, v, rid)
  <2>1. ~Index!LeavesPinned(ix, old, rid)
    BY DEF UpdateRow, ABORT, OK
  <2> QED
    BY <2>1 DEF UpdateRow
<1>4. /\ FileSound(N, u) /\ Len(u.pages) = Len(f.pages)
      /\ Used(u) = Used(f) /\ Rec(u, rid) = v /\ \A r \in Used(f) : r # rid => Rec(u, r) = Rec(f, r)
      /\ Alike(f, u)
  <2>1. FileSound(N, u) /\ Len(u.pages) = Len(f.pages)
    BY <1>1, <1>2, UpdateSound
  <2>2. Used(u) = Used(f) /\ Rec(u, rid) = v /\ \A r \in Used(f) : r # rid => Rec(u, r) = Rec(f, r)
    BY <1>1, <1>2, UpdatedFile
  <2>3. Alike(f, u)
    BY <1>1, AlikeUpdate
  <2> QED
    BY <2>1, <2>2, <2>3
<1>5. FileSound(N, h) /\ Used(h) = Used(f) \ {rid} /\ \A r \in Used(h) : Rec(h, r) = Rec(f, r)
  <2>1. FileSound(N, h)
    BY <1>1, DeleteSound
  <2>2. Used(h) = Used(f) \ {rid} /\ \A r \in Used(h) : Rec(h, r) = Rec(f, r)
    BY <1>1, <1>2, ClearedFile
  <2> QED
    BY <2>1, <2>2
<1> HIDE DEF u, h, x
<1>6. /\ FileSound(N, g) /\ Len(g.pages) = Len(u.pages) /\ g.hdr = g.diskHdr /\ g.bHdrChanged = FALSE
      /\ Used(g) = Used(u) /\ \A r \in Used(u) : Rec(g, r) = Rec(u, r)
  BY <1>4, ClosedFile
<1>7. Alike(f, g)
  <2>1. Alike(CloseRM(f), g)
    BY <1>1, <1>4, AlikeClose
  <2>2. Alike(f, CloseRM(f))
    <3>1. f \in File(N)
      BY <1>1 DEF FileSound
    <3>2. /\ CloseRM(f).hdr = f.hdr /\ CloseRM(f).diskHdr = f.diskHdr
          /\ CloseRM(f).bHdrChanged = f.bHdrChanged /\ CloseRM(f).pages = f.pages
      BY <1>1, <3>1 DEF CloseRM, File
    <3> QED
      BY <3>2 DEF Alike, PageAlike
  <2> QED
    BY <2>1, <2>2, AlikeChains
<1> HIDE DEF g
<1>8. Indexed(h, jx)
  <2>1. Indexed(h, IF old = Null THEN ix ELSE jx)
    BY <1>1, <1>5, IndexedDelete
  <2>2. CASE old = Null
    <3>1. \A i \in 1 .. Len(ix) : ix[i].rid # rid
      <4>1. Ascending(ix)
        BY <1>1 DEF Indexed
      <4> QED
        BY <1>1, <2>2, <4>1, EntriesOn, EntriesMeet
    <3>2. Index!FindKey(ix, old) \in 1 .. Len(ix) + 1 /\ Len(ix) \in Nat
      <4>1. Ascending(ix) /\ old \in Nat
        BY <1>1, TableAssumption DEF Indexed
      <4> QED
        BY <4>1, FindKeySplits, EntriesOn
    <3>3. Index!From(ix, old, rid) = {}
      BY <3>1, <3>2 DEF Index!From
    <3>4. jx = ix
      BY <3>3 DEF Index!DeleteEntry
    <3> QED
      BY <2>1, <2>2, <3>4
  <2>3. CASE old # Null
    BY <2>1, <2>3
  <2> QED
    BY <2>2, <2>3
<1> HIDE DEF jx
<1>9. Indexed(g, Index!InsertEntry(jx, v, rid))
  <2>1. rid \notin Used(h) /\ Used(g) = Used(h) \cup {rid} /\ Rec(g, rid) = v
    BY <1>4, <1>5, <1>6
  <2>2. \A r \in Used(h) : Rec(g, r) = Rec(h, r)
    BY <1>4, <1>5, <1>6
  <2>3. Indexed(g, IF v = Null THEN jx ELSE Index!InsertEntry(jx, v, rid))
    BY <1>1, <1>8, <2>1, <2>2, IndexedInsert
  <2> QED
    BY <2>3
<1>10. ColumnSound(N, g, Index!InsertEntry(jx, v, rid))
  BY <1>1, <1>4, <1>6, <1>9 DEF ColumnSound
<1> QED
  BY <1>3, <1>4, <1>6, <1>7, <1>10 DEF x

\* The rows of an UPDATE, one after the other.
IsUpdate(g, e, rids, n) ==
  /\ g[0] = Opened
  /\ \A k \in 1 .. n : g[k] = UpdateEntry(g[k - 1], rids[k], e)
  /\ g[n] = UpdateRows(rids, e)

\* The fold of an UPDATE over the rids has a sequence of partial results.
LEMMA UpdatesStepwise ==
  ASSUME NEW e, NEW n \in Nat, NEW rids, DOMAIN rids = 1 .. n
  PROVE  \E g : IsUpdate(g, e, rids, n)
<1> DEFINE Step(w, i) == UpdateEntry(w, rids[i], e)
           Solves(w, k) == w = [s \in SUBSET (1 .. k) |->
                                  IF s = {} THEN Opened ELSE Step(w[s \ {Max(s)}], Max(s))]
           T == {k \in 0 .. n : \E w : Solves(w, k)}
<1>1. 0 \in T
  <2> DEFINE w == [s \in SUBSET (1 .. 0) |-> Opened]
  <2>1. SUBSET (1 .. 0) = {{}}
    OBVIOUS
  <2>2. Solves(w, 0)
    <3> HIDE DEF Step
    <3> QED
      BY <2>1
  <2>3. 0 \in 0 .. n /\ \E w0 : Solves(w0, 0)
    <3> HIDE DEF Solves
    <3> QED
      BY <2>2
  <2> HIDE DEF Solves, w
  <2> QED
    BY <2>3
<1>2. ASSUME NEW k \in 1 .. n, k - 1 \in T PROVE k \in T
  <2>1. PICK w : Solves(w, k - 1)
    BY <1>2
  <2> HIDE DEF Step
  <2>2. \A s \in SUBSET (1 .. k - 1) : w[s] = IF s = {} THEN Opened ELSE Step(w[s \ {Max(s)}], Max(s))
    BY <2>1
  <2> HIDE DEF Solves, T
  <2> DEFINE u == [s \in SUBSET (1 .. k) |-> IF k \in s THEN Step(w[s \ {k}], k) ELSE w[s]]
  <2>3. ASSUME NEW s \in SUBSET (1 .. k)
        PROVE  u[s] = IF s = {} THEN Opened ELSE Step(u[s \ {Max(s)}], Max(s))
    <3>1. CASE k \in s
      <4>1. Max(s) = k /\ s \ {k} \in SUBSET (1 .. k - 1) /\ k \notin s \ {k}
        BY <3>1, WithoutLast
      <4>2. s \ {k} \in SUBSET (1 .. k)
        OBVIOUS
      <4>3. u[s \ {k}] = w[s \ {k}]
        BY <4>1, <4>2
      <4>4. u[s] = Step(w[s \ {k}], k)
        BY <3>1
      <4> QED
        BY <3>1, <4>1, <4>3, <4>4
    <3>2. CASE k \notin s
      <4>1. s \in SUBSET (1 .. k - 1)
        BY <3>2, WithoutLast
      <4>2. u[s] = w[s]
        BY <3>2
      <4>3. s \ {Max(s)} \in SUBSET (1 .. k) /\ k \notin s \ {Max(s)}
        BY <3>2
      <4>4. u[s \ {Max(s)}] = w[s \ {Max(s)}]
        BY <4>3
      <4> QED
        BY <2>2, <4>1, <4>2, <4>4
    <3> QED
      BY <3>1, <3>2
  <2>4. u = [s \in SUBSET (1 .. k) |-> IF s = {} THEN Opened ELSE Step(u[s \ {Max(s)}], Max(s))]
    <3> DEFINE r == [s \in SUBSET (1 .. k) |-> IF s = {} THEN Opened ELSE Step(u[s \ {Max(s)}], Max(s))]
    <3>1. \A s \in SUBSET (1 .. k) : u[s] = r[s]
      BY <2>3
    <3> QED
      BY <3>1
  <2>5. Solves(u, k)
    BY <2>4 DEF Solves
  <2> QED
    BY <2>5 DEF T
<1>3. n \in T
  <2> HIDE DEF T
  <2> QED
    BY <1>1, <1>2, UpTo
<1> DEFINE w == CHOOSE u : Solves(u, n)
<1>4. Solves(w, n)
  <2>1. \E u : Solves(u, n)
    BY <1>3
  <2> HIDE DEF Solves
  <2> QED
    BY <2>1
<1>5. UpdateRows(rids, e) = w[1 .. n]
  BY DEF UpdateRows, FoldLeft, MapThenFoldSet
<1> HIDE DEF w, T
<1>6. \A s \in SUBSET (1 .. n) : w[s] = IF s = {} THEN Opened ELSE Step(w[s \ {Max(s)}], Max(s))
  <2> HIDE DEF Step
  <2> QED
    BY <1>4
<1> DEFINE g == [k \in 0 .. n |-> w[1 .. k]]
<1>7. g[0] = Opened
  <2>1. 1 .. 0 = {} /\ 0 \in 0 .. n
    OBVIOUS
  <2> QED
    BY <1>6, <2>1
<1>8. ASSUME NEW k \in 1 .. n PROVE g[k] = UpdateEntry(g[k - 1], rids[k], e)
  <2>0. k \in Nat /\ 1 .. k \in SUBSET (1 .. k) /\ k \in 1 .. k
    OBVIOUS
  <2>4. Max(1 .. k) = k
    BY <2>0, MaxOfFirst
  <2>1. Max(1 .. k) = k /\ (1 .. k) \ {k} = 1 .. k - 1 /\ 1 .. k # {}
    BY <2>0, <2>4
  <2>2. g[k] = w[1 .. k] /\ g[k - 1] = w[1 .. k - 1]
    OBVIOUS
  <2>3. 1 .. k \in SUBSET (1 .. n)
    OBVIOUS
  <2> QED
    BY <1>6, <2>1, <2>2, <2>3
<1>9. UpdateRows(rids, e) = g[n]
  BY <1>5
<1> HIDE DEF g
<1> QED
  BY <1>7, <1>8, <1>9 DEF IsUpdate

\* What the first k of them make of the table, if no assertion failed.
Updated(N, t, rids, e, k) ==
  t.rc = OK =>
    /\ DOMAIN t.data = Attrs /\ DOMAIN t.index = Attrs
    /\ \A d \in Attrs :
         /\ ColumnSound(N, t.data[d], t.index[d])
         /\ Alike(data[d], t.data[d])
         /\ Used(t.data[d]) = Used(data[d])
         /\ \A r \in Used(data[d]) :
              Rec(t.data[d], r) =
                IF d \in DOMAIN e /\ r \in {rids[i] : i \in 1 .. k} THEN e[d] ELSE Rec(data[d], r)

\* UpdateEntry of a row that is there.
LEMMA UpdatedNext ==
  ASSUME NEW N \in Nat \ {0}, TableSound(N), NEW e, \A d \in DOMAIN e : e[d] \in Vals \ {Null},
         NEW rids, NEW k \in Nat \ {0}, NEW t, Updated(N, t, rids, e, k - 1),
         \A d \in Attrs : rids[k] \in Used(data[d])
  PROVE  Updated(N, UpdateEntry(t, rids[k], e), rids, e, k)
<1> DEFINE rid == rids[k]
           x == UpdateEntry(t, rid, e)
           w == [d \in Attrs |-> [file |-> t.data[d], ix |-> t.index[d], rc |-> OK]]
           u == [d \in Attrs |-> IF d \in DOMAIN e THEN UpdateRow(w[d], rid, e[d]) ELSE w[d]]
           fails   == {i \in DOMAIN attrs : u[attrs[i]].rc # OK}
           reached == {attrs[i] : i \in {j \in DOMAIN attrs : \A m \in fails : j <= m}}
<1> SUFFICES ASSUME x.rc = OK PROVE Updated(N, x, rids, e, k)
  BY DEF Updated
<1>1. t.rc = OK
  BY DEF UpdateEntry
<1>2. x = [data  |-> [d \in Attrs |-> IF d \in reached THEN u[d].file ELSE t.data[d]],
           index |-> [d \in Attrs |-> IF d \in reached THEN u[d].ix ELSE t.index[d]],
           rc    |-> IF fails = {} THEN OK ELSE ABORT]
  BY <1>1 DEF UpdateEntry
<1>3. fails = {}
  <2> HIDE DEF fails, reached, u, x
  <2> QED
    BY <1>2 DEF OK, ABORT
<1>4. Attrs = {attrs[i] : i \in DOMAIN attrs}
  BY DEF Attrs, ToSet
<1>5. reached = Attrs
  BY <1>3, <1>4
<1>6. \A d \in Attrs : u[d].rc = OK
  <2> HIDE DEF u
  <2> SUFFICES ASSUME NEW d \in Attrs PROVE u[d].rc = OK
    OBVIOUS
  <2>1. PICK i \in DOMAIN attrs : d = attrs[i]
    BY <1>4
  <2>2. i \notin fails
    BY <1>3
  <2> QED
    BY <2>1, <2>2
<1> HIDE DEF fails, reached, x, u
<1>7. /\ x.data = [d \in Attrs |-> u[d].file] /\ x.index = [d \in Attrs |-> u[d].ix] /\ x.rc = OK
  <2>1. \A d \in Attrs : d \in reached
    BY <1>5
  <2> QED
    BY <1>2, <2>1
<1>8. {rids[i] : i \in 1 .. k} = {rids[i] : i \in 1 .. k - 1} \cup {rid}
  <2>1. 1 .. k = (1 .. k - 1) \cup {k}
    OBVIOUS
  <2> QED
    BY <2>1
<1> DEFINE before == {rids[i] : i \in 1 .. k - 1}
           upto   == {rids[i] : i \in 1 .. k}
<1>9. ASSUME NEW d \in Attrs
      PROVE  /\ ColumnSound(N, x.data[d], x.index[d])
             /\ Alike(data[d], x.data[d])
             /\ Used(x.data[d]) = Used(data[d])
             /\ \A r \in Used(data[d]) :
                  Rec(x.data[d], r) = IF d \in DOMAIN e /\ r \in upto THEN e[d] ELSE Rec(data[d], r)
  <2> DEFINE f  == t.data[d]
             ix == t.index[d]
  <2>1. /\ ColumnSound(N, f, ix) /\ Alike(data[d], f) /\ Used(f) = Used(data[d])
        /\ \A r \in Used(data[d]) :
             Rec(f, r) = IF d \in DOMAIN e /\ r \in before THEN e[d] ELSE Rec(data[d], r)
    BY <1>1 DEF Updated
  <2>2. x.data[d] = u[d].file /\ x.index[d] = u[d].ix
    BY <1>7
  <2>3. w[d].file = f /\ w[d].ix = ix
    OBVIOUS
  <2>4. rid \in Used(f) /\ upto = before \cup {rid}
    BY <1>8, <2>1
  <2> HIDE DEF w, f, ix, before, upto, rid
  <2>5. CASE d \notin DOMAIN e
    <3>1. u[d] = w[d]
      BY <2>5 DEF u
    <3> QED
      BY <2>1, <2>2, <2>3, <2>5, <3>1
  <2>6. CASE d \in DOMAIN e
    <3>1. u[d] = UpdateRow(w[d], rid, e[d]) /\ u[d].rc = OK
      BY <1>6, <2>6 DEF u
    <3>2. e[d] \in Vals \ {Null}
      BY <2>6
    <3>3. /\ ColumnSound(N, u[d].file, u[d].ix) /\ Alike(f, u[d].file) /\ Used(u[d].file) = Used(f)
          /\ Rec(u[d].file, rid) = e[d] /\ \A r \in Used(f) : r # rid => Rec(u[d].file, r) = Rec(f, r)
      BY <2>1, <2>3, <2>4, <3>1, <3>2, RowUpdated
    <3>4. Alike(data[d], u[d].file)
      BY <2>1, <3>3, AlikeChains
    <3>5. ASSUME NEW r \in Used(data[d])
          PROVE  Rec(u[d].file, r) = IF r \in upto THEN e[d] ELSE Rec(data[d], r)
      <4>1. CASE r = rid
        BY <2>4, <3>3, <4>1
      <4>2. CASE r # rid
        <5>1. Rec(u[d].file, r) = Rec(f, r) /\ (r \in upto <=> r \in before)
          BY <2>1, <2>4, <3>3, <4>2
        <5> QED
          BY <2>1, <2>6, <5>1
      <4> QED
        BY <4>1, <4>2
    <3> QED
      BY <2>1, <2>2, <2>6, <3>3, <3>4, <3>5
  <2> QED
    BY <2>5, <2>6
<1>10. DOMAIN x.data = Attrs /\ DOMAIN x.index = Attrs
  BY <1>7
<1> QED
  BY <1>9, <1>10 DEF Updated

\* An UPDATE of rows that are there.
LEMMA RowsUpdated ==
  ASSUME NEW N \in Nat \ {0}, TableSound(N), NEW e, \A d \in DOMAIN e : e[d] \in Vals \ {Null},
         NEW rids \in Seq(RidSpace),
         \A d \in Attrs, i \in 1 .. Len(rids) : rids[i] \in Used(data[d])
  PROVE  Updated(N, UpdateRows(rids, e), rids, e, Len(rids))
<1> DEFINE n == Len(rids)
<1>1. n \in Nat /\ DOMAIN rids = 1 .. n
  BY LenProperties
<1>2. PICK g : IsUpdate(g, e, rids, n)
  BY <1>1, UpdatesStepwise
<1> DEFINE T == {k \in 0 .. n : Updated(N, g[k], rids, e, k)}
<1>3. 0 \in T
  <2>1. g[0].data = data /\ g[0].index = index
    BY <1>2 DEF IsUpdate, Opened
  <2>2. {rids[i] : i \in 1 .. 0} = {}
    OBVIOUS
  <2>3. \A d \in Attrs : Alike(data[d], data[d])
    BY DEF TableSound
  <2>4. Updated(N, g[0], rids, e, 0)
    BY <2>1, <2>2, <2>3 DEF Updated, TableSound
  <2> QED
    BY <1>1, <2>4
<1>4. ASSUME NEW k \in 1 .. n, k - 1 \in T PROVE k \in T
  <2>1. k \in Nat \ {0} /\ Updated(N, g[k - 1], rids, e, k - 1) /\ g[k] = UpdateEntry(g[k - 1], rids[k], e)
    BY <1>2, <1>4 DEF IsUpdate
  <2>2. \A d \in Attrs : rids[k] \in Used(data[d])
    OBVIOUS
  <2>3. Updated(N, UpdateEntry(g[k - 1], rids[k], e), rids, e, k)
    BY <2>1, <2>2, UpdatedNext
  <2>4. Updated(N, g[k], rids, e, k)
    BY <2>1, <2>3
  <2> QED
    BY <2>4
<1>5. n \in T
  <2> HIDE DEF T, n
  <2>1. \A k \in 0 .. n : k \in T
    BY <1>1, <1>3, <1>4, UpTo
  <2> QED
    BY <1>1, <2>1
<1> QED
  BY <1>2, <1>5 DEF IsUpdate

----------------------------------------------------------------------------
\* Between statements every column has the same rids.
LEMMA SameRids ==
  ASSUME NEW N \in Nat \ {0}, TableSound(N), NEW c \in Attrs, NEW d \in Attrs
  PROVE  Used(data[c]) = Used(data[d])
<1>1. FileSound(N, data[c]) /\ FileSound(N, data[d]) /\ Alike(data[c], data[d])
  BY DEF TableSound, ColumnSound
<1> QED
  BY <1>1, AlikeUse

\* The columns of the .scm file, of which there is one.
LEMMA TheColumns ==
  ASSUME NEW N, TableSound(N)
  PROVE  /\ Len(attrs) \in Nat /\ DOMAIN attrs = 1 .. Len(attrs) /\ Len(attrs) > 0
         /\ Attrs = {attrs[i] : i \in 1 .. Len(attrs)} /\ Attrs \subseteq Columns
         /\ Head(attrs) = attrs[1] /\ Head(attrs) \in Attrs
<1>1. attrs \in Seq(Columns) /\ attrs # <<>>
  BY DEF TableSound
<1>2. Len(attrs) \in Nat /\ DOMAIN attrs = 1 .. Len(attrs) /\ \A i \in 1 .. Len(attrs) : attrs[i] \in Columns
  BY <1>1, LenProperties, ElementOfSeq
<1>3. Len(attrs) > 0 /\ Head(attrs) = attrs[1]
  BY <1>1, <1>2, EmptySeq
<1>4. Attrs = {attrs[i] : i \in 1 .. Len(attrs)}
  BY <1>2 DEF Attrs, ToSet
<1> QED
  BY <1>2, <1>3, <1>4

\* The rows whose value in a column compares as asked.
Where(c, op, v) == {r \in Used(data[c]) : Rel!Compares(Rec(data[c], r), op, v)}

\* A where clause selects them, each once.
LEMMA WhereFinds ==
  ASSUME NEW N \in Nat \ {0}, Careful(N), TableSound(N),
         NEW c, CanSelect(c), NEW op \in Ops, NEW v \in Given
  PROVE  /\ SelectEntry(c, op, v) \in Seq(RidSpace)
         /\ Len(SelectEntry(c, op, v)) \in Nat
         /\ DOMAIN SelectEntry(c, op, v) = 1 .. Len(SelectEntry(c, op, v))
         /\ \A i, j \in 1 .. Len(SelectEntry(c, op, v)) :
              SelectEntry(c, op, v)[i] = SelectEntry(c, op, v)[j] => i = j
         /\ ToSet(SelectEntry(c, op, v)) = Where(c, op, v)
         /\ \A d \in Attrs, i \in 1 .. Len(SelectEntry(c, op, v)) :
              SelectEntry(c, op, v)[i] \in Used(data[d])
<1> DEFINE f  == data[c]
           ix == index[c]
           o  == CompOp(op)
           s  == SelectEntry(c, op, v)
<1>1. /\ c \in Attrs /\ ix # <<>> /\ Indexed(f, ix) /\ Ascending(ix) /\ v \in Nat
      /\ op \in {"=", "<", ">="} /\ v # Null
  BY TableAssumption DEF CanSelect, TableSound, ColumnSound, Indexed, Careful
<1>2. o \in {"EQ", "GE", "LT"}
  BY <1>1 DEF CompOp
<1>3. s = Index!Scan(ix, o, v)
  BY DEF SelectEntry
<1> HIDE DEF s, f, ix
<1>4. /\ \A r \in Used(f) : Rec(f, r) # Null => Index!Entry(Rec(f, r), r) \in Index!Entries(ix)
      /\ \A e \in Index!Entries(ix) : e.rid \in Used(f) /\ Rec(f, e.rid) # Null /\ e.key = Rec(f, e.rid)
      /\ \A d, e \in Index!Entries(ix) : d.rid = e.rid => d = e
  BY <1>1, EntriesMeet
<1>5. ASSUME NEW k PROVE Index!Satisfies(k, o, v) /\ k # Null <=> Rel!Compares(k, op, v)
  <2>1. CASE op = "="
    BY <2>1 DEF CompOp, Index!Satisfies, Rel!Compares
  <2>2. CASE op = "<"
    BY <2>2 DEF CompOp, Index!Satisfies, Rel!Compares
  <2>3. CASE op = ">="
    BY <2>3 DEF CompOp, Index!Satisfies, Rel!Compares
  <2> QED
    BY <1>1, <2>1, <2>2, <2>3
<1> HIDE DEF o
<1>6. /\ s \in Seq(RidSpace)
      /\ \A i, j \in 1 .. Len(s) : s[i] = s[j] => i = j
      /\ ToSet(s) = {e.rid : e \in {d \in Index!Entries(ix) : Index!Satisfies(d.key, o, v)}}
  <2>1. Ascending(ix) /\ ix # <<>> /\ v \in Nat /\ \A d, e \in Index!Entries(ix) : d.rid = e.rid => d = e
    BY <1>1, <1>4
  <2>2. /\ Index!Scan(ix, o, v) \in Seq(RidSpace)
        /\ \A i, j \in 1 .. Len(Index!Scan(ix, o, v)) :
             Index!Scan(ix, o, v)[i] = Index!Scan(ix, o, v)[j] => i = j
        /\ ToSet(Index!Scan(ix, o, v)) = {e.rid : e \in {d \in Index!Entries(ix) : Index!Satisfies(d.key, o, v)}}
    BY <1>2, <2>1, ScanFinds
  <2> QED
    BY <1>3, <2>2
<1>7. ASSUME NEW r \in ToSet(s) PROVE r \in Used(f) /\ Rel!Compares(Rec(f, r), op, v)
  <2>1. PICK e \in Index!Entries(ix) : Index!Satisfies(e.key, o, v) /\ r = e.rid
    BY <1>6
  <2> QED
    BY <1>4, <1>5, <2>1
<1>8. ASSUME NEW r \in Used(f), Rel!Compares(Rec(f, r), op, v) PROVE r \in ToSet(s)
  <2> DEFINE e == Index!Entry(Rec(f, r), r)
  <2>1. Index!Satisfies(Rec(f, r), o, v) /\ Rec(f, r) # Null
    BY <1>5, <1>8
  <2>2. e \in Index!Entries(ix) /\ e.key = Rec(f, r) /\ e.rid = r
    BY <1>4, <2>1 DEF Index!Entry
  <2> HIDE DEF e
  <2> QED
    BY <1>6, <2>1, <2>2
<1>9. ToSet(s) = Where(c, op, v)
  BY <1>7, <1>8 DEF Where, f
<1>10. Len(s) \in Nat /\ DOMAIN s = 1 .. Len(s)
  BY <1>6, LenProperties
<1>11. ASSUME NEW d \in Attrs, NEW i \in 1 .. Len(s) PROVE s[i] \in Used(data[d])
  <2>1. s[i] \in ToSet(s)
    BY <1>10 DEF ToSet
  <2>2. s[i] \in Used(f)
    BY <1>7, <2>1
  <2> QED
    BY <1>1, <2>2, SameRids DEF f
<1> QED
  BY <1>6, <1>9, <1>10, <1>11 DEF s

\* A column that was just created.
LEMMA NewColumn ==
  ASSUME NEW N \in Nat \ {0}
  PROVE  ColumnSound(N, NewFile(N), <<>>) /\ Used(NewFile(N)) = {}
<1> DEFINE f == NewFile(N)
<1>1. f.hdr = f.diskHdr /\ f.bHdrChanged = FALSE /\ Len(f.pages) = 0 /\ FileSound(N, f)
  BY NewFileSound DEF NewFile
<1>2. Used(f) = {}
  <2>1. Used(f) = {r \in (1 .. Len(f.pages)) \X (0 .. N - 1) : Rec(f, r) # Free}
    BY <1>1, RidsInUse
  <2>2. 1 .. Len(f.pages) = {}
    BY <1>1
  <2> HIDE DEF f
  <2> QED
    BY <2>1, <2>2
<1>3. Ascending(<<>>) /\ Index!Entries(<<>>) = {}
  BY DEF Ascending, Index!Entries
<1> HIDE DEF f
<1>4. EntriesFor(f) = {}
  BY <1>2 DEF EntriesFor
<1>5. Indexed(f, <<>>)
  BY <1>2, <1>3, <1>4 DEF Indexed
<1>6. ColumnSound(N, f, <<>>)
  BY <1>1, <1>5, TableAssumption DEF ColumnSound
<1> QED
  BY <1>2, <1>6 DEF f

\* CreateTable.
LEMMA SoundAtFirst ==
  ASSUME NEW N \in Nat \ {0}, Careful(N), Init
  PROVE  TableSound(N) /\ \A c \in Attrs : Used(data[c]) = {}
<1>1. attrs \in Seq(Columns) /\ attrs # <<>> /\ IsInjective(attrs)
  BY TableAssumption DEF Careful, Init
<1>2. \A c \in Attrs : c \in Columns
  BY <1>1, ElementOfSeq, LenProperties DEF Attrs, ToSet
<1>3. \A c \in Attrs : data[c] = NewFile(N) /\ index[c] = <<>>
  BY <1>2 DEF Init, Careful
<1>4. DOMAIN data = Attrs /\ DOMAIN index = Attrs
  BY DEF Init
<1>5. Alike(NewFile(N), NewFile(N))
  BY DEF Alike, PageAlike
<1> QED
  BY <1>1, <1>3, <1>4, <1>5, NewColumn DEF TableSound

\* ClearTable, and a table dropped and created again.
LEMMA RecreateSound ==
  ASSUME NEW N \in Nat \ {0}, Careful(N), NEW as \in Schemas, Recreate(as)
  PROVE  TableSound(N)' /\ \A c \in Attrs' : Used(data'[c]) = {}
<1>1. as \in Seq(Columns) /\ as # <<>> /\ IsInjective(as) /\ attrs' = as
  BY TableAssumption DEF Careful, Recreate, NewFiles
<1>2. Attrs' = ToSet(as)
  BY <1>1 DEF Attrs
<1>3. \A c \in Attrs' : c \in Columns
  <2>1. DOMAIN as = 1 .. Len(as) /\ \A i \in 1 .. Len(as) : as[i] \in Columns
    BY <1>1, ElementOfSeq, LenProperties
  <2> QED
    BY <1>2, <2>1 DEF ToSet
<1>4. \A c \in Attrs' : data'[c] = NewFile(N) /\ index'[c] = <<>>
  BY <1>2, <1>3 DEF Recreate, NewFiles, Careful
<1>5. DOMAIN data' = Attrs' /\ DOMAIN index' = Attrs'
  BY <1>2 DEF Recreate, NewFiles
<1>6. Alike(NewFile(N), NewFile(N))
  BY DEF Alike, PageAlike
<1> QED
  BY <1>1, <1>4, <1>5, <1>6, NewColumn DEF TableSound

\* INSERT: one new rid, the same in every column.
LEMMA InsertSoundTable ==
  ASSUME NEW N \in Nat \ {0}, Careful(N), TableSound(N), NEW e \in Partial(Attrs), Insert(e)
  PROVE  /\ TableSound(N)'
         /\ \E rid \in RidSpace : \A c \in Attrs :
              /\ rid \notin Used(data[c]) /\ Used(data'[c]) = Used(data[c]) \cup {rid}
              /\ Rec(data'[c], rid) = ValueOf(e, c)
              /\ \A r \in Used(data[c]) : Rec(data'[c], r) = Rec(data[c], r)
<1>1. /\ attrs' = attrs /\ Attrs' = Attrs
      /\ DOMAIN data' = Attrs /\ DOMAIN index' = Attrs
      /\ \A c \in Attrs : /\ data'[c] = InsertInto(c, e).file /\ index'[c] = InsertInto(c, e).ix
                          /\ Len(InsertInto(c, e).file.pages) <= MaxPages
  BY DEF Insert, Attrs
<1>2. \A c \in Attrs : c \in DOMAIN e => e[c] \in Given
  BY DEF Partial
<1>3. ASSUME NEW c \in Attrs
      PROVE  /\ data'[c] = CloseRM(InsertRec(data[c], ValueOf(e, c)).file)
             /\ ColumnSound(N, data'[c], index'[c])
             /\ InsertRid(data[c]) \in RidSpace \ Used(data[c])
             /\ Used(data'[c]) = Used(data[c]) \cup {InsertRid(data[c])}
             /\ Rec(data'[c], InsertRid(data[c])) = ValueOf(e, c)
             /\ \A r \in Used(data[c]) : Rec(data'[c], r) = Rec(data[c], r)
  <2> DEFINE x == InsertInto(c, e)
             v == ValueOf(e, c)
  <2>1. ColumnSound(N, data[c], index[c]) /\ (c \in DOMAIN e => e[c] \in Given)
    BY <1>2 DEF TableSound
  <2>3. data'[c] = x.file /\ index'[c] = x.ix /\ Len(x.file.pages) <= MaxPages
    BY <1>1
  <2>4. x.file = CloseRM(InsertRec(data[c], v).file)
    BY <2>1, <2>3, InsertedColumn
  <2>5. ColumnSound(N, x.file, x.ix)
    BY <2>1, <2>3, InsertedColumn
  <2>8. InsertRid(data[c]) \in RidSpace \ Used(data[c])
    BY <2>1, <2>3, InsertedColumn
  <2>9. /\ Used(x.file) = Used(data[c]) \cup {InsertRid(data[c])}
        /\ Rec(x.file, InsertRid(data[c])) = v
        /\ \A r \in Used(data[c]) : Rec(x.file, r) = Rec(data[c], r)
    BY <2>1, <2>3, InsertedColumn
  <2> HIDE DEF v, x
  <2> QED
    BY <2>3, <2>4, <2>5, <2>8, <2>9 DEF v
<1>4. ASSUME NEW c \in Attrs, NEW d \in Attrs
      PROVE  InsertRid(data[c]) = InsertRid(data[d]) /\ Alike(data'[c], data'[d])
  <2> DEFINE f == InsertRec(data[c], ValueOf(e, c)).file
             g == InsertRec(data[d], ValueOf(e, d)).file
  <2>1. FileSound(N, data[c]) /\ FileSound(N, data[d]) /\ Alike(data[c], data[d])
    BY DEF TableSound, ColumnSound
  <2>2. ValueOf(e, c) \in Vals /\ ValueOf(e, d) \in Vals
    BY <1>2, TableAssumption, RecordAssumption DEF ValueOf
  <2>3. InsertRid(data[c]) = InsertRid(data[d]) /\ Alike(f, g)
    BY <2>1, <2>2, AlikeInsert
  <2>4. FileSound(N, f) /\ FileSound(N, g)
    BY <2>1, <2>2, InsertedFile
  <2> HIDE DEF f, g
  <2>5. Alike(CloseRM(f), CloseRM(g))
    BY <2>3, <2>4, AlikeClose
  <2> QED
    BY <1>3, <2>3, <2>5 DEF f, g
<1>5. TableSound(N)'
  BY <1>1, <1>3, <1>4 DEF TableSound
<1> DEFINE rid == InsertRid(data[Head(attrs)])
<1>6. Head(attrs) \in Attrs
  BY TheColumns
<1>7. rid \in RidSpace
  BY <1>3, <1>6
<1>8. \A c \in Attrs : rid = InsertRid(data[c])
  BY <1>4, <1>6
<1> HIDE DEF rid
<1>9. \A c \in Attrs :
        /\ rid \notin Used(data[c]) /\ Used(data'[c]) = Used(data[c]) \cup {rid}
        /\ Rec(data'[c], rid) = ValueOf(e, c)
        /\ \A r \in Used(data[c]) : Rec(data'[c], r) = Rec(data[c], r)
  BY <1>3, <1>8
<1> QED
  BY <1>5, <1>7, <1>9

\* DELETE: the rows of the where clause are gone from every column.
LEMMA DeleteSoundTable ==
  ASSUME NEW N \in Nat \ {0}, Careful(N), TableSound(N),
         NEW c, NEW op \in Ops, NEW v \in Given, Delete(c, op, v)
  PROVE  /\ TableSound(N)' /\ CanSelect(c) /\ attrs' = attrs
         /\ \A d \in Attrs : /\ Used(data'[d]) = Used(data[d]) \ Where(c, op, v)
                             /\ \A r \in Used(data'[d]) : Rec(data'[d], r) = Rec(data[d], r)
<1> DEFINE rids  == SelectEntry(c, op, v)
           w     == [d \in Attrs |-> DeleteRows(d, rids)]
           fails == {i \in DOMAIN attrs : w[attrs[i]].rc # OK}
           done  == {attrs[i] : i \in {j \in DOMAIN attrs : \A k \in fails : j < k}}
<1>1. /\ CanSelect(c) /\ attrs' = attrs /\ Attrs' = Attrs
      /\ data'  = [d \in Attrs |-> IF d \in done THEN CloseRM(w[d].file) ELSE data[d]]
      /\ index' = [d \in Attrs |-> IF d \in done THEN w[d].ix ELSE index[d]]
  BY DEF Delete, Attrs
<1>2. /\ rids \in Seq(RidSpace)
      /\ DOMAIN rids = 1 .. Len(rids)
      /\ \A i, j \in 1 .. Len(rids) : rids[i] = rids[j] => i = j
      /\ ToSet(rids) = Where(c, op, v)
      /\ \A d \in Attrs, i \in 1 .. Len(rids) : rids[i] \in Used(data[d])
  BY <1>1, WhereFinds
<1>0. {rids[i] : i \in 1 .. Len(rids)} = Where(c, op, v)
  BY <1>2 DEF ToSet
<1> HIDE DEF rids
<1>3. ASSUME NEW d \in Attrs, NEW q \in Attrs
      PROVE  /\ Deleted(N, data[d], DeleteRows(d, rids), rids, Len(rids))
             /\ Alike(DeleteRows(d, rids).file, DeleteRows(q, rids).file)
  <2>1. /\ ColumnSound(N, data[d], index[d]) /\ ColumnSound(N, data[q], index[q])
        /\ Alike(data[d], data[q])
    BY DEF TableSound
  <2>2. \A i \in 1 .. Len(rids) : rids[i] \in Used(data[d])
    BY <1>2
  <2> QED
    BY <1>2, <2>1, <2>2, RowsDeleted
<1>4. Attrs = {attrs[i] : i \in DOMAIN attrs}
  BY DEF Attrs, ToSet
<1>5. fails = {}
  <2>1. \A d \in Attrs : w[d].rc = OK
    BY <1>3 DEF Deleted
  <2> HIDE DEF w
  <2> QED
    BY <1>4, <2>1
<1>6. done = Attrs
  BY <1>4, <1>5
<1> HIDE DEF fails, done
<1>7. \A d \in Attrs : data'[d] = CloseRM(DeleteRows(d, rids).file) /\ index'[d] = DeleteRows(d, rids).ix
  BY <1>1, <1>6
<1>8. ASSUME NEW d \in Attrs
      PROVE  /\ ColumnSound(N, data'[d], index'[d])
             /\ Used(data'[d]) = Used(data[d]) \ Where(c, op, v)
             /\ \A r \in Used(data'[d]) : Rec(data'[d], r) = Rec(data[d], r)
  <2> DEFINE x == DeleteRows(d, rids)
  <2>1. /\ FileSound(N, x.file) /\ Indexed(x.file, x.ix) /\ Len(x.file.pages) = Len(data[d].pages)
        /\ Used(x.file) = Used(data[d]) \ Where(c, op, v)
        /\ \A r \in Used(x.file) : Rec(x.file, r) = Rec(data[d], r)
    BY <1>0, <1>3 DEF Deleted
  <2>2. data'[d] = CloseRM(x.file) /\ index'[d] = x.ix
    BY <1>7
  <2>3. Len(data[d].pages) <= MaxPages
    BY DEF TableSound, ColumnSound
  <2> HIDE DEF x
  <2>4. /\ FileSound(N, data'[d]) /\ Len(data'[d].pages) = Len(x.file.pages)
        /\ data'[d].hdr = data'[d].diskHdr /\ data'[d].bHdrChanged = FALSE
        /\ Used(data'[d]) = Used(x.file)
        /\ \A r \in Used(x.file) : Rec(data'[d], r) = Rec(x.file, r)
    BY <2>1, <2>2, ClosedFile
  <2>5. Indexed(data'[d], index'[d])
    BY <2>1, <2>2, <2>4, IndexedSame
  <2>6. ColumnSound(N, data'[d], index'[d])
    BY <2>1, <2>3, <2>4, <2>5 DEF ColumnSound
  <2> QED
    BY <2>1, <2>4, <2>6
<1>9. ASSUME NEW d \in Attrs, NEW q \in Attrs PROVE Alike(data'[d], data'[q])
  <2>1. FileSound(N, DeleteRows(d, rids).file) /\ FileSound(N, DeleteRows(q, rids).file)
    BY <1>3 DEF Deleted
  <2>2. Alike(CloseRM(DeleteRows(d, rids).file), CloseRM(DeleteRows(q, rids).file))
    BY <1>3, <2>1, AlikeClose
  <2> QED
    BY <1>7, <2>2
<1>10. DOMAIN data' = Attrs /\ DOMAIN index' = Attrs
  BY <1>1
<1>11. TableSound(N)'
  BY <1>1, <1>8, <1>9, <1>10 DEF TableSound
<1> QED
  BY <1>1, <1>8, <1>11

\* What an UPDATE of the rows Hit leaves in a column.
After(e, Hit, d, r) == IF d \in DOMAIN e /\ r \in Hit THEN e[d] ELSE Rec(data[d], r)

\* UPDATE: the rows of the where clause have the new values, in the columns named.
LEMMA UpdateSoundTable ==
  ASSUME NEW N \in Nat \ {0}, Careful(N), TableSound(N),
         NEW c, NEW op \in Ops, NEW v \in Given, NEW e \in Partial(Attrs),
         ~Aborts(c, op, v, e), Update(c, op, v, e)
  PROVE  /\ TableSound(N)' /\ CanSelect(c) /\ attrs' = attrs
         /\ \A d \in Attrs :
              /\ Used(data'[d]) = Used(data[d])
              /\ \A r \in Used(data[d]) : Rec(data'[d], r) = After(e, Where(c, op, v), d, r)
<1> DEFINE rids == SelectEntry(c, op, v)
           t    == UpdateRows(rids, e)
<1>1. CanSelect(c) /\ attrs' = attrs /\ Attrs' = Attrs /\ data' = t.data /\ index' = t.index
  BY DEF Update, Attrs
<1>2. /\ rids \in Seq(RidSpace)
      /\ DOMAIN rids = 1 .. Len(rids)
      /\ ToSet(rids) = Where(c, op, v)
      /\ \A d \in Attrs, i \in 1 .. Len(rids) : rids[i] \in Used(data[d])
  BY <1>1, WhereFinds
<1>3. {rids[i] : i \in 1 .. Len(rids)} = Where(c, op, v)
  BY <1>2 DEF ToSet
<1>4. t.rc = OK
  BY DEF Aborts
<1>5. \A d \in DOMAIN e : e[d] \in Vals \ {Null}
  <2>1. PICK D \in SUBSET Attrs : e \in [D -> Given]
    BY DEF Partial
  <2>2. Given \subseteq Vals \ {Null}
    BY TableAssumption DEF Careful
  <2> QED
    BY <2>1, <2>2
<1> HIDE DEF rids
<1>6. Updated(N, t, rids, e, Len(rids))
  BY <1>2, <1>5, RowsUpdated
<1> HIDE DEF t
<1>7. /\ DOMAIN data' = Attrs /\ DOMAIN index' = Attrs
      /\ \A d \in Attrs :
           /\ ColumnSound(N, data'[d], index'[d])
           /\ Alike(data[d], data'[d])
           /\ Used(data'[d]) = Used(data[d])
           /\ \A r \in Used(data[d]) : Rec(data'[d], r) = After(e, Where(c, op, v), d, r)
  BY <1>1, <1>3, <1>4, <1>6 DEF Updated, After
<1>8. ASSUME NEW d \in Attrs, NEW q \in Attrs PROVE Alike(data'[d], data'[q])
  <2>1. Alike(data[d], data[q]) /\ Alike(data[d], data'[d]) /\ Alike(data[q], data'[q])
    BY <1>7 DEF TableSound
  <2>2. Alike(data'[d], data[d])
    BY <2>1, AlikeBack
  <2>3. Alike(data'[d], data[q])
    BY <2>1, <2>2, AlikeChains
  <2> QED
    BY <2>1, <2>3, AlikeChains
<1>9. TableSound(N)'
  BY <1>1, <1>7, <1>8 DEF TableSound
<1> QED
  BY <1>1, <1>7, <1>9

----------------------------------------------------------------------------
\* A file without a page has no record, and closed it is the file it was when
\* it was created.
LEMMA EmptyFile ==
  ASSUME NEW N \in Nat \ {0}, NEW f, FileSound(N, f), f.hdr = f.diskHdr, f.bHdrChanged = FALSE,
         f.pages = <<>>
  PROVE  GetNumRecs(f) = 0 /\ Used(f) = {} /\ Alike(f, NewFile(N))
<1> DEFINE Solves(c) == c = [n \in 0 .. 0 |->
                               IF n = 0 THEN 0 ELSE c[n - 1] + f.slots - f.pages[n].numFreeSlots]
           cnt == CHOOSE c : Solves(c)
<1>1. Len(f.pages) = 0
  OBVIOUS
<1>2. Solves(cnt)
  <2> DEFINE z == [n \in 0 .. 0 |-> 0]
  <2>1. Solves(z)
    OBVIOUS
  <2> HIDE DEF Solves
  <2> QED
    BY <2>1
<1>3. cnt[0] = 0
  BY <1>2
<1>4. GetNumRecs(f) = cnt[0]
  BY <1>1 DEF GetNumRecs
<1>5. Used(f) = {}
  <2>1. 1 .. 0 = {}
    OBVIOUS
  <2> QED
    BY <1>1, <2>1, RidsInUse
<1>6. f.hdr = [firstFree |-> RM_PAGE_LIST_END, numPages |-> 1]
  <2>1. f.hdr \in Header /\ f.hdr.firstFree = RM_PAGE_LIST_END /\ f.hdr.numPages = 1
    BY <1>1 DEF FileSound, HeaderSound
  <2> QED
    BY <2>1 DEF Header
<1>7. Alike(f, NewFile(N))
  <2> DEFINE g == NewFile(N)
  <2>1. g.hdr = f.hdr /\ g.diskHdr = f.diskHdr /\ g.pages = f.pages
    BY <1>6 DEF NewFile
  <2>2. g.bHdrChanged = f.bHdrChanged
    BY DEF NewFile
  <2> HIDE DEF g
  <2>3. Alike(f, g)
    BY <2>1, <2>2 DEF Alike, PageAlike
  <2> QED
    BY <2>3 DEF g
<1> QED
  BY <1>3, <1>4, <1>5, <1>7

\* ADD COLUMN to a table whose files have no page.
LEMMA AddColumnSound ==
  ASSUME NEW N \in Nat \ {0}, Careful(N), TableSound(N), NEW c \in Columns,
         \A d \in Attrs : data[d].pages = <<>>, AddColumn(c)
  PROVE  /\ TableSound(N)' /\ c \notin Attrs /\ Attrs' = Attrs \cup {c}
         /\ \A d \in Attrs : Used(data[d]) = {}
         /\ \A d \in Attrs' : Used(data'[d]) = {}
<1> DEFINE n == Len(attrs)
<1>1. /\ n \in Nat /\ DOMAIN attrs = 1 .. n /\ Head(attrs) \in Attrs
      /\ Attrs = {attrs[i] : i \in 1 .. n} /\ attrs \in Seq(Columns)
  BY TheColumns DEF TableSound
<1>2. c \notin Attrs /\ attrs' = Append(attrs, c)
  BY DEF AddColumn
<1>3. /\ attrs' \in Seq(Columns) /\ Len(attrs') = n + 1 /\ DOMAIN attrs' = 1 .. n + 1
      /\ attrs'[n + 1] = c /\ \A i \in 1 .. n : attrs'[i] = attrs[i]
  BY <1>1, <1>2, AppendProperties, LenProperties
<1>4. Attrs' = {attrs'[i] : i \in 1 .. n + 1}
  BY <1>3 DEF Attrs, ToSet
<1> HIDE DEF n
<1>5. Attrs' = Attrs \cup {c}
  <2>1. 1 .. n + 1 = (1 .. n) \cup {n + 1}
    BY <1>1
  <2> QED
    BY <1>1, <1>3, <1>4, <2>1
<1>6. IsInjective(attrs')
  <2>1. \A i, j \in 1 .. n : attrs[i] = attrs[j] => i = j
    BY <1>1 DEF TableSound, IsInjective
  <2>2. \A i \in 1 .. n : attrs'[i] # c
    BY <1>1, <1>2, <1>3
  <2>3. \A i \in 1 .. n + 1 : i \in 1 .. n \/ i = n + 1
    BY <1>1
  <2>4. \A i, j \in 1 .. n + 1 : attrs'[i] = attrs'[j] => i = j
    BY <1>3, <2>1, <2>2, <2>3
  <2> QED
    BY <1>3, <2>4 DEF IsInjective
<1>7. attrs' # <<>>
  BY <1>1, <1>3
<1>8. ASSUME NEW d \in Attrs
      PROVE  /\ ColumnSound(N, data[d], index[d]) /\ GetNumRecs(data[d]) = 0
             /\ Used(data[d]) = {} /\ Alike(data[d], NewFile(N))
  <2>1. ColumnSound(N, data[d], index[d])
    BY DEF TableSound
  <2>2. FileSound(N, data[d]) /\ data[d].hdr = data[d].diskHdr /\ data[d].bHdrChanged = FALSE
    BY <2>1 DEF ColumnSound
  <2> QED
    BY <2>1, <2>2, EmptyFile
<1>9. /\ data' = [d \in Attrs \cup {c} |-> IF d = c THEN NewFile(N) ELSE data[d]]
      /\ index' = [d \in Attrs \cup {c} |-> IF d = c THEN <<>> ELSE index[d]]
  <2>1. GetNumRecs(data[Head(attrs)]) = 0
    BY <1>1, <1>8
  <2>2. Slots[c] = N
    BY DEF Careful
  <2>3. CloseRM(NewFile(N)) = NewFile(N)
    <3> DEFINE f == NewFile(N)
    <3>1. f.bHdrChanged = FALSE /\ f.hdr = f.diskHdr /\ f \in File(N)
      BY NewColumn DEF ColumnSound, FileSound
    <3> HIDE DEF f
    <3>2. CloseRM(f) = [f EXCEPT !.hdr = f.hdr, !.diskHdr = f.diskHdr, !.bHdrChanged = f.bHdrChanged]
      BY <3>1 DEF CloseRM
    <3>3. CloseRM(f) = f
      BY <3>1, <3>2 DEF File
    <3> QED
      BY <3>3 DEF f
  <2>4. data' = [d \in Attrs \cup {c} |-> IF d = c THEN CloseRM(NewFile(N)) ELSE data[d]]
    BY <2>1, <2>2 DEF AddColumn, Return
  <2> QED
    BY <2>3, <2>4 DEF AddColumn
<1>10. ASSUME NEW d \in Attrs'
       PROVE  ColumnSound(N, data'[d], index'[d]) /\ Used(data'[d]) = {} /\ Alike(data'[d], NewFile(N))
  <2>1. CASE d = c
    <3>1. data'[d] = NewFile(N) /\ index'[d] = <<>>
      BY <1>5, <1>9, <2>1
    <3>2. Alike(NewFile(N), NewFile(N))
      BY DEF Alike, PageAlike
    <3> QED
      BY <3>1, <3>2, NewColumn
  <2>2. CASE d # c
    <3>1. d \in Attrs /\ data'[d] = data[d] /\ index'[d] = index[d]
      BY <1>5, <1>9, <2>2
    <3> QED
      BY <1>8, <3>1
  <2> QED
    BY <2>1, <2>2
<1>11. ASSUME NEW d \in Attrs', NEW q \in Attrs' PROVE Alike(data'[d], data'[q])
  <2>1. Alike(NewFile(N), data'[q])
    BY <1>10, AlikeBack
  <2> QED
    BY <1>10, <2>1, AlikeChains
<1>12. DOMAIN data' = Attrs' /\ DOMAIN index' = Attrs'
  BY <1>5, <1>9
<1>13. TableSound(N)'
  BY <1>3, <1>6, <1>7, <1>10, <1>11, <1>12 DEF TableSound
<1> QED
  BY <1>2, <1>5, <1>8, <1>10, <1>13

\* A column list without one of its names.
LEMMA WithoutColumn ==
  ASSUME NEW S, NEW s \in Seq(S), IsInjective(s), NEW c \in ToSet(s)
  PROVE  /\ RemoveFirst(s, c) \in Seq(S) /\ Len(RemoveFirst(s, c)) = Len(s) - 1
         /\ ToSet(RemoveFirst(s, c)) = ToSet(s) \ {c}
         /\ IsInjective(RemoveFirst(s, c))
<1> DEFINE n == Len(s)
           t == RemoveFirst(s, c)
<1>1. n \in Nat /\ DOMAIN s = 1 .. n /\ ToSet(s) = {s[i] : i \in 1 .. n}
  BY LenProperties DEF ToSet
<1>2. PICK p \in 1 .. n : s[p] = c
  BY <1>1
<1>3. \A i, j \in 1 .. n : s[i] = s[j] => i = j
  BY <1>1 DEF IsInjective
<1>4. {i \in 1 .. n : s[i] = c} = {p}
  BY <1>2, <1>3
<1>5. Min({p}) = p
  BY DEF Min
<1>6. SelectInSeq(s, LAMBDA x : x = c) = p
  BY <1>4, <1>5 DEF SelectInSeq
<1>7. t = RemoveAt(s, p)
  BY <1>2, <1>6 DEF RemoveFirst
<1> HIDE DEF t
<1>8. /\ t \in Seq(S) /\ Len(t) = n - 1
      /\ \A j \in 1 .. n - 1 : t[j] = IF j < p THEN s[j] ELSE s[j + 1]
  BY <1>2, <1>7, RemovedAt
<1>9. DOMAIN t = 1 .. n - 1 /\ ToSet(t) = {t[j] : j \in 1 .. n - 1}
  BY <1>8, LenProperties DEF ToSet
<1> DEFINE At(j) == IF j < p THEN j ELSE j + 1
<1>10. \A j \in 1 .. n - 1 : At(j) \in 1 .. n /\ At(j) # p /\ t[j] = s[At(j)]
  BY <1>1, <1>8
<1>11. \A i \in 1 .. n : i # p => \E j \in 1 .. n - 1 : At(j) = i
  <2> TAKE i \in 1 .. n
  <2> HAVE i # p
  <2>1. CASE i < p
    <3>1. i \in 1 .. n - 1 /\ At(i) = i
      BY <1>1, <2>1
    <3> QED
      BY <3>1
  <2>2. CASE ~(i < p)
    <3>1. i - 1 \in 1 .. n - 1 /\ At(i - 1) = i
      BY <1>1, <2>2
    <3> QED
      BY <3>1
  <2> QED
    BY <2>1, <2>2
<1>12. \A i, j \in 1 .. n - 1 : At(i) = At(j) => i = j
  BY <1>1
<1> HIDE DEF At, n
<1>13. ToSet(t) = ToSet(s) \ {c}
  <2>1. \A j \in 1 .. n - 1 : t[j] \in ToSet(s) \ {c}
    BY <1>1, <1>2, <1>3, <1>10
  <2>2. ASSUME NEW x \in ToSet(s), x # c PROVE x \in ToSet(t)
    <3>1. PICK i \in 1 .. n : x = s[i]
      BY <1>1
    <3>2. i # p
      BY <1>2, <2>2, <3>1
    <3>3. PICK j \in 1 .. n - 1 : At(j) = i
      BY <1>11, <3>2
    <3> QED
      BY <1>9, <1>10, <3>1, <3>3
  <2> QED
    BY <1>9, <2>1, <2>2
<1>14. IsInjective(t)
  BY <1>3, <1>9, <1>10, <1>12 DEF IsInjective
<1> QED
  BY <1>8, <1>13, <1>14 DEF t, n

\* DROP COLUMN of one of several: the others stay.
LEMMA DropColumnSound ==
  ASSUME NEW N \in Nat \ {0}, TableSound(N), NEW c, Len(attrs) > 1, DropColumn(c)
  PROVE  /\ TableSound(N)' /\ c \in Attrs /\ Attrs' = Attrs \ {c}
         /\ \A d \in Attrs' : data'[d] = data[d]
<1>1. c \in Attrs /\ attrs' = RemoveFirst(attrs, c)
  BY DEF DropColumn
<1>2. attrs \in Seq(Columns) /\ IsInjective(attrs) /\ Len(attrs) \in Nat /\ c \in ToSet(attrs)
  BY <1>1, TheColumns DEF TableSound, Attrs
<1>3. /\ attrs' \in Seq(Columns) /\ Len(attrs') = Len(attrs) - 1
      /\ ToSet(attrs') = ToSet(attrs) \ {c} /\ IsInjective(attrs')
  BY <1>1, <1>2, WithoutColumn
<1>4. Attrs' = Attrs \ {c}
  BY <1>3 DEF Attrs
<1>5. attrs' # <<>>
  <2>1. Len(attrs') > 0
    BY <1>2, <1>3
  <2> QED
    BY <2>1
<1>6. /\ DOMAIN data' = Attrs' /\ DOMAIN index' = Attrs'
      /\ \A d \in Attrs' : data'[d] = data[d] /\ index'[d] = index[d]
  BY <1>4 DEF DropColumn
<1>7. \A d \in Attrs' : d \in Attrs
  BY <1>4
<1>8. TableSound(N)'
  BY <1>3, <1>5, <1>6, <1>7 DEF TableSound
<1> QED
  BY <1>1, <1>4, <1>6, <1>8

\* RENAME COLUMN: the files go by another name.
LEMMA RenameColumnSound ==
  ASSUME NEW N \in Nat \ {0}, TableSound(N), NEW c, NEW m \in Columns, RenameColumn(c, m)
  PROVE  /\ TableSound(N)' /\ c \in Attrs /\ m \notin Attrs /\ Attrs' = (Attrs \ {c}) \cup {m}
         /\ \A d \in Attrs' : /\ (IF d = m THEN c ELSE d) \in Attrs
                              /\ data'[d] = data[IF d = m THEN c ELSE d]
<1> DEFINE n == Len(attrs)
           Old(d) == IF d = m THEN c ELSE d
           All == (Attrs \ {c}) \cup {m}
<1>1. /\ c \in Attrs /\ m \notin Attrs
      /\ attrs' = [i \in DOMAIN attrs |-> IF attrs[i] = c THEN m ELSE attrs[i]]
      /\ data'  = [d \in All |-> data[Old(d)]]
      /\ index' = [d \in All |-> index[Old(d)]]
  BY DEF RenameColumn
<1>2. /\ n \in Nat /\ DOMAIN attrs = 1 .. n /\ n > 0 /\ Attrs = {attrs[i] : i \in 1 .. n}
      /\ Attrs \subseteq Columns
  BY TheColumns
<1>3. \A i, j \in 1 .. n : attrs[i] = attrs[j] => i = j
  BY <1>2 DEF TableSound, IsInjective
<1> HIDE DEF n
<1>4. DOMAIN attrs' = 1 .. n /\ \A i \in 1 .. n : attrs'[i] = IF attrs[i] = c THEN m ELSE attrs[i]
  BY <1>1, <1>2
<1>5. attrs' \in Seq(Columns) /\ Len(attrs') = n
  <2>1. \A i \in 1 .. n : attrs'[i] \in Columns
    BY <1>2, <1>4
  <2>2. attrs' \in [1 .. n -> Columns]
    BY <1>1, <1>2, <2>1
  <2>3. attrs' \in Seq(Columns)
    BY <1>2, <2>2, SeqDef
  <2> QED
    BY <1>2, <1>4, <2>3, LenProperties
<1>6. attrs' # <<>>
  BY <1>2, <1>5
<1>7. \A i, j \in 1 .. n : attrs'[i] = attrs'[j] => i = j
  <2>1. \A i \in 1 .. n : attrs[i] # m
    BY <1>1, <1>2
  <2> QED
    BY <1>3, <1>4, <2>1
<1>8. IsInjective(attrs')
  BY <1>4, <1>7 DEF IsInjective
<1>9. Attrs' = All
  <2>1. Attrs' = {attrs'[i] : i \in 1 .. n}
    BY <1>4 DEF Attrs, ToSet
  <2>2. \A i \in 1 .. n : attrs'[i] \in All
    BY <1>2, <1>4
  <2>3. ASSUME NEW d \in All PROVE d \in Attrs'
    <3>1. CASE d = m
      <4>1. PICK i \in 1 .. n : attrs[i] = c
        BY <1>1, <1>2
      <4>2. attrs'[i] = m
        BY <1>4, <4>1
      <4> QED
        BY <2>1, <3>1, <4>2
    <3>2. CASE d # m
      <4>1. d \in Attrs /\ d # c
        BY <3>2
      <4>2. PICK i \in 1 .. n : attrs[i] = d
        BY <1>2, <4>1
      <4>3. attrs'[i] = d
        BY <1>4, <4>1, <4>2
      <4> QED
        BY <2>1, <4>3
    <3> QED
      BY <3>1, <3>2
  <2> HIDE DEF All
  <2> QED
    BY <2>1, <2>2, <2>3
<1>10. \A d \in Attrs' : Old(d) \in Attrs
  BY <1>1, <1>9
<1>11. \A d \in Attrs' : data'[d] = data[Old(d)] /\ index'[d] = index[Old(d)]
  <2> HIDE DEF Old, All
  <2> QED
    BY <1>1, <1>9
<1>12. DOMAIN data' = Attrs' /\ DOMAIN index' = Attrs'
  <2> HIDE DEF Old, All
  <2> QED
    BY <1>1, <1>9
<1>13. TableSound(N)'
  <2> HIDE DEF Old
  <2>1. \A d \in Attrs' : ColumnSound(N, data'[d], index'[d])
    BY <1>10, <1>11 DEF TableSound
  <2>2. \A d, q \in Attrs' : Alike(data'[d], data'[q])
    BY <1>10, <1>11 DEF TableSound
  <2> QED
    BY <1>5, <1>6, <1>8, <1>12, <2>1, <2>2 DEF TableSound
<1> QED
  BY <1>1, <1>9, <1>10, <1>11, <1>13

----------------------------------------------------------------------------
\* Every statement of a careful session keeps the table sound.
LEMMA StatementSound ==
  ASSUME NEW N \in Nat \ {0}, Careful(N), TableSound(N), [CarefulNext]_vars
  PROVE  TableSound(N)'
<1>1. ASSUME NEW as \in Schemas, Recreate(as) PROVE TableSound(N)'
  BY <1>1, RecreateSound
<1>2. ASSUME NEW e \in Partial(Attrs), Insert(e) PROVE TableSound(N)'
  BY <1>2, InsertSoundTable
<1>3. ASSUME NEW c \in Columns, NEW op \in Ops, NEW v \in Given, Delete(c, op, v)
      PROVE  TableSound(N)'
  BY <1>3, DeleteSoundTable
<1>4. ASSUME NEW c \in Columns, NEW op \in Ops, NEW v \in Given, NEW e \in Partial(Attrs),
             ~Aborts(c, op, v, e), Update(c, op, v, e)
      PROVE  TableSound(N)'
  BY <1>4, UpdateSoundTable
<1>5. ASSUME NEW c \in Columns, \A d \in Attrs : data[d].pages = <<>>, AddColumn(c)
      PROVE  TableSound(N)'
  BY <1>5, AddColumnSound
<1>6. ASSUME NEW c \in Columns, Len(attrs) > 1, DropColumn(c)
      PROVE  TableSound(N)'
  BY <1>6, DropColumnSound
<1>7. ASSUME NEW c \in Columns, NEW m \in Columns, RenameColumn(c, m)
      PROVE  TableSound(N)'
  BY <1>7, RenameColumnSound
<1>8. CASE UNCHANGED vars
  <2>1. attrs' = attrs /\ data' = data /\ index' = index /\ Attrs' = Attrs
    BY <1>8 DEF vars, Attrs
  <2> QED
    BY <2>1 DEF TableSound
<1> QED
  BY <1>1, <1>2, <1>3, <1>4, <1>5, <1>6, <1>7, <1>8 DEF CarefulNext

\* The table is sound in every state of a careful session.
THEOREM AlwaysTableSound ==
  ASSUME NEW N \in Nat \ {0}, Careful(N)
  PROVE  CarefulSpec => []TableSound(N)
<1>1. Init => TableSound(N)
  BY SoundAtFirst
<1>2. TableSound(N) /\ [CarefulNext]_vars => TableSound(N)'
  BY StatementSound
<1> QED
  BY <1>1, <1>2, PTL DEF CarefulSpec

----------------------------------------------------------------------------
\* A table has at most MaxRows rows.
FewRows == \A c \in Attrs : Cardinality(Used(data[c])) <= MaxRows

\* Every index is one leaf: no InsertEntry of the session had to split it.
OneLeaf == \A c \in Attrs : Len(index[c]) <= MaxKeys

LEMMA RowsFinite ==
  ASSUME NEW N \in Nat \ {0}, NEW f, FileSound(N, f)
  PROVE  IsFiniteSet(Used(f)) /\ Cardinality(Used(f)) \in Nat
<1> DEFINE All == (1 .. Len(f.pages)) \X (0 .. N - 1)
<1>1. Len(f.pages) \in Nat
  BY PagesTyped
<1>2. IsFiniteSet(1 .. Len(f.pages))
  <2>1. 1 \in Int /\ Len(f.pages) \in Int
    BY <1>1
  <2> QED
    BY <2>1, FS_Interval, Zenon
<1>3. IsFiniteSet(All)
  <2>1. 0 \in Int /\ N - 1 \in Int
    OBVIOUS
  <2>2. IsFiniteSet(0 .. N - 1)
    BY <2>1, FS_Interval
  <2> QED
    BY <1>2, <2>2, FS_Product
<1>4. Used(f) \subseteq All
  BY RidsInUse
<1> HIDE DEF All
<1> QED
  BY <1>3, <1>4, FS_Subset, FS_CardinalityType

\* Rows come one by one, and only while there are fewer than MaxRows.
LEMMA FewRowsKept ==
  ASSUME NEW N \in Nat \ {0}, Careful(N), TableSound(N), FewRows, [CarefulNext]_vars
  PROVE  FewRows'
<1>1. \A c \in Attrs : /\ IsFiniteSet(Used(data[c])) /\ Cardinality(Used(data[c])) \in Nat
                      /\ Cardinality(Used(data[c])) <= MaxRows
  BY RowsFinite DEF TableSound, ColumnSound, FewRows
<1>2. MaxRows \in Nat
  BY TableAssumption
<1>3. Cardinality({}) <= MaxRows
  BY <1>2, FS_EmptySet
<1>4. ASSUME NEW as \in Schemas, Recreate(as) PROVE FewRows'
  <2>1. \A c \in Attrs' : Used(data'[c]) = {}
    BY <1>4, RecreateSound
  <2> QED
    BY <1>3, <2>1 DEF FewRows
<1>5. ASSUME NEW e \in Partial(Attrs), Insert(e) PROVE FewRows'
  <2>1. PICK rid \in RidSpace : \A c \in Attrs : Used(data'[c]) = Used(data[c]) \cup {rid}
    BY <1>5, InsertSoundTable
  <2>2. Attrs' = Attrs /\ \A c \in Attrs : Cardinality(Used(data[c])) < MaxRows
    BY <1>5 DEF Insert, Attrs
  <2>3. ASSUME NEW c \in Attrs PROVE Cardinality(Used(data'[c])) <= MaxRows
    <3> DEFINE U == Used(data[c])
    <3>1. IsFiniteSet(U) /\ Cardinality(U) \in Nat /\ Cardinality(U) < MaxRows
      BY <1>1, <2>2
    <3>2. Used(data'[c]) = U \cup {rid}
      BY <2>1
    <3> HIDE DEF U
    <3>3. Cardinality(U \cup {rid}) = IF rid \in U THEN Cardinality(U) ELSE Cardinality(U) + 1
      BY <3>1, FS_AddElement
    <3> QED
      BY <1>2, <3>1, <3>2, <3>3
  <2> QED
    BY <2>2, <2>3 DEF FewRows
<1>6. ASSUME NEW c \in Columns, NEW op \in Ops, NEW v \in Given, Delete(c, op, v) PROVE FewRows'
  <2>1. attrs' = attrs /\ \A d \in Attrs : Used(data'[d]) = Used(data[d]) \ Where(c, op, v)
    BY <1>6, DeleteSoundTable
  <2>2. ASSUME NEW d \in Attrs PROVE Cardinality(Used(data'[d])) <= MaxRows
    <3> DEFINE U == Used(data[d])
               V == Used(data'[d])
    <3>1. IsFiniteSet(U) /\ Cardinality(U) \in Nat /\ Cardinality(U) <= MaxRows /\ V \subseteq U
      BY <1>1, <2>1
    <3> HIDE DEF U, V
    <3>2. IsFiniteSet(V) /\ Cardinality(V) <= Cardinality(U)
      BY <3>1, FS_Subset
    <3>3. Cardinality(V) \in Nat
      BY <3>2, FS_CardinalityType
    <3>4. Cardinality(V) <= MaxRows
      BY <1>2, <3>1, <3>2, <3>3
    <3> QED
      BY <3>4 DEF V
  <2>3. Attrs' = Attrs
    BY <2>1 DEF Attrs
  <2> QED
    BY <2>2, <2>3 DEF FewRows
<1>7. ASSUME NEW c \in Columns, NEW op \in Ops, NEW v \in Given, NEW e \in Partial(Attrs),
             ~Aborts(c, op, v, e), Update(c, op, v, e)
      PROVE  FewRows'
  <2>1. attrs' = attrs /\ \A d \in Attrs : Used(data'[d]) = Used(data[d])
    BY <1>7, UpdateSoundTable
  <2>2. Attrs' = Attrs
    BY <2>1 DEF Attrs
  <2> QED
    BY <2>1, <2>2 DEF FewRows
<1>8. ASSUME NEW c \in Columns, \A d \in Attrs : data[d].pages = <<>>, AddColumn(c) PROVE FewRows'
  <2>1. \A d \in Attrs' : Used(data'[d]) = {}
    BY <1>8, AddColumnSound
  <2> QED
    BY <1>3, <2>1 DEF FewRows
<1>9. ASSUME NEW c \in Columns, Len(attrs) > 1, DropColumn(c) PROVE FewRows'
  <2>1. Attrs' = Attrs \ {c} /\ \A d \in Attrs' : data'[d] = data[d]
    BY <1>9, DropColumnSound
  <2> QED
    BY <2>1 DEF FewRows
<1>10. ASSUME NEW c \in Columns, NEW m \in Columns, RenameColumn(c, m) PROVE FewRows'
  <2>1. \A d \in Attrs' : \E q \in Attrs : data'[d] = data[q]
    BY <1>10, RenameColumnSound
  <2> QED
    BY <2>1 DEF FewRows
<1>11. CASE UNCHANGED vars
  <2>1. data' = data /\ Attrs' = Attrs
    BY <1>11 DEF vars, Attrs
  <2> QED
    BY <2>1 DEF FewRows
<1> QED
  BY <1>4, <1>5, <1>6, <1>7, <1>8, <1>9, <1>10, <1>11 DEF CarefulNext

\* An exact index has no more entries than the table has rows.
LEMMA FewEntries ==
  ASSUME NEW f, NEW ix, Indexed(f, ix), IsFiniteSet(Used(f))
  PROVE  Len(ix) \in Nat /\ Len(ix) <= Cardinality(Used(f))
<1> DEFINE n == Len(ix)
           M == [i \in 1 .. n |-> ix[i].rid]
<1>1. n \in Nat /\ DOMAIN ix = 1 .. n
  BY LenProperties DEF Indexed, Ascending
<1>2. \A i \in 1 .. n : ix[i] \in Index!Entries(ix)
  BY <1>1 DEF Index!Entries
<1>3. \A i \in 1 .. n : ix[i].rid \in Used(f)
  BY <1>2, EntriesMeet
<1>4. ASSUME NEW i \in 1 .. n, NEW j \in 1 .. n, ix[i].rid = ix[j].rid PROVE i = j
  <2>1. ix[i] = ix[j]
    BY <1>2, <1>4, EntriesMeet
  <2>2. ~(i < j) /\ ~(j < i)
    BY <1>1, <2>1 DEF Indexed, Ascending
  <2> HIDE DEF n
  <2> QED
    BY <1>1, <2>2
<1> HIDE DEF n
<1>5. M \in Injection(1 .. n, Used(f))
  BY <1>3, <1>4 DEF Injection, IsInjective
<1>6. Cardinality(1 .. n) <= Cardinality(Used(f))
  BY <1>5, FS_Injection
<1>7. Cardinality(1 .. n) = n
  BY <1>1, FS_Interval
<1> QED
  BY <1>1, <1>6, <1>7 DEF n

\* However the rows come, go and change, no index of the session grows past its
\* root: MaxKeys is what a leaf takes, and scans are those of one leaf.
THEOREM IndexesAreLeaves ==
  ASSUME NEW N \in Nat \ {0}, Careful(N)
  PROVE  CarefulSpec => []OneLeaf
<1>1. Init => FewRows
  <2> SUFFICES ASSUME Init PROVE FewRows
    OBVIOUS
  <2>1. \A c \in Attrs : Used(data[c]) = {}
    BY SoundAtFirst
  <2>2. Cardinality({}) = 0 /\ 0 <= MaxRows
    BY TableAssumption, FS_EmptySet
  <2> QED
    BY <2>1, <2>2 DEF FewRows
<1>2. TableSound(N) /\ FewRows /\ [CarefulNext]_vars => FewRows'
  BY FewRowsKept
<1>3. TableSound(N) /\ FewRows => OneLeaf
  <2> SUFFICES ASSUME TableSound(N), FewRows, NEW c \in Attrs PROVE Len(index[c]) <= MaxKeys
    BY DEF OneLeaf
  <2>1. FileSound(N, data[c]) /\ Indexed(data[c], index[c])
    BY DEF TableSound, ColumnSound
  <2> DEFINE m == Cardinality(Used(data[c]))
  <2>2. IsFiniteSet(Used(data[c])) /\ m \in Nat /\ m <= MaxRows
    BY <2>1, RowsFinite DEF FewRows
  <2>3. Len(index[c]) \in Nat /\ Len(index[c]) <= m
    BY <2>1, <2>2, FewEntries
  <2> HIDE DEF m
  <2> QED
    BY <2>2, <2>3, TableAssumption, NodeAssumption
<1> QED
  BY <1>1, <1>2, <1>3, AlwaysTableSound, PTL DEF CarefulSpec

\* The files of a column have their types, and its index names slots of it.
THEOREM TablesTyped ==
  ASSUME NEW N \in Nat \ {0}, Careful(N)
  PROVE  CarefulSpec => []TypeOK
<1>1. ASSUME TableSound(N), NEW c \in Attrs
      PROVE  /\ IsFile(data[c], MaxPages) /\ data[c].slots = Slots[c]
             /\ \A e \in Index!Entries(index[c]) : InPages(data[c], e.rid) /\ e.key \in Vals
  <2> DEFINE f == data[c]
             P == Pages(MaxPages, N)
             n == Len(f.pages)
  <2>1. ColumnSound(N, f, index[c]) /\ Slots[c] = N
    <3>1. c \in Columns
      BY <1>1, TheColumns
    <3> QED
      BY <1>1, <3>1 DEF TableSound, Careful
  <2> HIDE DEF f
  <2>2. FileSound(N, f) /\ f \in File(N) /\ n \in Nat /\ n <= MaxPages /\ MaxPages \in Nat
    BY <2>1, PagesTyped, TableAssumption DEF ColumnSound, FileSound
  <2>3. \A i \in 1 .. n : f.pages[i] \in P
    <3> TAKE i \in 1 .. n
    <3>1. PageSound(N, f.pages[i], n)
      BY <2>2 DEF FileSound
    <3> QED
      BY <3>1, <2>2 DEF PageSound, Page, Pages, Links
  <2>4. f.pages \in Seq(P)
    <3> HIDE DEF P
    <3> QED
      BY <2>2, <2>3, PagesTyped, LenProperties
  <2>5. f.hdr \in Headers(MaxPages) /\ f.diskHdr \in Headers(MaxPages)
    <3> SUFFICES ASSUME NEW h, HeaderSound(h, n) PROVE h \in Headers(MaxPages)
      BY <2>2 DEF FileSound
    <3> HIDE DEF n
    <3>1. h.firstFree \in Links(MaxPages) /\ h.numPages \in 1 .. MaxPages + 1
      BY <2>2 DEF HeaderSound, Links
    <3> QED
      BY <3>1 DEF HeaderSound, Header, Headers
  <2>6. IsFile(f, MaxPages) /\ f.slots = N
    BY <2>2, <2>4, <2>5 DEF IsFile, File
  <2>7. ASSUME NEW e \in Index!Entries(index[c]) PROVE InPages(f, e.rid) /\ e.key \in Vals
    <3>1. Indexed(f, index[c])
      BY <2>1 DEF ColumnSound
    <3>2. e.rid \in Used(f) /\ e.key = Rec(f, e.rid)
      BY <3>1, EntriesMeet
    <3>3. InPages(f, e.rid)
      BY <3>2 DEF Used, InPages
    <3> QED
      BY <3>1, <3>2, <3>3 DEF Indexed
  <2> QED
    BY <2>1, <2>6, <2>7 DEF f
<1>2. TableSound(N) => TypeOK
  BY <1>1 DEF TypeOK, TableSound
<1> QED
  BY <1>2, AlwaysTableSound, PTL

\* The RID of each column in its .data file keeps the same, for any number of
\* columns and pages: the free slots of all columns are chained alike.
THEOREM RidsAlwaysAgree ==
  ASSUME NEW N \in Nat \ {0}, Careful(N)
  PROVE  CarefulSpec => []RidsAgree
<1>1. TableSound(N) => RidsAgree
  BY SameRids DEF RidsAgree
<1> QED
  BY <1>1, AlwaysTableSound, PTL

\* An index holds an entry for each record that is not NULL, in order, and
\* nothing else.
THEOREM IndexAlwaysExact ==
  ASSUME NEW N \in Nat \ {0}, Careful(N)
  PROVE  CarefulSpec => []IndexExact
<1>1. TableSound(N) => IndexExact
  <2> SUFFICES ASSUME TableSound(N), NEW c \in Attrs
               PROVE  LET ix == index[c]
                      IN  /\ \A i, j \in DOMAIN ix : i < j => ix[i].key <= ix[j].key /\ ix[i] # ix[j]
                          /\ Index!Entries(ix) = {Index!Entry(Rec(data[c], rid), rid) :
                                              rid \in {r \in Used(data[c]) : Rec(data[c], r) # Null}}
    BY DEF IndexExact
  <2>1. Indexed(data[c], index[c])
    BY DEF TableSound, ColumnSound
  <2> QED
    BY <2>1 DEF Indexed, Ascending, EntriesFor
<1> QED
  BY <1>1, AlwaysTableSound, PTL

\* While every index is one leaf, which a table of MaxKeys rows keeps to, a where
\* clause selects each row that compares as asked, once.
THEOREM SelectsExactly ==
  ASSUME NEW N \in Nat \ {0}, Careful(N)
  PROVE  CarefulSpec => [](OneLeaf /\ SelectExact)
<1>1. TableSound(N) => SelectExact
  <2> SUFFICES ASSUME TableSound(N), NEW c \in Attrs, NEW op \in Ops, NEW v \in Given, CanSelect(c)
               PROVE  LET rids == SelectEntry(c, op, v)
                      IN  /\ IsInjective(rids)
                          /\ ToSet(rids) = {r \in Used(data[c]) : Rel!Compares(Rec(data[c], r), op, v)}
    BY DEF SelectExact
  <2> DEFINE rids == SelectEntry(c, op, v)
  <2>1. /\ DOMAIN rids = 1 .. Len(rids)
        /\ \A i, j \in 1 .. Len(rids) : rids[i] = rids[j] => i = j
        /\ ToSet(rids) = Where(c, op, v)
    BY WhereFinds
  <2> HIDE DEF rids
  <2>2. IsInjective(rids)
    BY <2>1 DEF IsInjective
  <2> QED
    BY <2>1, <2>2 DEF Where, rids
<1> QED
  BY <1>1, AlwaysTableSound, IndexesAreLeaves, PTL

\* A DELETE does not stop half-way, however many of the rows it selected.
THEOREM DeletesAlwaysSucceed ==
  ASSUME NEW N \in Nat \ {0}, Careful(N)
  PROVE  CarefulSpec => []DeletesSucceed
<1>1. TableSound(N) => DeletesSucceed
  <2> SUFFICES ASSUME TableSound(N), NEW c \in Attrs, NEW op \in Ops, NEW v \in Given, CanSelect(c),
                      NEW d \in Attrs
               PROVE  DeleteRows(d, SelectEntry(c, op, v)).rc = OK
    BY DEF DeletesSucceed
  <2> DEFINE rids == SelectEntry(c, op, v)
  <2>1. /\ rids \in Seq(RidSpace)
        /\ \A i, j \in 1 .. Len(rids) : rids[i] = rids[j] => i = j
        /\ \A i \in 1 .. Len(rids) : rids[i] \in Used(data[d])
    BY WhereFinds
  <2> HIDE DEF rids
  <2>2. ColumnSound(N, data[d], index[d]) /\ Alike(data[d], data[d])
    BY DEF TableSound
  <2>3. Deleted(N, data[d], DeleteRows(d, rids), rids, Len(rids))
    BY <2>1, <2>2, RowsDeleted
  <2> QED
    BY <2>3 DEF Deleted, rids
<1> QED
  BY <1>1, AlwaysTableSound, PTL

----------------------------------------------------------------------------
\* The rows U of the columns A with their files f.
Shown(A, f, U) == [rid \in U |-> [c \in A |-> Rec(f[c], rid)]]
RowsOf(as, f) ==
  [rid \in Used(f[Head(as)]) |->
     [c \in ToSet(as) |-> IF InPages(f[c], rid) THEN Rec(f[c], rid) ELSE Free]]

\* Any column has the rids of the rows, and every column a record at each.
LEMMA ShownRows ==
  ASSUME NEW N \in Nat \ {0}, NEW as \in Seq(Columns), as # <<>>, NEW f, NEW ix, NEW c \in ToSet(as),
         \A d \in ToSet(as) : ColumnSound(N, f[d], ix[d]),
         \A d, q \in ToSet(as) : Alike(f[d], f[q])
  PROVE  RowsOf(as, f) = Shown(ToSet(as), f, Used(f[c]))
<1>1. Head(as) \in ToSet(as)
  <2> DEFINE n == Len(as)
  <2>1. n \in Nat /\ DOMAIN as = 1 .. n
    BY LenProperties
  <2>2. n # 0
    BY EmptySeq
  <2>3. Head(as) = as[1]
    OBVIOUS
  <2> HIDE DEF n
  <2>4. 1 \in 1 .. n
    BY <2>1, <2>2
  <2>5. as[1] \in ToSet(as)
    BY ONLY <2>1, <2>4 DEF ToSet
  <2> QED
    BY ONLY <2>3, <2>5
<1>2. \A d \in ToSet(as) : FileSound(N, f[d])
  BY DEF ColumnSound
<1>3. \A d \in ToSet(as) : Used(f[d]) = Used(f[c])
  BY <1>2, AlikeUse
<1>4. \A d \in ToSet(as), r \in Used(f[c]) : InPages(f[d], r)
  <2>1. \A d \in ToSet(as) : \A r \in Used(f[d]) : InPages(f[d], r)
    BY DEF Used, InPages
  <2> QED
    BY <1>3, <2>1
<1> QED
  BY <1>1, <1>3, <1>4 DEF RowsOf, Shown

\* The rows can be read off the rids of any column.
LEMMA RowsNow ==
  ASSUME NEW N \in Nat \ {0}, TableSound(N), NEW c \in Attrs
  PROVE  Rows = Shown(Attrs, data, Used(data[c]))
<1>1. Rows = RowsOf(attrs, data)
  BY DEF Rows, Attrs, Value, RowsOf
<1>2. RowsOf(attrs, data) = Shown(ToSet(attrs), data, Used(data[c]))
  BY ShownRows DEF TableSound, Attrs
<1> QED
  BY <1>1, <1>2 DEF Attrs

\* The same after a step.
LEMMA RowsThen ==
  ASSUME NEW N \in Nat \ {0}, TableSound(N)', NEW c \in Attrs'
  PROVE  Rows' = Shown(Attrs', data', Used(data'[c]))
<1>1. Rows' = RowsOf(attrs', data')
  BY DEF Rows, Attrs, Value, RowsOf
<1>2. RowsOf(attrs', data') = Shown(ToSet(attrs'), data', Used(data'[c]))
  BY ShownRows DEF TableSound, Attrs
<1> QED
  BY <1>1, <1>2 DEF Attrs

\* There is a column, and its rows are rows of the relation.
LEMMA FirstColumnThen ==
  ASSUME NEW N \in Nat \ {0}, TableSound(N)'
  PROVE  \E c \in Attrs' : c \in Columns /\ Rows' = Shown(Attrs', data', Used(data'[c]))
<1>1. attrs' \in Seq(Columns) /\ attrs' # <<>>
  BY DEF TableSound
<1>2. Len(attrs') \in Nat /\ DOMAIN attrs' = 1 .. Len(attrs') /\ Len(attrs') > 0 /\ attrs'[1] \in Columns
  BY <1>1, LenProperties, EmptySeq, ElementOfSeq
<1>3. attrs'[1] \in Attrs'
  BY <1>2 DEF Attrs, ToSet
<1> QED
  BY <1>2, <1>3, RowsThen

\* Every statement is the statement of the relation, in full.
LEMMA InsertMaps ==
  ASSUME NEW N \in Nat \ {0}, Careful(N), TableSound(N), NEW e \in Partial(Attrs), Insert(e)
  PROVE  e \in Rel!Partial /\ Rel!Insert(e)
<1>1. TableSound(N)'
  BY InsertSoundTable
<1>2. PICK rid \in RidSpace : \A c \in Attrs :
        /\ rid \notin Used(data[c]) /\ Used(data'[c]) = Used(data[c]) \cup {rid}
        /\ Rec(data'[c], rid) = ValueOf(e, c)
        /\ \A r \in Used(data[c]) : Rec(data'[c], r) = Rec(data[c], r)
  BY InsertSoundTable
<1>3. Attrs' = Attrs /\ Attrs \subseteq Columns
  BY TheColumns DEF Insert, Attrs
<1>4. PICK c \in Attrs' : c \in Columns /\ Rows' = Shown(Attrs', data', Used(data'[c]))
  BY <1>1, FirstColumnThen
<1>5. Rows = Shown(Attrs, data, Used(data[c]))
  BY <1>3, RowsNow
<1> DEFINE U == Used(data[c])
<1>6. DOMAIN Rows = U /\ Used(data'[c]) = U \cup {rid} /\ rid \notin U
  BY <1>2, <1>3, <1>5 DEF Shown
<1>7. rid \in (1 .. MaxPages) \X UNION {0 .. Slots[d] - 1 : d \in Columns}
  <2>1. ColumnSound(N, data'[c], index'[c]) /\ Slots[c] = N
    BY <1>1, <1>4 DEF TableSound, Careful
  <2>2. FileSound(N, data'[c]) /\ Len(data'[c].pages) \in Nat /\ Len(data'[c].pages) <= MaxPages
    BY <2>1, PagesTyped DEF ColumnSound
  <2>3. Used(data'[c]) = {r \in (1 .. Len(data'[c].pages)) \X (0 .. N - 1) : Rec(data'[c], r) # Free}
    BY <2>2, RidsInUse
  <2>4. rid \in (1 .. Len(data'[c].pages)) \X (0 .. N - 1)
    BY <1>6, <2>3
  <2>5. 0 .. N - 1 \in {0 .. Slots[d] - 1 : d \in Columns}
    BY <1>4, <2>1
  <2>6. rid[1] \in 1 .. MaxPages /\ rid[2] \in 0 .. N - 1 /\ rid = <<rid[1], rid[2]>>
    BY <2>2, <2>4, TableAssumption
  <2> QED
    BY <2>5, <2>6
<1>8. e \in Rel!Partial /\ DOMAIN e \subseteq Attrs
  BY <1>3 DEF Partial, Rel!Partial
<1>9. ASSUME NEW q \in U \cup {rid}
      PROVE  [d \in Attrs |-> Rec(data'[d], q)]
               = IF q = rid THEN Rel!Over([d \in Attrs |-> Null], e) ELSE Rows[q]
  <2>1. CASE q = rid
    <3>1. \A d \in Attrs : Rec(data'[d], q) = IF d \in DOMAIN e THEN e[d] ELSE Null
      BY <1>2, <2>1 DEF ValueOf
    <3> QED
      BY <2>1, <3>1 DEF Rel!Over
  <2>2. CASE q # rid
    <3>1. q \in U
      BY <2>2
    <3>2. \A d \in Attrs : Rec(data'[d], q) = Rec(data[d], q)
      <4>1. \A d \in Attrs : Used(data[d]) = U
        BY <1>3, SameRids
      <4> QED
        BY <1>2, <3>1, <4>1
    <3> QED
      BY <1>5, <2>2, <3>1, <3>2 DEF Shown
  <2> QED
    BY <2>1, <2>2
<1>10. Rows' = [q \in U \cup {rid} |-> [d \in Attrs |-> Rec(data'[d], q)]]
  BY <1>3, <1>4, <1>6 DEF Shown
<1> HIDE DEF U
<1>11. Rows' = [q \in DOMAIN Rows \cup {rid} |->
                  IF q = rid THEN Rel!Over([d \in Attrs |-> Null], e) ELSE Rows[q]]
  BY <1>6, <1>9, <1>10
<1>12. Rel!Insert(e)
  BY <1>3, <1>6, <1>7, <1>8, <1>11 DEF Rel!Insert
<1> QED
  BY <1>8, <1>12

\* The rows of a where clause are a selection of the relation.
LEMMA WhereMaps ==
  ASSUME NEW N \in Nat \ {0}, TableSound(N), NEW c, CanSelect(c), NEW op \in Ops, NEW v \in Given
  PROVE  Where(c, op, v) \in Rel!Selections
<1>1. c \in Attrs
  BY DEF CanSelect
<1>2. Rows = Shown(Attrs, data, Used(data[c]))
  BY <1>1, RowsNow
<1>3. DOMAIN Rows = Used(data[c]) /\ \A r \in Used(data[c]) : Rows[r][c] = Rec(data[c], r)
  BY <1>1, <1>2 DEF Shown
<1>4. Where(c, op, v) = {r \in DOMAIN Rows : Rel!Compares(Rows[r][c], op, v)}
  BY <1>3 DEF Where
<1> QED
  BY <1>1, <1>4 DEF Rel!Selections

\* A DELETE takes the rows of its where clause, and no other.
LEMMA DeleteMaps ==
  ASSUME NEW N \in Nat \ {0}, Careful(N), TableSound(N),
         NEW c, NEW op \in Ops, NEW v \in Given, Delete(c, op, v)
  PROVE  Where(c, op, v) \in Rel!Selections /\ Rel!Delete(Where(c, op, v))
<1> DEFINE Hit == Where(c, op, v)
<1>1. /\ TableSound(N)' /\ CanSelect(c) /\ attrs' = attrs
      /\ \A d \in Attrs : /\ Used(data'[d]) = Used(data[d]) \ Hit
                          /\ \A r \in Used(data'[d]) : Rec(data'[d], r) = Rec(data[d], r)
  BY DeleteSoundTable
<1>2. Attrs' = Attrs
  BY <1>1 DEF Attrs
<1>3. Hit \in Rel!Selections
  BY <1>1, WhereMaps
<1> HIDE DEF Hit
<1>4. PICK d \in Attrs' : Rows' = Shown(Attrs', data', Used(data'[d]))
  BY <1>1, FirstColumnThen
<1> DEFINE U == Used(data[d])
<1>5. Rows = Shown(Attrs, data, U) /\ DOMAIN Rows = U
  BY <1>2, RowsNow DEF Shown
<1>6. Used(data'[d]) = U \ Hit
  BY <1>1, <1>2
<1>7. \A q \in Attrs : \A r \in U \ Hit : Rec(data'[q], r) = Rec(data[q], r)
  <2>1. \A q \in Attrs : Used(data[q]) = U
    BY <1>2, SameRids
  <2> QED
    BY <1>1, <2>1
<1> HIDE DEF U
<1>8. Rows' = [r \in U \ Hit |-> [q \in Attrs |-> Rec(data'[q], r)]]
  BY <1>2, <1>4, <1>6 DEF Shown
<1>9. \A r \in U \ Hit : [q \in Attrs |-> Rec(data'[q], r)] = Rows[r]
  BY <1>5, <1>7 DEF Shown
<1>10. Rows' = [r \in DOMAIN Rows \ Hit |-> Rows[r]]
  BY <1>5, <1>8, <1>9
<1>11. Rel!Delete(Hit)
  BY <1>2, <1>10 DEF Rel!Delete
<1> QED
  BY <1>3, <1>11 DEF Hit

\* An UPDATE gives the rows of its where clause the values it names, and changes
\* nothing else.
LEMMA UpdateMaps ==
  ASSUME NEW N \in Nat \ {0}, Careful(N), TableSound(N),
         NEW c, NEW op \in Ops, NEW v \in Given, NEW e \in Partial(Attrs),
         ~Aborts(c, op, v, e), Update(c, op, v, e)
  PROVE  /\ Where(c, op, v) \in Rel!Selections /\ e \in Rel!Partial
         /\ Rel!Update(Where(c, op, v), e)
<1> DEFINE Hit == Where(c, op, v)
<1>1. /\ TableSound(N)' /\ CanSelect(c) /\ attrs' = attrs
      /\ \A d \in Attrs : Used(data'[d]) = Used(data[d])
  BY UpdateSoundTable
<1>0. \A d \in Attrs : \A r \in Used(data[d]) : Rec(data'[d], r) = After(e, Hit, d, r)
  BY UpdateSoundTable
<1>2. Attrs' = Attrs
  BY <1>1 DEF Attrs
<1>3. Hit \in Rel!Selections
  BY <1>1, WhereMaps
<1>4. e \in Rel!Partial /\ DOMAIN e \subseteq Attrs
  <2>1. Attrs \subseteq Columns
    BY TheColumns
  <2> QED
    BY <2>1 DEF Partial, Rel!Partial
<1> HIDE DEF Hit
<1>5. PICK d \in Attrs' : Rows' = Shown(Attrs', data', Used(data'[d]))
  BY <1>1, FirstColumnThen
<1> DEFINE U == Used(data[d])
<1>6. Rows = Shown(Attrs, data, U) /\ DOMAIN Rows = U
  BY <1>2, RowsNow DEF Shown
<1>7. Used(data'[d]) = U
  BY <1>1, <1>2
<1>8. \A q \in Attrs : \A r \in U :
        Rec(data'[q], r) = IF q \in DOMAIN e /\ r \in Hit THEN e[q] ELSE Rec(data[q], r)
  <2>1. \A q \in Attrs : Used(data[q]) = U
    BY <1>2, SameRids
  <2> QED
    BY <1>0, <2>1 DEF After
<1> HIDE DEF U
<1>9. Rows' = [r \in U |-> [q \in Attrs |-> Rec(data'[q], r)]]
  BY <1>2, <1>5, <1>7 DEF Shown
<1>10. ASSUME NEW r \in U
       PROVE  [q \in Attrs |-> Rec(data'[q], r)] = IF r \in Hit THEN Rel!Over(Rows[r], e) ELSE Rows[r]
  <2>1. Rows[r] = [q \in Attrs |-> Rec(data[q], r)]
    BY <1>6 DEF Shown
  <2>2. CASE r \in Hit
    <3>1. \A q \in Attrs : Rec(data'[q], r) = IF q \in DOMAIN e THEN e[q] ELSE Rows[r][q]
      BY <1>8, <2>1, <2>2
    <3> QED
      BY <2>2, <3>1 DEF Rel!Over
  <2>3. CASE r \notin Hit
    <3>1. \A q \in Attrs : Rec(data'[q], r) = Rec(data[q], r)
      BY <1>8, <2>3
    <3> QED
      BY <2>1, <2>3, <3>1
  <2> QED
    BY <2>2, <2>3
<1>11. Rows' = [r \in DOMAIN Rows |-> IF r \in Hit THEN Rel!Over(Rows[r], e) ELSE Rows[r]]
  BY <1>6, <1>9, <1>10
<1>12. Rel!Update(Hit, e)
  BY <1>2, <1>4, <1>11 DEF Rel!Update
<1> QED
  BY <1>3, <1>4, <1>12 DEF Hit

\* Columns come, go and change their names without the rows.
LEMMA AddColumnMaps ==
  ASSUME NEW N \in Nat \ {0}, Careful(N), TableSound(N), NEW c \in Columns,
         \A d \in Attrs : data[d].pages = <<>>, AddColumn(c)
  PROVE  Rel!AddColumn(c)
<1>1. /\ TableSound(N)' /\ c \notin Attrs /\ Attrs' = Attrs \cup {c}
      /\ \A d \in Attrs : Used(data[d]) = {}
      /\ \A d \in Attrs' : Used(data'[d]) = {}
  BY AddColumnSound
<1>2. PICK q \in Attrs' : Rows' = Shown(Attrs', data', Used(data'[q]))
  BY <1>1, FirstColumnThen
<1>3. Rows' = [r \in {} |-> {}]
  <2>1. Used(data'[q]) = {}
    BY <1>1
  <2> QED
    BY <1>2, <2>1 DEF Shown
<1>4. DOMAIN Rows = {}
  <2>1. Head(attrs) \in Attrs
    BY TheColumns
  <2>2. Rows = Shown(Attrs, data, Used(data[Head(attrs)]))
    BY <2>1, RowsNow
  <2>3. Used(data[Head(attrs)]) = {}
    BY <1>1, <2>1
  <2> QED
    BY <2>2, <2>3 DEF Shown
<1>5. Rows' = [r \in DOMAIN Rows |-> [d \in Attrs' |-> IF d = c THEN Null ELSE Rows[r][d]]]
  BY <1>3, <1>4
<1> QED
  BY <1>1, <1>5 DEF Rel!AddColumn

\* The rows keep their values in the columns that stay.
LEMMA DropColumnMaps ==
  ASSUME NEW N \in Nat \ {0}, TableSound(N), NEW c, Len(attrs) > 1, DropColumn(c)
  PROVE  Rel!DropColumn(c)
<1>1. /\ TableSound(N)' /\ c \in Attrs /\ Attrs' = Attrs \ {c}
      /\ \A d \in Attrs' : data'[d] = data[d]
  BY DropColumnSound
<1>2. PICK q \in Attrs' : Rows' = Shown(Attrs', data', Used(data'[q]))
  BY <1>1, FirstColumnThen
<1> DEFINE U == Used(data[q])
<1>3. q \in Attrs /\ data'[q] = data[q]
  BY <1>1
<1>4. Rows = Shown(Attrs, data, U) /\ DOMAIN Rows = U
  BY <1>3, RowsNow DEF Shown
<1>5. Rows' = Shown(Attrs', data', U)
  BY <1>2, <1>3
<1> HIDE DEF U
<1>6. Rows' = [r \in U |-> [d \in Attrs' |-> Rows[r][d]]]
  <2>1. \A r \in U : \A d \in Attrs' : Rec(data'[d], r) = Rows[r][d]
    BY <1>1, <1>4 DEF Shown
  <2>2. \A r \in U : [d \in Attrs' |-> Rec(data'[d], r)] = [d \in Attrs' |-> Rows[r][d]]
    BY <2>1
  <2> QED
    BY <1>5, <2>2 DEF Shown
<1> QED
  BY <1>1, <1>4, <1>6 DEF Rel!DropColumn

\* The rows keep their values, one of them under the new name.
LEMMA RenameColumnMaps ==
  ASSUME NEW N \in Nat \ {0}, TableSound(N), NEW c, NEW m \in Columns, RenameColumn(c, m)
  PROVE  Rel!RenameColumn(c, m)
<1> DEFINE Old(d) == IF d = m THEN c ELSE d
<1>1. /\ TableSound(N)' /\ c \in Attrs /\ m \notin Attrs /\ Attrs' = (Attrs \ {c}) \cup {m}
      /\ \A d \in Attrs' : Old(d) \in Attrs /\ data'[d] = data[Old(d)]
  BY RenameColumnSound
<1>2. PICK q \in Attrs' : Rows' = Shown(Attrs', data', Used(data'[q]))
  BY <1>1, FirstColumnThen
<1> DEFINE U == Used(data[Old(q)])
<1> HIDE DEF Old
<1>3. Old(q) \in Attrs /\ data'[q] = data[Old(q)]
  BY <1>1
<1>4. Rows = Shown(Attrs, data, U) /\ DOMAIN Rows = U
  BY <1>3, RowsNow DEF Shown
<1>5. Rows' = Shown(Attrs', data', U)
  BY <1>2, <1>3
<1> HIDE DEF U
<1>6. Rows' = [r \in U |-> [d \in Attrs' |-> Rows[r][Old(d)]]]
  <2>1. \A r \in U : \A d \in Attrs' : Rec(data'[d], r) = Rows[r][Old(d)]
    BY <1>1, <1>4 DEF Shown
  <2>2. \A r \in U : [d \in Attrs' |-> Rec(data'[d], r)] = [d \in Attrs' |-> Rows[r][Old(d)]]
    BY <2>1
  <2> QED
    BY <1>5, <2>2 DEF Shown
<1> QED
  BY <1>1, <1>4, <1>6 DEF Rel!RenameColumn, Old

\* A table that is created or cleared has no rows.
LEMMA RecreateMaps ==
  ASSUME NEW N \in Nat \ {0}, Careful(N), NEW as \in Schemas, Recreate(as)
  PROVE  Rel!Recreate(ToSet(as))
<1>1. TableSound(N)' /\ \A c \in Attrs' : Used(data'[c]) = {}
  BY RecreateSound
<1>2. PICK q \in Attrs' : Rows' = Shown(Attrs', data', Used(data'[q]))
  BY <1>1, FirstColumnThen
<1>3. Rows' = [r \in {} |-> {}]
  <2>1. Used(data'[q]) = {}
    BY <1>1
  <2> QED
    BY <1>2, <2>1 DEF Shown
<1>4. Attrs' = ToSet(as)
  BY DEF Recreate, NewFiles, Attrs
<1> QED
  BY <1>3, <1>4 DEF Rel!Recreate, Rel!NoRows

\* A statement of a careful session is a statement on rows, or changes none.
LEMMA StatementMaps ==
  ASSUME NEW N \in Nat \ {0}, Careful(N), TableSound(N), [CarefulNext]_vars
  PROVE  [Rel!Next]_(Rel!vars)
<1>1. ASSUME NEW as \in Schemas, Recreate(as) PROVE Rel!Next
  <2>1. Rel!Recreate(ToSet(as))
    BY <1>1, RecreateMaps
  <2> QED
    BY <2>1 DEF Rel!Next
<1>2. ASSUME NEW e \in Partial(Attrs), Insert(e) PROVE Rel!Next
  <2>1. e \in Rel!Partial /\ Rel!Insert(e)
    BY <1>2, InsertMaps
  <2> QED
    BY <2>1 DEF Rel!Next
<1>3. ASSUME NEW c \in Columns, NEW op \in Ops, NEW v \in Given, Delete(c, op, v) PROVE Rel!Next
  <2>1. Where(c, op, v) \in Rel!Selections /\ Rel!Delete(Where(c, op, v))
    BY <1>3, DeleteMaps
  <2> QED
    BY <2>1 DEF Rel!Next
<1>4. ASSUME NEW c \in Columns, NEW op \in Ops, NEW v \in Given, NEW e \in Partial(Attrs),
             ~Aborts(c, op, v, e), Update(c, op, v, e)
      PROVE  Rel!Next
  <2>1. Where(c, op, v) \in Rel!Selections /\ e \in Rel!Partial /\ Rel!Update(Where(c, op, v), e)
    BY <1>4, UpdateMaps
  <2> QED
    BY <2>1 DEF Rel!Next
<1>5. ASSUME NEW c \in Columns, \A d \in Attrs : data[d].pages = <<>>, AddColumn(c) PROVE Rel!Next
  <2>1. Rel!AddColumn(c)
    BY <1>5, AddColumnMaps
  <2> QED
    BY <2>1 DEF Rel!Next
<1>6. ASSUME NEW c \in Columns, Len(attrs) > 1, DropColumn(c) PROVE Rel!Next
  <2>1. Rel!DropColumn(c)
    BY <1>6, DropColumnMaps
  <2> QED
    BY <2>1 DEF Rel!Next
<1>7. ASSUME NEW c \in Columns, NEW m \in Columns, RenameColumn(c, m) PROVE Rel!Next
  <2>1. Rel!RenameColumn(c, m)
    BY <1>7, RenameColumnMaps
  <2> QED
    BY <2>1 DEF Rel!Next
<1>8. CASE UNCHANGED vars
  <2>1. attrs' = attrs /\ data' = data /\ index' = index
    BY <1>8 DEF vars
  <2>2. Attrs' = Attrs /\ Rows' = Rows
    BY <2>1 DEF Attrs, Rows, Value
  <2> QED
    BY <2>2 DEF Rel!vars
<1> QED
  BY <1>1, <1>2, <1>3, <1>4, <1>5, <1>6, <1>7, <1>8 DEF CarefulNext

\* A careful session on a table of up to MaxKeys rows has indexes of one leaf,
\* and sees a relation: each statement does to the rows of its where clause what
\* it says, in every column, or is not there.
THEOREM TablesAreRelations ==
  ASSUME NEW N \in Nat \ {0}, Careful(N)
  PROVE  CarefulSpec => []OneLeaf /\ ImplementsRowStore
<1>1. Init => Rel!Init
  <2> SUFFICES ASSUME Init PROVE Rel!Init
    OBVIOUS
  <2>1. TableSound(N) /\ \A c \in Attrs : Used(data[c]) = {}
    BY SoundAtFirst
  <2>2. Head(attrs) \in Attrs
    BY <2>1, TheColumns
  <2>3. Rows = Shown(Attrs, data, Used(data[Head(attrs)]))
    BY <2>1, <2>2, RowsNow
  <2>4. Rows = [r \in {} |-> {}]
    <3>1. Used(data[Head(attrs)]) = {}
      BY <2>1, <2>2
    <3> QED
      BY <2>3, <3>1 DEF Shown
  <2>5. Attrs \in {ToSet(as) : as \in Schemas}
    BY DEF Init, Attrs
  <2> QED
    BY <2>4, <2>5 DEF Rel!Init, Rel!NoRows
<1>2. TableSound(N) /\ [CarefulNext]_vars => [Rel!Next]_(Rel!vars)
  BY StatementMaps
<1> QED
  BY <1>1, <1>2, AlwaysTableSound, IndexesAreLeaves, PTL DEF CarefulSpec, ImplementsRowStore, Rel!Spec
=============================================================================

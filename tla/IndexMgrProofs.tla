---------------------------- MODULE IndexMgrProofs ----------------------------
(***************************************************************************)
(* The index in a session that deletes from trees of up to two levels, for *)
(* any capacity of a node and any number of keys, entries and pages, and   *)
(* with inserts into trees of any height.  FileProofs has the trees, their *)
(* ghosts and the inserts; here are deletes, opening and closing.  The     *)
(* invariant IInv says that header, free pages and pins agree, and that a  *)
(* file without a link to a page that is gone is a tree.                   *)
(***************************************************************************)
EXTENDS IndexMgr, FileProofs

----------------------------------------------------------------------------
\* An entry less: in the only leaf, and in a leaf below the root.

\* Where the entries that are left were before.
Was(j, x) == IF j < x THEN j ELSE j + 1
IsRemoved(s, es, n, x) == \A j \in 1 .. n - 1 : s[j] = es[Was(j, x)] /\ Was(j, x) \in 1 .. n /\ Was(j, x) # x

\* What Removed gives.
LEMMA RemovedFacts ==
  ASSUME NEW S, NEW es \in Seq(S), NEW n, n = Len(es), NEW x \in 1 .. n
  PROVE  /\ Removed(es, x) \in Seq(S) /\ Len(Removed(es, x)) = n - 1 /\ n - 1 \in Nat
         /\ IsRemoved(Removed(es, x), es, n, x)
  <1>1. n \in Nat /\ n - 1 \in Nat /\ x \in Nat
    OBVIOUS
  <1>2. \A j \in 1 .. n - 1 : j \in 1 .. n /\ j + 1 \in 1 .. n
    BY <1>1
  <1>3. Removed(es, x) = [j \in 1 .. n - 1 |-> IF j < x THEN es[j] ELSE es[j + 1]]
    BY DEF Removed
  <1>4. \A j \in 1 .. n - 1 : (IF j < x THEN es[j] ELSE es[j + 1]) \in S
    BY <1>2, Elem
  <1>5. Removed(es, x) \in Seq(S) /\ Len(Removed(es, x)) = n - 1
    BY <1>1, <1>3, <1>4
  <1>6. \A j \in 1 .. n - 1 : Was(j, x) \in 1 .. n /\ Was(j, x) # x
    BY <1>1, <1>2 DEF Was
  <1>7. \A j \in 1 .. n - 1 : Removed(es, x)[j] = es[Was(j, x)]
    BY <1>3 DEF Was
  <1> QED
    BY <1>1, <1>5, <1>6, <1>7 DEF IsRemoved

\* The same under one name.
IsRemoval(s, S, es, n, x) == s \in Seq(S) /\ Len(s) = n - 1 /\ n - 1 \in Nat /\ IsRemoved(s, es, n, x)

\* The same, as one predicate.
LEMMA RemovalIs ==
  ASSUME NEW S, NEW es \in Seq(S), NEW x \in 1 .. Len(es)
  PROVE  IsRemoval(Removed(es, x), S, es, Len(es), x)
  BY RemovedFacts DEF IsRemoval

\* The numbering is one to one and keeps the order.
LEMMA WasFacts ==
  ASSUME NEW n \in Nat, NEW x \in 1 .. n
  PROVE  \A j, l \in 1 .. n - 1 : /\ Was(j, x) = Was(l, x) => j = l
                                  /\ j <= l => Was(j, x) <= Was(l, x)
  BY DEF Was

\* The only leaf loses an entry.
Shrunk(N, p, pos) == [r \in DOMAIN N |-> IF r = p THEN [N[p] EXCEPT !.entries = Removed(@, pos)] ELSE N[r]]

\* A tree of one level with an entry less.
LEMMA MinusOne ==
  ASSUME NEW N, NEW root, NEW h, h = 1, NEW lv, NEW at, NEW off, NEW F, NEW T,
         Tree(N, root, h, lv, at, off, F, T), NEW pos \in 1 .. K(N, root)
  PROVE  \E F2, T2 : /\ Tree(Shrunk(N, root, pos), root, h, lv, at, off, F2, T2)
                     /\ F2[h - 1] = Removed(F[h - 1], off[root] + pos)
                     /\ off[root] + pos = pos
  <1> DEFINE N2 == Shrunk(N, root, pos)
             n == K(N, root)
             F2 == [i \in 0 .. 0 |-> Removed(F[0], pos)]
             T2 == [i \in 0 .. 0 |-> Removed(T[0], pos)]
  <1>0. Tree(N, root, 1, lv, at, off, F, T)
    OBVIOUS
  <1>1. /\ root \in DOMAIN N /\ DOMAIN N \subseteq Nat /\ N[root] \in NodeSet /\ n \in Nat
        /\ F[0] \in Seq(EntrySet) /\ T[0] \in Seq(Nat \X Nat) /\ W(F, 0) \in Nat /\ W(T, 0) = W(F, 0)
    <2>1. 0 \in 0 .. 1 - 1
      OBVIOUS
    <2> QED
      BY <1>0, <2>1, TreeTypes
  <1>2. DOMAIN N = {root} /\ lv[root] = 0 /\ at[root] = 1
    <2>1. \A r \in DOMAIN N : lv[r] = 0
      <3>1. \A r \in DOMAIN N : lv[r] \in 0 .. 1 - 1
        BY <1>0, TreeTypes
      <3> QED
        BY <3>1
    <2>2. /\ \A r \in DOMAIN N : lv[r] = 0 => r = root
          /\ lv[root] = 0 /\ at[root] = 1
      BY <1>0 DEF Tree, Linked
    <2>3. \A r \in DOMAIN N : r = root
      BY <2>1, <2>2
    <2> QED
      BY <1>1, <2>2, <2>3
  <1>3. off[root] = 0 /\ W(F, 0) = n
    <2>1. Joined(N, root, F, off, 0)
      <3>1. 0 \in 0 .. 1 - 1
        OBVIOUS
      <3> QED
        BY <1>0, <3>1, IsJoined
    <2>2. PageAt(root, F, 0, 1) = root /\ Width(F, 0) = 1
      BY DEF PageAt, Width
    <2> QED
      BY <1>1, <2>1, <2>2 DEF Joined
  <1>4. \A s \in 1 .. n : N[root].entries[s] = F[0][s]
    BY <1>0, <1>1, <1>2, <1>3 DEF Tree, Flat
  <1>5. n \in Nat /\ n - 1 \in Nat /\ pos \in 1 .. n
    BY <1>1
  <1>6. /\ N[root].entries \in Seq(EntrySet) /\ Len(N[root].entries) = n
        /\ N2[root] = [entries |-> Removed(N[root].entries, pos), left |-> N[root].left, right |-> N[root].right]
        /\ N[root].left \in Nat \cup {NoPage} /\ N[root].right \in Nat \cup {NoPage}
    BY <1>1, IsNode DEF K, Shrunk
  <1>7. /\ Removed(N[root].entries, pos) \in Seq(EntrySet) /\ Len(Removed(N[root].entries, pos)) = n - 1
        /\ IsRemoved(Removed(N[root].entries, pos), N[root].entries, n, pos)
    BY <1>5, <1>6, RemovedFacts
  <1>8. /\ Removed(F[0], pos) \in Seq(EntrySet) /\ Len(Removed(F[0], pos)) = n - 1
        /\ IsRemoved(Removed(F[0], pos), F[0], n, pos)
    BY <1>1, <1>3, <1>5, RemovedFacts DEF W
  <1>9. /\ Removed(T[0], pos) \in Seq(Nat \X Nat) /\ Len(Removed(T[0], pos)) = n - 1
        /\ IsRemoved(Removed(T[0], pos), T[0], n, pos)
    BY <1>1, <1>3, <1>5, RemovedFacts DEF W
  <1>a. DOMAIN N2 = {root} /\ K(N2, root) = n - 1 /\ W(F2, 0) = n - 1 /\ W(T2, 0) = n - 1
        /\ N2[root].right = N[root].right /\ N2[root].left = N[root].left
    BY <1>2, <1>6, <1>7, <1>8, <1>9 DEF K, W, Shrunk
  <1>b. /\ F2 \in [0 .. 1 - 1 -> Seq(EntrySet)] /\ T2 \in [0 .. 1 - 1 -> Seq(Nat \X Nat)]
        /\ F2[0] = Removed(F[0], pos) /\ T2[0] = Removed(T[0], pos)
    BY <1>8, <1>9
  <1>c. N2 \in [DOMAIN N2 -> NodeSet]
    <2>1. N2[root] \in NodeSet
      BY <1>6, <1>7, MakeNode
    <2>2. N2 = [r \in DOMAIN N2 |-> N2[r]]
      BY DEF Shrunk
    <2> HIDE DEF N2
    <2> QED
      BY <1>a, <2>1, <2>2
  <1>d. /\ N2[root].entries = Removed(N[root].entries, pos)
        /\ \A s \in 1 .. n - 1 : N2[root].entries[s] = F2[0][s]
    <2>1. N2[root].entries = Removed(N[root].entries, pos)
      BY <1>6
    <2>2. \A s \in 1 .. n - 1 : Removed(N[root].entries, pos)[s] = Removed(F[0], pos)[s]
      BY <1>4, <1>7, <1>8 DEF IsRemoved
    <2> HIDE DEF N2, F2
    <2> QED
      BY <1>b, <2>1, <2>2
  <1>e. /\ \A j \in 1 .. n - 1 : F2[0][j] = F[0][Was(j, pos)] /\ Was(j, pos) \in 1 .. n
        /\ \A j \in 1 .. n - 1 : T2[0][j] = T[0][Was(j, pos)]
    BY <1>8, <1>9, <1>b DEF IsRemoved
  <1> HIDE DEF N2, n, F2, T2
  <1>f. Typed(N2, root, 1, lv, at, off, F2, T2)
    BY <1>0, <1>1, <1>2, <1>a, <1>b, <1>c DEF Tree, Typed
  <1>g. Flat(N2, root, 1, lv, at, off, F2)
    <2>1. \A q \in DOMAIN N2 : q = root /\ lv[q] = 0 /\ off[q] = 0 /\ K(N2, q) = n - 1
      BY <1>2, <1>3, <1>a
    <2>2. \A i \in 0 .. 1 - 1 : i = 0
      OBVIOUS
    <2>3. \A q \in DOMAIN N2 : ~(q # root \/ 1 > 1)
      BY <2>1
    <2>4. \A q \in DOMAIN N2 : off[q] + K(N2, q) <= W(F2, lv[q])
      BY <1>5, <1>a, <2>1
    <2>5. \A q \in DOMAIN N2 : \A s \in 1 .. K(N2, q) : N2[q].entries[s] = F2[lv[q]][off[q] + s]
      <3>1. \A s \in 1 .. n - 1 : 0 + s = s
        BY <1>5
      <3> QED
        BY <1>d, <2>1, <3>1
    <2>6. \A q, r \in DOMAIN N2 : lv[q] = lv[r] /\ at[q] < at[r] => off[q] + K(N2, q) <= off[r]
      BY <1>2, <2>1
    <2>7. \A i \in 0 .. 1 - 1 : \A j \in 1 .. W(F2, i) :
            \E q \in DOMAIN N2 : lv[q] = i /\ off[q] < j /\ j <= off[q] + K(N2, q)
      <3>1. \A j \in 1 .. n - 1 : 0 < j /\ j <= 0 + (n - 1)
        BY <1>5
      <3> QED
        BY <1>2, <1>3, <1>a, <2>2, <3>1
    <2> QED
      BY <2>3, <2>4, <2>5, <2>6, <2>7 DEF Flat
  <1>h. Linked(N2, root, 1, lv, at, F2)
    <2>1. \A i \in 0 .. 1 - 2 : FALSE
      OBVIOUS
    <2> QED
      BY <1>2, <1>a, <2>1 DEF Linked
  <1>i. Chained(N2, lv, at, F2)
    <2>1. Width(F2, 0) = 1 /\ Width(F, 0) = 1
      BY DEF Width
    <2>2. N[root].right = NoPage /\ N[root].left = NoPage
      BY <1>0, <1>1, <1>2, <2>1 DEF Tree, Chained
    <2> QED
      BY <1>2, <1>a, <2>1, <2>2 DEF Chained
  <1>j. Ordered(1, F2)
    <2>1. \A j, l \in 1 .. n : j <= l => F[0][j].key <= F[0][l].key
      BY <1>0, <1>3 DEF Tree, Ordered
    <2>2. \A j, l \in 1 .. n - 1 : j <= l => Was(j, pos) <= Was(l, pos)
      BY <1>5, WasFacts
    <2>3. \A j, l \in 1 .. W(F2, 0) : j <= l => F2[0][j].key <= F2[0][l].key
      BY <1>a, <1>e, <2>1, <2>2
    <2>4. \A i \in 0 .. 1 - 1 : i = 0
      OBVIOUS
    <2> QED
      BY <2>3, <2>4 DEF Ordered
  <1>k. Topped(N2, 1, off, F2, T2)
    <2>1. /\ \A j, l \in 1 .. n : T[0][j] = T[0][l] => j = l
          /\ \A j \in 1 .. n : T[0][j] \in RidsOf(F[0][j].key) /\ T[0][j] = F[0][j].rid
      BY <1>0, <1>3 DEF Tree, Topped
    <2>2. \A j, l \in 1 .. n - 1 : Was(j, pos) = Was(l, pos) => j = l
      BY <1>5, WasFacts
    <2>3. \A j, l \in 1 .. W(F2, 0) : T2[0][j] = T2[0][l] => j = l
      BY <1>a, <1>e, <2>1, <2>2
    <2>4. \A j \in 1 .. W(F2, 0) : T2[0][j] \in RidsOf(F2[0][j].key) /\ T2[0][j] = F2[0][j].rid
      BY <1>a, <1>e, <2>1
    <2>5. \A i \in 0 .. 1 - 1 : i = 0
      OBVIOUS
    <2>6. \A i \in 0 .. 1 - 2 : FALSE
      OBVIOUS
    <2>7. W(T2, 0) = W(F2, 0) /\ 1 - 1 = 0
      BY <1>a
    <2> QED
      BY <2>3, <2>4, <2>5, <2>6, <2>7 DEF Topped
  <1>l. Tree(N2, root, 1, lv, at, off, F2, T2)
    BY <1>f, <1>g, <1>h, <1>i, <1>j, <1>k DEF Tree
  <1>m. off[root] + pos = pos /\ F2[0] = Removed(F[0], pos) /\ 1 - 1 = 0
    BY <1>3, <1>5, <1>b
  <1> QED
    BY <1>l, <1>m DEF N2

\* A leaf below the root loses an entry; its bound in the root follows.
Lessened(N, root, a, p, pos) ==
  [r \in DOMAIN N |->
     IF r = p THEN [N[p] EXCEPT !.entries = Removed(@, pos)]
     ELSE IF r = root /\ pos = K(N, p) THEN SetKey(N[root], a, N[p].entries[K(N, p) - 1].key)
     ELSE N[r]]

IsLess(N2, N, root, a, p, pos, n, g) ==
  /\ DOMAIN N2 = DOMAIN N /\ N2 \in [DOMAIN N -> NodeSet]
  /\ \A r \in DOMAIN N : N2[r].left = N[r].left /\ N2[r].right = N[r].right
  /\ K(N2, p) = n - 1 /\ \A r \in DOMAIN N : r # p => K(N2, r) = K(N, r)
  /\ \A s \in 1 .. n - 1 : N2[p].entries[s] = N[p].entries[Was(s, pos)]
  /\ \A r \in DOMAIN N : r # p /\ r # root => N2[r] = N[r]
  /\ \A s \in 1 .. K(N, root) :
       N2[root].entries[s] = IF pos = n /\ s = a THEN Entry(g, N[root].entries[s].rid) ELSE N[root].entries[s]

\* What Lessened gives.
LEMMA LessFacts ==
  ASSUME NEW N, N \in [DOMAIN N -> NodeSet], NEW root \in DOMAIN N, NEW p \in DOMAIN N, p # root,
         NEW n, n = K(N, p), n >= 2, NEW pos \in 1 .. n, NEW a \in 1 .. K(N, root),
         NEW g, g = N[p].entries[n - 1].key
  PROVE  IsLess(Lessened(N, root, a, p, pos), N, root, a, p, pos, n, g)
  <1> DEFINE N2 == Lessened(N, root, a, p, pos)
             es == N[p].entries
             us == N[root].entries
             w  == K(N, root)
             vs == IF pos = n THEN [us EXCEPT ![a] = Entry(g, us[a].rid)] ELSE us
  <1>1. N[p] \in NodeSet /\ N[root] \in NodeSet
    OBVIOUS
  <1>2. /\ es \in Seq(EntrySet) /\ Len(es) = n /\ n \in Nat
        /\ N[p].left \in Nat \cup {NoPage} /\ N[p].right \in Nat \cup {NoPage}
        /\ [N[p] EXCEPT !.entries = Removed(@, pos)]
             = [entries |-> Removed(es, pos), left |-> N[p].left, right |-> N[p].right]
    BY <1>1, IsNode DEF K
  <1>3. /\ us \in Seq(EntrySet) /\ Len(us) = w /\ w \in Nat
        /\ N[root].left \in Nat \cup {NoPage} /\ N[root].right \in Nat \cup {NoPage}
        /\ \A ts : [N[root] EXCEPT !.entries = ts]
                     = [entries |-> ts, left |-> N[root].left, right |-> N[root].right]
        /\ N[root] = [entries |-> us, left |-> N[root].left, right |-> N[root].right]
    BY <1>1, IsNode DEF K
  <1>4. Removed(es, pos) \in Seq(EntrySet) /\ Len(Removed(es, pos)) = n - 1 /\ IsRemoved(Removed(es, pos), es, n, pos)
    BY <1>2, RemovedFacts
  <1>5. g \in KeyValues
    <2>1. n - 1 \in 1 .. n
      BY <1>2
    <2>2. es[n - 1] \in EntrySet
      BY <1>2, <2>1, Elem
    <2> QED
      BY <2>2 DEF EntrySet
  <1>6. Entry(g, us[a].rid) \in EntrySet
    <2>1. us[a] \in EntrySet
      BY <1>3, Elem
    <2> QED
      BY <1>5, <2>1 DEF EntrySet, Entry
  <1>7. /\ vs \in Seq(EntrySet) /\ Len(vs) = w
        /\ \A s \in 1 .. w : vs[s] = IF pos = n /\ s = a THEN Entry(g, us[s].rid) ELSE us[s]
    <2>1. CASE pos = n
      <3>1. us \in [1 .. w -> EntrySet]
        BY <1>3
      <3>2. [us EXCEPT ![a] = Entry(g, us[a].rid)] \in [1 .. w -> EntrySet]
        BY <1>6, <3>1
      <3>3. \A s \in 1 .. w : [us EXCEPT ![a] = Entry(g, us[a].rid)][s] = IF s = a THEN Entry(g, us[s].rid) ELSE us[s]
        BY <3>1
      <3>4. vs = [us EXCEPT ![a] = Entry(g, us[a].rid)]
        BY <2>1
      <3>5. vs \in Seq(EntrySet) /\ Len(vs) = w
        BY <1>3, <3>2, <3>4
      <3> HIDE DEF vs, us, w
      <3> QED
        BY <2>1, <3>3, <3>4, <3>5
    <2>2. CASE pos # n
      BY <1>3, <2>2
    <2> QED
      BY <2>1, <2>2
  <1>8. N2[p] = [entries |-> Removed(es, pos), left |-> N[p].left, right |-> N[p].right]
    BY <1>2 DEF Lessened
  <1>9. N2[root] = [entries |-> vs, left |-> N[root].left, right |-> N[root].right]
    <2>1. CASE pos = n
      <3>1. N2[root] = SetKey(N[root], a, g)
        BY <2>1 DEF Lessened
      <3>2. SetKey(N[root], a, g) = [N[root] EXCEPT !.entries = [us EXCEPT ![a] = Entry(g, us[a].rid)]]
        BY <1>3 DEF SetKey
      <3> QED
        BY <1>3, <2>1, <3>1, <3>2
    <2>2. CASE pos # n
      BY <1>3, <2>2 DEF Lessened
    <2> QED
      BY <2>1, <2>2
  <1>a. \A r \in DOMAIN N : r # p /\ r # root => N2[r] = N[r]
    BY DEF Lessened
  <1>b. DOMAIN N2 = DOMAIN N /\ N2 = [r \in DOMAIN N |-> N2[r]]
    BY DEF Lessened
  <1> HIDE DEF N2, vs, es, us, w
  <1>c. N2[p] \in NodeSet /\ N2[root] \in NodeSet
    <2>1. [entries |-> Removed(es, pos), left |-> N[p].left, right |-> N[p].right] \in NodeSet
      BY <1>2, <1>4, MakeNode
    <2>2. [entries |-> vs, left |-> N[root].left, right |-> N[root].right] \in NodeSet
      BY <1>3, <1>7, MakeNode
    <2> QED
      BY <1>8, <1>9, <2>1, <2>2
  <1>d. N2 \in [DOMAIN N -> NodeSet]
    BY <1>a, <1>b, <1>c
  <1>e. \A r \in DOMAIN N : N2[r].left = N[r].left /\ N2[r].right = N[r].right
    BY <1>8, <1>9, <1>a
  <1>f. K(N2, p) = n - 1 /\ \A r \in DOMAIN N : r # p => K(N2, r) = K(N, r)
    <2>1. K(N2, p) = n - 1
      BY <1>4, <1>8 DEF K
    <2>2. K(N2, root) = K(N, root)
      BY <1>3, <1>7, <1>9 DEF K, w
    <2>3. \A r \in DOMAIN N : r # p /\ r # root => K(N2, r) = K(N, r)
      BY <1>a DEF K
    <2> QED
      BY <2>1, <2>2, <2>3
  <1>g. \A s \in 1 .. n - 1 : N2[p].entries[s] = N[p].entries[Was(s, pos)]
    BY <1>4, <1>8 DEF IsRemoved, es
  <1>h. \A s \in 1 .. K(N, root) :
          N2[root].entries[s] = IF pos = n /\ s = a THEN Entry(g, N[root].entries[s].rid) ELSE N[root].entries[s]
    BY <1>7, <1>9 DEF us, w
  <1>i. IsLess(N2, N, root, a, p, pos, n, g)
    BY <1>a, <1>b, <1>d, <1>e, <1>f, <1>g, <1>h DEF IsLess
  <1> QED
    BY <1>i DEF N2

\* The levels after an entry of the leaf at place a has gone from x; the bound of
\* the leaf is that of the entry before when b holds.
FewerF(F, x, a, b, g) ==
  [i \in 0 .. 1 |-> IF i = 1 THEN Removed(F[1], x)
                    ELSE [j \in 1 .. W(F, 0) |-> IF b /\ j = a THEN Entry(g, F[0][j].rid) ELSE F[0][j]]]
FewerT(T, w, x, a, b) ==
  [i \in 0 .. 1 |-> IF i = 1 THEN Removed(T[1], x)
                    ELSE [j \in 1 .. w |-> IF b /\ j = a THEN T[1][x - 1] ELSE T[0][j]]]
FewerOff(N, lv, at, off, a) ==
  [r \in DOMAIN N |-> IF lv[r] = 1 /\ a < at[r] THEN off[r] - 1 ELSE off[r]]

\* Which leaf it is, and what is known of the leaves around it.
LeafOf(N, root, lv, at, off, F, p, n, o, a, m, w) ==
  /\ p \in DOMAIN N /\ lv[p] = 1 /\ p # root
  /\ n \in Nat /\ n >= 2 /\ n = K(N, p) /\ o \in Nat /\ o = off[p] /\ a \in Nat /\ a = at[p]
  /\ m \in Nat /\ m = W(F, 1) /\ w \in Nat /\ w = W(F, 0) /\ w = K(N, root) /\ a \in 1 .. w
  /\ o + n <= m /\ off[root] = 0
  /\ \A r \in DOMAIN N : lv[r] \in 0 .. 1 /\ (lv[r] = 0 => r = root)
  /\ \A r \in DOMAIN N : /\ at[r] \in Nat /\ off[r] \in Nat /\ K(N, r) \in Nat /\ K(N, r) >= 1
                         /\ (lv[r] = 1 => off[r] + K(N, r) <= m)
  /\ \A r \in DOMAIN N : lv[r] = 1 =>
       \/ r = p
       \/ r # p /\ at[r] < a /\ off[r] + K(N, r) <= o
       \/ r # p /\ a < at[r] /\ o + n <= off[r]

\* A leaf below the root, its entries and its place.
LEMMA LeafIs ==
  ASSUME NEW N, NEW root, NEW lv, NEW at, NEW off, NEW F, NEW T,
         Tree(N, root, 2, lv, at, off, F, T), NEW p \in DOMAIN N, lv[p] = 1,
         NEW n, n = K(N, p), n >= 2, NEW o, o = off[p], NEW a, a = at[p],
         NEW m, m = W(F, 1), NEW w, w = W(F, 0)
  PROVE  LeafOf(N, root, lv, at, off, F, p, n, o, a, m, w)
  <1>1. /\ root \in DOMAIN N /\ lv[root] = 0 /\ at[root] = 1
        /\ \A r \in DOMAIN N : lv[r] = 0 => r = root
    BY TreeTypes DEF Tree, Linked
  <1>2. p # root
    BY <1>1
  <1>3. \A r \in DOMAIN N : lv[r] \in 0 .. 1
    <2>1. \A r \in DOMAIN N : lv[r] \in 0 .. 2 - 1
      BY TreeTypes
    <2> QED
      BY <2>1
  <1>4. /\ n \in Nat /\ o \in Nat /\ a \in Nat
        /\ \A r \in DOMAIN N : at[r] \in Nat /\ off[r] \in Nat /\ K(N, r) \in Nat
    BY TreeTypes
  <1>5. m \in Nat /\ w \in Nat
    <2>1. 0 \in 0 .. 2 - 1 /\ 1 \in 0 .. 2 - 1
      OBVIOUS
    <2> QED
      BY <2>1, TreeTypes
  <1>6. \A r \in DOMAIN N : K(N, r) # 0 /\ off[r] + K(N, r) <= W(F, lv[r])
    BY DEF Tree, Flat
  <1>7. \A r \in DOMAIN N : /\ K(N, r) >= 1
                            /\ (lv[r] = 1 => off[r] + K(N, r) <= m)
    <2> TAKE r \in DOMAIN N
    <2>1. K(N, r) \in Nat /\ K(N, r) # 0
      BY <1>4, <1>6
    <2>2. K(N, r) >= 1
      BY <2>1
    <2> QED
      BY <1>6, <2>2
  <1>8. off[root] = 0 /\ w = K(N, root)
    <2>1. Joined(N, root, F, off, 0)
      <3>1. 0 \in 0 .. 2 - 1
        OBVIOUS
      <3> QED
        BY <3>1, IsJoined
    <2>2. PageAt(root, F, 0, 1) = root /\ Width(F, 0) = 1
      BY DEF PageAt, Width
    <2>3. off[root] = 0 /\ off[root] + K(N, root) = w
      BY <2>1, <2>2 DEF Joined
    <2> QED
      BY <1>1, <1>4, <2>3
  <1>9. a \in 1 .. w
    <2>1. a \in Nat /\ a >= 1
      BY TreeTypes
    <2>2. a <= Width(F, 1)
      BY LastPage
    <2>3. Width(F, 1) = w
      BY DEF Width
    <2> QED
      BY <1>5, <2>1, <2>2, <2>3
  <1>a. \A q, r \in DOMAIN N : lv[q] = lv[r] /\ at[q] < at[r] => off[q] + K(N, q) <= off[r]
    BY DEF Tree, Flat
  <1>b. \A r \in DOMAIN N : lv[r] = 1 =>
          \/ r = p
          \/ r # p /\ at[r] < a /\ off[r] + K(N, r) <= o
          \/ r # p /\ a < at[r] /\ o + n <= off[r]
    <2> TAKE r \in DOMAIN N
    <2> HAVE lv[r] = 1
    <2>1. CASE at[r] = a
      BY <2>1, SamePlace
    <2>2. CASE at[r] < a
      BY <1>4, <1>a, <2>2
    <2>3. CASE a < at[r]
      BY <1>4, <1>a, <2>3
    <2> QED
      BY <1>4, <2>1, <2>2, <2>3
  <1>c. o + n <= m
    BY <1>7
  <1> QED
    BY <1>2, <1>3, <1>1, <1>4, <1>5, <1>7, <1>8, <1>9, <1>b, <1>c DEF LeafOf

\* The numbers of the entries: from where those of a leaf come.
Shifts(n, o, pos) ==
  /\ \A s \in 1 .. n - 1 : Was(o + s, o + pos) = o + Was(s, pos) /\ Was(s, pos) \in 1 .. n
  /\ \A j \in Nat : j <= o => Was(j, o + pos) = j
  /\ \A j \in Nat : j >= o + n => Was(j, o + pos) = j + 1

\* Where the entries of a node were before one was removed.
LEMMA WasAt ==
  ASSUME NEW n \in Nat, NEW o \in Nat, NEW pos \in 1 .. n
  PROVE  Shifts(n, o, pos)
  BY DEF Was, Shifts

\* The levels without the entry.
IsFewer(F2, T2, off2, N, lv, at, off, F, T, n, pos, o, a, m, w, g) ==
  /\ F2 \in [0 .. 1 -> Seq(EntrySet)] /\ T2 \in [0 .. 1 -> Seq(Nat \X Nat)] /\ off2 \in [DOMAIN N -> Nat]
  /\ W(F2, 1) = m - 1 /\ W(T2, 1) = m - 1 /\ W(F2, 0) = w /\ W(T2, 0) = w
  /\ F2[1] = Removed(F[1], o + pos)
  /\ \A j \in 1 .. m - 1 : /\ F2[1][j] = F[1][Was(j, o + pos)] /\ T2[1][j] = T[1][Was(j, o + pos)]
                           /\ Was(j, o + pos) \in 1 .. m
  /\ \A j \in 1 .. w : F2[0][j] = IF pos = n /\ j = a THEN Entry(g, F[0][j].rid) ELSE F[0][j]
  /\ \A j \in 1 .. w : T2[0][j] = IF pos = n /\ j = a THEN T[1][o + n - 1] ELSE T[0][j]
  /\ \A r \in DOMAIN N : off2[r] = IF lv[r] = 1 /\ a < at[r] THEN off[r] - 1 ELSE off[r]

\* The levels with the entry less.
LEMMA FewerFacts ==
  ASSUME NEW N, NEW root, NEW lv, NEW at, NEW off, NEW F, NEW T,
         Tree(N, root, 2, lv, at, off, F, T), NEW p, NEW n, NEW o, NEW a, NEW m, NEW w,
         LeafOf(N, root, lv, at, off, F, p, n, o, a, m, w), NEW pos \in 1 .. n, NEW g \in KeyValues
  PROVE  IsFewer(FewerF(F, o + pos, a, pos = n, g), FewerT(T, w, o + pos, a, pos = n), FewerOff(N, lv, at, off, a),
                 N, lv, at, off, F, T, n, pos, o, a, m, w, g)
  <1> DEFINE x  == o + pos
             F2 == FewerF(F, x, a, pos = n, g)
             T2 == FewerT(T, w, x, a, pos = n)
             off2 == FewerOff(N, lv, at, off, a)
             G0 == [j \in 1 .. w |-> IF pos = n /\ j = a THEN Entry(g, F[0][j].rid) ELSE F[0][j]]
             H0 == [j \in 1 .. w |-> IF pos = n /\ j = a THEN T[1][x - 1] ELSE T[0][j]]
  <1>1. /\ n \in Nat /\ n >= 2 /\ o \in Nat /\ m \in Nat /\ m = W(F, 1) /\ w \in Nat /\ w = W(F, 0) /\ o + n <= m
        /\ a \in Nat
    BY DEF LeafOf
  <1>2. /\ F[0] \in Seq(EntrySet) /\ F[1] \in Seq(EntrySet) /\ T[0] \in Seq(Nat \X Nat) /\ T[1] \in Seq(Nat \X Nat)
        /\ W(T, 0) = w /\ W(T, 1) = m
    <2>1. 0 \in 0 .. 2 - 1 /\ 1 \in 0 .. 2 - 1
      OBVIOUS
    <2>2. /\ \A i \in 0 .. 2 - 1 : F[i] \in Seq(EntrySet)
          /\ \A i \in 0 .. 2 - 1 : T[i] \in Seq(Nat \X Nat)
          /\ \A i \in 0 .. 2 - 1 : W(T, i) = W(F, i)
      BY TreeTypes
    <2> QED
      BY <1>1, <2>1, <2>2
  <1>3. x \in 1 .. m
    BY <1>1
  <1>4. /\ Removed(F[1], x) \in Seq(EntrySet) /\ Len(Removed(F[1], x)) = m - 1
        /\ IsRemoved(Removed(F[1], x), F[1], m, x)
    <2>1. PICK u : u = F[1]
      OBVIOUS
    <2>2. u \in Seq(EntrySet) /\ m = Len(u)
      BY <1>1, <1>2, <2>1 DEF W
    <2> HIDE DEF x
    <2>3. IsRemoval(Removed(u, x), EntrySet, u, m, x)
      BY <1>3, <2>2, RemovalIs
    <2> QED
      BY <2>1, <2>3 DEF IsRemoval
  <1>5. /\ Removed(T[1], x) \in Seq(Nat \X Nat) /\ Len(Removed(T[1], x)) = m - 1
        /\ IsRemoved(Removed(T[1], x), T[1], m, x)
    <2>1. PICK u : u = T[1]
      OBVIOUS
    <2>2. u \in Seq(Nat \X Nat) /\ m = Len(u)
      BY <1>1, <1>2, <2>1 DEF W
    <2> HIDE DEF x
    <2>3. IsRemoval(Removed(u, x), Nat \X Nat, u, m, x)
      BY <1>3, <2>2, RemovalIs
    <2> QED
      BY <2>1, <2>3 DEF IsRemoval
  <1>6. G0 \in Seq(EntrySet) /\ Len(G0) = w
    <2>1. ASSUME NEW j \in 1 .. w
          PROVE  F[0][j] \in EntrySet /\ Entry(g, F[0][j].rid) \in EntrySet
      <3>1. F[0][j] \in EntrySet
        BY <1>1, <1>2, Elem DEF W
      <3> QED
        BY <3>1 DEF EntrySet, Entry
    <2> QED
      BY <1>1, <2>1
  <1>7. H0 \in Seq(Nat \X Nat) /\ Len(H0) = w
    <2>1. \A j \in 1 .. w : T[0][j] \in Nat \X Nat
      BY <1>2, Elem DEF W
    <2>2. pos = n => T[1][x - 1] \in Nat \X Nat
      <3>1. pos = n => x - 1 \in 1 .. m
        BY <1>1
      <3> HIDE DEF x
      <3> QED
        BY <1>2, <3>1, Elem DEF W
    <2> HIDE DEF x
    <2> QED
      BY <1>1, <2>1, <2>2, SMTT(30)
  <1>8. F2[1] = Removed(F[1], x) /\ F2[0] = G0 /\ T2[1] = Removed(T[1], x) /\ T2[0] = H0
        /\ F2 \in [0 .. 1 -> Seq(EntrySet)] /\ T2 \in [0 .. 1 -> Seq(Nat \X Nat)]
    <2> HIDE DEF x
    <2>1. F2 = [i \in 0 .. 1 |-> IF i = 1 THEN Removed(F[1], x) ELSE G0]
      BY <1>1 DEF FewerF
    <2>2. T2 = [i \in 0 .. 1 |-> IF i = 1 THEN Removed(T[1], x) ELSE H0]
      BY DEF FewerT
    <2> HIDE DEF F2, T2, G0, H0
    <2>3. F2[1] = Removed(F[1], x) /\ F2[0] = G0
      BY <2>1
    <2>4. T2[1] = Removed(T[1], x) /\ T2[0] = H0
      BY <2>2
    <2>5. F2 \in [0 .. 1 -> Seq(EntrySet)]
      BY <1>4, <1>6, <2>1
    <2>6. T2 \in [0 .. 1 -> Seq(Nat \X Nat)]
      BY <1>5, <1>7, <2>2
    <2> QED
      BY <2>3, <2>4, <2>5, <2>6
  <1>9. /\ off2 \in [DOMAIN N -> Nat]
        /\ \A r \in DOMAIN N : off2[r] = IF lv[r] = 1 /\ a < at[r] THEN off[r] - 1 ELSE off[r]
    <2>1. \A r \in DOMAIN N : off[r] \in Nat /\ (lv[r] = 1 /\ a < at[r] => off[r] - 1 \in Nat)
      <3> TAKE r \in DOMAIN N
      <3>1. off[r] \in Nat /\ at[r] \in Nat /\ a = at[p]
        BY DEF LeafOf
      <3>2. ASSUME lv[r] = 1, a < at[r]
            PROVE  o + n <= off[r]
        BY <1>1, <3>1, <3>2 DEF LeafOf
      <3> QED
        BY <1>1, <3>1, <3>2
    <2> QED
      BY <2>1 DEF FewerOff
  <1>a. /\ \A j \in 1 .. w : G0[j] = IF pos = n /\ j = a THEN Entry(g, F[0][j].rid) ELSE F[0][j]
        /\ \A j \in 1 .. w : H0[j] = IF pos = n /\ j = a THEN T[1][o + n - 1] ELSE T[0][j]
    <2>1. pos = n => x - 1 = o + n - 1
      BY <1>1
    <2>2. \A j \in 1 .. w : G0[j] = IF pos = n /\ j = a THEN Entry(g, F[0][j].rid) ELSE F[0][j]
      OBVIOUS
    <2>3. \A j \in 1 .. w : H0[j] = IF pos = n /\ j = a THEN T[1][x - 1] ELSE T[0][j]
      OBVIOUS
    <2> HIDE DEF G0, H0, x
    <2> QED
      BY <2>1, <2>2, <2>3
  <1> HIDE DEF x, F2, T2, off2, G0, H0
  <1>b. W(F2, 1) = m - 1 /\ W(T2, 1) = m - 1 /\ W(F2, 0) = w /\ W(T2, 0) = w
    BY <1>4, <1>5, <1>6, <1>7, <1>8 DEF W
  <1>c. \A j \in 1 .. m - 1 : /\ F2[1][j] = F[1][Was(j, x)] /\ T2[1][j] = T[1][Was(j, x)]
                              /\ Was(j, x) \in 1 .. m
    BY <1>4, <1>5, <1>8 DEF IsRemoved
  <1>d. IsFewer(F2, T2, off2, N, lv, at, off, F, T, n, pos, o, a, m, w, g)
    BY <1>8, <1>9, <1>a, <1>b, <1>c DEF IsFewer, x
  <1> QED
    BY <1>d DEF x, F2, T2, off2

\* All that is known when the leaf has lost its entry.
Lost(N2, F2, T2, off2, N, root, lv, at, off, F, T, p, n, pos, o, a, m, w, g) ==
  /\ Tree(N, root, 2, lv, at, off, F, T)
  /\ LeafOf(N, root, lv, at, off, F, p, n, o, a, m, w)
  /\ IsLess(N2, N, root, a, p, pos, n, g)
  /\ IsFewer(F2, T2, off2, N, lv, at, off, F, T, n, pos, o, a, m, w, g)
  /\ pos \in 1 .. n /\ g = N[p].entries[n - 1].key

\* A tree of two levels with an entry less: its types.
LEMMA LostTyped ==
  ASSUME NEW N2, NEW F2, NEW T2, NEW off2, NEW N, NEW root, NEW lv, NEW at, NEW off, NEW F, NEW T,
         NEW p, NEW n, NEW pos, NEW o, NEW a, NEW m, NEW w, NEW g,
         Lost(N2, F2, T2, off2, N, root, lv, at, off, F, T, p, n, pos, o, a, m, w, g)
  PROVE  Typed(N2, root, 2, lv, at, off2, F2, T2)
  <1>1. Typed(N, root, 2, lv, at, off, F, T)
    BY DEF Lost, Tree
  <1>2. DOMAIN N2 = DOMAIN N /\ N2 \in [DOMAIN N -> NodeSet]
    BY DEF Lost, IsLess
  <1>3. F2 \in [0 .. 2 - 1 -> Seq(EntrySet)] /\ T2 \in [0 .. 2 - 1 -> Seq(Nat \X Nat)] /\ off2 \in [DOMAIN N -> Nat]
    BY DEF Lost, IsFewer
  <1> QED
    BY <1>1, <1>2, <1>3 DEF Typed

\* Its entries for the leaves.
LEMMA LostLinked ==
  ASSUME NEW N2, NEW F2, NEW T2, NEW off2, NEW N, NEW root, NEW lv, NEW at, NEW off, NEW F, NEW T,
         NEW p, NEW n, NEW pos, NEW o, NEW a, NEW m, NEW w, NEW g,
         Lost(N2, F2, T2, off2, N, root, lv, at, off, F, T, p, n, pos, o, a, m, w, g)
  PROVE  Linked(N2, root, 2, lv, at, F2)
  <1>1. /\ DOMAIN N2 = DOMAIN N /\ K(N2, p) = n - 1
        /\ \A s \in 1 .. n - 1 : N2[p].entries[s] = N[p].entries[Was(s, pos)]
        /\ \A r \in DOMAIN N : r # p /\ r # root => N2[r] = N[r]
    BY DEF Lost, IsLess
  <1>2. /\ n \in Nat /\ n >= 2 /\ pos \in 1 .. n /\ p \in DOMAIN N /\ p # root /\ a \in 1 .. w
        /\ n = K(N, p) /\ a = at[p] /\ w = W(F, 0) /\ lv[p] = 1 /\ w \in Nat
        /\ \A r \in DOMAIN N : lv[r] \in 0 .. 1
        /\ \A r \in DOMAIN N : lv[r] = 1 => r = p \/ (r # p /\ at[r] # a)
        /\ g = N[p].entries[n - 1].key
    BY DEF Lost, LeafOf
  <1>3. /\ W(F2, 0) = w
        /\ \A j \in 1 .. w : F2[0][j] = IF pos = n /\ j = a THEN Entry(g, F[0][j].rid) ELSE F[0][j]
    BY DEF Lost, IsFewer
  <1>4. /\ \A r \in DOMAIN N : lv[r] = 0 => r = root
        /\ lv[root] = 0 /\ at[root] = 1
        /\ \A r \in DOMAIN N : lv[r] # 0 =>
             at[r] <= W(F, lv[r] - 1) /\ F[lv[r] - 1][at[r]] = Entry(MaxKey(N[r]), Child(r))
        /\ \A i \in 0 .. 2 - 2 : \A j \in 1 .. W(F, i) :
             F[i][j].rid[1] \in DOMAIN N /\ lv[F[i][j].rid[1]] = i + 1 /\ at[F[i][j].rid[1]] = j
    BY DEF Lost, Tree, Linked
  <1>5. \A r \in DOMAIN N : lv[r] = 1 => /\ at[r] <= w /\ F[0][at[r]] = Entry(MaxKey(N[r]), Child(r)) /\ at[r] \in 1 .. w
    <2> TAKE r \in DOMAIN N
    <2> HAVE lv[r] = 1
    <2>1. at[r] <= W(F, 0) /\ F[0][at[r]] = Entry(MaxKey(N[r]), Child(r))
      BY <1>4
    <2>2. at[r] \in Nat /\ at[r] >= 1
      BY TreeTypes DEF Lost
    <2> QED
      BY <1>2, <2>1, <2>2
  <1>6. F2[0][a] = Entry(MaxKey(N2[p]), Child(p))
    <2>1. MaxKey(N2[p]) = N[p].entries[Was(n - 1, pos)].key
      <3>1. n - 1 \in 1 .. n - 1
        BY <1>2
      <3>2. numKeys(N2[p]) = n - 1
        BY <1>1 DEF K, numKeys
      <3> QED
        BY <1>1, <3>1, <3>2 DEF MaxKey
    <2>2. F[0][a] = Entry(MaxKey(N[p]), Child(p)) /\ MaxKey(N[p]) = N[p].entries[n].key
      BY <1>2, <1>5 DEF MaxKey, numKeys, K
    <2>3. CASE pos = n
      <3>1. Was(n - 1, pos) = n - 1
        BY <1>2, <2>3 DEF Was
      <3>2. F2[0][a] = Entry(g, F[0][a].rid)
        BY <1>2, <1>3, <2>3
      <3>3. F[0][a].rid = Child(p)
        BY <2>2 DEF Entry
      <3> QED
        BY <1>2, <2>1, <3>1, <3>2, <3>3
    <2>4. CASE pos # n
      <3>1. Was(n - 1, pos) = n
        BY <1>2, <2>4 DEF Was
      <3>2. F2[0][a] = F[0][a]
        BY <1>2, <1>3, <2>4
      <3> QED
        BY <2>1, <2>2, <3>1, <3>2
    <2> QED
      BY <2>3, <2>4
  <1>7. \A r \in DOMAIN N : lv[r] = 1 => F2[0][at[r]] = Entry(MaxKey(N2[r]), Child(r))
    <2> TAKE r \in DOMAIN N
    <2> HAVE lv[r] = 1
    <2>1. CASE r = p
      BY <1>2, <1>6, <2>1
    <2>2. CASE r # p
      <3>1. at[r] # a /\ r # root
        BY <1>2, <1>4, <2>2
      <3>2. N2[r] = N[r]
        BY <1>1, <2>2, <3>1
      <3>3. F2[0][at[r]] = F[0][at[r]]
        BY <1>3, <1>5, <3>1
      <3> QED
        BY <1>5, <3>2, <3>3
    <2> QED
      BY <2>1, <2>2
  <1>8. \A j \in 1 .. w : F2[0][j].rid = F[0][j].rid
    <2> TAKE j \in 1 .. w
    <2>1. CASE pos = n /\ j = a
      <3>1. F2[0][j] = Entry(g, F[0][j].rid)
        BY <1>3, <2>1
      <3> QED
        BY <3>1 DEF Entry
    <2>2. CASE ~(pos = n /\ j = a)
      BY <1>3, <2>2
    <2> QED
      BY <2>1, <2>2
  <1>9. \A r \in DOMAIN N2 : lv[r] # 0 =>
          at[r] <= W(F2, lv[r] - 1) /\ F2[lv[r] - 1][at[r]] = Entry(MaxKey(N2[r]), Child(r))
    <2> TAKE r \in DOMAIN N2
    <2> HAVE lv[r] # 0
    <2>1. r \in DOMAIN N /\ lv[r] = 1 /\ lv[r] - 1 = 0
      BY <1>1, <1>2
    <2> QED
      BY <1>3, <1>5, <1>7, <2>1
  <1>a. \A i \in 0 .. 2 - 2 : \A j \in 1 .. W(F2, i) :
          F2[i][j].rid[1] \in DOMAIN N2 /\ lv[F2[i][j].rid[1]] = i + 1 /\ at[F2[i][j].rid[1]] = j
    <2>1. \A i \in 0 .. 2 - 2 : i = 0
      OBVIOUS
    <2>2. 0 \in 0 .. 2 - 2
      OBVIOUS
    <2> QED
      BY <1>1, <1>2, <1>3, <1>4, <1>8, <2>1, <2>2
  <1> QED
    BY <1>1, <1>4, <1>9, <1>a DEF Linked

\* Its links.
LEMMA LostChained ==
  ASSUME NEW N2, NEW F2, NEW T2, NEW off2, NEW N, NEW root, NEW lv, NEW at, NEW off, NEW F, NEW T,
         NEW p, NEW n, NEW pos, NEW o, NEW a, NEW m, NEW w, NEW g,
         Lost(N2, F2, T2, off2, N, root, lv, at, off, F, T, p, n, pos, o, a, m, w, g)
  PROVE  Chained(N2, lv, at, F2)
  <1>1. /\ DOMAIN N2 = DOMAIN N
        /\ \A r \in DOMAIN N : N2[r].left = N[r].left /\ N2[r].right = N[r].right
    BY DEF Lost, IsLess
  <1>2. \A r \in DOMAIN N : Width(F2, lv[r]) = Width(F, lv[r])
    <2> TAKE r \in DOMAIN N
    <2>1. lv[r] \in 0 .. 1 /\ w = W(F, 0) /\ W(F2, 0) = w
      BY DEF Lost, LeafOf, IsFewer
    <2>2. lv[r] = 0 \/ (lv[r] = 1 /\ lv[r] - 1 = 0)
      BY <2>1
    <2> QED
      BY <2>1, <2>2 DEF Width
  <1>3. Chained(N, lv, at, F)
    BY DEF Lost, Tree
  <1> QED
    BY <1>1, <1>2, <1>3 DEF Chained

\* The numbers of the entries of a leaf, before and after.
Sides(N2, off2, N, lv, at, off, p, n, o, a) ==
  \A r \in DOMAIN N : lv[r] = 1 =>
    \/ r = p /\ off2[r] = o /\ K(N2, r) = n - 1
    \/ r # p /\ at[r] < a /\ off2[r] = off[r] /\ off[r] + K(N, r) <= o /\ K(N2, r) = K(N, r)
    \/ r # p /\ a < at[r] /\ off2[r] = off[r] - 1 /\ o + n <= off[r] /\ K(N2, r) = K(N, r)

\* The leaves on either side of the one that lost the entry.
LEMMA LostSides ==
  ASSUME NEW N2, NEW F2, NEW T2, NEW off2, NEW N, NEW root, NEW lv, NEW at, NEW off, NEW F, NEW T,
         NEW p, NEW n, NEW pos, NEW o, NEW a, NEW m, NEW w, NEW g,
         Lost(N2, F2, T2, off2, N, root, lv, at, off, F, T, p, n, pos, o, a, m, w, g)
  PROVE  Sides(N2, off2, N, lv, at, off, p, n, o, a)
  <1>f. K(N2, p) = n - 1 /\ \A r \in DOMAIN N : r # p => K(N2, r) = K(N, r)
    BY DEF Lost, IsLess
  <1>l. /\ a \in Nat /\ a = at[p] /\ o = off[p]
        /\ \A r \in DOMAIN N : at[r] \in Nat /\ off[r] \in Nat
        /\ \A r \in DOMAIN N : lv[r] = 1 =>
             \/ r = p
             \/ r # p /\ at[r] < a /\ off[r] + K(N, r) <= o
             \/ r # p /\ a < at[r] /\ o + n <= off[r]
    BY DEF Lost, LeafOf
  <1>o. \A r \in DOMAIN N : off2[r] = IF lv[r] = 1 /\ a < at[r] THEN off[r] - 1 ELSE off[r]
    BY DEF Lost, IsFewer
  <1> SUFFICES ASSUME NEW r \in DOMAIN N, lv[r] = 1
               PROVE  \/ r = p /\ off2[r] = o /\ K(N2, r) = n - 1
                      \/ r # p /\ at[r] < a /\ off2[r] = off[r] /\ off[r] + K(N, r) <= o /\ K(N2, r) = K(N, r)
                      \/ r # p /\ a < at[r] /\ off2[r] = off[r] - 1 /\ o + n <= off[r] /\ K(N2, r) = K(N, r)
    BY DEF Sides
  <1>1. at[r] \in Nat /\ off[r] \in Nat
    BY <1>l
  <1>2. CASE r = p
    <2>1. ~(a < at[r])
      BY <1>l, <1>2
    <2> QED
      BY <1>f, <1>l, <1>o, <1>2, <2>1
  <1>3. CASE r # p /\ at[r] < a /\ off[r] + K(N, r) <= o
    <2>1. ~(a < at[r])
      BY <1>l, <1>1, <1>3
    <2> QED
      BY <1>f, <1>o, <1>3, <2>1
  <1>4. CASE r # p /\ a < at[r] /\ o + n <= off[r]
    BY <1>f, <1>o, <1>4
  <1> QED
    BY <1>l, <1>2, <1>3, <1>4

\* Its levels are what the nodes hold.
LEMMA LostFlat ==
  ASSUME NEW N2, NEW F2, NEW T2, NEW off2, NEW N, NEW root, NEW lv, NEW at, NEW off, NEW F, NEW T,
         NEW p, NEW n, NEW pos, NEW o, NEW a, NEW m, NEW w, NEW g,
         Lost(N2, F2, T2, off2, N, root, lv, at, off, F, T, p, n, pos, o, a, m, w, g)
  PROVE  Flat(N2, root, 2, lv, at, off2, F2)
  <1>1. /\ DOMAIN N2 = DOMAIN N /\ K(N2, p) = n - 1 /\ \A r \in DOMAIN N : r # p => K(N2, r) = K(N, r)
        /\ \A s \in 1 .. n - 1 : N2[p].entries[s] = N[p].entries[Was(s, pos)]
        /\ \A r \in DOMAIN N : r # p /\ r # root => N2[r] = N[r]
        /\ \A s \in 1 .. K(N, root) :
             N2[root].entries[s] = IF pos = n /\ s = a THEN Entry(g, N[root].entries[s].rid) ELSE N[root].entries[s]
    BY DEF Lost, IsLess
  <1>2. /\ p \in DOMAIN N /\ lv[p] = 1 /\ p # root
        /\ n \in Nat /\ n >= 2 /\ n = K(N, p) /\ o \in Nat /\ o = off[p] /\ a \in Nat /\ a = at[p]
        /\ m \in Nat /\ m = W(F, 1) /\ w \in Nat /\ w = W(F, 0) /\ w = K(N, root) /\ a \in 1 .. w
        /\ o + n <= m /\ off[root] = 0
        /\ \A r \in DOMAIN N : lv[r] \in 0 .. 1 /\ (lv[r] = 0 => r = root)
        /\ \A r \in DOMAIN N : /\ at[r] \in Nat /\ off[r] \in Nat /\ K(N, r) \in Nat /\ K(N, r) >= 1
                               /\ (lv[r] = 1 => off[r] + K(N, r) <= m)
        /\ \A r \in DOMAIN N : lv[r] = 1 =>
             \/ r = p
             \/ r # p /\ at[r] < a /\ off[r] + K(N, r) <= o
             \/ r # p /\ a < at[r] /\ o + n <= off[r]
    BY DEF Lost, LeafOf
  <1>3. pos \in 1 .. n
    BY DEF Lost
  <1>4. /\ W(F2, 1) = m - 1 /\ W(F2, 0) = w
        /\ \A j \in 1 .. m - 1 : F2[1][j] = F[1][Was(j, o + pos)] /\ Was(j, o + pos) \in 1 .. m
        /\ \A j \in 1 .. w : F2[0][j] = IF pos = n /\ j = a THEN Entry(g, F[0][j].rid) ELSE F[0][j]
        /\ \A r \in DOMAIN N : off2[r] = IF lv[r] = 1 /\ a < at[r] THEN off[r] - 1 ELSE off[r]
    BY DEF Lost, IsFewer
  <1>r. root \in DOMAIN N /\ lv[root] = 0
    BY TreeTypes DEF Lost, Tree, Linked
  <1>5. \A r \in DOMAIN N : \A s \in 1 .. K(N, r) :
          off[r] + s \in 1 .. W(F, lv[r]) /\ N[r].entries[s] = F[lv[r]][off[r] + s]
    BY EntryAt DEF Lost
  <1>6. \A r \in DOMAIN N : lv[r] = 1 =>
          \/ r = p /\ off2[r] = o /\ K(N2, r) = n - 1
          \/ r # p /\ at[r] < a /\ off2[r] = off[r] /\ off[r] + K(N, r) <= o /\ K(N2, r) = K(N, r)
          \/ r # p /\ a < at[r] /\ off2[r] = off[r] - 1 /\ o + n <= off[r] /\ K(N2, r) = K(N, r)
    BY LostSides DEF Sides
  <1>7. /\ \A s \in 1 .. n - 1 : Was(o + s, o + pos) = o + Was(s, pos) /\ Was(s, pos) \in 1 .. n
        /\ \A j \in Nat : j <= o => Was(j, o + pos) = j
        /\ \A j \in Nat : j >= o + n => Was(j, o + pos) = j + 1
    <2>1. Shifts(n, o, pos)
      BY <1>2, <1>3, WasAt
    <2> QED
      BY <2>1 DEF Shifts
  <1>8. off2[root] = 0 /\ K(N2, root) = w
    BY <1>1, <1>2, <1>4, <1>r
  <1>9. \A r \in DOMAIN N : r # root => lv[r] = 1
    <2>1. \A r \in DOMAIN N : lv[r] = 0 \/ lv[r] = 1
      BY <1>2
    <2> QED
      BY <1>2, <2>1
  <1>a. \A r \in DOMAIN N : K(N2, r) # 0 /\ K(N2, r) \in Nat /\ off2[r] \in Nat
    <2> TAKE r \in DOMAIN N
    <2>1. CASE r = root
      BY <1>2, <1>8, <2>1
    <2>2. CASE r # root
      <3>1. lv[r] = 1
        BY <1>9, <2>2
      <3>2. /\ off[r] \in Nat /\ K(N, r) \in Nat /\ K(N, r) >= 1
        BY <1>2
      <3> QED
        BY <1>2, <1>6, <3>1, <3>2
    <2> QED
      BY <2>1, <2>2
  <1>b. \A r \in DOMAIN N : off2[r] + K(N2, r) <= W(F2, lv[r])
    <2> TAKE r \in DOMAIN N
    <2>1. CASE r = root
      BY <1>2, <1>4, <1>8, <1>r, <2>1
    <2>2. CASE r # root
      <3>1. lv[r] = 1
        BY <1>9, <2>2
      <3>2. /\ off[r] \in Nat /\ K(N, r) \in Nat /\ off[r] + K(N, r) <= m
        BY <1>2, <3>1
      <3> QED
        BY <1>2, <1>4, <1>6, <3>1, <3>2
    <2> QED
      BY <2>1, <2>2
  <1>c. \A r \in DOMAIN N : \A s \in 1 .. K(N2, r) : N2[r].entries[s] = F2[lv[r]][off2[r] + s]
    <2> SUFFICES ASSUME NEW r \in DOMAIN N, NEW s \in 1 .. K(N2, r)
                 PROVE  N2[r].entries[s] = F2[lv[r]][off2[r] + s]
      OBVIOUS
    <2>1. CASE r = root
      <3>1. s \in 1 .. w /\ 0 + s = s
        BY <1>2, <1>8, <2>1
      <3>2. N[root].entries[s] = F[0][s]
        BY <1>2, <1>5, <1>r, <3>1
      <3> QED
        BY <1>1, <1>2, <1>4, <1>8, <1>r, <2>1, <3>1, <3>2
    <2>2. CASE r # root
      <3>1. lv[r] = 1
        BY <1>9, <2>2
      <3>2. /\ off[r] \in Nat /\ K(N, r) \in Nat /\ off[r] + K(N, r) <= m
        BY <1>2, <3>1
      <3>3. CASE r = p
        <4>1. off2[r] = o /\ s \in 1 .. n - 1
          BY <1>1, <1>4, <1>6, <1>2, <3>1, <3>3
        <4>2. o + s \in 1 .. m - 1
          BY <1>2, <4>1
        <4>3. N2[p].entries[s] = F[1][o + Was(s, pos)]
          <5>1. Was(s, pos) \in 1 .. K(N, p)
            BY <1>2, <1>7, <4>1
          <5>2. N[p].entries[Was(s, pos)] = F[1][o + Was(s, pos)]
            BY <1>2, <1>5, <5>1
          <5> QED
            BY <1>1, <4>1, <5>2
        <4>4. F2[1][o + s] = F[1][o + Was(s, pos)]
          BY <1>4, <1>7, <4>1, <4>2
        <4> QED
          BY <3>1, <3>3, <4>1, <4>3, <4>4
      <3>4. CASE r # p
        <4>1. N2[r] = N[r] /\ s \in 1 .. K(N, r)
          BY <1>1, <2>2, <3>4
        <4>2. N[r].entries[s] = F[1][off[r] + s]
          BY <1>5, <3>1, <4>1
        <4>3. CASE off2[r] = off[r] /\ off[r] + K(N, r) <= o
          <5>1. off[r] + s \in Nat /\ off[r] + s <= o /\ off[r] + s \in 1 .. m - 1
            BY <1>2, <3>2, <4>1, <4>3
          <5>2. F2[1][off[r] + s] = F[1][off[r] + s]
            BY <1>4, <1>7, <5>1
          <5> QED
            BY <3>1, <4>1, <4>2, <4>3, <5>2
        <4>4. CASE off2[r] = off[r] - 1 /\ o + n <= off[r]
          <5> DEFINE j == off2[r] + s
          <5>1. j \in Nat /\ j >= o + n /\ j \in 1 .. m - 1 /\ j + 1 = off[r] + s
            BY <1>2, <3>2, <4>1, <4>4
          <5> HIDE DEF j
          <5>2. F2[1][j] = F[1][j + 1]
            BY <1>4, <1>7, <5>1
          <5>3. F2[1][j] = N2[r].entries[s]
            BY <4>1, <4>2, <5>1, <5>2
          <5> QED
            BY <3>1, <5>3 DEF j
        <4> QED
          BY <1>6, <3>1, <3>4, <4>3, <4>4
      <3> QED
        BY <3>3, <3>4
    <2> QED
      BY <2>1, <2>2
  <1>d. \A q, r \in DOMAIN N : lv[q] = lv[r] /\ at[q] < at[r] => off2[q] + K(N2, q) <= off2[r]
    <2> SUFFICES ASSUME NEW q \in DOMAIN N, NEW r \in DOMAIN N, lv[q] = lv[r], at[q] < at[r]
                 PROVE  off2[q] + K(N2, q) <= off2[r]
      OBVIOUS
    <2>1. off[q] + K(N, q) <= off[r]
      BY DEF Lost, Tree, Flat
    <2>2. /\ at[q] \in Nat /\ at[r] \in Nat /\ off[q] \in Nat /\ off[r] \in Nat /\ K(N, q) \in Nat /\ K(N, r) \in Nat
      BY <1>2
    <2>3. q # root /\ r # root
      <3>1. q # r
        BY <2>2
      <3> QED
        BY <1>2, <1>r, <3>1
    <2>4. lv[q] = 1 /\ lv[r] = 1
      BY <1>9, <2>3
    <2>5. \/ q = p /\ off2[q] = o /\ K(N2, q) = n - 1
          \/ q # p /\ at[q] < a /\ off2[q] = off[q] /\ off[q] + K(N, q) <= o /\ K(N2, q) = K(N, q)
          \/ q # p /\ a < at[q] /\ off2[q] = off[q] - 1 /\ o + n <= off[q] /\ K(N2, q) = K(N, q)
      BY <1>6, <2>4
    <2>6. \/ r = p /\ off2[r] = o /\ K(N2, r) = n - 1
          \/ r # p /\ at[r] < a /\ off2[r] = off[r] /\ off[r] + K(N, r) <= o /\ K(N2, r) = K(N, r)
          \/ r # p /\ a < at[r] /\ off2[r] = off[r] - 1 /\ o + n <= off[r] /\ K(N2, r) = K(N, r)
      BY <1>6, <2>4
    <2>7. CASE q = p
      BY <1>2, <2>1, <2>2, <2>5, <2>6, <2>7
    <2>8. CASE r = p
      BY <1>2, <2>1, <2>2, <2>5, <2>6, <2>8
    <2>9. CASE q # p /\ r # p
      BY <1>2, <2>1, <2>2, <2>5, <2>6, <2>9
    <2> QED
      BY <2>7, <2>8, <2>9
  <1>e. \A j \in 1 .. m - 1 : \E r \in DOMAIN N : lv[r] = 1 /\ off2[r] < j /\ j <= off2[r] + K(N2, r)
    <2> TAKE j \in 1 .. m - 1
    <2> DEFINE y == Was(j, o + pos)
    <2>1. y \in 1 .. m /\ y \in Nat /\ j \in Nat
      BY <1>2, <1>4
    <2>2. PICK r \in DOMAIN N : lv[r] = 1 /\ off[r] < y /\ y <= off[r] + K(N, r)
      <3> HIDE DEF y
      <3>1. 1 \in 0 .. 2 - 1
        OBVIOUS
      <3> QED
        BY <1>2, <2>1, <3>1 DEF Lost, Tree, Flat
    <2>3. off[r] \in Nat /\ K(N, r) \in Nat
      BY <1>2
    <2>4. y = IF j < o + pos THEN j ELSE j + 1
      BY DEF Was
    <2> HIDE DEF y
    <2>5. off2[r] < j /\ j <= off2[r] + K(N2, r)
      <3>1. CASE r = p
        BY <1>2, <1>3, <1>6, <2>1, <2>2, <2>3, <2>4, <3>1
      <3>2. CASE r # p /\ off2[r] = off[r] /\ off[r] + K(N, r) <= o /\ K(N2, r) = K(N, r)
        BY <1>2, <1>3, <2>1, <2>2, <2>3, <2>4, <3>2
      <3>3. CASE r # p /\ off2[r] = off[r] - 1 /\ o + n <= off[r] /\ K(N2, r) = K(N, r)
        BY <1>2, <1>3, <2>1, <2>2, <2>3, <2>4, <3>3
      <3> QED
        BY <1>6, <2>2, <3>1, <3>2, <3>3
    <2> QED
      BY <2>2, <2>5
  <1>f. \A j \in 1 .. w : \E r \in DOMAIN N : lv[r] = 0 /\ off2[r] < j /\ j <= off2[r] + K(N2, r)
    <2> TAKE j \in 1 .. w
    <2>1. 0 < j /\ j <= 0 + w
      BY <1>2
    <2> QED
      BY <1>8, <1>r, <2>1
  <1>g. \A i \in 0 .. 2 - 1 : \A j \in 1 .. W(F2, i) :
          \E r \in DOMAIN N2 : lv[r] = i /\ off2[r] < j /\ j <= off2[r] + K(N2, r)
    <2>1. \A i \in 0 .. 2 - 1 : i = 0 \/ i = 1
      OBVIOUS
    <2> QED
      BY <1>1, <1>4, <1>e, <1>f, <2>1
  <1> QED
    BY <1>1, <1>a, <1>b, <1>c, <1>d, <1>g DEF Flat

\* The end of each leaf, and its largest key.
LostBase(N, root, lv, at, off, F, T, p, n, pos, o, a, m, w, g) ==
  /\ n \in Nat /\ n >= 2 /\ o \in Nat /\ a \in 1 .. w /\ m \in Nat /\ w \in Nat /\ o + n <= m /\ pos \in 1 .. n
  /\ o + n \in 1 .. m /\ o + n - 1 \in 1 .. m
  /\ \A j \in 1 .. m : F[1][j].key \in Nat
  /\ \A j, l \in 1 .. m : j <= l => F[1][j].key <= F[1][l].key
  /\ \A j \in 1 .. w : F[0][j].key \in Nat
  /\ \A j, l \in 1 .. w : j <= l => F[0][j].key <= F[0][l].key
  /\ F[1][o + n - 1].key = g
  /\ \A j \in 1 .. w :
       \E c \in DOMAIN N, e \in 1 .. m :
          /\ c = F[0][j].rid[1] /\ e = off[c] + K(N, c)
          /\ F[0][j].key = F[1][e].key /\ T[0][j] = T[1][e]
          /\ lv[c] = 1 /\ at[c] = j
          /\ IF j = a THEN e = o + n ELSE IF j < a THEN e <= o ELSE e >= o + n + 1

\* What it was before, for its order and its record ids.
LEMMA LostFacts ==
  ASSUME NEW N2, NEW F2, NEW T2, NEW off2, NEW N, NEW root, NEW lv, NEW at, NEW off, NEW F, NEW T,
         NEW p, NEW n, NEW pos, NEW o, NEW a, NEW m, NEW w, NEW g,
         Lost(N2, F2, T2, off2, N, root, lv, at, off, F, T, p, n, pos, o, a, m, w, g)
  PROVE  LostBase(N, root, lv, at, off, F, T, p, n, pos, o, a, m, w, g)
  <1>0. Tree(N, root, 2, lv, at, off, F, T)
    BY DEF Lost
  <1>1. /\ p \in DOMAIN N /\ lv[p] = 1
        /\ n \in Nat /\ n >= 2 /\ n = K(N, p) /\ o \in Nat /\ o = off[p] /\ a \in Nat /\ a = at[p]
        /\ m \in Nat /\ m = W(F, 1) /\ w \in Nat /\ w = W(F, 0) /\ a \in 1 .. w
        /\ o + n <= m
        /\ \A r \in DOMAIN N : /\ at[r] \in Nat /\ off[r] \in Nat /\ K(N, r) \in Nat /\ K(N, r) >= 1
        /\ \A r \in DOMAIN N : lv[r] = 1 =>
             \/ r = p
             \/ r # p /\ at[r] < a /\ off[r] + K(N, r) <= o
             \/ r # p /\ a < at[r] /\ o + n <= off[r]
    BY DEF Lost, LeafOf
  <1>2. pos \in 1 .. n /\ g = N[p].entries[n - 1].key
    BY DEF Lost
  <1>3. o + n \in 1 .. m /\ o + n - 1 \in 1 .. m /\ n - 1 \in 1 .. n /\ o + (n - 1) = o + n - 1
    BY <1>1
  <1>4. /\ \A j \in 1 .. m : F[1][j].key \in Nat
        /\ \A j, l \in 1 .. m : j <= l => F[1][j].key <= F[1][l].key
    <2>1. 1 \in 0 .. 2 - 1
      OBVIOUS
    <2> QED
      BY <1>0, <1>1, <2>1, KeyAt
  <1>5. /\ \A j \in 1 .. w : F[0][j].key \in Nat
        /\ \A j, l \in 1 .. w : j <= l => F[0][j].key <= F[0][l].key
    <2>1. 0 \in 0 .. 2 - 1
      OBVIOUS
    <2> QED
      BY <1>0, <1>1, <2>1, KeyAt
  <1>6. F[1][o + n - 1].key = g
    <2>1. n - 1 \in 1 .. K(N, p)
      BY <1>1, <1>3
    <2>2. N[p].entries[n - 1] = F[lv[p]][off[p] + (n - 1)]
      BY <1>0, <1>1, <2>1, EntryAt, SMTT(30)
    <2> QED
      BY <1>1, <1>2, <1>3, <2>2
  <1>7. ASSUME NEW j \in 1 .. w
        PROVE  \E c \in DOMAIN N, e \in 1 .. m :
                 /\ c = F[0][j].rid[1] /\ e = off[c] + K(N, c)
                 /\ F[0][j].key = F[1][e].key /\ T[0][j] = T[1][e]
                 /\ lv[c] = 1 /\ at[c] = j
                 /\ IF j = a THEN e = o + n ELSE IF j < a THEN e <= o ELSE e >= o + n + 1
    <2> DEFINE c == F[0][j].rid[1]
               e == off[c] + K(N, c)
    <2>1. 0 \in 0 .. 2 - 2 /\ 0 + 1 = 1
      OBVIOUS
    <2>2. /\ c \in DOMAIN N /\ lv[c] = 1 /\ at[c] = j
          /\ F[0][j] = Entry(MaxKey(N[c]), Child(c))
          /\ e \in 1 .. m
          /\ MaxKey(N[c]) = F[1][e].key
          /\ T[0][j] = T[1][e]
      BY <1>0, <1>1, <2>1, Under, SMTT(30)
    <2>3. F[0][j].key = F[1][e].key
      BY <2>2 DEF Entry
    <2>4. IF j = a THEN e = o + n ELSE IF j < a THEN e <= o ELSE e >= o + n + 1
      <3>1. c \in DOMAIN N /\ off[c] \in Nat /\ K(N, c) \in Nat /\ K(N, c) >= 1
        BY <1>1, <2>2
      <3>2. CASE c = p
        <4>1. j = a
          BY <1>1, <2>2, <3>2
        <4> QED
          BY <1>1, <3>2, <4>1
      <3>3. CASE c # p /\ at[c] < a /\ off[c] + K(N, c) <= o
        <4>1. j < a /\ j # a
          BY <1>1, <2>2, <3>3
        <4> QED
          BY <3>3, <4>1
      <3>4. CASE c # p /\ a < at[c] /\ o + n <= off[c]
        <4>1. ~(j < a) /\ j # a
          BY <1>1, <2>2, <3>4
        <4> QED
          BY <1>1, <3>1, <3>4, <4>1
      <3> QED
        BY <1>1, <2>2, <3>2, <3>3, <3>4
    <2> HIDE DEF c, e
    <2>5. \E y \in DOMAIN N, z \in 1 .. m :
                 /\ y = c /\ z = off[y] + K(N, y)
                 /\ F[0][j].key = F[1][z].key /\ T[0][j] = T[1][z]
                 /\ lv[y] = 1 /\ at[y] = j
                 /\ IF j = a THEN z = o + n ELSE IF j < a THEN z <= o ELSE z >= o + n + 1
      <3>1. e = off[c] + K(N, c)
        BY DEF e
      <3> QED
        BY <2>2, <2>3, <2>4, <3>1
    <2> QED
      BY <2>5, Zenon DEF c
  <1> QED
    BY <1>1, <1>2, <1>3, <1>4, <1>5, <1>6, <1>7 DEF LostBase

\* The keys of its levels ascend.
LEMMA LostOrdered ==
  ASSUME NEW N2, NEW F2, NEW T2, NEW off2, NEW N, NEW root, NEW lv, NEW at, NEW off, NEW F, NEW T,
         NEW p, NEW n, NEW pos, NEW o, NEW a, NEW m, NEW w, NEW g,
         Lost(N2, F2, T2, off2, N, root, lv, at, off, F, T, p, n, pos, o, a, m, w, g)
  PROVE  Ordered(2, F2)
  <1>1. LostBase(N, root, lv, at, off, F, T, p, n, pos, o, a, m, w, g)
    BY LostFacts
  <1>2. /\ W(F2, 1) = m - 1 /\ W(F2, 0) = w
        /\ \A j \in 1 .. m - 1 : F2[1][j] = F[1][Was(j, o + pos)] /\ Was(j, o + pos) \in 1 .. m
        /\ \A j \in 1 .. w : F2[0][j] = IF pos = n /\ j = a THEN Entry(g, F[0][j].rid) ELSE F[0][j]
    BY DEF Lost, IsFewer
  <1>3. \A j, l \in 1 .. m - 1 : j <= l => F2[1][j].key <= F2[1][l].key
    <2>1. \A j, l \in 1 .. m - 1 : j <= l => Was(j, o + pos) <= Was(l, o + pos)
      <3>1. o + pos \in 1 .. m /\ m \in Nat
        BY <1>1 DEF LostBase
      <3> QED
        BY <3>1, WasFacts
    <2> QED
      BY <1>1, <1>2, <2>1 DEF LostBase
  <1>4. \A j \in 1 .. w : F2[0][j].key = IF pos = n /\ j = a THEN g ELSE F[0][j].key
    <2> TAKE j \in 1 .. w
    <2>1. CASE pos = n /\ j = a
      <3>1. F2[0][j] = Entry(g, F[0][j].rid)
        BY <1>2, <2>1
      <3> QED
        BY <2>1, <3>1 DEF Entry
    <2>2. CASE ~(pos = n /\ j = a)
      BY <1>2, <2>2
    <2> QED
      BY <2>1, <2>2
  <1>5. \A j \in 1 .. w : /\ (j < a => F[0][j].key <= g)
                          /\ (a <= j => g <= F[0][j].key)
    <2> TAKE j \in 1 .. w
    <2>0. /\ n \in Nat /\ n >= 2 /\ o \in Nat /\ a \in 1 .. w /\ w \in Nat
          /\ o + n - 1 \in 1 .. m /\ F[1][o + n - 1].key = g
          /\ \A i, l \in 1 .. m : i <= l => F[1][i].key <= F[1][l].key
      BY <1>1 DEF LostBase
    <2>1. PICK e \in 1 .. m :
            /\ F[0][j].key = F[1][e].key
            /\ IF j = a THEN e = o + n ELSE IF j < a THEN e <= o ELSE e >= o + n + 1
      BY <1>1 DEF LostBase
    <2>2. ASSUME j < a
          PROVE  F[0][j].key <= g
      <3>1. e <= o + n - 1
        BY <2>0, <2>1, <2>2
      <3> QED
        BY <2>0, <2>1, <3>1
    <2>3. ASSUME a <= j
          PROVE  g <= F[0][j].key
      <3>1. o + n - 1 <= e
        BY <2>0, <2>1, <2>3
      <3> QED
        BY <2>0, <2>1, <3>1
    <2> QED
      BY <2>2, <2>3
  <1>6. \A j, l \in 1 .. w : j <= l => F2[0][j].key <= F2[0][l].key
    <2> SUFFICES ASSUME NEW j \in 1 .. w, NEW l \in 1 .. w, j <= l
                 PROVE  F2[0][j].key <= F2[0][l].key
      OBVIOUS
    <2>0. a \in 1 .. w /\ w \in Nat /\ F[0][a].key \in Nat /\ F[0][j].key <= F[0][l].key
      BY <1>1 DEF LostBase
    <2>1. g \in Nat
      BY <1>1 DEF LostBase
    <2>2. CASE pos # n
      BY <1>4, <2>0, <2>2
    <2>3. CASE pos = n /\ j = a /\ l = a
      BY <1>4, <2>1, <2>3
    <2>4. CASE pos = n /\ j = a /\ l # a
      BY <1>4, <1>5, <2>4
    <2>5. CASE pos = n /\ j # a /\ l = a
      <3>1. j < a
        BY <2>5
      <3> QED
        BY <1>4, <1>5, <2>5, <3>1
    <2>6. CASE pos = n /\ j # a /\ l # a
      BY <1>4, <2>0, <2>6
    <2> QED
      BY <2>2, <2>3, <2>4, <2>5, <2>6
  <1>7. \A i \in 0 .. 2 - 1 : i = 0 \/ i = 1
    OBVIOUS
  <1> QED
    BY <1>2, <1>3, <1>6, <1>7 DEF Ordered

\* The last record ids of its subtrees.
LEMMA LostTopped ==
  ASSUME NEW N2, NEW F2, NEW T2, NEW off2, NEW N, NEW root, NEW lv, NEW at, NEW off, NEW F, NEW T,
         NEW p, NEW n, NEW pos, NEW o, NEW a, NEW m, NEW w, NEW g,
         Lost(N2, F2, T2, off2, N, root, lv, at, off, F, T, p, n, pos, o, a, m, w, g)
  PROVE  Topped(N2, 2, off2, F2, T2)
  <1>1. LostBase(N, root, lv, at, off, F, T, p, n, pos, o, a, m, w, g)
    BY LostFacts
  <1>2. /\ W(F2, 1) = m - 1 /\ W(F2, 0) = w /\ W(T2, 1) = m - 1 /\ W(T2, 0) = w
        /\ \A j \in 1 .. m - 1 : /\ F2[1][j] = F[1][Was(j, o + pos)] /\ T2[1][j] = T[1][Was(j, o + pos)]
                                 /\ Was(j, o + pos) \in 1 .. m
        /\ \A j \in 1 .. w : F2[0][j] = IF pos = n /\ j = a THEN Entry(g, F[0][j].rid) ELSE F[0][j]
        /\ \A j \in 1 .. w : T2[0][j] = IF pos = n /\ j = a THEN T[1][o + n - 1] ELSE T[0][j]
    BY DEF Lost, IsFewer
  <1>3. /\ n \in Nat /\ n >= 2 /\ o \in Nat /\ a \in 1 .. w /\ m \in Nat /\ w \in Nat /\ o + n <= m /\ pos \in 1 .. n
        /\ o + n \in 1 .. m /\ o + n - 1 \in 1 .. m /\ F[1][o + n - 1].key = g
    BY <1>1 DEF LostBase
  <1>4. /\ \A j, l \in 1 .. m : T[1][j] = T[1][l] => j = l
        /\ \A j, l \in 1 .. w : T[0][j] = T[0][l] => j = l
        /\ \A j \in 1 .. m : T[1][j] \in RidsOf(F[1][j].key) /\ T[1][j] = F[1][j].rid
        /\ \A j \in 1 .. w : T[0][j] \in RidsOf(F[0][j].key)
    <2>1. m = W(F, 1) /\ w = W(F, 0)
      BY DEF Lost, LeafOf
    <2>2. 0 \in 0 .. 2 - 1 /\ 1 \in 0 .. 2 - 1 /\ 2 - 1 = 1
      OBVIOUS
    <2>3. /\ \A i \in 0 .. 2 - 1 : \A j, k \in 1 .. W(F, i) : T[i][j] = T[i][k] => j = k
          /\ \A i \in 0 .. 2 - 1 : \A j \in 1 .. W(F, i) : T[i][j] \in RidsOf(F[i][j].key)
          /\ \A j \in 1 .. W(F, 2 - 1) : T[2 - 1][j] = F[2 - 1][j].rid
      BY DEF Lost, Tree, Topped
    <2> QED
      BY <2>1, <2>2, <2>3
  <1>5. \A j \in 1 .. w :
       \E c \in DOMAIN N, e \in 1 .. m :
          /\ c = F[0][j].rid[1] /\ e = off[c] + K(N, c) /\ T[0][j] = T[1][e]
          /\ lv[c] = 1 /\ at[c] = j
          /\ IF j = a THEN e = o + n ELSE IF j < a THEN e <= o ELSE e >= o + n + 1
    BY <1>1 DEF LostBase
  <1>6. \A j, l \in 1 .. m - 1 : T2[1][j] = T2[1][l] => j = l
    <2>1. \A j, l \in 1 .. m - 1 : Was(j, o + pos) = Was(l, o + pos) => j = l
      <3>1. o + pos \in 1 .. m
        BY <1>3
      <3> QED
        BY <1>3, <3>1, WasFacts
    <2> QED
      BY <1>2, <1>4, <2>1
  <1>7. \A j \in 1 .. m - 1 : T2[1][j] \in RidsOf(F2[1][j].key) /\ T2[1][j] = F2[1][j].rid
    BY <1>2, <1>4
  <1>8. \A l \in 1 .. w : l # a => T[0][l] # T[1][o + n - 1]
    <2> SUFFICES ASSUME NEW l \in 1 .. w, l # a, T[0][l] = T[1][o + n - 1]
                 PROVE  FALSE
      OBVIOUS
    <2>1. PICK e \in 1 .. m : T[0][l] = T[1][e] /\ (IF l < a THEN e <= o ELSE e >= o + n + 1)
      BY <1>5
    <2>2. e = o + n - 1
      BY <1>3, <1>4, <2>1
    <2> QED
      BY <1>3, <2>1, <2>2
  <1>9. \A j, l \in 1 .. w : T2[0][j] = T2[0][l] => j = l
    <2> SUFFICES ASSUME NEW j \in 1 .. w, NEW l \in 1 .. w, T2[0][j] = T2[0][l], j # l
                 PROVE  FALSE
      OBVIOUS
    <2>1. CASE pos # n \/ (j # a /\ l # a)
      BY <1>2, <1>4, <2>1
    <2>2. CASE pos = n /\ j = a
      <3>1. T2[0][j] = T[1][o + n - 1] /\ T2[0][l] = T[0][l] /\ l # a
        BY <1>2, <2>2
      <3> QED
        BY <1>8, <3>1
    <2>3. CASE pos = n /\ l = a
      <3>1. T2[0][l] = T[1][o + n - 1] /\ T2[0][j] = T[0][j] /\ j # a
        BY <1>2, <2>3
      <3> QED
        BY <1>8, <3>1
    <2> QED
      BY <2>1, <2>2, <2>3
  <1>a. \A j \in 1 .. w : T2[0][j] \in RidsOf(F2[0][j].key)
    <2> TAKE j \in 1 .. w
    <2>1. CASE pos = n /\ j = a
      <3>0. F2[0][j] = Entry(g, F[0][j].rid)
        BY <1>2, <2>1
      <3>1. F2[0][j].key = g
        BY <3>0 DEF Entry
      <3>2. T2[0][j] = T[1][o + n - 1]
        BY <1>2, <2>1
      <3>3. T[1][o + n - 1] \in RidsOf(F[1][o + n - 1].key)
        BY <1>3, <1>4
      <3> QED
        BY <1>3, <3>1, <3>2, <3>3
    <2>2. CASE ~(pos = n /\ j = a)
      <3>1. F2[0][j] = F[0][j] /\ T2[0][j] = T[0][j]
        BY <1>2, <2>2
      <3> QED
        BY <1>4, <3>1
    <2> QED
      BY <2>1, <2>2
  <1>b. ASSUME NEW j \in 1 .. w
        PROVE  T2[0][j] = T2[1][off2[F2[0][j].rid[1]] + K(N2, F2[0][j].rid[1])]
    <2>1. PICK c \in DOMAIN N, e \in 1 .. m :
            /\ c = F[0][j].rid[1] /\ e = off[c] + K(N, c) /\ T[0][j] = T[1][e]
            /\ lv[c] = 1 /\ at[c] = j
            /\ IF j = a THEN e = o + n ELSE IF j < a THEN e <= o ELSE e >= o + n + 1
      BY <1>5
    <2>2. F2[0][j].rid[1] = c
      <3>1. CASE pos = n /\ j = a
        <4>0. F2[0][j] = Entry(g, F[0][j].rid)
          BY <1>2, <3>1
        <4>1. F2[0][j].rid = F[0][j].rid
          BY <4>0 DEF Entry
        <4> QED
          BY <2>1, <4>1
      <3>2. CASE ~(pos = n /\ j = a)
        BY <1>2, <2>1, <3>2
      <3> QED
        BY <3>1, <3>2
    <2>3. /\ a \in Nat /\ a = at[p] /\ p \in DOMAIN N /\ lv[p] = 1
          /\ off[c] \in Nat /\ K(N, c) \in Nat /\ K(N, c) >= 1
      BY DEF Lost, LeafOf
    <2>4. \/ c = p /\ off2[c] = o /\ K(N2, c) = n - 1
          \/ c # p /\ at[c] < a /\ off2[c] = off[c] /\ off[c] + K(N, c) <= o /\ K(N2, c) = K(N, c)
          \/ c # p /\ a < at[c] /\ off2[c] = off[c] - 1 /\ o + n <= off[c] /\ K(N2, c) = K(N, c)
      <3>1. Sides(N2, off2, N, lv, at, off, p, n, o, a)
        BY LostSides
      <3> QED
        BY <2>1, <3>1 DEF Sides
    <2>5. /\ \A s \in 1 .. n - 1 : Was(o + s, o + pos) = o + Was(s, pos) /\ Was(s, pos) \in 1 .. n
          /\ \A i \in Nat : i <= o => Was(i, o + pos) = i
          /\ \A i \in Nat : i >= o + n => Was(i, o + pos) = i + 1
      <3>1. Shifts(n, o, pos)
        BY <1>3, WasAt
      <3> QED
        BY <3>1 DEF Shifts
    <2> DEFINE d == off2[c] + K(N2, c)
    <2>6. T2[0][j] = T2[1][d]
      <3>1. CASE c = p /\ off2[c] = o /\ K(N2, c) = n - 1
        <4>1. d = o + (n - 1) /\ n - 1 \in 1 .. n - 1 /\ d \in 1 .. m - 1
          BY <1>3, <3>1
        <4>2. j = a
          BY <2>1, <2>3, <3>1
        <4>3. T2[1][d] = T[1][o + Was(n - 1, pos)]
          BY <1>2, <2>5, <4>1
        <4>4. CASE pos = n
          <5>1. o + Was(n - 1, pos) = o + n - 1
            BY <1>3, <4>4 DEF Was
          <5> QED
            BY <1>2, <4>2, <4>3, <4>4, <5>1
        <4>5. CASE pos # n
          <5>1. o + Was(n - 1, pos) = o + n
            BY <1>3, <4>5 DEF Was
          <5>2. T2[0][j] = T[1][o + n]
            BY <1>2, <2>1, <4>2, <4>5, SMTT(30)
          <5> QED
            BY <4>3, <5>1, <5>2
        <4> QED
          BY <4>4, <4>5
      <3>2. CASE c # p /\ at[c] < a /\ off2[c] = off[c] /\ off[c] + K(N, c) <= o /\ K(N2, c) = K(N, c)
        <4>1. d = e /\ j # a /\ e \in Nat /\ e <= o /\ e \in 1 .. m - 1
          BY <1>3, <2>1, <2>3, <3>2
        <4>2. T2[1][e] = T[1][e]
          BY <1>2, <2>5, <4>1
        <4>3. T2[0][j] = T[0][j]
          BY <1>2, <4>1, SMTT(30)
        <4> QED
          BY <2>1, <4>1, <4>2, <4>3, ZenonT(40)
      <3>3. CASE c # p /\ a < at[c] /\ off2[c] = off[c] - 1 /\ o + n <= off[c] /\ K(N2, c) = K(N, c)
        <4>1. d = e - 1 /\ j # a /\ d \in Nat /\ d >= o + n /\ d \in 1 .. m - 1 /\ d + 1 = e
          <5>1. at[c] = j /\ a < j /\ j \in Nat /\ a \in Nat
            BY <2>1, <2>3, <3>3
          <5>2. e >= o + n + 1
            BY <2>1, <5>1
          <5>3. d = off[c] - 1 + K(N, c) /\ e = off[c] + K(N, c)
            BY <2>1, <3>3
          <5>4. d = e - 1
            BY <2>3, <5>3
          <5> HIDE DEF d
          <5>5. o \in Nat /\ n \in Nat /\ n >= 1 /\ m \in Nat
            BY <1>3
          <5> QED
            BY <5>1, <5>2, <5>4, <5>5
        <4> HIDE DEF d
        <4>2. T2[1][d] = T[1][d + 1]
          BY <1>2, <2>5, <4>1
        <4>3. T2[0][j] = T[0][j]
          BY <1>2, <4>1
        <4> QED
          BY <2>1, <4>1, <4>2, <4>3, Zenon
      <3> QED
        BY <2>4, <3>1, <3>2, <3>3
    <2> QED
      BY <2>2, <2>6
  <1>c. /\ \A i \in 0 .. 2 - 1 : i = 0 \/ i = 1
        /\ \A i \in 0 .. 2 - 2 : i = 0 /\ i + 1 = 1
        /\ 2 - 1 = 1
    OBVIOUS
  <1>d. \A i \in 0 .. 2 - 2 : \A j \in 1 .. W(F2, i) :
          T2[i][j] = T2[i + 1][off2[F2[i][j].rid[1]] + K(N2, F2[i][j].rid[1])]
    BY <1>2, <1>b, <1>c
  <1> QED
    BY <1>2, <1>6, <1>7, <1>9, <1>a, <1>c, <1>d DEF Topped

\* A leaf below the root of a tree of two levels loses an entry, and keeps one.
LEMMA MinusTwo ==
  ASSUME NEW N, NEW root, NEW lv, NEW at, NEW off, NEW F, NEW T,
         Tree(N, root, 2, lv, at, off, F, T), NEW p \in DOMAIN N, lv[p] = 1,
         K(N, p) >= 2, NEW pos \in 1 .. K(N, p)
  PROVE  \E off2, F2, T2 :
           /\ Tree(Lessened(N, root, at[p], p, pos), root, 2, lv, at, off2, F2, T2)
           /\ F2[1] = Removed(F[1], off[p] + pos)
  <1> DEFINE n == K(N, p)
             o == off[p]
             a == at[p]
             m == W(F, 1)
             w == W(F, 0)
             g == N[p].entries[n - 1].key
             N2 == Lessened(N, root, a, p, pos)
             F2 == FewerF(F, o + pos, a, pos = n, g)
             T2 == FewerT(T, w, o + pos, a, pos = n)
             off2 == FewerOff(N, lv, at, off, a)
  <1>0. n >= 2 /\ pos \in 1 .. n
    OBVIOUS
  <1>1. LeafOf(N, root, lv, at, off, F, p, n, o, a, m, w)
    <2> HIDE DEF n, o, a, m, w
    <2> QED
      BY <1>0, LeafIs DEF n, o, a, m, w
  <1>2. N \in [DOMAIN N -> NodeSet] /\ root \in DOMAIN N
    BY TreeTypes DEF Tree, Typed
  <1>3. p # root /\ a \in 1 .. K(N, root) /\ n \in Nat
    <2> HIDE DEF n, o, a, m, w
    <2> QED
      BY <1>1 DEF LeafOf
  <1>4. IsLess(N2, N, root, a, p, pos, n, g)
    <2> HIDE DEF n, a, g
    <2>1. n = K(N, p) /\ g = N[p].entries[n - 1].key
      BY DEF n, g
    <2> QED
      BY <1>0, <1>2, <1>3, <2>1, LessFacts
  <1>5. g \in KeyValues
    <2>1. n - 1 \in 1 .. K(N, p)
      BY <1>0, <1>3
    <2>2. N[p].entries[n - 1] \in EntrySet
      <3> HIDE DEF n
      <3> QED
        BY <2>1, EntryAt
    <2> QED
      BY <2>2 DEF EntrySet
  <1> HIDE DEF n, o, a, m, w, g
  <1>6. IsFewer(F2, T2, off2, N, lv, at, off, F, T, n, pos, o, a, m, w, g)
    BY <1>0, <1>1, <1>5, FewerFacts
  <1> HIDE DEF N2, F2, T2, off2
  <1>7. Lost(N2, F2, T2, off2, N, root, lv, at, off, F, T, p, n, pos, o, a, m, w, g)
    BY <1>0, <1>1, <1>4, <1>6 DEF Lost, g
  <1>8. Tree(N2, root, 2, lv, at, off2, F2, T2)
    <2>1. Typed(N2, root, 2, lv, at, off2, F2, T2)
      BY <1>7, LostTyped
    <2>2. Flat(N2, root, 2, lv, at, off2, F2)
      BY <1>7, LostFlat
    <2>3. Linked(N2, root, 2, lv, at, F2)
      BY <1>7, LostLinked
    <2>4. Chained(N2, lv, at, F2)
      BY <1>7, LostChained
    <2>5. Ordered(2, F2)
      BY <1>7, LostOrdered
    <2>6. Topped(N2, 2, off2, F2, T2)
      BY <1>7, LostTopped
    <2> QED
      BY <2>1, <2>2, <2>3, <2>4, <2>5, <2>6 DEF Tree
  <1>9. F2[1] = Removed(F[1], o + pos)
    BY <1>6 DEF IsFewer
  <1> QED
    BY <1>8, <1>9 DEF N2, o, a

----------------------------------------------------------------------------
\* What the search of DeleteEntry finds, from the leaf the descent ends at.

\* What a search returns when it meets its entry at the places at[i] of page ps[i].
Found(ps, at) ==
  LET hits == {i \in DOMAIN ps : at[i] # {}}
  IN  IF hits = {} THEN [found |-> FALSE, page |-> Last(ps), passed |-> ToSet(Front(ps))]
      ELSE LET i == Min(hits)
           IN  [found |-> TRUE, page |-> ps[i], pos |-> Min(at[i]),
                passed |-> {ps[j] : j \in 1 .. i - 1}]
RidHits(f, ps, pos, rid) ==
  [i \in DOMAIN ps |-> {j \in DOMAIN f.node[ps[i]].entries :
     (i = 1 => j >= pos) /\ f.node[ps[i]].entries[j].rid = rid}]
ChildHits(f, ps, pos, c) ==
  [i \in DOMAIN ps |-> {j \in DOMAIN f.node[ps[i]].entries :
     (i = 1 => j >= pos) /\ f.node[ps[i]].entries[j].rid[1] = c}]
SeekRid(f, p, pos, rid) == Found(RightFrom(f, p), RidHits(f, RightFrom(f, p), pos, rid))
SeekChild(f, p, pos, c) == Found(RightFrom(f, p), ChildHits(f, RightFrom(f, p), pos, c))

\* The search of DeleteEntry for an rid, and that of its loop for a child.
LEMMA SearchIs ==
  ASSUME NEW f, NEW p, NEW pos
  PROVE  /\ \A rid : Search(f, p, pos, LAMBDA e : e.rid = rid) = SeekRid(f, p, pos, rid)
         /\ \A c : Search(f, p, pos, LAMBDA e : e.rid[1] = c) = SeekChild(f, p, pos, c)
  <1>1. \A rid : Search(f, p, pos, LAMBDA e : e.rid = rid) = SeekRid(f, p, pos, rid)
    BY DEF Search, SeekRid, Found, RidHits
  <1>2. \A c : Search(f, p, pos, LAMBDA e : e.rid[1] = c) = SeekChild(f, p, pos, c)
    BY DEF Search, SeekChild, Found, ChildHits
  <1> QED
    BY <1>1, <1>2

\* A search that ends at entry s of page q, and has left no page when that is the first.
EndsAt(r, q, s) == r.found = TRUE /\ r.page = q /\ r.pos = s

\* Entries that match in the page i of a search and nowhere else: its only one is s.
OnlyHit(ps, at, i, s) ==
  i \in DOMAIN ps /\ i \in Nat /\ s \in Nat /\ at[i] = {s} /\ \A j \in DOMAIN ps : j # i => at[j] = {}

\* A search with one match ends there.
LEMMA FoundAt ==
  ASSUME NEW ps, NEW at, NEW i, NEW s, OnlyHit(ps, at, i, s)
  PROVE  EndsAt(Found(ps, at), ps[i], s) /\ (i = 1 => Found(ps, at).passed = {})
  <1>1. {j \in DOMAIN ps : at[j] # {}} = {i}
    BY DEF OnlyHit
  <1>2. \A n \in Nat : Min({n}) = n
    BY DEF Min
  <1>3. Found(ps, at) = [found |-> TRUE, page |-> ps[i], pos |-> s, passed |-> {ps[j] : j \in 1 .. i - 1}]
    BY <1>1, <1>2 DEF Found, OnlyHit
  <1>4. ASSUME i = 1
        PROVE  {ps[j] : j \in 1 .. i - 1} = {}
    <2>1. 1 .. 1 - 1 = {}
      OBVIOUS
    <2> QED
      BY <1>4, <2>1
  <1> QED
    BY <1>3, <1>4 DEF EndsAt

\* No place.
LEMMA FoundNone ==
  ASSUME NEW ps, NEW at, \A j \in DOMAIN ps : at[j] = {}
  PROVE  Found(ps, at).found = FALSE /\ Found(ps, at).page = Last(ps)
  <1>1. {j \in DOMAIN ps : at[j] # {}} = {}
    OBVIOUS
  <1> QED
    BY <1>1 DEF Found

\* The way of a delete: the positions of its key, its search, and its loop.
Spots(f, k) == [i \in 0 .. f.hdr.height - 1 |-> FindKey(f.node[PathPage(f, k)[i]], k)]
Sought(f, k, rid) ==
  SeekRid(f, PathPage(f, k)[f.hdr.height - 1], Spots(f, k)[f.hdr.height - 1], rid)
Missed(f, k) ==
  \E i \in 0 .. f.hdr.height - 1 : Spots(f, k)[i] > numKeys(f.node[PathPage(f, k)[i]])
From1(f, k, s) ==
  [ix |-> f, rc |-> -1, page |-> [PathPage(f, k) EXCEPT ![f.hdr.height - 1] = s.page],
   pos |-> [Spots(f, k) EXCEPT ![f.hdr.height - 1] = s.pos]]
Turned(t, i, k, rid) == IF t.rc # -1 THEN t ELSE RemoveStep(t, i, k, rid)
Outcome(f, k, rid, s, end) ==
  IF Missed(f, k) THEN [rc |-> 1, ix |-> f]
  ELSE IF ~s.found THEN [rc |-> 1, ix |-> [f EXCEPT !.pinned = @ \cup {s.page}]]
  ELSE [rc |-> end.rc, ix |-> end.ix]

IsLoop(g, f, k, rid, s, h) ==
  g = [i \in 0 .. h |-> IF i = 0 THEN From1(f, k, s) ELSE Turned(g[i - 1], h - i, k, rid)]

\* What DeleteEntry is, with its loop under a name.
LEMMA DeleteIs ==
  ASSUME NEW f, NEW k, NEW rid, NEW s, s = Sought(f, k, rid),
         \E g : IsLoop(g, f, k, rid, s, f.hdr.height)
  PROVE  \E g : /\ IsLoop(g, f, k, rid, s, f.hdr.height)
                /\ DeleteEntry(f, k, rid) = Outcome(f, k, rid, s, g[f.hdr.height])
  <1> DEFINE page == PathPage(f, k)
             h    == f.hdr.height
             pos  == [i \in 0 .. h - 1 |-> FindKey(f.node[page[i]], k)]
             r    == Search(f, page[h - 1], pos[h - 1], LAMBDA e : e.rid = rid)
             up == CHOOSE g : g = [i \in 0 .. h |->
                     IF i = 0
                     THEN [ix |-> f, rc |-> -1, page |-> [page EXCEPT ![h - 1] = r.page],
                                                pos  |-> [pos EXCEPT ![h - 1] = r.pos]]
                     ELSE LET t == g[i - 1] IN IF t.rc # -1 THEN t ELSE RemoveStep(t, h - i, k, rid)]
  <1>1. DeleteEntry(f, k, rid) =
          IF \E i \in 0 .. h - 1 : pos[i] > numKeys(f.node[page[i]]) THEN [rc |-> 1, ix |-> f]
          ELSE IF ~r.found THEN [rc |-> 1, ix |-> [f EXCEPT !.pinned = @ \cup {r.page}]]
          ELSE [rc |-> up[h].rc, ix |-> up[h].ix]
    BY DEF DeleteEntry
  <1>2. pos = Spots(f, k)
    BY DEF Spots
  <1>3. r = s
    <2>1. \A q, y : Search(f, q, y, LAMBDA e : e.rid = rid) = SeekRid(f, q, y, rid)
      BY SearchIs
    <2> QED
      BY <1>2, <2>1 DEF Sought
  <1> DEFINE Solves(g) == g = [i \in 0 .. h |->
                     IF i = 0
                     THEN [ix |-> f, rc |-> -1, page |-> [page EXCEPT ![h - 1] = r.page],
                                                pos  |-> [pos EXCEPT ![h - 1] = r.pos]]
                     ELSE LET t == g[i - 1] IN IF t.rc # -1 THEN t ELSE RemoveStep(t, h - i, k, rid)]
  <1>4. up = CHOOSE g : Solves(g)
    OBVIOUS
  <1> HIDE DEF up, r, pos
  <1>5. \A g : IsLoop(g, f, k, rid, s, h) <=> Solves(g)
    BY <1>2, <1>3 DEF IsLoop, From1, Turned
  <1> HIDE DEF Solves
  <1>6. IsLoop(up, f, k, rid, s, h)
    BY <1>4, <1>5
  <1>7. DeleteEntry(f, k, rid) = Outcome(f, k, rid, s, up[h])
    BY <1>1, <1>2, <1>3 DEF Outcome, Missed
  <1> QED
    BY <1>6, <1>7

\* A tree of one level.
LEMMA DeleteOne ==
  ASSUME NEW f, f.hdr.height = 1, NEW k, NEW rid, NEW s, s = Sought(f, k, rid)
  PROVE  DeleteEntry(f, k, rid) = Outcome(f, k, rid, s, Turned(From1(f, k, s), 0, k, rid))
  <1> DEFINE A == From1(f, k, s)
             B == Turned(A, 0, k, rid)
             sol == [i \in 0 .. 1 |-> IF i = 0 THEN A ELSE B]
  <1>1. IsLoop(sol, f, k, rid, s, 1)
    <2>1. sol = [i \in 0 .. 1 |-> IF i = 0 THEN A ELSE Turned(sol[i - 1], 1 - i, k, rid)]
      <3>1. \A i \in 0 .. 1 : i # 0 => i = 1 /\ i - 1 = 0 /\ 1 - i = 0 /\ i - 1 \in 0 .. 1
        OBVIOUS
      <3> HIDE DEF A
      <3> QED
        BY <3>1
    <2> QED
      BY <2>1 DEF IsLoop
  <1>2. PICK up : IsLoop(up, f, k, rid, s, 1) /\ DeleteEntry(f, k, rid) = Outcome(f, k, rid, s, up[1])
    <2> HIDE DEF sol
    <2>1. \E g : IsLoop(g, f, k, rid, s, f.hdr.height)
      BY <1>1
    <2>2. \E g : /\ IsLoop(g, f, k, rid, s, f.hdr.height)
                 /\ DeleteEntry(f, k, rid) = Outcome(f, k, rid, s, g[f.hdr.height])
      BY <2>1, DeleteIs
    <2> QED
      BY <2>2
  <1> HIDE DEF A
  <1>3. up[0] = A /\ up[1] = Turned(up[0], 0, k, rid)
    <2>1. up = [i \in 0 .. 1 |-> IF i = 0 THEN A ELSE Turned(up[i - 1], 1 - i, k, rid)]
      BY <1>2 DEF IsLoop, A
    <2>2. 0 \in 0 .. 1 /\ 1 \in 0 .. 1 /\ 1 - 1 = 0 /\ 1 # 0
      OBVIOUS
    <2> QED
      BY <2>1, <2>2
  <1> QED
    BY <1>2, <1>3 DEF A

\* A tree of two levels.
LEMMA DeleteTwo ==
  ASSUME NEW f, f.hdr.height = 2, NEW k, NEW rid, NEW s, s = Sought(f, k, rid)
  PROVE  DeleteEntry(f, k, rid) = Outcome(f, k, rid, s, Turned(Turned(From1(f, k, s), 1, k, rid), 0, k, rid))
  <1> DEFINE A == From1(f, k, s)
             B == Turned(A, 1, k, rid)
             C == Turned(B, 0, k, rid)
             sol == [i \in 0 .. 2 |-> IF i = 0 THEN A ELSE IF i = 1 THEN B ELSE C]
  <1>1. IsLoop(sol, f, k, rid, s, 2)
    <2>1. sol = [i \in 0 .. 2 |-> IF i = 0 THEN A ELSE Turned(sol[i - 1], 2 - i, k, rid)]
      <3>1. \A i \in 0 .. 2 : \/ i = 0
                              \/ i = 1 /\ i # 0 /\ i - 1 = 0 /\ 2 - i = 1
                              \/ i = 2 /\ i # 0 /\ i # 1 /\ i - 1 = 1 /\ 2 - i = 0
        OBVIOUS
      <3>2. sol[0] = A /\ sol[1] = B /\ sol[2] = C
        BY <3>1
      <3> HIDE DEF A
      <3>3. \A i \in 0 .. 2 : sol[i] = IF i = 0 THEN A ELSE Turned(sol[i - 1], 2 - i, k, rid)
        <4> HIDE DEF sol
        <4> TAKE i \in 0 .. 2
        <4>1. CASE i = 0
          BY <3>2, <4>1
        <4>2. CASE i = 1
          <5>1. i # 0 /\ i - 1 = 0 /\ 2 - i = 1
            BY <4>2
          <5> QED
            BY <3>2, <4>2, <5>1
        <4>3. CASE i = 2
          <5>1. i # 0 /\ i - 1 = 1 /\ 2 - i = 0
            BY <4>3
          <5> QED
            BY <3>2, <4>3, <5>1
        <4> QED
          BY <3>1, <4>1, <4>2, <4>3
      <3>4. sol = [i \in 0 .. 2 |-> sol[i]]
        OBVIOUS
      <3> HIDE DEF sol
      <3> QED
        BY <3>3, <3>4
    <2> QED
      BY <2>1 DEF IsLoop
  <1>2. PICK up : IsLoop(up, f, k, rid, s, 2) /\ DeleteEntry(f, k, rid) = Outcome(f, k, rid, s, up[2])
    <2> HIDE DEF sol
    <2>1. \E g : IsLoop(g, f, k, rid, s, f.hdr.height)
      BY <1>1
    <2>2. \E g : /\ IsLoop(g, f, k, rid, s, f.hdr.height)
                 /\ DeleteEntry(f, k, rid) = Outcome(f, k, rid, s, g[f.hdr.height])
      BY <2>1, DeleteIs
    <2> QED
      BY <2>2
  <1> HIDE DEF A
  <1>3. up[0] = A /\ up[1] = Turned(up[0], 1, k, rid) /\ up[2] = Turned(up[1], 0, k, rid)
    <2>1. up = [i \in 0 .. 2 |-> IF i = 0 THEN A ELSE Turned(up[i - 1], 2 - i, k, rid)]
      BY <1>2 DEF IsLoop, A
    <2>2. 0 \in 0 .. 2 /\ 1 \in 0 .. 2 /\ 2 \in 0 .. 2 /\ 1 - 1 = 0 /\ 2 - 1 = 1 /\ 2 - 2 = 0 /\ 1 # 0 /\ 2 # 0
      OBVIOUS
    <2> QED
      BY <2>1, <2>2
  <1> QED
    BY <1>2, <1>3 DEF A

\* An entry of a level lies in one node.
LEMMA SameEntry ==
  ASSUME NEW N, NEW root, NEW h, NEW lv, NEW at, NEW off, NEW F, NEW T,
         Tree(N, root, h, lv, at, off, F, T),
         NEW q \in DOMAIN N, NEW s \in 1 .. K(N, q), NEW r \in DOMAIN N, NEW j \in 1 .. K(N, r),
         lv[q] = lv[r], off[q] + s = off[r] + j
  PROVE  q = r /\ s = j
  <1>1. /\ at[q] \in Nat /\ at[r] \in Nat /\ off[q] \in Nat /\ off[r] \in Nat
        /\ K(N, q) \in Nat /\ K(N, r) \in Nat /\ s \in Nat /\ j \in Nat
    BY TreeTypes, SMTT(30)
  <1>2. \A a, b \in DOMAIN N : lv[a] = lv[b] /\ at[a] < at[b] => off[a] + K(N, a) <= off[b]
    BY DEF Tree, Flat
  <1>3. CASE at[q] < at[r]
    <2>1. off[q] + K(N, q) <= off[r]
      BY <1>2, <1>3
    <2> QED
      BY <1>1, <2>1
  <1>4. CASE at[r] < at[q]
    <2>1. off[r] + K(N, r) <= off[q]
      BY <1>2, <1>4
    <2> QED
      BY <1>1, <2>1
  <1>5. CASE at[q] = at[r]
    <2>1. q = r
      BY <1>5, SamePlace
    <2> QED
      BY <1>1, <2>1
  <1> QED
    BY <1>1, <1>3, <1>4, <1>5

\* Where the entry x of a level lies.
Lies(N, lv, off, i, x, q, s) == q \in DOMAIN N /\ lv[q] = i /\ s \in 1 .. K(N, q) /\ off[q] + s = x

\* Each entry of a level lies in a node.
LEMMA LiesSomewhere ==
  ASSUME NEW N, NEW root, NEW h, NEW lv, NEW at, NEW off, NEW F, NEW T,
         Tree(N, root, h, lv, at, off, F, T), NEW i \in 0 .. h - 1, NEW x \in 1 .. W(F, i)
  PROVE  \E q, s : Lies(N, lv, off, i, x, q, s)
  <1>1. PICK q \in DOMAIN N : lv[q] = i /\ off[q] < x /\ x <= off[q] + K(N, q)
    BY DEF Tree, Flat
  <1>2. off[q] \in Nat /\ K(N, q) \in Nat /\ W(F, i) \in Nat
    BY TreeTypes
  <1>3. x - off[q] \in 1 .. K(N, q) /\ off[q] + (x - off[q]) = x
    BY <1>1, <1>2
  <1> QED
    BY <1>1, <1>3 DEF Lies

\* The pages ps of a level from p on, and the entries that they hold from y of p on.
HitsOf(f, ps, lv, at, off, F, i, p, y) ==
  /\ DOMAIN ps = 1 .. Width(F, i) - at[p] + 1 /\ Len(ps) = Width(F, i) - at[p] + 1
  /\ Width(F, i) \in Nat /\ at[p] \in 1 .. Width(F, i)
  /\ \A l \in DOMAIN ps : /\ ps[l] \in DOMAIN f.node /\ lv[ps[l]] = i /\ at[ps[l]] = at[p] + l - 1
                          /\ l = 1 => ps[l] = p
  /\ \A l \in DOMAIN ps : DOMAIN f.node[ps[l]].entries = 1 .. K(f.node, ps[l])
  /\ \A l \in DOMAIN ps : \A j \in 1 .. K(f.node, ps[l]) :
        (l = 1 => j >= y) => /\ off[ps[l]] + j \in off[p] + y .. W(F, i)
                             /\ f.node[ps[l]].entries[j] = F[i][off[ps[l]] + j]

\* The entries that a search may hit, in the order in which it meets them.
LEMMA HitsAre ==
  ASSUME NEW f, Packed(f), NEW h, NEW lv, NEW at, NEW off, NEW F, NEW T, Holds(f, h, lv, at, off, F, T),
         NEW i \in 0 .. h - 1, NEW p \in DOMAIN f.node, lv[p] = i, NEW y \in 1 .. K(f.node, p)
  PROVE  HitsOf(f, RightFrom(f, p), lv, at, off, F, i, p, y)
  <1> DEFINE N == f.node
             root == f.hdr.rootPage
             n == Width(F, i)
             a == at[p]
             ps == RightFrom(f, p)
             P(j) == PageAt(root, F, i, j)
  <1>1. Tree(N, root, h, lv, at, off, F, T)
    BY DEF Holds
  <1> HIDE DEF N, root
  <1>2. n \in Nat /\ a \in 1 .. n /\ p = P(a)
    <2>1. n \in Nat
      BY <1>1, WidthNat
    <2>2. a \in 1 .. n /\ P(a) = p
      BY <1>1, PageAtIs DEF N
    <2> QED
      BY <2>1, <2>2
  <1>3. \A j \in 1 .. n : P(j) \in DOMAIN N /\ lv[P(j)] = i /\ at[P(j)] = j
    BY <1>1, PageAtIs
  <1>4. ps = [j \in 1 .. n - a + 1 |-> P(a + j - 1)]
    <2>1. GoesRight(f, root, F, i, a)
      BY <1>2, RightIs DEF root
    <2> QED
      BY <1>2, <2>1 DEF GoesRight
  <1> HIDE DEF P, n, ps
  <1>5. DOMAIN ps = 1 .. n - a + 1 /\ Len(ps) = n - a + 1
    <2>1. n - a + 1 \in Nat
      BY <1>2
    <2> QED
      BY <1>4, <2>1
  <1>6. \A l \in DOMAIN ps : /\ ps[l] \in DOMAIN N /\ lv[ps[l]] = i /\ at[ps[l]] = a + l - 1
                             /\ l = 1 => ps[l] = p
    <2> TAKE l \in DOMAIN ps
    <2>1. a + l - 1 \in 1 .. n /\ ps[l] = P(a + l - 1) /\ (l = 1 => a + l - 1 = a)
      BY <1>2, <1>4, <1>5
    <2> QED
      BY <1>2, <1>3, <2>1
  <1>7. \A r \in DOMAIN N : N[r] \in NodeSet /\ off[r] \in Nat /\ K(N, r) \in Nat /\ at[r] \in Nat
    BY <1>1, TreeTypes
  <1>8. \A r \in DOMAIN N : DOMAIN N[r].entries = 1 .. K(N, r)
    <2> TAKE r \in DOMAIN N
    <2>1. N[r].entries \in Seq(EntrySet)
      BY <1>7, IsNode
    <2> QED
      BY <2>1 DEF K
  <1>9. ASSUME NEW l \in DOMAIN ps, NEW j \in 1 .. K(N, ps[l]), l = 1 => j >= y
        PROVE  /\ off[ps[l]] + j \in off[p] + y .. W(F, i)
               /\ N[ps[l]].entries[j] = F[i][off[ps[l]] + j]
    <2>1. ps[l] \in DOMAIN N /\ lv[ps[l]] = i /\ at[ps[l]] = a + l - 1 /\ (l = 1 => ps[l] = p)
      BY <1>6
    <2>2. off[ps[l]] + j \in 1 .. W(F, i) /\ N[ps[l]].entries[j] = F[i][off[ps[l]] + j]
      BY <1>1, <2>1, EntryAt
    <2>3. p \in DOMAIN N /\ off[p] \in Nat /\ K(N, p) \in Nat /\ off[ps[l]] \in Nat /\ K(N, ps[l]) \in Nat
          /\ y \in 1 .. K(N, p)
      BY <1>7, <2>1 DEF N
    <2>4. W(F, i) \in Nat
      BY <1>1, TreeTypes
    <2>5. off[ps[l]] + j >= off[p] + y
      <3>1. CASE l = 1
        BY <1>9, <2>1, <2>3, <3>1
      <3>2. CASE l # 1
        <4>1. at[p] < at[ps[l]]
          BY <1>2, <1>5, <2>1, <3>2
        <4>2. off[p] + K(N, p) <= off[ps[l]]
          BY <1>1, <2>1, <2>3, <4>1 DEF Tree, Flat
        <4> QED
          BY <2>3, <4>2
      <3> QED
        BY <3>1, <3>2
    <2> QED
      BY <2>2, <2>3, <2>4, <2>5
  <1> QED
    BY <1>2, <1>5, <1>6, <1>8, <1>9 DEF N, n, ps, HitsOf

\* An entry that has its rid alone in its level is found from there on to the left.
LEMMA SeekFinds ==
  ASSUME NEW f, Packed(f), NEW h, NEW lv, NEW at, NEW off, NEW F, NEW T, Holds(f, h, lv, at, off, F, T),
         NEW i \in 0 .. h - 1, NEW p \in DOMAIN f.node, lv[p] = i, NEW y \in 1 .. K(f.node, p),
         NEW x \in off[p] + y .. W(F, i), NEW rid, F[i][x].rid = rid,
         \A j \in 1 .. W(F, i) : F[i][j].rid = rid => j = x
  PROVE  \E q, s : /\ Lies(f.node, lv, off, i, x, q, s) /\ at[p] <= at[q]
                   /\ EndsAt(SeekRid(f, p, y, rid), q, s)
                   /\ (at[q] = at[p] => SeekRid(f, p, y, rid).passed = {})
  <1> DEFINE N == f.node
             root == f.hdr.rootPage
             ps == RightFrom(f, p)
             hits == RidHits(f, ps, y, rid)
             n == Width(F, i)
             a == at[p]
  <1>1. Tree(N, root, h, lv, at, off, F, T)
    BY DEF Holds
  <1>2. /\ DOMAIN ps = 1 .. n - a + 1 /\ Len(ps) = n - a + 1
        /\ n \in Nat /\ a \in 1 .. n
        /\ \A l \in DOMAIN ps : /\ ps[l] \in DOMAIN N /\ lv[ps[l]] = i /\ at[ps[l]] = a + l - 1
                                /\ l = 1 => ps[l] = p
        /\ \A l \in DOMAIN ps : DOMAIN N[ps[l]].entries = 1 .. K(N, ps[l])
        /\ \A l \in DOMAIN ps : \A j \in 1 .. K(N, ps[l]) :
              (l = 1 => j >= y) => /\ off[ps[l]] + j \in off[p] + y .. W(F, i)
                                   /\ N[ps[l]].entries[j] = F[i][off[ps[l]] + j]
    <2>1. HitsOf(f, ps, lv, at, off, F, i, p, y)
      BY HitsAre
    <2> HIDE DEF ps
    <2> QED
      BY <2>1 DEF HitsOf
  <1> HIDE DEF N, root, ps, n, a
  <1>3. /\ off[p] \in Nat /\ K(N, p) \in Nat /\ W(F, i) \in Nat /\ y \in 1 .. K(N, p) /\ p \in DOMAIN N
        /\ \A r \in DOMAIN N : off[r] \in Nat /\ K(N, r) \in Nat /\ at[r] \in Nat
    BY <1>1, TreeTypes DEF N
  <1>4. x \in 1 .. W(F, i)
    BY <1>3
  <1>5. PICK q, s : Lies(N, lv, off, i, x, q, s)
    BY <1>1, <1>4, LiesSomewhere
  <1>6. q \in DOMAIN N /\ lv[q] = i /\ s \in 1 .. K(N, q) /\ off[q] + s = x
    BY <1>5 DEF Lies
  <1>7. a <= at[q]
    <2>1. ASSUME at[q] < a
          PROVE  FALSE
      <3>1. off[q] + K(N, q) <= off[p]
        BY <1>1, <1>3, <1>6, <2>1 DEF Tree, Flat, a
      <3> QED
        BY <1>3, <1>6, <3>1
    <2> QED
      BY <1>2, <1>3, <1>6, <2>1, SMTT(30)
  <1>8. at[q] \in 1 .. n
    BY <1>1, <1>6, PageAtIs DEF n
  <1> DEFINE l0 == at[q] - a + 1
  <1>9. l0 \in DOMAIN ps /\ l0 \in Nat /\ ps[l0] = q /\ (l0 = 1 => s >= y)
    <2>1. l0 \in 1 .. n - a + 1 /\ a + l0 - 1 = at[q] /\ (l0 = 1 => at[q] = a)
      BY <1>2, <1>7, <1>8
    <2> HIDE DEF l0
    <2>2. ps[l0] \in DOMAIN N /\ lv[ps[l0]] = i /\ at[ps[l0]] = at[q]
      BY <1>2, <2>1
    <2>3. ps[l0] = q
      BY <1>1, <1>6, <2>2, SamePlace
    <2>4. ASSUME l0 = 1
          PROVE  s >= y
      <3>1. q = p
        BY <1>2, <2>1, <2>3, <2>4
      <3> QED
        BY <1>3, <1>6, <3>1
    <2> QED
      BY <1>2, <2>1, <2>3, <2>4
  <1> HIDE DEF l0
  <1>a. \A l \in DOMAIN ps : hits[l] = {j \in 1 .. K(N, ps[l]) : (l = 1 => j >= y) /\ N[ps[l]].entries[j].rid = rid}
    BY <1>2 DEF RidHits, N
  <1> HIDE DEF hits
  <1>b. ASSUME NEW l \in DOMAIN ps, NEW j \in hits[l]
        PROVE  l = l0 /\ j = s
    <2>1. j \in 1 .. K(N, ps[l]) /\ (l = 1 => j >= y) /\ N[ps[l]].entries[j].rid = rid
      BY <1>a, <1>b
    <2>2. off[ps[l]] + j \in off[p] + y .. W(F, i) /\ N[ps[l]].entries[j] = F[i][off[ps[l]] + j]
      BY <1>2, <2>1
    <2>3. off[ps[l]] + j \in 1 .. W(F, i)
      BY <1>3, <2>2
    <2>4. off[ps[l]] + j = x
      BY <2>1, <2>2, <2>3
    <2>5. ps[l] \in DOMAIN N /\ lv[ps[l]] = i /\ at[ps[l]] = a + l - 1 /\ at[ps[l0]] = a + l0 - 1
      BY <1>2, <1>9
    <2>6. ps[l] = q /\ j = s
      BY <1>1, <1>6, <2>1, <2>4, <2>5, SameEntry
    <2>7. l \in Nat /\ l0 \in Nat /\ a \in Nat
      BY <1>2, <1>9
    <2>8. a + l - 1 = a + l0 - 1
      BY <1>9, <2>5, <2>6
    <2> QED
      BY <2>6, <2>7, <2>8
  <1>c. s \in hits[l0]
    <2>1. N[q].entries[s] = F[i][off[q] + s]
      BY <1>2, <1>6, <1>9
    <2>2. N[ps[l0]].entries[s].rid = rid
      BY <1>6, <1>9, <2>1
    <2> QED
      BY <1>6, <1>9, <1>a, <2>2
  <1>d. hits[l0] = {s} /\ \A j \in DOMAIN ps : j # l0 => hits[j] = {}
    BY <1>9, <1>b, <1>c
  <1>e. s \in Nat
    BY <1>3, <1>6
  <1>f. EndsAt(Found(ps, hits), ps[l0], s) /\ (l0 = 1 => Found(ps, hits).passed = {})
    <2>1. OnlyHit(ps, hits, l0, s)
      BY <1>9, <1>d, <1>e DEF OnlyHit
    <2> QED
      BY <2>1, FoundAt
  <1>g. SeekRid(f, p, y, rid) = Found(ps, hits)
    BY DEF SeekRid, hits, ps
  <1>h. EndsAt(SeekRid(f, p, y, rid), q, s)
    BY <1>9, <1>f, <1>g DEF EndsAt
  <1>i. ASSUME at[q] = a
        PROVE  SeekRid(f, p, y, rid).passed = {}
    <2>1. l0 = 1
      BY <1>2, <1>i DEF l0
    <2> QED
      BY <1>f, <1>g, <2>1
  <1> QED
    BY <1>5, <1>7, <1>h, <1>i DEF N, a

\* A search that found nothing, and where it ended.
EndsEmpty(r, f) == r.found = FALSE /\ r.page \in DOMAIN f.node

\* There is no such entry from there on.
LEMMA SeekMisses ==
  ASSUME NEW f, Packed(f), NEW h, NEW lv, NEW at, NEW off, NEW F, NEW T, Holds(f, h, lv, at, off, F, T),
         NEW i \in 0 .. h - 1, NEW p \in DOMAIN f.node, lv[p] = i, NEW y \in 1 .. K(f.node, p),
         NEW rid, \A x \in off[p] + y .. W(F, i) : F[i][x].rid # rid
  PROVE  EndsEmpty(SeekRid(f, p, y, rid), f)
  <1> DEFINE N == f.node
             ps == RightFrom(f, p)
             hits == RidHits(f, ps, y, rid)
             n == Width(F, i)
             a == at[p]
  <1>2. /\ DOMAIN ps = 1 .. n - a + 1 /\ Len(ps) = n - a + 1
        /\ n \in Nat /\ a \in 1 .. n
        /\ \A l \in DOMAIN ps : /\ ps[l] \in DOMAIN N /\ lv[ps[l]] = i /\ at[ps[l]] = a + l - 1
                                /\ l = 1 => ps[l] = p
        /\ \A l \in DOMAIN ps : DOMAIN N[ps[l]].entries = 1 .. K(N, ps[l])
        /\ \A l \in DOMAIN ps : \A j \in 1 .. K(N, ps[l]) :
              (l = 1 => j >= y) => /\ off[ps[l]] + j \in off[p] + y .. W(F, i)
                                   /\ N[ps[l]].entries[j] = F[i][off[ps[l]] + j]
    <2>1. HitsOf(f, ps, lv, at, off, F, i, p, y)
      BY HitsAre
    <2> HIDE DEF ps
    <2> QED
      BY <2>1 DEF HitsOf
  <1> HIDE DEF N, ps, n, a
  <1>a. \A l \in DOMAIN ps : hits[l] = {j \in 1 .. K(N, ps[l]) : (l = 1 => j >= y) /\ N[ps[l]].entries[j].rid = rid}
    BY <1>2 DEF RidHits, N
  <1> HIDE DEF hits
  <1>b. ASSUME NEW l \in DOMAIN ps, NEW j \in hits[l]
        PROVE  FALSE
    <2>1. j \in 1 .. K(N, ps[l]) /\ (l = 1 => j >= y) /\ N[ps[l]].entries[j].rid = rid
      BY <1>a, <1>b
    <2>2. off[ps[l]] + j \in off[p] + y .. W(F, i) /\ N[ps[l]].entries[j] = F[i][off[ps[l]] + j]
      BY <1>2, <2>1
    <2> QED
      BY <2>1, <2>2
  <1>c. Found(ps, hits).found = FALSE /\ Found(ps, hits).page = Last(ps)
    BY <1>b, FoundNone
  <1>d. SeekRid(f, p, y, rid) = Found(ps, hits)
    BY DEF SeekRid, hits, ps
  <1>e. Last(ps) \in DOMAIN N
    <2>1. n - a + 1 \in 1 .. n - a + 1
      BY <1>2
    <2> QED
      BY <1>2, <2>1 DEF Last
  <1> QED
    BY <1>c, <1>d, <1>e DEF N, EndsEmpty

\* Every page of the way down is where k belongs, and its position too.
Wayed(f, k, lv, at, off, F, h) ==
  \A i \in 0 .. h - 1 :
    /\ OnWay(f.node, lv, at, off, F, k, i, PathPage(f, k)[i])
    /\ Turns(f.node, lv, off, F, k, PathPage(f, k)[i], Spots(f, k)[i])

\* So it is in a file that holds a tree.
LEMMA WayIs ==
  ASSUME NEW f, NEW h, NEW lv, NEW at, NEW off, NEW F, NEW T, Holds(f, h, lv, at, off, F, T),
         NEW k \in Nat
  PROVE  Wayed(f, k, lv, at, off, F, h)
  <1> DEFINE N == f.node
             root == f.hdr.rootPage
             page == PathPage(f, k)
  <1>1. Tree(N, root, h, lv, at, off, F, T) /\ h = f.hdr.height
    BY DEF Holds
  <1>2. h \in Nat /\ h >= 1
    BY <1>1, TreeTypes
  <1>3. IsPath(page, N, root, k, h - 1)
    BY <1>1, <1>2, PathPageIs
  <1>4. \A i \in 0 .. h - 1 : Spots(f, k)[i] = FindKey(N[page[i]], k)
    BY <1>1 DEF Spots
  <1> HIDE DEF N, root, page
  <1>5. \A i \in 0 .. h - 1 : OnWay(N, lv, at, off, F, k, i, page[i])
    BY <1>1, <1>3, PathOnWay
  <1>6. \A i \in 0 .. h - 1 : Turns(N, lv, off, F, k, page[i], FindKey(N[page[i]], k))
    BY <1>1, <1>5, TurnsAt
  <1> QED
    BY <1>4, <1>5, <1>6 DEF Wayed, N, page

\* The key is missed when all keys are below it.
LEMMA MissedIs ==
  ASSUME NEW f, NEW h, NEW lv, NEW at, NEW off, NEW F, NEW T, Holds(f, h, lv, at, off, F, T),
         NEW k \in Nat
  PROVE  Missed(f, k) <=> Beyond(F, k)
  <1> DEFINE N == f.node
             page == PathPage(f, k)
             pos == Spots(f, k)
  <1>1. Tree(N, f.hdr.rootPage, h, lv, at, off, F, T) /\ h = f.hdr.height
    BY DEF Holds
  <1>2. h \in Nat /\ h >= 1 /\ \A r \in DOMAIN N : K(N, r) \in Nat
    BY <1>1, TreeTypes
  <1>3. Wayed(f, k, lv, at, off, F, h)
    BY WayIs
  <1> HIDE DEF N, page, pos
  <1>4. ASSUME NEW i \in 0 .. h - 1
        PROVE  pos[i] > K(N, page[i]) <=> Beyond(F, k)
    <2>1. page[i] \in DOMAIN N /\ pos[i] \in 1 .. K(N, page[i]) + 1
          /\ (Beyond(F, k) <=> pos[i] = K(N, page[i]) + 1)
      BY <1>3 DEF Wayed, OnWay, Turns, N, page, pos
    <2> QED
      BY <1>2, <2>1
  <1>5. Missed(f, k) <=> \E i \in 0 .. h - 1 : pos[i] > K(N, page[i])
    BY <1>1 DEF Missed, pos, page, N, K, numKeys
  <1>6. 0 \in 0 .. h - 1
    BY <1>2
  <1> QED
    BY <1>4, <1>5, <1>6

\* The page of the leaf level where the search starts, and the entry there.
Begins(f, k, h) == PathPage(f, k)[h - 1]
StartsAt(f, k, lv, at, off, F, h, x) ==
  /\ Begins(f, k, h) \in DOMAIN f.node /\ lv[Begins(f, k, h)] = h - 1
  /\ x = off[Begins(f, k, h)] + Spots(f, k)[h - 1]
  /\ IsPlace(F, h - 1, k, x)
  /\ Beyond(F, k) => x = W(F, h - 1) + 1
  /\ ~Beyond(F, k) => Spots(f, k)[h - 1] \in 1 .. K(f.node, Begins(f, k, h))
\* The search starts at the place of the key among the entries of the leaves.
LEMMA Starts ==
  ASSUME NEW f, NEW h, NEW lv, NEW at, NEW off, NEW F, NEW T, Holds(f, h, lv, at, off, F, T),
         NEW k \in Nat
  PROVE  \E x : StartsAt(f, k, lv, at, off, F, h, x)
  <1> DEFINE N == f.node
             p == Begins(f, k, h)
             y == Spots(f, k)[h - 1]
             x == off[p] + y
  <1>1. Tree(N, f.hdr.rootPage, h, lv, at, off, F, T)
    BY DEF Holds
  <1>2. h \in Nat /\ h >= 1 /\ h - 1 \in 0 .. h - 1
    BY <1>1, TreeTypes
  <1>3. Wayed(f, k, lv, at, off, F, h)
    BY WayIs
  <1> HIDE DEF N, p, y
  <1>4. OnWay(N, lv, at, off, F, k, h - 1, p) /\ Turns(N, lv, off, F, k, p, y)
    BY <1>2, <1>3 DEF Wayed, N, p, y, Begins
  <1>5. p \in DOMAIN N /\ lv[p] = h - 1
    BY <1>4 DEF OnWay
  <1>6. off[p] \in Nat /\ K(N, p) \in Nat /\ W(F, h - 1) \in Nat
    BY <1>1, <1>2, <1>5, TreeTypes
  <1>7. off[p] + K(N, p) <= W(F, h - 1)
    BY <1>1, <1>5 DEF Tree, Flat
  <1>8. /\ y \in 1 .. K(N, p) + 1 /\ (Beyond(F, k) <=> y = K(N, p) + 1)
        /\ \A j \in 1 .. W(F, h - 1) : j < x => F[h - 1][j].key < k
        /\ \A j \in 1 .. W(F, h - 1) : x <= j => F[h - 1][j].key >= k
    BY <1>4, <1>5 DEF Turns
  <1>9. IsPlace(F, h - 1, k, x)
    BY <1>6, <1>7, <1>8 DEF IsPlace
  <1>a. ASSUME Beyond(F, k)
        PROVE  x = W(F, h - 1) + 1
    <2>1. at[p] = Width(F, h - 1)
      BY <1>4, <1>a DEF OnWay
    <2>2. off[p] + K(N, p) = W(F, h - 1)
      BY <1>1, <1>5, <2>1, LastPage
    <2> QED
      BY <1>6, <1>8, <1>a, <2>2
  <1>b. ASSUME ~Beyond(F, k)
        PROVE  y \in 1 .. K(N, p)
    BY <1>6, <1>8, <1>b
  <1>c. StartsAt(f, k, lv, at, off, F, h, x)
    BY <1>5, <1>9, <1>a, <1>b DEF StartsAt, N, p, y
  <1> QED
    BY <1>c

\* The record ids of the leaves are all different.
LEMMA RidsDiffer ==
  ASSUME NEW f, NEW h, NEW lv, NEW at, NEW off, NEW F, NEW T, Holds(f, h, lv, at, off, F, T)
  PROVE  \A a, b \in 1 .. W(F, h - 1) : F[h - 1][a].rid = F[h - 1][b].rid => a = b
  <1>1. Tree(f.node, f.hdr.rootPage, h, lv, at, off, F, T)
    BY DEF Holds
  <1>2. h \in Nat /\ h >= 1 /\ h - 1 \in 0 .. h - 1
    BY <1>1, TreeTypes
  <1>3. /\ \A a, b \in 1 .. W(F, h - 1) : T[h - 1][a] = T[h - 1][b] => a = b
        /\ \A a \in 1 .. W(F, h - 1) : T[h - 1][a] = F[h - 1][a].rid
    BY <1>1, <1>2 DEF Tree, Topped
  <1> QED
    BY <1>3

\* The search of a delete finds entry z of the leaves, s of page q.
Aims(f, k, rid, h, lv, at, off, F, z, q, s) ==
  /\ z \in 1 .. W(F, h - 1) /\ F[h - 1][z].rid = rid /\ F[h - 1][z].key >= k
  /\ Lies(f.node, lv, off, h - 1, z, q, s)
  /\ at[Begins(f, k, h)] <= at[q]
  /\ EndsAt(Sought(f, k, rid), q, s)

\* There is no such entry from place x on, and it says so.
Fails(f, k, rid, h, F, x) ==
  /\ \A j \in x .. W(F, h - 1) : F[h - 1][j].rid # rid
  /\ ~Missed(f, k) => EndsEmpty(Sought(f, k, rid), f)

\* The one or the other.
LEMMA AimsOrFails ==
  ASSUME NEW f, Packed(f), NEW h, NEW lv, NEW at, NEW off, NEW F, NEW T, Holds(f, h, lv, at, off, F, T),
         NEW k \in Nat, NEW rid, NEW x, StartsAt(f, k, lv, at, off, F, h, x)
  PROVE  \/ Fails(f, k, rid, h, F, x)
         \/ ~Missed(f, k) /\ \E z \in x .. W(F, h - 1) : \E q, s : Aims(f, k, rid, h, lv, at, off, F, z, q, s)
  <1> DEFINE N == f.node
             p == Begins(f, k, h)
             y == Spots(f, k)[h - 1]
             w == W(F, h - 1)
  <1>1. Tree(N, f.hdr.rootPage, h, lv, at, off, F, T) /\ h = f.hdr.height
    BY DEF Holds
  <1>2. h \in Nat /\ h >= 1 /\ h - 1 \in 0 .. h - 1 /\ w \in Nat
    BY <1>1, TreeTypes
  <1>3. Missed(f, k) <=> Beyond(F, k)
    BY MissedIs
  <1>4. /\ p \in DOMAIN N /\ lv[p] = h - 1 /\ x = off[p] + y /\ IsPlace(F, h - 1, k, x)
        /\ Beyond(F, k) => x = w + 1
        /\ ~Beyond(F, k) => y \in 1 .. K(N, p)
    BY DEF StartsAt
  <1>5. Sought(f, k, rid) = SeekRid(f, p, y, rid)
    BY <1>1 DEF Sought, Begins
  <1>6. x \in 1 .. w + 1
    BY <1>4 DEF IsPlace
  <1>7. CASE Missed(f, k)
    <2>1. x = w + 1
      BY <1>3, <1>4, <1>7
    <2>2. \A j \in x .. w : FALSE
      BY <1>2, <2>1
    <2> QED
      BY <1>7, <2>2 DEF Fails
  <1>8. CASE ~Missed(f, k) /\ \A j \in x .. w : F[h - 1][j].rid # rid
    <2>1. y \in 1 .. K(N, p)
      BY <1>3, <1>4, <1>8
    <2>2. \A j \in off[p] + y .. W(F, h - 1) : F[h - 1][j].rid # rid
      BY <1>4, <1>8
    <2>3. p \in DOMAIN f.node /\ lv[p] = h - 1 /\ y \in 1 .. K(f.node, p)
      BY <1>4, <2>1
    <2> HIDE DEF p, y, N, w
    <2>4. EndsEmpty(SeekRid(f, p, y, rid), f)
      BY <1>2, <2>2, <2>3, SeekMisses
    <2> QED
      BY <1>5, <1>8, <2>4 DEF Fails, w, N
  <1>9. CASE ~Missed(f, k) /\ \E j \in x .. w : F[h - 1][j].rid = rid
    <2>1. PICK z \in x .. w : F[h - 1][z].rid = rid
      BY <1>9
    <2>2. y \in 1 .. K(N, p)
      BY <1>3, <1>4, <1>9
    <2>3. z \in 1 .. w
      BY <1>2, <1>6, <2>1
    <2>4. \A j \in 1 .. w : F[h - 1][j].rid = rid => j = z
      BY <2>1, <2>3, RidsDiffer
    <2>5. z \in off[p] + y .. W(F, h - 1) /\ \A j \in 1 .. W(F, h - 1) : F[h - 1][j].rid = rid => j = z
      BY <1>4, <2>1, <2>4
    <2>6. F[h - 1][z].key >= k
      <3>1. x <= z
        BY <1>2, <1>6, <2>1
      <3> QED
        BY <1>4, <2>3, <3>1 DEF IsPlace
    <2> HIDE DEF p, y
    <2>7. PICK q, s : /\ Lies(f.node, lv, off, h - 1, z, q, s) /\ at[p] <= at[q]
                      /\ EndsAt(SeekRid(f, p, y, rid), q, s)
      BY <1>2, <1>4, <2>1, <2>2, <2>5, SeekFinds DEF N
    <2>8. Aims(f, k, rid, h, lv, at, off, F, z, q, s)
      BY <1>5, <2>1, <2>3, <2>6, <2>7 DEF Aims, p
    <2> QED
      BY <1>9, <2>1, <2>8
  <1> QED
    BY <1>7, <1>8, <1>9

\* The place of a delete in a node: the entry's, for no other has its rid.
LEMMA RemovesAt ==
  ASSUME NEW n, NEW c \in Nat, c = numKeys(n), \A q \in 1 .. c : n.entries[q].key \in Nat,
         NEW k \in Nat, NEW rid, NEW s \in 1 .. c, n.entries[s].rid = rid, n.entries[s].key >= k,
         \A q \in 1 .. c : n.entries[q].rid = rid => q = s
  PROVE  /\ NodeRemove(n, k, rid) = [n EXCEPT !.entries = Removed(@, s)]
         /\ RemoveResult(n, k, rid) = IF c = 1 THEN -1 ELSE 0
  <1>1. Finds(n, c, k, FindKey(n, k))
    BY FindKeyFacts
  <1> DEFINE x == FindKey(n, k)
  <1> HIDE DEF x
  <1>2. x \in 1 .. c + 1 /\ \A q \in 1 .. x - 1 : n.entries[q].key < k
    BY <1>1 DEF Finds, x
  <1>3. x <= s
    <2>1. ASSUME s < x
          PROVE  FALSE
      <3>1. s \in 1 .. x - 1 /\ n.entries[s].key \in Nat
        BY <1>2, <2>1
      <3> QED
        BY <1>2, <3>1
    <2> QED
      BY <1>2, <2>1
  <1>4. RidFrom(n, k, rid) = {s}
    <2>1. \A q \in x .. c : q \in 1 .. c
      BY <1>2
    <2>2. s \in x .. c
      BY <1>2, <1>3
    <2>3. \A q \in x .. c : n.entries[q].rid = rid => q = s
      BY <2>1
    <2>4. RidFrom(n, k, rid) = {q \in x .. c : n.entries[q].rid = rid}
      BY DEF RidFrom, x
    <2> QED
      BY <2>2, <2>3, <2>4
  <1>5. (CHOOSE q \in {s} : \A r \in {s} : q <= r) = s
    OBVIOUS
  <1>6. RidFrom(n, k, rid) # {}
    BY <1>4
  <1> QED
    BY <1>4, <1>5, <1>6 DEF NodeRemove, RemoveResult

\* A node without the rid stays as it is.
LEMMA RemovesNothing ==
  ASSUME NEW n, NEW c \in Nat, c = numKeys(n), NEW k, NEW rid, FindKey(n, k) \in 1 .. c + 1,
         \A q \in 1 .. c : n.entries[q].rid # rid
  PROVE  NodeRemove(n, k, rid) = n
  <1>1. RidFrom(n, k, rid) = {}
    BY DEF RidFrom
  <1> QED
    BY <1>1 DEF NodeRemove

----------------------------------------------------------------------------
\* The turns of the loop of DeleteEntry, and the whole delete.

\* A delete that succeeds, with the nodes that it leaves.
Removing(f, M) == [rc |-> 0, ix |-> [f EXCEPT !.node = M]]

\* What the loop of a delete does to the leaf it aims at.
Takes(f, k, rid, q, s) ==
  /\ NodeRemove(f.node[q], k, rid) = [f.node[q] EXCEPT !.entries = Removed(@, s)]
  /\ RemoveResult(f.node[q], k, rid) = IF K(f.node, q) = 1 THEN -1 ELSE 0
\* The entry the search ended at is the one that the leaf loses.
LEMMA LeafTakes ==
  ASSUME NEW f, NEW h, NEW lv, NEW at, NEW off, NEW F, NEW T, Holds(f, h, lv, at, off, F, T),
         NEW k \in Nat, NEW rid, NEW z, NEW q, NEW s, Aims(f, k, rid, h, lv, at, off, F, z, q, s)
  PROVE  Takes(f, k, rid, q, s)
  <1> DEFINE N == f.node
             n == N[q]
             c == K(N, q)
  <1>1. Tree(N, f.hdr.rootPage, h, lv, at, off, F, T)
    BY DEF Holds
  <1>2. /\ z \in 1 .. W(F, h - 1) /\ F[h - 1][z].rid = rid /\ F[h - 1][z].key >= k
        /\ q \in DOMAIN N /\ lv[q] = h - 1 /\ s \in 1 .. K(N, q) /\ off[q] + s = z
    BY DEF Aims, Lies
  <1>3. c \in Nat /\ off[q] \in Nat /\ s \in Nat
    BY <1>1, <1>2, TreeTypes
  <1>4. c = numKeys(n)
    BY DEF K, numKeys
  <1> HIDE DEF N, c
  <1>5. \A j \in 1 .. c : /\ off[q] + j \in 1 .. W(F, h - 1)
                          /\ n.entries[j] = F[h - 1][off[q] + j]
                          /\ n.entries[j] \in EntrySet
    BY <1>1, <1>2, EntryAt DEF c
  <1>6. \A j \in 1 .. c : n.entries[j].key \in Nat
    BY <1>5, IndexTreeAssumption DEF EntrySet
  <1>7. s \in 1 .. c /\ n.entries[s].rid = rid /\ n.entries[s].key >= k
    <2>1. s \in 1 .. c
      BY <1>2 DEF c
    <2>2. n.entries[s] = F[h - 1][z]
      BY <1>2, <1>5, <2>1
    <2> QED
      BY <1>2, <2>1, <2>2
  <1>8. ASSUME NEW j \in 1 .. c, n.entries[j].rid = rid
        PROVE  j = s
    <2>1. off[q] + j \in 1 .. W(F, h - 1) /\ F[h - 1][off[q] + j].rid = rid
      BY <1>5, <1>8
    <2>2. off[q] + j = z
      BY <1>2, <2>1, RidsDiffer
    <2> QED
      BY <1>2, <1>3, <2>2
  <1> HIDE DEF n
  <1>9. /\ NodeRemove(n, k, rid) = [n EXCEPT !.entries = Removed(@, s)]
        /\ RemoveResult(n, k, rid) = IF c = 1 THEN -1 ELSE 0
    BY <1>3, <1>4, <1>6, <1>7, <1>8, RemovesAt
  <1> QED
    BY <1>9 DEF Takes, n, c, N

\* The state of a delete's loop as a record.
IsStep(t) == t = [ix |-> t.ix, rc |-> t.rc, page |-> t.page, pos |-> t.pos]

\* The turn at the root takes the entry out of the page of level 0.
EndsAtRoot(u, t, k, rid) ==
  u.rc = 0 /\ u.ix = [t.ix EXCEPT !.node[t.page[0]] = NodeRemove(t.ix.node[t.page[0]], k, rid)]
\* So it does.
LEMMA TurnsAtRoot ==
  ASSUME NEW t, IsStep(t), t.rc = -1, NEW k, NEW rid
  PROVE  EndsAtRoot(Turned(t, 0, k, rid), t, k, rid)
  <1>1. Turned(t, 0, k, rid) =
           [t EXCEPT !.ix = [t.ix EXCEPT !.node[t.page[0]] = NodeRemove(t.ix.node[t.page[0]], k, rid)], !.rc = 0]
    BY DEF Turned, RemoveStep
  <1> QED
    BY <1>1 DEF EndsAtRoot, IsStep

\* The entry goes from the only leaf.
LEMMA DeletesOne ==
  ASSUME NEW f, Packed(f), NEW lv, NEW at, NEW off, NEW F, NEW T, Holds(f, 1, lv, at, off, F, T),
         NEW k \in Nat, NEW rid, NEW z, NEW q, NEW s, Aims(f, k, rid, 1, lv, at, off, F, z, q, s),
         Missed(f, k) = FALSE
  PROVE  DeleteEntry(f, k, rid) = Removing(f, Shrunk(f.node, q, s)) /\ q = f.hdr.rootPage
  <1> DEFINE N == f.node
             r == Sought(f, k, rid)
             t == From1(f, k, r)
             n == NodeRemove(N[q], k, rid)
  <1>1. Tree(N, f.hdr.rootPage, 1, lv, at, off, F, T) /\ f.hdr.height = 1
    BY DEF Holds
  <1>2. r.found = TRUE /\ r.page = q /\ r.pos = s
    BY DEF Aims, EndsAt
  <1>3. q \in DOMAIN N /\ lv[q] = 0
    BY DEF Aims, Lies
  <1>4. q = f.hdr.rootPage
    BY <1>1, <1>3 DEF Tree, Linked
  <1>5. n = [N[q] EXCEPT !.entries = Removed(@, s)]
    BY LeafTakes DEF Takes
  <1>6. DeleteEntry(f, k, rid) = Outcome(f, k, rid, r, Turned(t, 0, k, rid))
    <2>1. f.hdr.height = 1
      BY <1>1
    <2> HIDE DEF t
    <2>2. r = Sought(f, k, rid)
      OBVIOUS
    <2> HIDE DEF r
    <2> QED
      BY <2>1, <2>2, DeleteOne DEF t
  <1>7. PathPage(f, k) = [i \in 0 .. f.hdr.height - 1 |-> PathPage(f, k)[i]]
    <2>1. f.hdr.height \in Nat /\ f.hdr.height >= 1
      BY <1>1
    <2> HIDE DEF N, r, t, n
    <2> QED
      BY <2>1, PathPageIs
  <1>8. t.ix = f /\ t.rc = -1 /\ t.page[0] = q
    <2>1. DOMAIN PathPage(f, k) = 0 .. 0
      BY <1>1, <1>7
    <2>2. 0 \in DOMAIN PathPage(f, k) /\ f.hdr.height - 1 = 0
      BY <1>1, <2>1
    <2>3. [PathPage(f, k) EXCEPT ![f.hdr.height - 1] = r.page][0] = q
      BY <1>2, <2>2
    <2> QED
      BY <2>3 DEF From1
  <1>9. IsStep(t)
    BY DEF From1, IsStep
  <1> HIDE DEF t, r, n
  <1>a. EndsAtRoot(Turned(t, 0, k, rid), t, k, rid)
    BY <1>8, <1>9, TurnsAtRoot
  <1>b. Turned(t, 0, k, rid).rc = 0 /\ Turned(t, 0, k, rid).ix = [f EXCEPT !.node[q] = n]
    BY <1>8, <1>a DEF EndsAtRoot, n, N
  <1>c. DeleteEntry(f, k, rid) = [rc |-> 0, ix |-> [f EXCEPT !.node[q] = n]]
    BY <1>2, <1>6, <1>b DEF Outcome
  <1>d. [N EXCEPT ![q] = n] = Shrunk(N, q, s)
    BY <1>3, <1>5 DEF Shrunk
  <1>e. [f EXCEPT !.node[q] = n] = [f EXCEPT !.node = Shrunk(N, q, s)]
    BY <1>d DEF N
  <1> QED
    BY <1>4, <1>c, <1>e DEF Removing, N

\* The root of a tree has the first level to itself.
RootHas(N, root, off, F, n) == off[root] = 0 /\ K(N, root) = n /\ n \in Nat /\ n = W(F, 0)
\* It is the level.
LEMMA RootAlone ==
  ASSUME NEW N, NEW root, NEW h, NEW lv, NEW at, NEW off, NEW F, NEW T,
         Tree(N, root, h, lv, at, off, F, T)
  PROVE  \E n : RootHas(N, root, off, F, n)
  <1>1. h \in Nat /\ h >= 1 /\ 0 \in 0 .. h - 1 /\ root \in DOMAIN N
    BY TreeTypes
  <1>2. Joined(N, root, F, off, 0)
    BY <1>1, IsJoined
  <1>3. Width(F, 0) = 1 /\ PageAt(root, F, 0, 1) = root
    BY DEF Width, PageAt
  <1>4. off[root] = 0 /\ off[root] + K(N, root) = W(F, 0) /\ K(N, root) \in Nat
    BY <1>1, <1>2, <1>3, TreeTypes DEF Joined
  <1> DEFINE n == K(N, root)
  <1>5. RootHas(N, root, off, F, n)
    BY <1>4 DEF RootHas
  <1> QED
    BY <1>5

\* The root has no neighbours.
LEMMA RootNext ==
  ASSUME NEW f, Packed(f), NEW h, NEW lv, NEW at, NEW off, NEW F, NEW T, Holds(f, h, lv, at, off, F, T)
  PROVE  RightFrom(f, f.hdr.rootPage) = <<f.hdr.rootPage>>
  <1> DEFINE root == f.hdr.rootPage
  <1>1. Tree(f.node, root, h, lv, at, off, F, T)
    BY DEF Holds
  <1>2. h \in Nat /\ h >= 1 /\ 0 \in 0 .. h - 1
    BY <1>1, TreeTypes
  <1>3. Width(F, 0) = 1 /\ \A j : PageAt(root, F, 0, j) = root
    BY DEF Width, PageAt
  <1>4. 1 \in 1 .. Width(F, 0)
    BY <1>3
  <1>5. GoesRight(f, root, F, 0, 1)
    BY <1>2, <1>4, RightIs
  <1> HIDE DEF root
  <1>6. RightFrom(f, root) = [j \in 1 .. 1 - 1 + 1 |-> root]
    <2>1. RightFrom(f, PageAt(root, F, 0, 1))
            = [j \in 1 .. Width(F, 0) - 1 + 1 |-> PageAt(root, F, 0, 1 + j - 1)]
      BY <1>5 DEF GoesRight
    <2>2. [j \in 1 .. Width(F, 0) - 1 + 1 |-> PageAt(root, F, 0, 1 + j - 1)] = [j \in 1 .. 1 - 1 + 1 |-> root]
      BY <1>3, Zenon
    <2>3. PageAt(root, F, 0, 1) = root
      BY <1>3
    <2> QED
      BY <2>1, <2>2, <2>3
  <1> QED
    BY <1>6 DEF root

\* In the root, the search for a child ends at its place.
SeeksChild(r, root, a) == EndsAt(r, root, a) /\ r.passed = {}
\* So it does, from any place not behind it.
LEMMA RootSeeks ==
  ASSUME NEW f, Packed(f), NEW lv, NEW at, NEW off, NEW F, NEW T, Holds(f, 2, lv, at, off, F, T),
         NEW q \in DOMAIN f.node, lv[q] = 1, NEW x, x \in Nat, x <= at[q]
  PROVE  SeeksChild(SeekChild(f, f.hdr.rootPage, x, q), f.hdr.rootPage, at[q])
  <1> DEFINE N == f.node
             root == f.hdr.rootPage
             a == at[q]
             ps == RightFrom(f, root)
             hits == ChildHits(f, ps, x, q)
  <1>1. Tree(N, root, 2, lv, at, off, F, T)
    BY DEF Holds
  <1>2. PICK n : RootHas(N, root, off, F, n)
    BY <1>1, RootAlone
  <1>3. off[root] = 0 /\ K(N, root) = n /\ n \in Nat /\ n = W(F, 0)
    BY <1>2 DEF RootHas
  <1>4. root \in DOMAIN N /\ lv[root] = 0 /\ a \in Nat /\ a >= 1 /\ N[root].entries \in Seq(EntrySet)
    <2>1. root \in DOMAIN N /\ N[root] \in NodeSet
      BY <1>1, TreeTypes
    <2>2. lv[root] = 0
      BY <1>1 DEF Tree, Linked
    <2>3. a \in Nat /\ a >= 1
      BY <1>1, TreeTypes
    <2> QED
      BY <2>1, <2>2, <2>3, IsNode
  <1>5. a <= n /\ F[0][a] = Entry(MaxKey(N[q]), Child(q))
    BY <1>1, <1>3 DEF Tree, Linked
  <1>6. DOMAIN N[root].entries = 1 .. n
    BY <1>3, <1>4 DEF K
  <1>7. ps = <<root>> /\ DOMAIN ps = {1} /\ ps[1] = root
    <2>1. ps = <<root>>
      BY RootNext
    <2> QED
      BY <2>1
  <1> HIDE DEF N, root, ps
  <1>8. N[root].entries[a].rid[1] = q
    <2>1. a \in 1 .. K(N, root)
      BY <1>3, <1>4, <1>5
    <2>2. N[root].entries[a] = F[0][off[root] + a]
      BY <1>1, <1>4, <2>1, EntryAt
    <2>3. N[root].entries[a] = Entry(MaxKey(N[q]), Child(q))
      BY <1>3, <1>4, <1>5, <2>2
    <2> QED
      BY <2>3 DEF Entry, Child
  <1>9. ASSUME NEW j \in 1 .. n, N[root].entries[j].rid[1] = q
        PROVE  j = a
    <2>1. j \in 1 .. K(N, root) /\ lv[root] < 2 - 1
      BY <1>3, <1>4
    <2>2. at[q] = off[root] + j
      BY <1>1, <1>4, <1>9, <2>1, ChildAt
    <2> QED
      BY <1>3, <2>2
  <1>a. hits[1] = {j \in 1 .. n : j >= x /\ N[root].entries[j].rid[1] = q} /\ DOMAIN hits = {1}
    BY <1>6, <1>7 DEF ChildHits, N
  <1>b. hits[1] = {a}
    <2>1. a \in 1 .. n /\ a >= x
      BY <1>3, <1>4, <1>5
    <2> QED
      BY <1>8, <1>9, <1>a, <2>1
  <1> HIDE DEF hits, a
  <1>c. OnlyHit(ps, hits, 1, a)
    BY <1>4, <1>7, <1>b DEF OnlyHit
  <1>d. EndsAt(Found(ps, hits), ps[1], a) /\ Found(ps, hits).passed = {}
    BY <1>c, FoundAt
  <1>e. SeekChild(f, root, x, q) = Found(ps, hits)
    BY DEF SeekChild, ps, hits
  <1> QED
    BY <1>7, <1>d, <1>e DEF SeeksChild, root, a

\* The loop of a delete before its turn for the leaf q, in a tree of two levels.
AtLeaf(t, f, q, s, x) ==
  /\ IsStep(t) /\ t.ix = f /\ t.rc = -1
  /\ t.page = [i \in 0 .. 1 |-> IF i = 0 THEN f.hdr.rootPage ELSE q]
  /\ t.pos = [i \in 0 .. 1 |-> IF i = 0 THEN x ELSE s]
  /\ x \in Nat
\* With two levels, that is where the loop starts.
LEMMA StartsTwo ==
  ASSUME NEW f, NEW lv, NEW at, NEW off, NEW F, NEW T, Holds(f, 2, lv, at, off, F, T),
         NEW k \in Nat, NEW r, NEW q, NEW s, EndsAt(r, q, s), at[Begins(f, k, 2)] <= at[q],
         Missed(f, k) = FALSE
  PROVE  \E x : AtLeaf(From1(f, k, r), f, q, s, x) /\ x <= at[q]
  <1> DEFINE N == f.node
             root == f.hdr.rootPage
             page == PathPage(f, k)
             x == FindKey(N[root], k)
             p == page[1]
  <1>1. Tree(N, root, 2, lv, at, off, F, T) /\ f.hdr.height = 2
    BY DEF Holds
  <1>2. /\ IsPath(page, N, root, k, 1)
        /\ page = [i \in 0 .. 1 |-> page[i]]
    <2>1. f.hdr.height \in Nat /\ f.hdr.height >= 1
      BY <1>1
    <2>2. /\ IsPath(PathPage(f, k), f.node, f.hdr.rootPage, k, f.hdr.height - 1)
          /\ PathPage(f, k) = [i \in 0 .. f.hdr.height - 1 |-> PathPage(f, k)[i]]
      <3> HIDE DEF N, root, page, x, p
      <3> QED
        BY <2>1, PathPageIs
    <2>3. f.hdr.height - 1 = 1
      BY <1>1
    <2> QED
      BY <2>2, <2>3
  <1>3. page[0] = root /\ p = Below1(N, k, root)
    BY <1>2 DEF IsPath
  <1>4. Beyond(F, k) = FALSE
    BY MissedIs
  <1>5. Wayed(f, k, lv, at, off, F, 2)
    BY WayIs
  <1>6. /\ OnWay(N, lv, at, off, F, k, 0, root) /\ OnWay(N, lv, at, off, F, k, 1, p)
        /\ Turns(N, lv, off, F, k, root, Spots(f, k)[0])
    BY <1>3, <1>5 DEF Wayed
  <1>7. Spots(f, k) = [i \in 0 .. 1 |-> FindKey(N[page[i]], k)]
    BY <1>1 DEF Spots
  <1>8. PICK n : RootHas(N, root, off, F, n)
    BY <1>1, RootAlone
  <1>9. off[root] = 0 /\ K(N, root) = n /\ n \in Nat /\ root \in DOMAIN N /\ lv[root] = 0
    BY <1>6, <1>8 DEF RootHas, OnWay
  <1> HIDE DEF N, root, page, x, p
  <1>a. x \in 1 .. n /\ x = PosIn(N[root], k)
    <2>1. x \in 1 .. K(N, root) + 1 /\ x # K(N, root) + 1
      BY <1>3, <1>4, <1>6, <1>7 DEF Turns, x
    <2>2. x \in 1 .. n
      BY <1>9, <2>1
    <2>3. ~(x > n)
      BY <1>9, <2>2
    <2> QED
      BY <1>9, <2>2, <2>3 DEF PosIn, x, K, numKeys
  <1>b. at[p] = x
    <2>1. p = N[root].entries[x].rid[1]
      BY <1>3, <1>a DEF Below1
    <2>2. x \in 1 .. K(N, root) /\ lv[root] < 2 - 1
      BY <1>9, <1>a
    <2>3. at[p] = off[root] + x
      BY <1>1, <1>9, <2>1, <2>2, ChildAt
    <2> QED
      BY <1>9, <1>a, <2>3
  <1>c. Begins(f, k, 2) = p
    BY DEF Begins, p, page
  <1>d. x <= at[q]
    BY <1>b, <1>c
  <1>e. r.page = q /\ r.pos = s
    BY DEF EndsAt
  <1>f. From1(f, k, r) = [ix |-> f, rc |-> -1, page |-> [page EXCEPT ![1] = q], pos |-> [Spots(f, k) EXCEPT ![1] = s]]
    BY <1>1, <1>e DEF From1, page
  <1>g. [page EXCEPT ![1] = q] = [i \in 0 .. 1 |-> IF i = 0 THEN root ELSE q]
    <2>1. \A i \in 0 .. 1 : i = 0 \/ i = 1
      OBVIOUS
    <2> QED
      BY <1>2, <1>3, <2>1
  <1>h. [Spots(f, k) EXCEPT ![1] = s] = [i \in 0 .. 1 |-> IF i = 0 THEN x ELSE s]
    <2>1. \A i \in 0 .. 1 : i = 0 \/ i = 1
      OBVIOUS
    <2>2. Spots(f, k)[0] = x
      BY <1>3, <1>7 DEF x
    <2> QED
      BY <1>7, <2>1, <2>2
  <1>i. AtLeaf(From1(f, k, r), f, q, s, x)
    <2>1. x \in Nat
      BY <1>9, <1>a
    <2> QED
      BY <1>f, <1>g, <1>h, <2>1 DEF AtLeaf, IsStep, root
  <1> QED
    BY <1>d, <1>i

\* The turn of a delete below the root, by what its search of the parent found.
PutBack(t, i, k, rid, s) ==
  LET p == t.page[i]
      n == NodeRemove(t.ix.node[p], k, rid)
      page == [t.page EXCEPT ![i - 1] = s.page]
      pos  == [t.pos EXCEPT ![i - 1] = s.pos]
      f == [t.ix EXCEPT !.node[p] = n]
  IN  [IF t.pos[i] > numKeys(n) THEN Lowered(f, page, pos, i, MaxKey(n)) ELSE f EXCEPT !.pinned = @ \cup s.passed]
Stepped(t, i, k, rid, s) ==
  IF ~s.found THEN [t EXCEPT !.ix.pinned = @ \cup s.passed \cup {s.page}, !.rc = 1]
  ELSE IF RemoveResult(t.ix.node[t.page[i]], k, rid) # 0
  THEN [t EXCEPT !.ix = DropNode([t.ix EXCEPT !.pinned = @ \cup s.passed], t.page[i]),
                 !.page = [t.page EXCEPT ![i - 1] = s.page],
                 !.pos = [t.pos EXCEPT ![i - 1] = s.pos]]
  ELSE [t EXCEPT !.ix = PutBack(t, i, k, rid, s), !.rc = 0]
\* RemoveStep is that.
LEMMA StepIs ==
  ASSUME NEW t, NEW i, i # 0, t.rc = -1, NEW k, NEW rid
  PROVE  Turned(t, i, k, rid) = Stepped(t, i, k, rid, SeekChild(t.ix, t.page[i - 1], t.pos[i - 1], t.page[i]))
  <1> DEFINE s == SeekChild(t.ix, t.page[i - 1], t.pos[i - 1], t.page[i])
  <1>1. Search(t.ix, t.page[i - 1], t.pos[i - 1], LAMBDA e : e.rid[1] = t.page[i]) = s
    BY SearchIs, ZenonT(40)
  <1> HIDE DEF s
  <1>2. RemoveStep(t, i, k, rid) = Stepped(t, i, k, rid, s)
    BY <1>1, ZenonT(40) DEF RemoveStep, Stepped, PutBack
  <1>3. Turned(t, i, k, rid) = RemoveStep(t, i, k, rid)
    BY DEF Turned
  <1> QED
    BY <1>2, <1>3 DEF s

\* The bound of a leaf in the root.
LowersTo(u, g, root, a, k) ==
  u = [g EXCEPT !.node = [p \in DOMAIN @ |-> IF p = root THEN SetKey(@[p], a, k) ELSE @[p]]]
\* Lowered changes no other node of a tree of two levels.
LEMMA LowersRoot ==
  ASSUME NEW g, NEW page, NEW pos, NEW root, NEW a, page[0] = root, pos[0] = a, NEW k
  PROVE  LowersTo(Lowered(g, page, pos, 1, k), g, root, a, k)
  <1>1. {1 - 1} \cup {j \in 0 .. 1 - 2 : \A m \in j .. 1 - 2 : pos[m] = numKeys(g.node[page[m]])} = {0}
    <2>1. 0 .. 1 - 2 = {}
      OBVIOUS
    <2> QED
      BY <2>1
  <1>2. \A p : (\E j \in {0} : page[j] = p) <=> p = root
    OBVIOUS
  <1>3. (CHOOSE j \in {0} : page[j] = root) = 0
    OBVIOUS
  <1>4. Lowered(g, page, pos, 1, k)
          = [g EXCEPT !.node = [p \in DOMAIN @ |-> IF \E j \in {0} : page[j] = p
                                THEN SetKey(@[p], pos[CHOOSE j \in {0} : page[j] = p], k) ELSE @[p]]]
    BY <1>1 DEF Lowered
  <1>5. \A p : (IF \E j \in {0} : page[j] = p
                THEN SetKey(g.node[p], pos[CHOOSE j \in {0} : page[j] = p], k) ELSE g.node[p])
                 = IF p = root THEN SetKey(g.node[p], a, k) ELSE g.node[p]
    BY <1>2, <1>3
  <1>6. [p \in DOMAIN g.node |-> IF \E j \in {0} : page[j] = p
                THEN SetKey(g.node[p], pos[CHOOSE j \in {0} : page[j] = p], k) ELSE g.node[p]]
          = [p \in DOMAIN g.node |-> IF p = root THEN SetKey(g.node[p], a, k) ELSE g.node[p]]
    BY <1>5
  <1> QED
    BY <1>4, <1>6 DEF LowersTo

\* The nodes after the turn for a leaf that keeps an entry.
LEMMA PutsBack ==
  ASSUME NEW f, Packed(f), NEW lv, NEW at, NEW off, NEW F, NEW T, Holds(f, 2, lv, at, off, F, T),
         NEW k \in Nat, NEW rid, NEW q \in DOMAIN f.node, lv[q] = 1, K(f.node, q) >= 2,
         NEW s \in 1 .. K(f.node, q), Takes(f, k, rid, q, s),
         NEW x, NEW t, AtLeaf(t, f, q, s, x),
         NEW r, SeeksChild(r, f.hdr.rootPage, at[q])
  PROVE  PutBack(t, 1, k, rid, r) = [f EXCEPT !.node = Lessened(f.node, f.hdr.rootPage, at[q], q, s)]
  <1> DEFINE N == f.node
             root == f.hdr.rootPage
             a == at[q]
             c == K(N, q)
             n == NodeRemove(N[q], k, rid)
             g == [f EXCEPT !.node[q] = n]
             page == [t.page EXCEPT ![1 - 1] = r.page]
             pos == [t.pos EXCEPT ![1 - 1] = r.pos]
  <1>1. Tree(N, root, 2, lv, at, off, F, T) /\ f.hdr.height = 2
    BY DEF Holds
  <1>2. /\ t.ix = f /\ t.page[1] = q /\ t.pos[1] = s
        /\ t.page = [i \in 0 .. 1 |-> IF i = 0 THEN root ELSE q]
        /\ t.pos = [i \in 0 .. 1 |-> IF i = 0 THEN x ELSE s]
    BY DEF AtLeaf
  <1>3. r.page = root /\ r.pos = a /\ r.passed = {}
    BY DEF SeeksChild, EndsAt
  <1>4. page[0] = root /\ pos[0] = a
    BY <1>2, <1>3
  <1>5. n = [N[q] EXCEPT !.entries = Removed(@, s)]
    BY DEF Takes
  <1>6. /\ c \in Nat /\ N[q] \in NodeSet /\ root \in DOMAIN N /\ q # root
        /\ N[q].entries \in Seq(EntrySet) /\ c = Len(N[q].entries)
    <2>1. c \in Nat /\ N[q] \in NodeSet /\ root \in DOMAIN N
      BY <1>1, TreeTypes
    <2>2. q # root
      BY <1>1 DEF Tree, Linked
    <2> QED
      BY <2>1, <2>2, IsNode DEF K
  <1>7. n.entries = Removed(N[q].entries, s)
    <2>1. N[q] = [entries |-> N[q].entries, left |-> N[q].left, right |-> N[q].right]
      BY <1>6, IsNode
    <2> QED
      BY <1>5, <2>1
  <1>8. numKeys(n) = c - 1 /\ (s = c => MaxKey(n) = N[q].entries[c - 1].key)
    <2>1. IsRemoval(Removed(N[q].entries, s), EntrySet, N[q].entries, c, s)
      BY <1>6, RemovalIs
    <2>2. Len(n.entries) = c - 1 /\ \A j \in 1 .. c - 1 : n.entries[j] = N[q].entries[Was(j, s)]
      BY <1>7, <2>1 DEF IsRemoval, IsRemoved
    <2>3. ASSUME s = c
          PROVE  n.entries[c - 1] = N[q].entries[c - 1]
      <3>1. c - 1 \in 1 .. c - 1 /\ c - 1 < s
        BY <1>6, <2>3
      <3> QED
        BY <2>2, <3>1 DEF Was
    <2> QED
      BY <2>2, <2>3 DEF numKeys, MaxKey
  <1>9. f = [hdr |-> f.hdr, hdrChanged |-> f.hdrChanged, page0 |-> f.page0,
             node |-> f.node, free |-> f.free, pinned |-> f.pinned]
    BY DEF Packed, IsIndex
  <1>a. t.pos[1] > numKeys(n) <=> s = c
    BY <1>2, <1>6, <1>8
  <1> DEFINE mk == MaxKey(n)
             L == Lowered(g, page, pos, 1, mk)
             B == IF t.pos[1] > numKeys(n) THEN L ELSE g
             D == Lessened(N, root, a, q, s)
  <1>b. PutBack(t, 1, k, rid, r) = [B EXCEPT !.pinned = @ \cup r.passed]
    BY <1>2 DEF PutBack
  <1>c. L = [g EXCEPT !.node = [p \in DOMAIN @ |-> IF p = root THEN SetKey(@[p], a, mk) ELSE @[p]]]
    <2>1. LowersTo(L, g, root, a, mk)
      <3> HIDE DEF g, page, pos, mk, root, a
      <3> QED
        BY <1>4, LowersRoot
    <2> QED
      BY <2>1 DEF LowersTo
  <1>d. g = [f EXCEPT !.node = [p \in DOMAIN N |-> IF p = q THEN n ELSE N[p]]]
    <2>1. N = [p \in DOMAIN N |-> N[p]]
      BY DEF Packed
    <2>2. [N EXCEPT ![q] = n] = [p \in DOMAIN N |-> IF p = q THEN n ELSE N[p]]
      OBVIOUS
    <2> QED
      BY <2>2
  <1>e. B = [f EXCEPT !.node = D]
    <2>1. CASE s = c
      <3>1. B = L
        BY <1>a, <2>1
      <3>2. mk = N[q].entries[c - 1].key
        BY <1>8, <2>1
      <3> HIDE DEF n, mk
      <3>3. g.node = [p \in DOMAIN N |-> IF p = q THEN n ELSE N[p]]
        BY <1>9, <1>d
      <3>4. [p \in DOMAIN g.node |-> IF p = root THEN SetKey(g.node[p], a, mk) ELSE g.node[p]] = D
        <4>1. D = [p \in DOMAIN N |->
                     IF p = q THEN n ELSE IF p = root THEN SetKey(N[root], a, mk) ELSE N[p]]
          BY <1>5, <2>1, <3>2 DEF Lessened
        <4>2. DOMAIN g.node = DOMAIN N /\ \A p \in DOMAIN N : g.node[p] = IF p = q THEN n ELSE N[p]
          BY <3>3
        <4> HIDE DEF D, g
        <4> QED
          BY <1>6, <4>1, <4>2
      <3>5. L = [g EXCEPT !.node = D]
        BY <1>c, <3>4
      <3> HIDE DEF D, L, B
      <3> QED
        BY <3>1, <3>5, <1>9, <1>d
    <2>2. CASE s # c
      <3>1. B = g
        BY <1>a, <2>2
      <3>2. D = [p \in DOMAIN N |-> IF p = q THEN n ELSE N[p]]
        BY <1>5, <2>2 DEF Lessened
      <3> QED
        BY <1>d, <3>1, <3>2
    <2> QED
      BY <2>1, <2>2
  <1> HIDE DEF B, D
  <1>f. [B EXCEPT !.pinned = @ \cup r.passed] = B
    BY <1>3, <1>9, <1>e
  <1> QED
    BY <1>b, <1>e, <1>f DEF D

\* The turn for the leaf: it ends the loop, or it drops the leaf.
TurnAtLeaf(u, f, root, q, s, a, c) ==
  IF c = 1
  THEN IsStep(u) /\ u.rc = -1 /\ u.ix = DropNode(f, q) /\ u.page[0] = root
  ELSE u.rc = 0 /\ u.ix = [f EXCEPT !.node = Lessened(f.node, root, a, q, s)]
\* So it goes.
LEMMA TurnsAtLeaf ==
  ASSUME NEW f, Packed(f), NEW lv, NEW at, NEW off, NEW F, NEW T, Holds(f, 2, lv, at, off, F, T),
         NEW k \in Nat, NEW rid, NEW q \in DOMAIN f.node, lv[q] = 1,
         NEW s \in 1 .. K(f.node, q), Takes(f, k, rid, q, s),
         NEW x, x <= at[q], NEW t, AtLeaf(t, f, q, s, x)
  PROVE  TurnAtLeaf(Turned(t, 1, k, rid), f, f.hdr.rootPage, q, s, at[q], K(f.node, q))
  <1> DEFINE N == f.node
             root == f.hdr.rootPage
             a == at[q]
             c == K(N, q)
             r == SeekChild(t.ix, t.page[0], t.pos[0], t.page[1])
             u == Turned(t, 1, k, rid)
  <1>1. Tree(N, root, 2, lv, at, off, F, T) /\ f.hdr.height = 2
    BY DEF Holds
  <1>2. /\ t.ix = f /\ t.page[1] = q /\ t.pos[1] = s /\ t.page[0] = root /\ t.pos[0] = x /\ x \in Nat
        /\ t.page = [i \in 0 .. 1 |-> IF i = 0 THEN root ELSE q]
        /\ IsStep(t) /\ t.rc = -1
    BY DEF AtLeaf
  <1>3. SeeksChild(r, root, a)
    <2>1. r = SeekChild(f, root, x, q)
      BY <1>2
    <2> HIDE DEF r
    <2>2. SeeksChild(SeekChild(f, f.hdr.rootPage, x, q), f.hdr.rootPage, at[q])
      BY <1>2, RootSeeks
    <2> QED
      BY <2>1, <2>2
  <1>4. u = Stepped(t, 1, k, rid, r)
    <2>1. u = Stepped(t, 1, k, rid, SeekChild(t.ix, t.page[1 - 1], t.pos[1 - 1], t.page[1]))
      BY <1>2, StepIs, SMTT(30)
    <2> QED
      BY <2>1
  <1>5. c \in Nat /\ c # 0
    BY <1>1, TreeTypes
  <1>6. r.found = TRUE /\ r.page = root /\ r.passed = {}
    BY <1>3 DEF SeeksChild, EndsAt
  <1>7. RemoveResult(t.ix.node[t.page[1]], k, rid) = IF c = 1 THEN -1 ELSE 0
    BY <1>2 DEF Takes
  <1> HIDE DEF u, r
  <1>8. CASE c = 1
    <2>1. u = [t EXCEPT !.ix = DropNode([t.ix EXCEPT !.pinned = @ \cup r.passed], t.page[1]),
                        !.page = [t.page EXCEPT ![1 - 1] = r.page],
                        !.pos = [t.pos EXCEPT ![1 - 1] = r.pos]]
      BY <1>4, <1>6, <1>7, <1>8 DEF Stepped
    <2>2. [t.ix EXCEPT !.pinned = @ \cup r.passed] = f
      <3>1. f = [hdr |-> f.hdr, hdrChanged |-> f.hdrChanged, page0 |-> f.page0,
                 node |-> f.node, free |-> f.free, pinned |-> f.pinned]
        BY DEF Packed, IsIndex
      <3>2. f.pinned \cup r.passed = f.pinned
        BY <1>6
      <3> QED
        BY <1>2, <3>1, <3>2
    <2>3. [t.page EXCEPT ![1 - 1] = r.page] = [i \in 0 .. 1 |-> IF i = 0 THEN root ELSE q]
      BY <1>2, <1>6
    <2>4. u = [t EXCEPT !.ix = DropNode(f, q), !.page = [i \in 0 .. 1 |-> IF i = 0 THEN root ELSE q],
                        !.pos = [t.pos EXCEPT ![1 - 1] = r.pos]]
      BY <1>2, <2>1, <2>2, <2>3
    <2> DEFINE d == DropNode(f, q)
               pg == [i \in 0 .. 1 |-> IF i = 0 THEN root ELSE q]
               ps == [t.pos EXCEPT ![1 - 1] = r.pos]
    <2>5. pg[0] = root
      OBVIOUS
    <2>6. u = [t EXCEPT !.ix = d, !.page = pg, !.pos = ps]
      BY <2>4
    <2> HIDE DEF d, pg, ps
    <2>7. u = [ix |-> d, rc |-> -1, page |-> pg, pos |-> ps]
      BY <1>2, <2>6 DEF IsStep
    <2> QED
      BY <1>8, <2>5, <2>7 DEF TurnAtLeaf, IsStep, d, u
  <1>9. CASE c # 1
    <2>1. u = [t EXCEPT !.ix = PutBack(t, 1, k, rid, r), !.rc = 0]
      BY <1>4, <1>6, <1>7, <1>9 DEF Stepped
    <2>2. PutBack(t, 1, k, rid, r) = [f EXCEPT !.node = Lessened(f.node, f.hdr.rootPage, at[q], q, s)]
      <3>1. K(f.node, q) >= 2
        BY <1>5, <1>9
      <3> QED
        BY <1>3, <3>1, PutsBack
    <2> DEFINE b == PutBack(t, 1, k, rid, r)
    <2> HIDE DEF b
    <2>3. u.rc = 0 /\ u.ix = b
      BY <1>2, <2>1 DEF IsStep, b
    <2> QED
      BY <1>9, <2>2, <2>3 DEF TurnAtLeaf, b, u
  <1> QED
    BY <1>8, <1>9 DEF u

\* The entries of the root of a tree of two levels: no record has such an id.
LinksOnly(N, root, a, q) ==
  /\ \A j \in DOMAIN N[root].entries : N[root].entries[j].rid[2] = -1
  /\ a \in DOMAIN N[root].entries /\ N[root].entries[a].rid[1] = q
  /\ N[root].entries \in Seq(EntrySet)
\* They are links, and the one at the place of q leads to q.
LEMMA RootLinks ==
  ASSUME NEW N, NEW root, NEW lv, NEW at, NEW off, NEW F, NEW T,
         Tree(N, root, 2, lv, at, off, F, T), NEW q \in DOMAIN N, lv[q] = 1
  PROVE  LinksOnly(N, root, at[q], q)
  <1>1. PICK n : RootHas(N, root, off, F, n)
    BY RootAlone
  <1>2. off[root] = 0 /\ K(N, root) = n /\ n \in Nat /\ n = W(F, 0)
    BY <1>1 DEF RootHas
  <1>3. root \in DOMAIN N /\ N[root] \in NodeSet /\ at[q] \in Nat /\ at[q] >= 1 /\ at[root] \in Nat
    BY TreeTypes
  <1>4. lv[root] = 0
    BY DEF Tree, Linked
  <1>5. N[root].entries \in Seq(EntrySet)
    BY <1>3, IsNode
  <1>6. DOMAIN N[root].entries = 1 .. n
    BY <1>2, <1>5 DEF K
  <1>7. at[q] <= n /\ F[0][at[q]] = Entry(MaxKey(N[q]), Child(q))
    BY <1>2 DEF Tree, Linked
  <1>8. ASSUME NEW j \in 1 .. n
        PROVE  N[root].entries[j].rid[2] = -1 /\ (j = at[q] => N[root].entries[j].rid[1] = q)
    <2>1. j \in 1 .. K(N, root) /\ lv[root] < 2 - 1
      BY <1>2, <1>4
    <2> DEFINE c == N[root].entries[j].rid[1]
    <2>2. N[root].entries[j] = Entry(MaxKey(N[c]), Child(c))
      BY <1>3, <2>1, ChildAt
    <2>3. N[root].entries[j].rid = Child(c)
      BY <2>2 DEF Entry
    <2>4. N[root].entries[j].rid[2] = -1
      BY <2>3 DEF Child
    <2>5. ASSUME j = at[q]
          PROVE  N[root].entries[j].rid[1] = q
      <3>1. N[root].entries[j] = F[0][off[root] + j]
        BY <1>3, <1>4, <2>1, EntryAt
      <3>2. off[root] + j = j
        BY <1>2
      <3>3. N[root].entries[j] = Entry(MaxKey(N[q]), Child(q))
        BY <1>7, <2>5, <3>1, <3>2
      <3> QED
        BY <3>3 DEF Entry, Child
    <2> QED
      BY <2>4, <2>5
  <1>9. at[q] \in 1 .. n
    BY <1>2, <1>3, <1>7
  <1> QED
    BY <1>5, <1>6, <1>8, <1>9 DEF LinksOnly

\* A file with the leaf q dropped: the root keeps its entries.
Dropped(g, f, q) ==
  /\ DOMAIN g.node = DOMAIN f.node \ {q} /\ g.free = <<q>> \o f.free
  /\ g.page0 = f.page0 /\ g.pinned = f.pinned /\ g.hdrChanged = TRUE
  /\ g.hdr.rootPage = f.hdr.rootPage
  /\ g.hdr.height = f.hdr.height \/ g.hdr.height = f.hdr.height - 1
  /\ g.hdr.numPages = f.hdr.numPages - 1
  /\ \A r \in DOMAIN g.node : g.node[r].entries = f.node[r].entries
  /\ g = [hdr |-> g.hdr, hdrChanged |-> g.hdrChanged, page0 |-> g.page0,
          node |-> g.node, free |-> g.free, pinned |-> g.pinned]
  /\ g.hdr = [rootPage |-> g.hdr.rootPage, numPages |-> g.hdr.numPages, height |-> g.hdr.height]
  /\ g.node = [r \in DOMAIN g.node |-> g.node[r]]
\* DropNode does that.
LEMMA DropIs ==
  ASSUME NEW f, Packed(f), NEW q \in DOMAIN f.node, \A r \in DOMAIN f.node : f.node[r] \in NodeSet
  PROVE  Dropped(DropNode(f, q), f, q)
  <1> DEFINE n == f.node[q]
             M == [r \in DOMAIN f.node \ {q} |->
                     [f.node[r] EXCEPT !.right = IF r = n.left THEN n.right ELSE @,
                                       !.left = IF r = n.right THEN n.left ELSE @]]
             b == IF n.left = NoPage /\ n.right = NoPage THEN f.hdr.height - 1 ELSE f.hdr.height
  <1>1. /\ f = [hdr |-> f.hdr, hdrChanged |-> f.hdrChanged, page0 |-> f.page0,
                node |-> f.node, free |-> f.free, pinned |-> f.pinned]
        /\ f.hdr \in [rootPage : Nat \cup {-1}, numPages : Nat, height : Nat]
    BY DEF Packed, IsIndex
  <1>2. f.hdr = [rootPage |-> f.hdr.rootPage, numPages |-> f.hdr.numPages, height |-> f.hdr.height]
    BY <1>1
  <1>3. DropNode(f, q) = [f EXCEPT !.node = M, !.free = <<q>> \o @, !.hdr.numPages = @ - 1,
                                   !.hdr.height = b, !.hdrChanged = TRUE]
    BY DEF DropNode
  <1>4. \A r \in DOMAIN f.node \ {q} : M[r].entries = f.node[r].entries
    <2> TAKE r \in DOMAIN f.node \ {q}
    <2>1. f.node[r] = [entries |-> f.node[r].entries, left |-> f.node[r].left, right |-> f.node[r].right]
      BY IsNode
    <2> QED
      BY <2>1
  <1>5. DOMAIN M = DOMAIN f.node \ {q} /\ M = [r \in DOMAIN M |-> M[r]]
    OBVIOUS
  <1> HIDE DEF M
  <1>6. b = f.hdr.height \/ b = f.hdr.height - 1
    OBVIOUS
  <1> HIDE DEF b
  <1>7. DropNode(f, q) = [hdr |-> [rootPage |-> f.hdr.rootPage, numPages |-> f.hdr.numPages - 1, height |-> b],
                          hdrChanged |-> TRUE, page0 |-> f.page0, node |-> M, free |-> <<q>> \o f.free,
                          pinned |-> f.pinned]
    <2> DEFINE h0 == [rootPage |-> f.hdr.rootPage, numPages |-> f.hdr.numPages - 1, height |-> b]
    <2>1. [[f.hdr EXCEPT !.numPages = @ - 1] EXCEPT !.height = b] = h0
      <3>1. PICK x, y, z : f.hdr = [rootPage |-> x, numPages |-> y, height |-> z]
        BY <1>2
      <3>2. h0 = [rootPage |-> x, numPages |-> y - 1, height |-> b]
        BY <3>1
      <3> HIDE DEF h0
      <3>3. [[f.hdr EXCEPT !.numPages = @ - 1] EXCEPT !.height = b] = [rootPage |-> x, numPages |-> y - 1, height |-> b]
        <4>1. f.hdr.numPages = y
          BY <3>1
        <4>2. f.hdr.numPages - 1 = y - 1
          BY <4>1
        <4> DEFINE w == y - 1
        <4>3. f.hdr.numPages - 1 = w
          BY <4>2
        <4> HIDE DEF w
        <4>4. [f.hdr EXCEPT !.numPages = w] = [rootPage |-> x, numPages |-> w, height |-> z]
          BY <3>1
        <4>5. [[f.hdr EXCEPT !.numPages = w] EXCEPT !.height = b] = [rootPage |-> x, numPages |-> w, height |-> b]
          <5>1. [[rootPage |-> x, numPages |-> w, height |-> z] EXCEPT !.height = b]
                  = [rootPage |-> x, numPages |-> w, height |-> b]
            OBVIOUS
          <5> DEFINE e == [f.hdr EXCEPT !.numPages = w]
          <5>2. e = [rootPage |-> x, numPages |-> w, height |-> z]
            BY <4>4
          <5> HIDE DEF e
          <5>3. [e EXCEPT !.height = b] = [rootPage |-> x, numPages |-> w, height |-> b]
            BY <5>2
          <5> QED
            BY <5>3 DEF e
        <4> QED
          BY <4>3, <4>5 DEF w
      <3> QED
        BY <3>2, <3>3
    <2>2. DropNode(f, q) = [f EXCEPT !.node = M, !.free = <<q>> \o @, !.hdr = h0, !.hdrChanged = TRUE]
      BY <1>1, <1>3, <2>1
    <2> HIDE DEF h0
    <2>3. DropNode(f, q) = [hdr |-> h0, hdrChanged |-> TRUE, page0 |-> f.page0, node |-> M,
                            free |-> <<q>> \o f.free, pinned |-> f.pinned]
      BY <1>1, <2>2
    <2> QED
      BY <2>3 DEF h0
  <1> QED
    BY <1>4, <1>5, <1>6, <1>7 DEF Dropped

\* The last turn finds nothing to take out of the root.
LEMMA RootStays ==
  ASSUME NEW g, NEW f, NEW q, Dropped(g, f, q), NEW root, root \in DOMAIN g.node, NEW a,
         LinksOnly(f.node, root, a, q), NEW k \in Nat, NEW rid, rid[2] # -1
  PROVE  [g EXCEPT !.node[root] = NodeRemove(g.node[root], k, rid)] = g
  <1> DEFINE n == g.node[root]
             c == Len(n.entries)
  <1>1. n.entries = f.node[root].entries
    BY DEF Dropped
  <1>2. n.entries \in Seq(EntrySet) /\ \A j \in DOMAIN n.entries : n.entries[j].rid[2] = -1
    BY <1>1 DEF LinksOnly
  <1> HIDE DEF n
  <1>3. c \in Nat /\ DOMAIN n.entries = 1 .. c /\ c = numKeys(n)
    BY <1>2 DEF numKeys
  <1> HIDE DEF c
  <1>4. \A j \in 1 .. c : n.entries[j].rid # rid
    BY <1>2, <1>3
  <1>5. \A j \in 1 .. c : n.entries[j].key \in Nat
    <2> TAKE j \in 1 .. c
    <2>1. j \in 1 .. Len(n.entries)
      BY DEF c
    <2> QED
      BY <1>2, <2>1, NodeKeys
  <1>6. Finds(n, c, k, FindKey(n, k))
    BY <1>3, <1>5, FindKeyFacts
  <1>7. NodeRemove(n, k, rid) = n
    BY <1>3, <1>4, <1>6, RemovesNothing DEF Finds
  <1>8. [g.node EXCEPT ![root] = n] = g.node
    BY DEF Dropped, n
  <1> QED
    BY <1>7, <1>8 DEF Dropped, n

\* A delete from a tree of two levels, for the entry s of leaf q.
EndsTwo(d, f, q, s, a) ==
  d = IF K(f.node, q) = 1 THEN [rc |-> 0, ix |-> DropNode(f, q)]
      ELSE Removing(f, Lessened(f.node, f.hdr.rootPage, a, q, s))
\* So it ends.
LEMMA DeletesTwo ==
  ASSUME NEW f, Packed(f), NEW lv, NEW at, NEW off, NEW F, NEW T, Holds(f, 2, lv, at, off, F, T),
         NEW k \in Nat, NEW rid, rid[2] # -1,
         NEW z, NEW q, NEW s, Aims(f, k, rid, 2, lv, at, off, F, z, q, s), Missed(f, k) = FALSE
  PROVE  EndsTwo(DeleteEntry(f, k, rid), f, q, s, at[q])
  <1> DEFINE N == f.node
             root == f.hdr.rootPage
             r == Sought(f, k, rid)
             t == From1(f, k, r)
             u == Turned(t, 1, k, rid)
             v == Turned(u, 0, k, rid)
  <1>1. Tree(N, root, 2, lv, at, off, F, T) /\ f.hdr.height = 2
    BY DEF Holds
  <1>2. EndsAt(r, q, s) /\ at[Begins(f, k, 2)] <= at[q] /\ Takes(f, k, rid, q, s)
    BY LeafTakes DEF Aims
  <1>3. q \in DOMAIN N /\ lv[q] = 1 /\ s \in 1 .. K(N, q)
    BY DEF Aims, Lies
  <1>4. DeleteEntry(f, k, rid) = Outcome(f, k, rid, r, v)
    <2>1. f.hdr.height = 2
      BY <1>1
    <2>2. r = Sought(f, k, rid)
      OBVIOUS
    <2> HIDE DEF r, t, u, v
    <2>3. DeleteEntry(f, k, rid) = Outcome(f, k, rid, r, Turned(Turned(From1(f, k, r), 1, k, rid), 0, k, rid))
      BY <2>1, <2>2, DeleteTwo
    <2> QED
      BY <2>3 DEF t, u, v
  <1>5. DeleteEntry(f, k, rid) = [rc |-> v.rc, ix |-> v.ix]
    <2>1. r.found = TRUE
      BY <1>2 DEF EndsAt
    <2> QED
      BY <1>4, <2>1 DEF Outcome
  <1> HIDE DEF r, t, u, v
  <1>6. PICK x : AtLeaf(t, f, q, s, x) /\ x <= at[q]
    BY <1>2, StartsTwo DEF t
  <1>7. TurnAtLeaf(u, f, root, q, s, at[q], K(N, q))
    <2>1. TurnAtLeaf(Turned(t, 1, k, rid), f, f.hdr.rootPage, q, s, at[q], K(f.node, q))
      BY <1>2, <1>3, <1>6, TurnsAtLeaf
    <2> QED
      BY <2>1 DEF u
  <1>8. CASE K(N, q) = 1
    <2>1. IsStep(u) /\ u.rc = -1 /\ u.ix = DropNode(f, q) /\ u.page[0] = root
      BY <1>7, <1>8 DEF TurnAtLeaf
    <2>2. EndsAtRoot(v, u, k, rid)
      BY <2>1, TurnsAtRoot DEF v
    <2> DEFINE g == DropNode(f, q)
    <2>3. \A p \in DOMAIN N : N[p] \in NodeSet
      BY <1>1, TreeTypes
    <2>4. Dropped(g, f, q)
      BY <1>3, <2>3, DropIs
    <2>5. LinksOnly(f.node, root, at[q], q)
      BY <1>1, <1>3, RootLinks
    <2>6. root \in DOMAIN g.node
      <3>1. root \in DOMAIN N /\ root # q
        <4>1. root \in DOMAIN N
          BY <1>1, TreeTypes
        <4>2. lv[root] = 0
          BY <1>1 DEF Tree, Linked
        <4> QED
          BY <1>3, <4>1, <4>2
      <3> QED
        BY <2>4, <3>1 DEF Dropped
    <2> HIDE DEF g, root
    <2>7. [g EXCEPT !.node[root] = NodeRemove(g.node[root], k, rid)] = g
      BY <2>4, <2>5, <2>6, RootStays
    <2>8. v.rc = 0 /\ v.ix = g
      BY <2>1, <2>2, <2>7 DEF EndsAtRoot, g
    <2> QED
      BY <1>5, <1>8, <2>8 DEF EndsTwo, g
  <1>9. CASE K(N, q) # 1
    <2>1. u.rc = 0 /\ u.ix = [f EXCEPT !.node = Lessened(f.node, root, at[q], q, s)]
      BY <1>7, <1>9 DEF TurnAtLeaf
    <2>2. v = u
      BY <2>1 DEF v, Turned
    <2> QED
      BY <1>5, <1>9, <2>1, <2>2 DEF EndsTwo, Removing
  <1> QED
    BY <1>8, <1>9

\* The root of a file is its first level.
LEMMA FirstLevel ==
  ASSUME NEW f, NEW h, h = f.hdr.height, h = 1 \/ h = 2
  PROVE  Level(f)[0] = <<f.hdr.rootPage>>
  <1> DEFINE root == f.hdr.rootPage
             Solves(g) == g = [i \in 0 .. h - 1 |-> IF i = 0 THEN <<root>> ELSE Below(f, g[i - 1])]
             g1 == [i \in 0 .. h - 1 |-> IF i = 0 THEN <<root>> ELSE Below(f, <<root>>)]
  <1>1. Level(f) = CHOOSE g : Solves(g)
    BY DEF Level
  <1>2. 0 \in 0 .. h - 1 /\ \A i \in 0 .. h - 1 : i # 0 => i - 1 = 0
    OBVIOUS
  <1> HIDE DEF root
  <1>3. Solves(g1)
    <2>1. g1[0] = <<root>>
      BY <1>2
    <2>2. \A i \in 0 .. h - 1 : i # 0 => g1[i - 1] = <<root>>
      BY <1>2, <2>1
    <2> DEFINE g2 == g1
    <2>3. \A i \in 0 .. h - 1 : (IF i = 0 THEN <<root>> ELSE Below(f, g2[i - 1]))
                                  = IF i = 0 THEN <<root>> ELSE Below(f, <<root>>)
      BY <2>2
    <2> HIDE DEF g2
    <2>4. [i \in 0 .. h - 1 |-> IF i = 0 THEN <<root>> ELSE Below(f, g2[i - 1])]
            = [i \in 0 .. h - 1 |-> IF i = 0 THEN <<root>> ELSE Below(f, <<root>>)]
      BY <2>3
    <2> QED
      BY <2>4 DEF g2
  <1> HIDE DEF g1
  <1>4. Solves(Level(f))
    <2> HIDE DEF Solves
    <2> QED
      BY <1>1, <1>3
  <1> DEFINE L == Level(f)
  <1> HIDE DEF L
  <1>5. L = [i \in 0 .. h - 1 |-> IF i = 0 THEN <<root>> ELSE Below(f, L[i - 1])]
    BY <1>4 DEF L
  <1>6. L[0] = <<root>>
    BY <1>2, <1>5
  <1> QED
    BY <1>6 DEF L, root

\* A root that leads to a page that has gone makes the file unusable.
LEMMA DropsUsable ==
  ASSUME NEW f, f.hdr.height = 2, NEW g, NEW q, Dropped(g, f, q), NEW a,
         LinksOnly(f.node, f.hdr.rootPage, a, q)
  PROVE  Usable(g) = FALSE
  <1> DEFINE root == f.hdr.rootPage
             es == g.node[root].entries
  <1>1. g.hdr.rootPage = root /\ (g.hdr.height = 2 \/ g.hdr.height = 1)
    BY DEF Dropped
  <1>2. ASSUME Usable(g)
        PROVE  FALSE
    <2>1. Level(g)[0] = <<root>>
      BY <1>1, FirstLevel
    <2>2. 0 \in 0 .. g.hdr.height - 1
      BY <1>1
    <2>3. root \in ToSet(<<root>>)
      BY DEF ToSet
    <2>4. /\ root \in DOMAIN g.node
          /\ \A e \in ToSet(es) :
               IF 0 < g.hdr.height - 1 THEN IsLink(g, e) ELSE e.rid[2] # -1
      BY <1>2, <2>1, <2>2, <2>3 DEF Usable
    <2>5. es = f.node[root].entries
      BY <2>4, SMTT(30) DEF Dropped
    <2>6. /\ \A j \in DOMAIN es : es[j].rid[2] = -1
          /\ a \in DOMAIN es /\ es[a].rid[1] = q
      BY <2>5, Zenon DEF LinksOnly
    <2>7. es[a] \in ToSet(es)
      BY <2>6 DEF ToSet
    <2>8. q \notin DOMAIN g.node
      BY DEF Dropped
    <2> HIDE DEF es
    <2>9. IsLink(g, es[a]) = FALSE
      BY <2>6, <2>8 DEF IsLink
    <2> QED
      BY <1>1, <2>4, <2>6, <2>7, <2>9
  <1> QED
    BY <1>2 DEF Usable

\* A file of which only nodes were changed, and that holds a tree with the entries C.
Stood(g, f, C) ==
  /\ Packed(g) /\ Sized(g.node) /\ g.hdr = f.hdr /\ g.hdrChanged = f.hdrChanged
  /\ g.page0 = f.page0 /\ g.pinned = f.pinned
  /\ DOMAIN g.node = DOMAIN f.node
  /\ Stands(g.node, g.hdr.rootPage, g.hdr.height, C)

\* The only leaf with an entry less.
LEMMA StoodOne ==
  ASSUME NEW f, Packed(f), Sized(f.node),
         NEW lv, NEW at, NEW off, NEW F, NEW T, Holds(f, 1, lv, at, off, F, T),
         NEW q, q = f.hdr.rootPage, NEW s \in 1 .. K(f.node, q), NEW z, off[q] + s = z
  PROVE  Stood(Removing(f, Shrunk(f.node, q, s)).ix, f, Removed(F[0], z))
  <1> DEFINE N == f.node
             M == Shrunk(N, q, s)
             g == [f EXCEPT !.node = M]
  <1>1. Tree(N, q, 1, lv, at, off, F, T) /\ f.hdr.height = 1
    BY DEF Holds
  <1>2. \E F2, T2 : Tree(M, q, 1, lv, at, off, F2, T2) /\ F2[0] = Removed(F[0], z)
    <2>1. \E F2, T2 : /\ Tree(Shrunk(N, q, s), q, 1, lv, at, off, F2, T2)
                      /\ F2[1 - 1] = Removed(F[1 - 1], off[q] + s)
                      /\ off[q] + s = s
      <3> HIDE DEF N, M, g
      <3>1. s \in 1 .. K(N, q)
        BY DEF N
      <3> QED
        BY <1>1, <3>1, MinusOne
    <2> HIDE DEF N
    <2> QED
      BY <2>1
  <1>3. DOMAIN M = DOMAIN N /\ M = [p \in DOMAIN M |-> M[p]]
    BY DEF Shrunk
  <1>4. Sized(M)
    <2>1. \A p \in DOMAIN N : K(N, p) \in Nat /\ K(N, p) <= MaxKeys
      BY DEF Sized
    <2>2. q \in DOMAIN N /\ N[q] \in NodeSet
      BY <1>1, TreeTypes
    <2>3. M[q].entries = Removed(N[q].entries, s)
      <3>1. N[q] = [entries |-> N[q].entries, left |-> N[q].left, right |-> N[q].right]
        BY <2>2, IsNode
      <3> QED
        BY <2>2, <3>1 DEF Shrunk
    <2>4. Len(M[q].entries) = K(N, q) - 1 /\ K(N, q) - 1 \in Nat
      <3>1. N[q].entries \in Seq(EntrySet) /\ s \in 1 .. Len(N[q].entries)
        BY <2>2, IsNode DEF K
      <3>2. IsRemoval(Removed(N[q].entries, s), EntrySet, N[q].entries, Len(N[q].entries), s)
        BY <3>1, RemovalIs
      <3> QED
        BY <2>3, <3>2 DEF IsRemoval, K
    <2>5. \A p \in DOMAIN N : p # q => M[p] = N[p]
      BY DEF Shrunk
    <2> HIDE DEF M, N
    <2>6. K(M, q) = K(N, q) - 1 /\ \A p \in DOMAIN N : p # q => K(M, p) = K(N, p)
      BY <2>4, <2>5 DEF K
    <2>7. MaxKeys \in Nat
      BY NodeAssumption
    <2>8. K(M, q) \in Nat /\ K(M, q) <= MaxKeys
      BY <2>1, <2>2, <2>4, <2>6, <2>7
    <2> QED
      BY <1>3, <2>1, <2>6, <2>8 DEF Sized
  <1>5. /\ Packed(g) /\ g.node = M /\ g.hdr = f.hdr /\ g.hdrChanged = f.hdrChanged
        /\ g.page0 = f.page0 /\ g.pinned = f.pinned
    BY <1>3, SetNodes
  <1>6. Removing(f, M).ix = g
    BY DEF Removing
  <1> HIDE DEF M, g
  <1>7. Stands(g.node, g.hdr.rootPage, g.hdr.height, Removed(F[0], z))
    BY <1>1, <1>2, <1>5 DEF Stands
  <1> QED
    BY <1>3, <1>4, <1>5, <1>6, <1>7 DEF Stood, M, N

\* A leaf below the root with an entry less.
LEMMA StoodTwo ==
  ASSUME NEW f, Packed(f), Sized(f.node),
         NEW lv, NEW at, NEW off, NEW F, NEW T, Holds(f, 2, lv, at, off, F, T),
         NEW q \in DOMAIN f.node, lv[q] = 1, K(f.node, q) >= 2,
         NEW s \in 1 .. K(f.node, q), NEW z, off[q] + s = z
  PROVE  Stood(Removing(f, Lessened(f.node, f.hdr.rootPage, at[q], q, s)).ix, f, Removed(F[1], z))
  <1> DEFINE N == f.node
             root == f.hdr.rootPage
             M == Lessened(N, root, at[q], q, s)
             g == [f EXCEPT !.node = M]
  <1>1. Tree(N, root, 2, lv, at, off, F, T) /\ f.hdr.height = 2
    BY DEF Holds
  <1>2. \E off2, F2, T2 : Tree(M, root, 2, lv, at, off2, F2, T2) /\ F2[1] = Removed(F[1], z)
    <2>1. \E off2, F2, T2 : /\ Tree(Lessened(N, root, at[q], q, s), root, 2, lv, at, off2, F2, T2)
                            /\ F2[1] = Removed(F[1], off[q] + s)
      <3>1. q \in DOMAIN N /\ K(N, q) >= 2 /\ s \in 1 .. K(N, q)
        OBVIOUS
      <3> HIDE DEF N, M, g, root
      <3> QED
        BY <1>1, <3>1, MinusTwo
    <2> HIDE DEF N
    <2> QED
      BY <2>1
  <1>3. DOMAIN M = DOMAIN N /\ M = [p \in DOMAIN M |-> M[p]]
    BY DEF Lessened
  <1>4. Sized(M)
    <2>1. \A p \in DOMAIN N : K(N, p) \in Nat /\ K(N, p) <= MaxKeys
      BY DEF Sized
    <2>2. root \in DOMAIN N /\ root # q /\ N \in [DOMAIN N -> NodeSet] /\ at[q] \in 1 .. K(N, root)
      <3>1. root \in DOMAIN N /\ at[q] \in Nat /\ at[q] >= 1
        BY <1>1, TreeTypes
      <3>2. lv[root] = 0 /\ at[q] <= W(F, 0)
        BY <1>1 DEF Tree, Linked
      <3>3. N \in [DOMAIN N -> NodeSet]
        BY <1>1 DEF Tree, Typed
      <3>4. PICK n : RootHas(N, root, off, F, n)
        BY <1>1, RootAlone
      <3> QED
        BY <3>1, <3>2, <3>3, <3>4 DEF RootHas
    <2> DEFINE n == K(N, q)
               e == N[q].entries[n - 1].key
    <2>3. n >= 2 /\ s \in 1 .. n /\ q \in DOMAIN N /\ n \in Nat
      BY <2>1
    <2>4. IsLess(M, N, root, at[q], q, s, n, e)
      <3> HIDE DEF N, root
      <3> QED
        BY <2>2, <2>3, LessFacts
    <2> HIDE DEF M, N, n, e, root
    <2>5. K(M, q) = n - 1 /\ \A p \in DOMAIN N : p # q => K(M, p) = K(N, p)
      BY <2>4 DEF IsLess
    <2>6. MaxKeys \in Nat /\ n <= MaxKeys
      BY <2>1, <2>3, NodeAssumption DEF n
    <2>7. K(M, q) \in Nat /\ K(M, q) <= MaxKeys
      BY <2>3, <2>5, <2>6
    <2> QED
      BY <1>3, <2>1, <2>5, <2>7 DEF Sized
  <1>5. /\ Packed(g) /\ g.node = M /\ g.hdr = f.hdr /\ g.hdrChanged = f.hdrChanged
        /\ g.page0 = f.page0 /\ g.pinned = f.pinned
    BY <1>3, SetNodes
  <1>6. Removing(f, M).ix = g
    BY DEF Removing
  <1> HIDE DEF M, g
  <1>7. Stands(g.node, g.hdr.rootPage, g.hdr.height, Removed(F[1], z))
    BY <1>1, <1>2, <1>5 DEF Stands
  <1> QED
    BY <1>3, <1>4, <1>5, <1>6, <1>7 DEF Stood, M, N, root

\* A delete that finds nothing pins a page at most.
Spared(d, f) == d.rc = 1 /\ \E P : P \subseteq DOMAIN f.node /\ d.ix = [f EXCEPT !.pinned = f.pinned \cup P]

\* One that empties a leaf below the root leaves a file that is not usable.
Emptied(d, f, q) ==
  /\ d.rc = 0 /\ Dropped(d.ix, f, q) /\ Usable(d.ix) = FALSE
  /\ q \in DOMAIN f.node /\ q \in ToSet(Leaves(f)) /\ q # f.hdr.rootPage /\ numKeys(f.node[q]) = 1

\* What a delete does, for the entries from place x on.
Deletes(d, f, rid, C, w, x) ==
  \/ Spared(d, f) /\ \A j \in x .. w : C[j].rid # rid
  \/ \E z \in x .. w : /\ C[z].rid = rid
                       /\ \/ d.rc = 0 /\ Stood(d.ix, f, Removed(C, z))
                          \/ \E q : Emptied(d, f, q)

\* A delete that misses or fails.
LEMMA DeleteSpares ==
  ASSUME NEW f, Packed(f), NEW h, h = f.hdr.height, h = 1 \/ h = 2, NEW k, NEW rid, NEW F, NEW x,
         Fails(f, k, rid, h, F, x)
  PROVE  Spared(DeleteEntry(f, k, rid), f)
  <1> DEFINE r == Sought(f, k, rid)
             d == DeleteEntry(f, k, rid)
  <1>1. f = [hdr |-> f.hdr, hdrChanged |-> f.hdrChanged, page0 |-> f.page0,
             node |-> f.node, free |-> f.free, pinned |-> f.pinned]
    BY DEF Packed, IsIndex
  <1>2. \E v : d = Outcome(f, k, rid, r, v)
    <2>1. r = Sought(f, k, rid)
      OBVIOUS
    <2> HIDE DEF r
    <2>2. CASE h = 1
      <3>1. d = Outcome(f, k, rid, r, Turned(From1(f, k, r), 0, k, rid))
        BY <2>1, <2>2, DeleteOne
      <3> QED
        BY <3>1
    <2>3. CASE h = 2
      <3>1. d = Outcome(f, k, rid, r, Turned(Turned(From1(f, k, r), 1, k, rid), 0, k, rid))
        BY <2>1, <2>3, DeleteTwo
      <3> QED
        BY <3>1
    <2> QED
      BY <2>2, <2>3
  <1>3. PICK v : d = Outcome(f, k, rid, r, v)
    BY <1>2
  <1> HIDE DEF d
  <1>4. CASE Missed(f, k)
    <2>1. d = [rc |-> 1, ix |-> f]
      BY <1>3, <1>4 DEF Outcome
    <2>2. f = [f EXCEPT !.pinned = f.pinned \cup {}] /\ {} \subseteq DOMAIN f.node
      BY <1>1
    <2>3. d.rc = 1 /\ d.ix = f
      BY <2>1
    <2>4. d.ix = [f EXCEPT !.pinned = f.pinned \cup {}]
      BY <2>2, <2>3
    <2>5. Spared(d, f)
      BY <2>2, <2>3, <2>4 DEF Spared
    <2> QED
      BY <2>5 DEF d
  <1>5. CASE ~Missed(f, k)
    <2>1. r.found = FALSE /\ r.page \in DOMAIN f.node
      BY <1>5 DEF Fails, EndsEmpty
    <2>2. d = [rc |-> 1, ix |-> [f EXCEPT !.pinned = f.pinned \cup {r.page}]]
      BY <1>3, <1>5, <2>1 DEF Outcome
    <2>3. {r.page} \subseteq DOMAIN f.node
      BY <2>1
    <2> HIDE DEF r
    <2>4. d.rc = 1 /\ d.ix = [f EXCEPT !.pinned = f.pinned \cup {r.page}]
      BY <2>2
    <2>5. Spared(d, f)
      BY <2>3, <2>4 DEF Spared
    <2> QED
      BY <2>5 DEF d
  <1> QED
    BY <1>4, <1>5

\* An entry of the only leaf.
LEMMA DeleteFirst ==
  ASSUME NEW f, Packed(f), Sized(f.node),
         NEW lv, NEW at, NEW off, NEW F, NEW T, Holds(f, 1, lv, at, off, F, T),
         NEW k \in Nat, NEW rid, NEW z, NEW q, NEW s, Aims(f, k, rid, 1, lv, at, off, F, z, q, s),
         Missed(f, k) = FALSE
  PROVE  DeleteEntry(f, k, rid).rc = 0 /\ Stood(DeleteEntry(f, k, rid).ix, f, Removed(F[0], z))
  <1> DEFINE d == DeleteEntry(f, k, rid)
  <1>1. d = Removing(f, Shrunk(f.node, q, s)) /\ q = f.hdr.rootPage
    BY DeletesOne
  <1>2. s \in 1 .. K(f.node, q) /\ off[q] + s = z
    BY DEF Aims, Lies
  <1>3. Stood(Removing(f, Shrunk(f.node, q, s)).ix, f, Removed(F[0], z))
    BY <1>1, <1>2, StoodOne
  <1>4. d.rc = 0
    BY <1>1 DEF Removing
  <1> HIDE DEF d
  <1> QED
    BY <1>1, <1>3, <1>4 DEF d

\* An entry of a leaf below the root.
DeleteBelow(d, f, q, C) ==
  \/ d.rc = 0 /\ Stood(d.ix, f, C)
  \/ Emptied(d, f, q)
\* It goes, and its leaf with it when it was the last.
LEMMA DeleteSecond ==
  ASSUME NEW f, Packed(f), Sized(f.node),
         NEW lv, NEW at, NEW off, NEW F, NEW T, Holds(f, 2, lv, at, off, F, T),
         NEW k \in Nat, NEW rid, rid[2] # -1, NEW z, NEW q, NEW s,
         Aims(f, k, rid, 2, lv, at, off, F, z, q, s), Missed(f, k) = FALSE
  PROVE  DeleteBelow(DeleteEntry(f, k, rid), f, q, Removed(F[1], z))
  <1> DEFINE d == DeleteEntry(f, k, rid)
             N == f.node
             root == f.hdr.rootPage
  <1>1. EndsTwo(d, f, q, s, at[q])
    BY DeletesTwo
  <1>2. q \in DOMAIN N /\ lv[q] = 1 /\ s \in 1 .. K(N, q) /\ off[q] + s = z
    BY DEF Aims, Lies
  <1>3. Tree(N, root, 2, lv, at, off, F, T) /\ f.hdr.height = 2
    BY DEF Holds
  <1> HIDE DEF d
  <1>4. CASE K(N, q) = 1
    <2> DEFINE g == DropNode(f, q)
    <2>1. d.rc = 0 /\ d.ix = g
      BY <1>1, <1>4 DEF EndsTwo
    <2>2. \A p \in DOMAIN N : N[p] \in NodeSet
      BY <1>3, TreeTypes
    <2>3. Dropped(g, f, q)
      BY <1>2, <2>2, DropIs
    <2>4. LinksOnly(f.node, root, at[q], q)
      BY <1>2, <1>3, RootLinks
    <2> HIDE DEF g
    <2>5. Usable(g) = FALSE
      BY <1>3, <2>3, <2>4, DropsUsable
    <2>6. q \in ToSet(Leaves(f))
      <3>1. ToSet(Level(f)[1]) = {p \in DOMAIN f.node : lv[p] = 1}
        <4>1. 1 \in 0 .. 2 - 1
          OBVIOUS
        <4> HIDE DEF N, root
        <4> QED
          BY <4>1, LevelSet
      <3>2. Leaves(f) = Level(f)[1]
        BY <1>3 DEF Leaves
      <3> QED
        BY <1>2, <3>1, <3>2
    <2>7. q # root
      BY <1>2, <1>3 DEF Tree, Linked
    <2>8. numKeys(f.node[q]) = 1
      BY <1>4 DEF K, numKeys
    <2> QED
      BY <1>2, <2>1, <2>3, <2>5, <2>6, <2>7, <2>8 DEF DeleteBelow, Emptied, d
  <1>5. CASE K(N, q) # 1
    <2>1. d = Removing(f, Lessened(N, root, at[q], q, s))
      BY <1>1, <1>5 DEF EndsTwo
    <2>2. K(N, q) >= 2
      <3>1. K(N, q) \in Nat
        BY <1>2, <1>3, TreeTypes
      <3> QED
        BY <1>2, <1>5, <3>1
    <2>3. Stood(Removing(f, Lessened(f.node, f.hdr.rootPage, at[q], q, s)).ix, f, Removed(F[1], z))
      BY <1>2, <2>2, StoodTwo
    <2>4. d.rc = 0
      BY <2>1 DEF Removing
    <2> QED
      BY <2>1, <2>3, <2>4 DEF DeleteBelow, d
  <1> QED
    BY <1>4, <1>5

\* What a delete does to a tree of at most two levels.
LEMMA DeleteDone ==
  ASSUME NEW f, Packed(f), Sized(f.node),
         NEW h, h = 1 \/ h = 2, NEW lv, NEW at, NEW off, NEW F, NEW T, Holds(f, h, lv, at, off, F, T),
         NEW k \in Nat, NEW rid, rid[2] # -1
  PROVE  \E x : IsPlace(F, h - 1, k, x) /\ Deletes(DeleteEntry(f, k, rid), f, rid, F[h - 1], W(F, h - 1), x)
  <1> DEFINE d == DeleteEntry(f, k, rid)
             w == W(F, h - 1)
             C == F[h - 1]
  <1>1. PICK x : StartsAt(f, k, lv, at, off, F, h, x)
    BY Starts
  <1>2. IsPlace(F, h - 1, k, x)
    BY <1>1 DEF StartsAt
  <1>3. f.hdr.height = h
    BY DEF Holds
  <1> HIDE DEF d, w, C
  <1>4. \/ Fails(f, k, rid, h, F, x)
        \/ ~Missed(f, k) /\ \E z \in x .. w : \E q, s : Aims(f, k, rid, h, lv, at, off, F, z, q, s)
    BY <1>1, AimsOrFails DEF w
  <1>5. CASE Fails(f, k, rid, h, F, x)
    <2>1. Spared(d, f)
      BY <1>3, <1>5, DeleteSpares DEF d
    <2> QED
      BY <1>2, <1>5, <2>1 DEF Deletes, Fails, d, w, C
  <1>6. CASE ~Missed(f, k) /\ \E z \in x .. w : \E q, s : Aims(f, k, rid, h, lv, at, off, F, z, q, s)
    <2>1. PICK z \in x .. w : \E q, s : Aims(f, k, rid, h, lv, at, off, F, z, q, s)
      BY <1>6
    <2>2. PICK q, s : Aims(f, k, rid, h, lv, at, off, F, z, q, s)
      BY <2>1
    <2>3. C[z].rid = rid
      BY <2>2 DEF Aims, C
    <2>4. Missed(f, k) = FALSE
      BY <1>6 DEF Missed
    <2>5. CASE h = 1
      <3>1. d.rc = 0 /\ Stood(d.ix, f, Removed(F[0], z))
        BY <2>2, <2>4, <2>5, DeleteFirst DEF d
      <3>2. C = F[0]
        BY <2>5 DEF C
      <3> QED
        BY <1>2, <2>1, <2>3, <3>1, <3>2 DEF Deletes, d, w, C
    <2>6. CASE h = 2
      <3>1. DeleteBelow(d, f, q, Removed(F[1], z))
        BY <2>2, <2>4, <2>6, DeleteSecond DEF d
      <3>2. C = F[1]
        BY <2>6 DEF C
      <3> QED
        BY <1>2, <2>1, <2>3, <3>1, <3>2 DEF Deletes, DeleteBelow, d, w, C
    <2> QED
      BY <2>5, <2>6
  <1> QED
    BY <1>4, <1>5, <1>6

----------------------------------------------------------------------------
\* SortedIndex, on the entries of the leaves.

\* A sequence as a function on its positions.
LEMMA AsSequence ==
  ASSUME NEW S, NEW es \in Seq(S)
  PROVE  es = [j \in 1 .. Len(es) |-> es[j]]
  OBVIOUS

\* Inserting into a sequence by its parts.
LEMMA InsertedByParts ==
  ASSUME NEW S, NEW es \in Seq(S), NEW x \in 1 .. Len(es) + 1, NEW e \in S
  PROVE  SubSeq(es, 1, x - 1) \o <<e>> \o SubSeq(es, x, Len(es)) = Inserted(es, x, e)
  <1> DEFINE n == Len(es)
             s1 == SubSeq(es, 1, x - 1)
             s2 == SubSeq(es, x, n)
             u == s1 \o <<e>>
  <1>1. n \in Nat /\ x \in Nat /\ x >= 1 /\ x <= n + 1
    OBVIOUS
  <1>2. s1 \in Seq(S) /\ Len(s1) = x - 1 /\ \A j \in 1 .. x - 1 : s1[j] = es[j]
    <2>1. x - 1 \in Nat /\ x - 1 <= Len(es) /\ 1 \in Nat \ {0} /\ 1 <= x - 1 + 1
      BY <1>1
    <2>2. /\ SubSeq(es, 1, x - 1) \in Seq(S)
          /\ Len(SubSeq(es, 1, x - 1)) = x - 1 - 1 + 1
          /\ \A j \in 1 .. x - 1 - 1 + 1 : SubSeq(es, 1, x - 1)[j] = es[1 + j - 1]
      <3> HIDE DEF n, s1, s2, u
      <3> QED
        BY <2>1, Slice
    <2>3. x - 1 - 1 + 1 = x - 1 /\ \A j \in 1 .. x - 1 : 1 + j - 1 = j
      BY <1>1
    <2> QED
      BY <2>2, <2>3
  <1>3. s2 \in Seq(S) /\ Len(s2) = n - x + 1 /\ \A j \in 1 .. n - x + 1 : s2[j] = es[x + j - 1]
    <2>1. x \in Nat \ {0} /\ n \in Nat /\ n <= Len(es) /\ x <= n + 1
      BY <1>1
    <2>2. /\ SubSeq(es, x, n) \in Seq(S)
          /\ Len(SubSeq(es, x, n)) = n - x + 1
          /\ \A j \in 1 .. n - x + 1 : SubSeq(es, x, n)[j] = es[x + j - 1]
      <3> HIDE DEF n, s1, s2, u
      <3> QED
        BY <2>1, Slice
    <2> QED
      BY <2>2
  <1> HIDE DEF s1, s2, n
  <1>4. u \in Seq(S) /\ Len(u) = x /\ (\A j \in 1 .. x - 1 : u[j] = es[j]) /\ u[x] = e
    BY <1>1, <1>2, SMTT(30)
  <1> HIDE DEF u
  <1>5. u \o s2 = [j \in 1 .. n + 1 |-> IF j < x THEN es[j] ELSE IF j = x THEN e ELSE es[j - 1]]
    <2>1. u \o s2 \in Seq(S) /\ Len(u \o s2) = n + 1
      <3>1. u \o s2 \in Seq(S)
        BY <1>3, <1>4
      <3>2. Len(u \o s2) = Len(u) + Len(s2)
        <4>1. u \in Seq(S) /\ s2 \in Seq(S)
          BY <1>3, <1>4
        <4> QED
          BY <4>1
      <3>3. Len(u) + Len(s2) = n + 1
        BY <1>1, <1>3, <1>4
      <3> QED
        BY <3>1, <3>2, <3>3
    <2>2. \A j \in 1 .. n + 1 : (u \o s2)[j] = IF j <= x THEN u[j] ELSE s2[j - x]
      BY <1>1, <1>3, <1>4
    <2>3. \A j \in 1 .. n + 1 : j > x => j - x \in 1 .. n - x + 1 /\ x + (j - x) - 1 = j - 1
      BY <1>1
    <2>4. \A j \in 1 .. n + 1 : (u \o s2)[j] = IF j < x THEN es[j] ELSE IF j = x THEN e ELSE es[j - 1]
      <3> TAKE j \in 1 .. n + 1
      <3>1. CASE j < x
        <4>1. j <= x /\ j \in 1 .. x - 1
          BY <1>1, <3>1
        <4> QED
          BY <1>4, <2>2, <3>1, <4>1
      <3>2. CASE j = x
        BY <1>1, <1>4, <2>2, <3>2
      <3>3. CASE j > x
        <4>1. ~(j <= x) /\ ~(j < x) /\ j # x
          BY <1>1, <3>3
        <4>2. (u \o s2)[j] = s2[j - x]
          BY <2>2, <4>1
        <4>3. j - x \in 1 .. n - x + 1 /\ x + (j - x) - 1 = j - 1
          BY <2>3, <3>3
        <4>4. s2[j - x] = es[x + (j - x) - 1]
          BY <1>3, <4>3
        <4>5. (u \o s2)[j] = es[j - 1]
          BY <4>2, <4>3, <4>4
        <4> QED
          BY <4>1, <4>5
      <3>4. j < x \/ j = x \/ j > x
        BY <1>1
      <3> QED
        BY <3>1, <3>2, <3>3, <3>4, Zenon
    <2> DEFINE v == u \o s2
    <2>5. v = [j \in 1 .. n + 1 |-> v[j]]
      <3>1. v = [j \in 1 .. Len(v) |-> v[j]]
        BY <2>1, AsSequence
      <3> QED
        BY <2>1, <3>1
    <2> HIDE DEF v
    <2>6. [j \in 1 .. n + 1 |-> v[j]] = [j \in 1 .. n + 1 |-> IF j < x THEN es[j] ELSE IF j = x THEN e ELSE es[j - 1]]
      BY <2>4 DEF v
    <2> QED
      BY <2>5, <2>6 DEF v
  <1>6. SubSeq(es, 1, x - 1) \o <<e>> \o SubSeq(es, x, Len(es)) = u \o s2
    BY DEF u, s1, s2, n
  <1> QED
    BY <1>5, <1>6 DEF Inserted, n

\* Removing from one.
LEMMA RemovedByParts ==
  ASSUME NEW S, NEW es \in Seq(S), NEW x \in 1 .. Len(es)
  PROVE  Sorted!Without(es, x) = Removed(es, x)
  <1> DEFINE n == Len(es)
             s1 == SubSeq(es, 1, x - 1)
             s2 == SubSeq(es, x + 1, n)
  <1>1. n \in Nat /\ x \in Nat /\ x >= 1 /\ x <= n
    OBVIOUS
  <1>2. s1 \in Seq(S) /\ Len(s1) = x - 1 /\ \A j \in 1 .. x - 1 : s1[j] = es[j]
    <2>1. x - 1 \in Nat /\ x - 1 <= Len(es) /\ 1 \in Nat \ {0} /\ 1 <= x - 1 + 1
      BY <1>1
    <2>2. /\ SubSeq(es, 1, x - 1) \in Seq(S)
          /\ Len(SubSeq(es, 1, x - 1)) = x - 1 - 1 + 1
          /\ \A j \in 1 .. x - 1 - 1 + 1 : SubSeq(es, 1, x - 1)[j] = es[1 + j - 1]
      <3> HIDE DEF n, s1, s2
      <3> QED
        BY <2>1, Slice
    <2>3. x - 1 - 1 + 1 = x - 1 /\ \A j \in 1 .. x - 1 : 1 + j - 1 = j
      BY <1>1, SMTT(30)
    <2> QED
      BY <2>2, <2>3
  <1>3. s2 \in Seq(S) /\ Len(s2) = n - x /\ \A j \in 1 .. n - x : s2[j] = es[x + j]
    <2>1. x + 1 \in Nat \ {0} /\ n \in Nat /\ n <= Len(es) /\ x + 1 <= n + 1
      BY <1>1
    <2>2. /\ SubSeq(es, x + 1, n) \in Seq(S)
          /\ Len(SubSeq(es, x + 1, n)) = n - (x + 1) + 1
          /\ \A j \in 1 .. n - (x + 1) + 1 : SubSeq(es, x + 1, n)[j] = es[x + 1 + j - 1]
      <3> HIDE DEF n, s1, s2
      <3> QED
        BY <2>1, Slice
    <2>3. n - (x + 1) + 1 = n - x /\ \A j \in 1 .. n - x : x + 1 + j - 1 = x + j
      BY <1>1
    <2> QED
      BY <2>2, <2>3, Zenon
  <1> HIDE DEF s1, s2, n
  <1>4. s1 \o s2 \in Seq(S) /\ Len(s1 \o s2) = n - 1
    <2>1. s1 \o s2 \in Seq(S)
      BY <1>2, <1>3
    <2>2. Len(s1 \o s2) = Len(s1) + Len(s2)
      <3>1. s1 \in Seq(S) /\ s2 \in Seq(S)
        BY <1>2, <1>3
      <3> QED
        BY <3>1
    <2>3. Len(s1) + Len(s2) = n - 1
      BY <1>1, <1>2, <1>3
    <2> QED
      BY <2>1, <2>2, <2>3
  <1>5. \A j \in 1 .. n - 1 : (s1 \o s2)[j] = IF j <= x - 1 THEN s1[j] ELSE s2[j - (x - 1)]
    BY <1>1, <1>2, <1>3
  <1>6. \A j \in 1 .. n - 1 : (s1 \o s2)[j] = IF j < x THEN es[j] ELSE es[j + 1]
    <2>1. \A j \in 1 .. n - 1 : ~(j < x) => j - (x - 1) \in 1 .. n - x /\ x + (j - (x - 1)) = j + 1
      BY <1>1
    <2>2. \A j \in 1 .. n - 1 : j < x <=> j <= x - 1
      BY <1>1
    <2>3. \A j \in 1 .. n - 1 : j < x => j \in 1 .. x - 1
      BY <1>1
    <2> QED
      BY <1>2, <1>3, <1>5, <2>1, <2>2, <2>3
  <1> DEFINE v == s1 \o s2
  <1>7. v = [j \in 1 .. n - 1 |-> v[j]]
    <2>1. v = [j \in 1 .. Len(v) |-> v[j]]
      BY <1>4, AsSequence
    <2> QED
      BY <1>4, <2>1
  <1>8. \A j \in 1 .. n - 1 : v[j] = IF j < x THEN es[j] ELSE es[j + 1]
    BY <1>6
  <1> HIDE DEF v
  <1>9. [j \in 1 .. n - 1 |-> v[j]] = [j \in 1 .. n - 1 |-> IF j < x THEN es[j] ELSE es[j + 1]]
    BY <1>8
  <1>a. Sorted!Without(es, x) = v
    BY DEF Sorted!Without, v, s1, s2, n
  <1> QED
    BY <1>7, <1>9, <1>a DEF Removed, n

\* The place of k among entries that are sorted.
PlacedIn(C, w, k, x) ==
  /\ x \in 1 .. w + 1
  /\ \A j \in 1 .. w : j < x => C[j].key < k
  /\ \A j \in 1 .. w : x <= j => C[j].key >= k

\* An index of one leaf finds it.
LEMMA SortedFinds ==
  ASSUME NEW C \in Seq(EntrySet), NEW w \in Nat, w = Len(C), NEW k \in Nat, NEW x, PlacedIn(C, w, k, x)
  PROVE  Sorted!FindKey(C, k) = x
  <1> DEFINE P(i) == (i = w + 1 \/ C[i].key >= k) /\ \A j \in 1 .. i - 1 : C[j].key < k
  <1>1. \A j \in 1 .. w : C[j].key \in Nat
    BY NodeKeys
  <1>2. x \in 1 .. w + 1 /\ P(x)
    <2>1. x = w + 1 \/ x \in 1 .. w
      BY DEF PlacedIn
    <2>2. x \in 1 .. w => C[x].key >= k
      BY DEF PlacedIn
    <2>3. \A j \in 1 .. x - 1 : C[j].key < k
      BY DEF PlacedIn
    <2> QED
      BY <2>1, <2>2, <2>3 DEF PlacedIn
  <1>3. ASSUME NEW i \in 1 .. w + 1, P(i)
        PROVE  i = x
    <2>1. ASSUME i < x
          PROVE  FALSE
      <3>1. i \in 1 .. w /\ i # w + 1
        BY <1>2, <2>1
      <3>2. C[i].key < k /\ C[i].key >= k /\ C[i].key \in Nat
        BY <1>1, <1>3, <2>1, <3>1 DEF PlacedIn
      <3> QED
        BY <3>2
    <2>2. ASSUME x < i
          PROVE  FALSE
      <3>1. x \in 1 .. w /\ x \in 1 .. i - 1 /\ x <= x
        BY <1>2, <1>3, <2>2
      <3>2. C[x].key < k /\ C[x].key >= k /\ C[x].key \in Nat
        BY <1>1, <1>3, <3>1 DEF PlacedIn
      <3> QED
        BY <3>2
    <2> QED
      BY <1>2, <2>1, <2>2
  <1>4. Sorted!FindKey(C, k) = CHOOSE i \in 1 .. w + 1 : P(i)
    BY DEF Sorted!FindKey
  <1> HIDE DEF P
  <1> QED
    BY <1>2, <1>3, <1>4

\* It inserts there.
LEMMA SortedInserts ==
  ASSUME NEW C \in Seq(EntrySet), NEW w \in Nat, w = Len(C), NEW k \in Nat, NEW x, PlacedIn(C, w, k, x),
         NEW rid, Entry(k, rid) \in EntrySet
  PROVE  Sorted!InsertEntry(C, k, rid) = Inserted(C, x, Entry(k, rid))
  <1>1. Sorted!FindKey(C, k) = x
    BY SortedFinds
  <1>2. Sorted!Entry(k, rid) = Entry(k, rid)
    BY DEF Sorted!Entry, Entry
  <1>3. x \in 1 .. Len(C) + 1
    BY DEF PlacedIn
  <1>4. SubSeq(C, 1, x - 1) \o <<Entry(k, rid)>> \o SubSeq(C, x, Len(C)) = Inserted(C, x, Entry(k, rid))
    BY <1>3, InsertedByParts
  <1> QED
    BY <1>1, <1>2, <1>4 DEF Sorted!InsertEntry

\* It deletes the entry with the rid from there on, or none.
LEMMA SortedDeletes ==
  ASSUME NEW C \in Seq(EntrySet), NEW w \in Nat, w = Len(C), NEW k \in Nat, NEW x, PlacedIn(C, w, k, x),
         NEW rid
  PROVE  /\ (\A j \in x .. w : C[j].rid # rid) => Sorted!DeleteEntry(C, k, rid) = C
         /\ \A z \in x .. w : C[z].rid = rid /\ (\A j \in 1 .. w : C[j].rid = rid => j = z)
              => Sorted!DeleteEntry(C, k, rid) = Removed(C, z)
  <1>1. Sorted!FindKey(C, k) = x
    BY SortedFinds
  <1>2. x \in Nat /\ x >= 1
    BY DEF PlacedIn
  <1>3. Sorted!From(C, k, rid) = {i \in x .. w : C[i].rid = rid}
    BY <1>1 DEF Sorted!From
  <1>4. ASSUME \A j \in x .. w : C[j].rid # rid
        PROVE  Sorted!DeleteEntry(C, k, rid) = C
    <2>1. Sorted!From(C, k, rid) = {}
      BY <1>3, <1>4
    <2> QED
      BY <2>1 DEF Sorted!DeleteEntry
  <1>5. ASSUME NEW z \in x .. w, C[z].rid = rid, \A j \in 1 .. w : C[j].rid = rid => j = z
        PROVE  Sorted!DeleteEntry(C, k, rid) = Removed(C, z)
    <2>1. z \in 1 .. w /\ \A j \in x .. w : j \in 1 .. w
      BY <1>2
    <2>2. Sorted!From(C, k, rid) = {z}
      BY <1>3, <1>5, <2>1
    <2>3. (CHOOSE i \in {z} : \A j \in {z} : i <= j) = z
      BY <2>1
    <2>4. Sorted!DeleteEntry(C, k, rid) = Sorted!Without(C, z)
      BY <2>2, <2>3 DEF Sorted!DeleteEntry
    <2>5. Sorted!Without(C, z) = Removed(C, z)
      BY <2>1, RemovedByParts
    <2> QED
      BY <2>4, <2>5
  <1> QED
    BY <1>4, <1>5

----------------------------------------------------------------------------
\* The inductive invariant.

\* A file, whatever its nodes lead to: TypeOK and the records.
Shaped(f) ==
  /\ IsIndex(f)
  /\ f.hdrChanged \in BOOLEAN
  /\ DOMAIN f.node \cup ToSet(f.free) = 1 .. Cardinality(DOMAIN f.node) + Len(f.free)
  /\ f.pinned \subseteq DOMAIN f.node
  /\ \A p \in DOMAIN f.node : f.node[p].entries \in Seq(EntrySet) /\ Len(f.node[p].entries) <= MaxKeys

\* The header of the handle and the one in the file; b says that it is open.
Headed(f, b) ==
  /\ f.hdrChanged = FALSE \/ b = FALSE => f.hdr = f.page0
  /\ f.hdr.rootPage < 0 => f = NewIndex
  /\ b = TRUE => f.hdr.rootPage >= 0

\* A file whose nodes are those of a tree.
Held(f) ==
  /\ Packed(f) /\ Sized(f.node)
  /\ \E C : Stands(f.node, f.hdr.rootPage, f.hdr.height, C)

\* Its tree, with the entries of its leaves.
Ghosts(f, h, lv, at, off, F, T) ==
  /\ Holds(f, h, lv, at, off, F, T) /\ h \in Nat /\ h >= 1
  /\ Contents(f) = F[h - 1] /\ Contents(f) \in Seq(EntrySet) /\ W(F, h - 1) = Len(Contents(f))
  /\ Len(Contents(f)) \in Nat
  /\ f.hdr.rootPage \in Nat /\ f.hdr.rootPage >= 0 /\ f.hdr.height = h
\* A file that is held has one.
LEMMA HeldHolds ==
  ASSUME NEW f, Held(f)
  PROVE  \E h, lv, at, off, F, T : Ghosts(f, h, lv, at, off, F, T)
  <1> DEFINE h == f.hdr.height
             root == f.hdr.rootPage
             N == f.node
  <1>1. PICK C : Stands(N, root, h, C)
    BY DEF Held
  <1>2. PICK lv, at, off, F, T : Tree(N, root, h, lv, at, off, F, T)
    BY <1>1 DEF Stands
  <1>3. Holds(f, h, lv, at, off, F, T)
    BY <1>2 DEF Holds
  <1> HIDE DEF h, root, N
  <1>4. Contents(f) = F[h - 1]
    BY <1>3, ContentsIs
  <1>5. /\ h \in Nat /\ h >= 1 /\ h - 1 \in 0 .. h - 1 /\ root \in DOMAIN N /\ DOMAIN N \subseteq Nat
        /\ \A i \in 0 .. h - 1 : F[i] \in Seq(EntrySet) /\ W(F, i) \in Nat
    BY <1>2, TreeTypes
  <1>6. root \in Nat /\ root >= 0 /\ F[h - 1] \in Seq(EntrySet) /\ W(F, h - 1) \in Nat
    BY <1>5
  <1>7. W(F, h - 1) = Len(F[h - 1])
    BY DEF W
  <1>8. Ghosts(f, h, lv, at, off, F, T)
    BY <1>3, <1>4, <1>5, <1>6, <1>7 DEF Ghosts, h, root
  <1> QED
    BY <1>8

\* Such a file is usable.
LEMMA HeldUsable ==
  ASSUME NEW f, Held(f)
  PROVE  Usable(f)
  <1>1. PICK h, lv, at, off, F, T : Ghosts(f, h, lv, at, off, F, T)
    BY HeldHolds
  <1>2. Holds(f, h, lv, at, off, F, T)
    BY <1>1 DEF Ghosts
  <1> QED
    BY <1>2, HoldsUsable

\* Its nodes are as they should be.
LEMMA HeldShaped ==
  ASSUME NEW f, Held(f), f.hdrChanged \in BOOLEAN, f.pinned \subseteq DOMAIN f.node
  PROVE  Shaped(f)
  <1> DEFINE N == f.node
  <1>1. PICK h, lv, at, off, F, T : Ghosts(f, h, lv, at, off, F, T)
    BY HeldHolds
  <1>2. Tree(N, f.hdr.rootPage, h, lv, at, off, F, T)
    BY <1>1 DEF Ghosts, Holds
  <1>3. IsIndex(f) /\ f.free = <<>> /\ Cardinality(DOMAIN N) \in Nat /\ DOMAIN N = 1 .. Cardinality(DOMAIN N)
    BY DEF Held, Packed
  <1>4. \A p \in DOMAIN N : K(N, p) <= MaxKeys
    BY DEF Held, Sized
  <1>5. \A p \in DOMAIN N : N[p].entries \in Seq(EntrySet)
    BY <1>2, TreeTypes, IsNode
  <1>6. \A p \in DOMAIN N : Len(N[p].entries) <= MaxKeys
    BY <1>4 DEF K
  <1> HIDE DEF N
  <1>7. DOMAIN N \cup ToSet(f.free) = 1 .. Cardinality(DOMAIN N) + Len(f.free)
    <2>1. ToSet(<<>>) = {} /\ Len(<<>>) = 0
      BY DEF ToSet
    <2> QED
      BY <1>3, <2>1
  <1> QED
    BY <1>3, <1>5, <1>6, <1>7 DEF Shaped, N

\* What depends on the header and the nodes only.
Same(g, f) ==
  /\ Contents(g) = Contents(f) /\ (Usable(g) <=> Usable(f)) /\ Leaves(g) = Leaves(f)
\* Nothing else matters to them.
LEMMA SameNodes ==
  ASSUME NEW f, NEW g, g.hdr = f.hdr, g.node = f.node
  PROVE  Same(g, f)
  <1>1. Level(g) = Level(f)
    BY DEF Level, Below, Children, EntriesAt
  <1>2. \A ps : EntriesOf(g, ps) = EntriesOf(f, ps)
    BY DEF EntriesOf, EntriesAt
  <1>3. Leaves(g) = Leaves(f)
    BY <1>1 DEF Leaves
  <1>4. Contents(g) = Contents(f)
    BY <1>2, <1>3 DEF Contents
  <1>5. Usable(g) <=> Usable(f)
    BY <1>1 DEF Usable, IsLink
  <1> QED
    BY <1>3, <1>4, <1>5 DEF Same

\* So does a tree.
LEMMA SameHeld ==
  ASSUME NEW f, Held(f), NEW g, IsIndex(g), g.hdr = f.hdr, g.node = f.node, g.free = f.free
  PROVE  Held(g)
  BY DEF Held, Packed

----------------------------------------------------------------------------
\* A new file, and opening and closing.

\* A tree of one leaf without entries.
LEMMA LeafTree ==
  ASSUME NEW N, NEW q \in Nat, N = [p \in {q} |-> EmptyNode]
  PROVE  Stands(N, q, 1, <<>>)
  <1> DEFINE F == [i \in 0 .. 0 |-> <<>>]
             T == [i \in 0 .. 0 |-> <<>>]
             lv == [p \in {q} |-> 0]
             at == [p \in {q} |-> 1]
             off == [p \in {q} |-> 0]
  <1>1. <<>> \in Seq(EntrySet) /\ <<>> \in Seq(Nat \X Nat) /\ Len(<<>>) = 0
    OBVIOUS
  <1>2. 0 .. 1 - 1 = 0 .. 0 /\ 0 \in 0 .. 0 /\ 0 .. 1 - 2 = {} /\ \A i \in 0 .. 0 : i = 0
    OBVIOUS
  <1>3. DOMAIN N = {q} /\ N[q] = EmptyNode /\ EmptyNode.entries = <<>> /\ EmptyNode.left = NoPage
        /\ EmptyNode.right = NoPage /\ K(N, q) = 0
    BY <1>1 DEF EmptyNode, K
  <1>4. EmptyNode \in NodeSet
    BY <1>1 DEF EmptyNode, NodeSet
  <1>5. W(F, 0) = 0 /\ W(T, 0) = 0 /\ F[0] = <<>>
    BY <1>1, <1>2 DEF W
  <1>6. Typed(N, q, 1, lv, at, off, F, T)
    <2>1. N \in [DOMAIN N -> NodeSet] /\ DOMAIN N \subseteq Nat /\ q \in DOMAIN N
      BY <1>3, <1>4
    <2>2. lv \in [{q} -> 0 .. 1 - 1] /\ at \in [{q} -> Nat \ {0}] /\ off \in [{q} -> Nat]
      BY <1>2
    <2>3. F \in [0 .. 1 - 1 -> Seq(EntrySet)] /\ T \in [0 .. 1 - 1 -> Seq(Nat \X Nat)]
      BY <1>1, <1>2
    <2> HIDE DEF F, T, lv, at, off
    <2> QED
      BY <1>3, <2>1, <2>2, <2>3 DEF Typed
  <1>7. lv[q] = 0 /\ at[q] = 1 /\ off[q] = 0
    OBVIOUS
  <1> HIDE DEF F, T, lv, at, off
  <1>8. Flat(N, q, 1, lv, at, off, F)
    BY <1>2, <1>3, <1>5, <1>7 DEF Flat
  <1>9. Linked(N, q, 1, lv, at, F)
    BY <1>2, <1>3, <1>5, <1>7 DEF Linked
  <1>a. Chained(N, lv, at, F)
    BY <1>3, <1>7 DEF Chained, Width
  <1>b. Ordered(1, F)
    BY <1>2, <1>5 DEF Ordered
  <1>c. Topped(N, 1, off, F, T)
    BY <1>2, <1>5 DEF Topped
  <1>d. Tree(N, q, 1, lv, at, off, F, T)
    BY <1>6, <1>8, <1>9, <1>a, <1>b, <1>c DEF Tree
  <1>e. F[1 - 1] = <<>>
    BY <1>5
  <1> QED
    BY <1>d, <1>e DEF Stands

\* A new file.
LEMMA NewFileKept ==
  /\ Packed(NewIndex) /\ NewIndex.hdrChanged = FALSE /\ NewIndex.pinned = {} /\ NewIndex.page0 = NewIndex.hdr
  /\ NewIndex.hdr = NewHdr /\ NewHdr.rootPage = -1 /\ NewHdr.height = 0 /\ DOMAIN NewIndex.node = {}
  /\ NewIndex.free = <<>>
  <1>1. NewIndex = [hdr |-> NewHdr, hdrChanged |-> FALSE, page0 |-> NewHdr,
                    node |-> [p \in {} |-> EmptyNode], free |-> <<>>, pinned |-> {}]
    BY DEF NewIndex
  <1>2. NewHdr \in [rootPage : Nat \cup {-1}, numPages : Nat, height : Nat]
    BY DEF NewHdr
  <1>3. NewHdr.rootPage = -1 /\ NewHdr.height = 0 /\ NewHdr.numPages = 1
    BY DEF NewHdr
  <1> DEFINE M == [p \in {} |-> EmptyNode]
  <1>4. DOMAIN M = {} /\ M = [p \in DOMAIN M |-> M[p]]
    OBVIOUS
  <1>5. Cardinality({}) = 0 /\ {} = 1 .. 0
    BY FS_EmptySet
  <1> HIDE DEF M
  <1>6. /\ NewIndex.hdr = NewHdr /\ NewIndex.hdrChanged = FALSE /\ NewIndex.page0 = NewHdr
        /\ NewIndex.node = M /\ NewIndex.free = <<>> /\ NewIndex.pinned = {}
    BY <1>1 DEF M
  <1>7. IsIndex(NewIndex)
    <2>1. NewIndex = [hdr |-> NewIndex.hdr, hdrChanged |-> NewIndex.hdrChanged, page0 |-> NewIndex.page0,
                      node |-> NewIndex.node, free |-> NewIndex.free, pinned |-> NewIndex.pinned]
      BY <1>1, <1>6 DEF M
    <2> QED
      BY <1>2, <1>6, <2>1 DEF IsIndex
  <1>8. Packed(NewIndex)
    BY <1>3, <1>4, <1>5, <1>6, <1>7 DEF Packed
  <1> QED
    BY <1>3, <1>4, <1>6, <1>8

\* Opening it gives it a root without entries.
LEMMA OpensNew ==
  ASSUME NEW g, g = SetRoot(AddNode(NewIndex, EmptyNode), NewPage(NewIndex))
  PROVE  /\ Held(g) /\ g.hdrChanged = TRUE /\ g.pinned = {} /\ g.page0 = NewHdr /\ Contents(g) = <<>>
         /\ g.hdr.rootPage >= 0
  <1> DEFINE f == NewIndex
             q == NewPage(f)
             e == AddNode(f, EmptyNode)
  <1>1. /\ Packed(f) /\ f.hdrChanged = FALSE /\ f.pinned = {} /\ f.page0 = NewHdr
        /\ f.hdr = NewHdr /\ NewHdr.height = 0 /\ DOMAIN f.node = {}
    BY NewFileKept
  <1> HIDE DEF f
  <1>2. Grown(e, f, EmptyNode)
    BY <1>1, AddNodeIs
  <1> HIDE DEF e
  <1>3. /\ q \in Nat /\ Packed(e) /\ e.node = More(f.node, q, EmptyNode)
        /\ e.hdrChanged = TRUE /\ e.page0 = NewHdr /\ e.pinned = {} /\ e.hdr.height = 0
    BY <1>1, <1>2 DEF Grown
  <1> HIDE DEF q
  <1>4. /\ Packed(g) /\ g.node = e.node /\ g.hdr.rootPage = q /\ g.hdr.height = 1
        /\ g.hdrChanged = TRUE /\ g.page0 = NewHdr /\ g.pinned = {}
    <2>1. g = SetRoot(e, q)
      BY DEF f, q, e
    <2>2. /\ Packed(SetRoot(e, q)) /\ SetRoot(e, q).node = e.node
          /\ SetRoot(e, q).hdr.rootPage = q /\ SetRoot(e, q).hdr.height = e.hdr.height + 1
          /\ SetRoot(e, q).hdrChanged = e.hdrChanged
          /\ SetRoot(e, q).page0 = e.page0 /\ SetRoot(e, q).pinned = e.pinned
      BY <1>3, SetRootIs
    <2> QED
      BY <1>3, <2>1, <2>2
  <1>5. g.node = [p \in {q} |-> EmptyNode]
    <2>1. More(f.node, q, EmptyNode) = [p \in {q} |-> EmptyNode]
      BY <1>1 DEF More
    <2> QED
      BY <1>3, <1>4, <2>1
  <1>6. Stands(g.node, q, 1, <<>>)
    BY <1>3, <1>5, LeafTree
  <1>7. Sized(g.node)
    <2>1. K(g.node, q) = 0 /\ DOMAIN g.node = {q}
      BY <1>5 DEF K, EmptyNode
    <2> QED
      BY <2>1, NodeAssumption DEF Sized
  <1>8. Held(g)
    BY <1>4, <1>6, <1>7 DEF Held
  <1>9. Contents(g) = <<>>
    <2>1. PICK lv, at, off, F, T : Tree(g.node, q, 1, lv, at, off, F, T) /\ F[1 - 1] = <<>>
      BY <1>6 DEF Stands
    <2>2. Holds(g, 1, lv, at, off, F, T)
      BY <1>4, <2>1 DEF Holds
    <2>3. Contents(g) = F[1 - 1]
      BY <2>2, ContentsIs
    <2> QED
      BY <2>1, <2>3
  <1>a. g.hdr.rootPage >= 0
    BY <1>3, <1>4
  <1> QED
    BY <1>4, <1>8, <1>9, <1>a

\* The inductive invariant, of a file and of whether it is open.
Kept(f, b) ==
  /\ b \in BOOLEAN /\ Shaped(f) /\ Headed(f, b)
  /\ f.hdr.rootPage >= 0 /\ Usable(f) => Held(f)

\* A new file.
LEMMA KeptNew ==
  Kept(NewIndex, FALSE) /\ Usable(NewIndex) /\ Contents(NewIndex) = <<>>
  <1>1. /\ Packed(NewIndex) /\ NewIndex.hdrChanged = FALSE /\ NewIndex.pinned = {} /\ NewIndex.page0 = NewIndex.hdr
        /\ NewIndex.hdr = NewHdr /\ NewHdr.rootPage = -1 /\ NewHdr.height = 0 /\ DOMAIN NewIndex.node = {}
        /\ NewIndex.free = <<>>
    BY NewFileKept
  <1> DEFINE f == NewIndex
  <1> HIDE DEF f
  <1>2. Headed(f, FALSE)
    BY <1>1 DEF Headed, f
  <1>3. Shaped(f)
    <2>1. IsIndex(f) /\ f.free = <<>> /\ Cardinality(DOMAIN f.node) \in Nat
          /\ DOMAIN f.node = 1 .. Cardinality(DOMAIN f.node)
      BY <1>1 DEF Packed, f
    <2>2. ToSet(f.free) = {} /\ Len(f.free) = 0
      BY <2>1 DEF ToSet
    <2>3. DOMAIN f.node \cup ToSet(f.free) = 1 .. Cardinality(DOMAIN f.node) + Len(f.free)
      BY <2>1, <2>2
    <2> QED
      BY <1>1, <2>1, <2>3 DEF Shaped, f
  <1>4. ~(f.hdr.rootPage >= 0) /\ f.hdr.height = 0
    BY <1>1 DEF f
  <1>5. Usable(f)
    BY <1>4 DEF Usable
  <1>6. Contents(f) = <<>>
    BY <1>4 DEF Contents
  <1> QED
    BY <1>2, <1>3, <1>4, <1>5, <1>6 DEF Kept, f

\* What opening and closing do.
Alike(g, f) == Contents(g) = Contents(f) /\ (Usable(f) => Usable(g))
\* OpenIndex keeps the invariant, and gives a new file its root.
LEMMA KeptOpen ==
  ASSUME NEW f, Kept(f, FALSE)
  PROVE  Kept(OpenIndex(f), TRUE) /\ Alike(OpenIndex(f), f)
  <1> DEFINE g == OpenIndex(f)
  <1>1. /\ Shaped(f) /\ f.hdr = f.page0 /\ (f.hdr.rootPage < 0 => f = NewIndex)
        /\ f.hdr.rootPage \in Nat \cup {-1}
        /\ f.hdr.rootPage >= 0 /\ Usable(f) => Held(f)
    BY DEF Kept, Headed, Shaped, IsIndex
  <1>2. f = [hdr |-> f.hdr, hdrChanged |-> f.hdrChanged, page0 |-> f.page0,
             node |-> f.node, free |-> f.free, pinned |-> f.pinned]
    BY <1>1 DEF Shaped, IsIndex
  <1>3. [f EXCEPT !.hdr = f.page0] = f
    BY <1>1, <1>2
  <1>4. g = IF f.hdr.rootPage < 0 THEN SetRoot(AddNode(f, EmptyNode), NewPage(f)) ELSE f
    <2>1. g = LET e == [f EXCEPT !.hdr = f.page0]
              IN  IF e.hdr.rootPage < 0 THEN SetRoot(AddNode(e, EmptyNode), NewPage(e)) ELSE e
      BY DEF OpenIndex
    <2> HIDE DEF g
    <2> QED
      BY <1>3, <2>1
  <1> HIDE DEF g
  <1>5. CASE f.hdr.rootPage < 0
    <2>1. f = NewIndex /\ g = SetRoot(AddNode(NewIndex, EmptyNode), NewPage(NewIndex))
      BY <1>1, <1>4, <1>5
    <2>2. /\ Held(g) /\ g.hdrChanged = TRUE /\ g.pinned = {} /\ g.page0 = NewHdr /\ Contents(g) = <<>>
          /\ g.hdr.rootPage >= 0
      BY <2>1, OpensNew
    <2>3. Shaped(g)
      BY <2>2, HeldShaped
    <2>4. Headed(g, TRUE)
      <3>1. ~(g.hdr.rootPage < 0)
        <4>1. IsIndex(g)
          BY <2>3 DEF Shaped
        <4>2. g.hdr.rootPage \in Nat \cup {-1}
          BY <4>1 DEF IsIndex
        <4> QED
          BY <2>2, <4>2
      <3> QED
        BY <2>2, <3>1 DEF Headed
    <2>5. Usable(g)
      BY <2>2, HeldUsable
    <2>6. Contents(f) = <<>>
      BY <2>1, KeptNew
    <2> QED
      BY <2>2, <2>3, <2>4, <2>5, <2>6 DEF Kept, Alike, g
  <1>6. CASE ~(f.hdr.rootPage < 0)
    <2>1. g = f
      BY <1>4, <1>6
    <2>2. f.hdr.rootPage >= 0
      BY <1>1, <1>6
    <2>3. Headed(f, TRUE)
      BY <1>1, <1>6, <2>2 DEF Headed
    <2>4. Kept(f, TRUE)
      BY <1>1, <2>3 DEF Kept
    <2> QED
      BY <2>1, <2>4 DEF Alike, g
  <1> QED
    BY <1>5, <1>6

\* CloseIndex keeps it: the header in the file is then that of the handle.
LEMMA KeptClose ==
  ASSUME NEW f, Kept(f, TRUE)
  PROVE  Kept(CloseIndex(f), FALSE) /\ Alike(CloseIndex(f), f)
  <1> DEFINE g == CloseIndex(f)
  <1>1. /\ Shaped(f) /\ (f.hdrChanged = FALSE => f.hdr = f.page0) /\ f.hdr.rootPage >= 0
        /\ f.hdr.rootPage \in Nat \cup {-1} /\ f.hdrChanged \in BOOLEAN
        /\ Usable(f) => Held(f)
    BY DEF Kept, Headed, Shaped, IsIndex
  <1>2. /\ f = [hdr |-> f.hdr, hdrChanged |-> f.hdrChanged, page0 |-> f.page0,
                node |-> f.node, free |-> f.free, pinned |-> f.pinned]
        /\ f.hdr \in [rootPage : Nat \cup {-1}, numPages : Nat, height : Nat]
    BY <1>1 DEF Shaped, IsIndex
  <1>3. (IF f.hdrChanged THEN f.hdr ELSE f.page0) = f.hdr
    BY <1>1
  <1>4. g = [f EXCEPT !.hdr = f.hdr, !.page0 = f.hdr, !.hdrChanged = FALSE]
    BY <1>3 DEF CloseIndex
  <1>5. g = [hdr |-> f.hdr, hdrChanged |-> FALSE, page0 |-> f.hdr,
             node |-> f.node, free |-> f.free, pinned |-> f.pinned]
    BY <1>2, <1>4
  <1> HIDE DEF g
  <1>6. /\ g.hdr = f.hdr /\ g.hdrChanged = FALSE /\ g.page0 = f.hdr
        /\ g.node = f.node /\ g.free = f.free /\ g.pinned = f.pinned
    BY <1>5
  <1>7. IsIndex(g)
    <2>1. g = [hdr |-> g.hdr, hdrChanged |-> g.hdrChanged, page0 |-> g.page0,
               node |-> g.node, free |-> g.free, pinned |-> g.pinned]
      BY <1>5, <1>6
    <2> QED
      BY <1>2, <1>6, <2>1 DEF IsIndex
  <1>8. Shaped(g)
    BY <1>1, <1>6, <1>7 DEF Shaped
  <1>9. Same(g, f)
    BY <1>6, SameNodes
  <1>a. Headed(g, FALSE)
    <2>1. ~(g.hdr.rootPage < 0)
      BY <1>1, <1>6
    <2> QED
      BY <1>6, <2>1 DEF Headed
  <1>b. Usable(g) => Held(g)
    <2>1. Held(f) => Held(g)
      BY <1>6, <1>7, SameHeld
    <2> QED
      BY <1>1, <1>9, <2>1 DEF Same
  <1> QED
    BY <1>8, <1>9, <1>a, <1>b DEF Kept, Alike, Same, g

----------------------------------------------------------------------------
\* The steps, and the theorems.

\* A rid of a key is that of a record.
LEMMA RidIs ==
  ASSUME NEW k \in KeyValues, NEW rid \in RidsOf(k)
  PROVE  k \in Nat /\ rid[2] # -1 /\ Entry(k, rid) \in EntrySet
  <1>1. k \in Nat /\ MaxSame[k] \in Nat
    BY IndexTreeAssumption
  <1>2. PICK n \in 0 .. MaxSame[k] - 1 : rid = <<k, n>>
    BY DEF RidsOf
  <1>3. n \in Nat
    BY <1>1
  <1> QED
    BY <1>1, <1>2, <1>3 DEF Entry, EntrySet

\* What an insert does to a file.
InsertKeeps(g, f, k, rid) ==
  Kept(g, TRUE) /\ Usable(g) /\ Contents(g) = Sorted!InsertEntry(Contents(f), k, rid)
\* InsertEntry keeps it, and inserts where an index of one leaf would.
LEMMA KeptInsert ==
  ASSUME Sparse, NEW f, Kept(f, TRUE), Usable(f),
         NEW k \in KeyValues, NEW rid \in RidsOf(k), rid \notin {e.rid : e \in ToSet(Contents(f))}
  PROVE  InsertKeeps(InsertEntry(f, k, rid), f, k, rid)
  <1> DEFINE g == InsertEntry(f, k, rid)
  <1>1. Held(f) /\ f.hdrChanged \in BOOLEAN /\ f.pinned \subseteq DOMAIN f.node
        /\ (f.hdrChanged = FALSE => f.hdr = f.page0)
    BY DEF Kept, Shaped, Headed
  <1>2. PICK h, lv, at, off, F, T : Ghosts(f, h, lv, at, off, F, T)
    BY <1>1, HeldHolds
  <1>3. /\ h = f.hdr.height /\ Tree(f.node, f.hdr.rootPage, h, lv, at, off, F, T)
        /\ Contents(f) = F[h - 1] /\ Contents(f) \in Seq(EntrySet) /\ W(F, h - 1) = Len(Contents(f))
        /\ Len(Contents(f)) \in Nat
    BY <1>2 DEF Ghosts, Holds
  <1> DEFINE C == Contents(f)
             w == Len(C)
  <1>4. \A j \in 1 .. W(F, h - 1) : F[h - 1][j].rid # rid
    <2>1. \A j \in 1 .. w : C[j] \in ToSet(C)
      BY <1>3 DEF ToSet
    <2>2. \A j \in 1 .. w : C[j].rid # rid
      BY <2>1
    <2> QED
      BY <1>3, <2>2
  <1>5. PICK x : /\ IsPlace(F, h - 1, k, x)
                 /\ Done(g, f, Inserted(F[h - 1], x, Entry(k, rid)))
    <2>1. Packed(f) /\ Sized(f.node)
      BY <1>1 DEF Held
    <2> HIDE DEF C, w, g
    <2>2. \E x : /\ IsPlace(F, h - 1, k, x)
                 /\ Done(InsertEntry(f, k, rid), f, Inserted(F[h - 1], x, Entry(k, rid)))
      BY <1>3, <1>4, <2>1, InsertDone
    <2> QED
      BY <2>2 DEF g
  <1> HIDE DEF C, w, g
  <1>6. PlacedIn(C, w, k, x)
    BY <1>3, <1>5 DEF IsPlace, PlacedIn, C, w
  <1>7. C \in Seq(EntrySet) /\ w \in Nat /\ w = Len(C) /\ k \in Nat /\ Entry(k, rid) \in EntrySet
    BY <1>3, RidIs DEF C, w
  <1> DEFINE D == Inserted(C, x, Entry(k, rid))
  <1>8. Sorted!InsertEntry(C, k, rid) = D
    BY <1>6, <1>7, SortedInserts
  <1>9. Done(g, f, D)
    BY <1>3, <1>5 DEF C
  <1> HIDE DEF D
  <1>a. /\ Packed(g) /\ Follows(g, f) /\ Sized(g.node)
        /\ Stands(g.node, g.hdr.rootPage, g.hdr.height, D)
    BY <1>9 DEF Done
  <1>b. Held(g)
    BY <1>a DEF Held
  <1>c. Contents(g) = D
    <2>1. PICK lv2, at2, off2, F2, T2 :
            Tree(g.node, g.hdr.rootPage, g.hdr.height, lv2, at2, off2, F2, T2) /\ F2[g.hdr.height - 1] = D
      BY <1>a DEF Stands
    <2>2. Holds(g, g.hdr.height, lv2, at2, off2, F2, T2)
      BY <2>1 DEF Holds
    <2>3. Contents(g) = F2[g.hdr.height - 1]
      BY <2>2, ContentsIs
    <2> QED
      BY <2>1, <2>3
  <1>d. /\ g.hdrChanged \in BOOLEAN /\ g.pinned \subseteq DOMAIN g.node
        /\ (g.hdrChanged = FALSE => g.hdr = g.page0)
    BY <1>1, <1>a DEF Follows
  <1>e. Shaped(g)
    BY <1>b, <1>d, HeldShaped
  <1>f. g.hdr.rootPage \in Nat /\ g.hdr.rootPage >= 0
    <2>1. PICK h2, lv2, at2, off2, F2, T2 : Ghosts(g, h2, lv2, at2, off2, F2, T2)
      BY <1>b, HeldHolds
    <2> QED
      BY <2>1 DEF Ghosts
  <1>g. Headed(g, TRUE)
    <2>1. ~(g.hdr.rootPage < 0)
      BY <1>f
    <2> QED
      BY <1>d, <1>f, <2>1 DEF Headed
  <1>h. Kept(g, TRUE)
    BY <1>b, <1>e, <1>g DEF Kept
  <1>i. Usable(g)
    BY <1>b, HeldUsable
  <1> QED
    BY <1>8, <1>c, <1>h, <1>i DEF InsertKeeps, g, C

\* An open file with a tree.
Treed(f) ==
  Kept(f, TRUE) /\ Held(f) /\ Usable(f) /\ f.hdrChanged \in BOOLEAN
  /\ (f.hdrChanged = FALSE => f.hdr = f.page0) /\ f.hdr.rootPage \in Nat /\ f.pinned \subseteq DOMAIN f.node

\* An open file that is usable has a tree.
LEMMA UsableTreed ==
  ASSUME NEW f, Kept(f, TRUE), Usable(f)
  PROVE  Treed(f)
  <1>1. /\ f.hdrChanged \in BOOLEAN /\ (f.hdrChanged = FALSE => f.hdr = f.page0)
        /\ f.pinned \subseteq DOMAIN f.node /\ Held(f)
    BY DEF Kept, Shaped, Headed
  <1>2. f.hdr.rootPage \in Nat
    <2>1. PICK h2, lv2, at2, off2, F2, T2 : Ghosts(f, h2, lv2, at2, off2, F2, T2)
      BY <1>1, HeldHolds
    <2> QED
      BY <2>1 DEF Ghosts
  <1> QED
    BY <1>1, <1>2 DEF Treed

\* The other way round.
LEMMA HeldKept ==
  ASSUME NEW g, Held(g), g.hdrChanged \in BOOLEAN, g.pinned \subseteq DOMAIN g.node,
         g.hdrChanged = FALSE => g.hdr = g.page0
  PROVE  Kept(g, TRUE) /\ Usable(g)
  <1>1. Shaped(g)
    BY HeldShaped
  <1>2. g.hdr.rootPage \in Nat /\ g.hdr.rootPage >= 0
    <2>1. PICK h2, lv2, at2, off2, F2, T2 : Ghosts(g, h2, lv2, at2, off2, F2, T2)
      BY HeldHolds
    <2> QED
      BY <2>1 DEF Ghosts
  <1>3. Headed(g, TRUE)
    <2>1. ~(g.hdr.rootPage < 0)
      BY <1>2
    <2> QED
      BY <1>2, <2>1 DEF Headed
  <1>4. Usable(g)
    BY HeldUsable
  <1> QED
    BY <1>1, <1>3, <1>4 DEF Kept

\* The entries of a file, read from its tree.
LEMMA StandsContents ==
  ASSUME NEW g, NEW C, Stands(g.node, g.hdr.rootPage, g.hdr.height, C)
  PROVE  Contents(g) = C
  <1>1. PICK lv2, at2, off2, F2, T2 :
          Tree(g.node, g.hdr.rootPage, g.hdr.height, lv2, at2, off2, F2, T2) /\ F2[g.hdr.height - 1] = C
    BY DEF Stands
  <1>2. Holds(g, g.hdr.height, lv2, at2, off2, F2, T2)
    BY <1>1 DEF Holds
  <1>3. Contents(g) = F2[g.hdr.height - 1]
    BY <1>2, ContentsIs
  <1> QED
    BY <1>1, <1>3

\* A delete that found nothing.
LEMMA SparedKeeps ==
  ASSUME NEW f, Treed(f), NEW d, Spared(d, f)
  PROVE  Kept(d.ix, TRUE) /\ Usable(d.ix) /\ Contents(d.ix) = Contents(f)
  <1> DEFINE g == d.ix
  <1>1. PICK P : P \subseteq DOMAIN f.node /\ g = [f EXCEPT !.pinned = f.pinned \cup P]
    BY DEF Spared
  <1>2. /\ f = [hdr |-> f.hdr, hdrChanged |-> f.hdrChanged, page0 |-> f.page0,
                node |-> f.node, free |-> f.free, pinned |-> f.pinned]
        /\ f.hdr \in [rootPage : Nat \cup {-1}, numPages : Nat, height : Nat]
    BY DEF Treed, Held, Packed, IsIndex
  <1> HIDE DEF g
  <1>3. g = [hdr |-> f.hdr, hdrChanged |-> f.hdrChanged, page0 |-> f.page0,
             node |-> f.node, free |-> f.free, pinned |-> f.pinned \cup P]
    BY <1>1, <1>2
  <1>4. /\ g.hdr = f.hdr /\ g.hdrChanged = f.hdrChanged /\ g.page0 = f.page0
        /\ g.node = f.node /\ g.free = f.free /\ g.pinned = f.pinned \cup P
    BY <1>3
  <1>5. IsIndex(g)
    <2>1. g = [hdr |-> g.hdr, hdrChanged |-> g.hdrChanged, page0 |-> g.page0,
               node |-> g.node, free |-> g.free, pinned |-> g.pinned]
      BY <1>3, <1>4
    <2> QED
      BY <1>2, <1>4, <2>1 DEF IsIndex
  <1>6. Held(g)
    <2>1. Held(f)
      BY DEF Treed
    <2> QED
      BY <1>4, <1>5, <2>1, SameHeld
  <1>7. g.hdrChanged \in BOOLEAN /\ g.pinned \subseteq DOMAIN g.node /\ (g.hdrChanged = FALSE => g.hdr = g.page0)
    BY <1>1, <1>4 DEF Treed
  <1>8. Kept(g, TRUE) /\ Usable(g)
    BY <1>6, <1>7, HeldKept
  <1>9. Same(g, f)
    BY <1>4, SameNodes
  <1> QED
    BY <1>8, <1>9 DEF Same, g

\* One that took an entry out of a leaf.
LEMMA StoodKeeps ==
  ASSUME NEW f, Treed(f), NEW g, NEW C, Stood(g, f, C)
  PROVE  Kept(g, TRUE) /\ Usable(g) /\ Contents(g) = C
  <1>1. /\ Packed(g) /\ Sized(g.node) /\ g.hdr = f.hdr /\ g.hdrChanged = f.hdrChanged
        /\ g.page0 = f.page0 /\ g.pinned = f.pinned /\ DOMAIN g.node = DOMAIN f.node
        /\ Stands(g.node, g.hdr.rootPage, g.hdr.height, C)
    BY DEF Stood
  <1>2. Held(g)
    BY <1>1 DEF Held
  <1>3. g.hdrChanged \in BOOLEAN /\ g.pinned \subseteq DOMAIN g.node /\ (g.hdrChanged = FALSE => g.hdr = g.page0)
    BY <1>1 DEF Treed
  <1>4. Kept(g, TRUE) /\ Usable(g)
    BY <1>2, <1>3, HeldKept
  <1>5. Contents(g) = C
    BY <1>1, StandsContents
  <1> QED
    BY <1>4, <1>5

\* One that emptied a leaf and disposed of it.
LEMMA EmptiedKeeps ==
  ASSUME NEW f, Treed(f), f.pinned = {}, NEW d, NEW q, Emptied(d, f, q)
  PROVE  Kept(d.ix, TRUE) /\ Usable(d.ix) = FALSE
  <1> DEFINE g == d.ix
             n == Cardinality(DOMAIN f.node)
  <1>1. Dropped(g, f, q) /\ Usable(g) = FALSE /\ q \in DOMAIN f.node
    BY DEF Emptied
  <1> HIDE DEF g
  <1>2. /\ Packed(f) /\ f.hdr.rootPage \in Nat /\ n \in Nat /\ DOMAIN f.node = 1 .. n /\ f.free = <<>>
        /\ f.hdr.numPages = 1 + n
    BY DEF Treed, Held, Packed
  <1> HIDE DEF n
  <1>3. g.free = <<q>>
    <2>1. g.free = <<q>> \o <<>>
      BY <1>1, <1>2 DEF Dropped
    <2> QED
      BY <2>1
  <1>4. DOMAIN g.node = DOMAIN f.node \ {q}
    BY <1>1 DEF Dropped
  <1>5. Cardinality(DOMAIN g.node) = n - 1
    <2>1. IsFiniteSet(1 .. n)
      BY <1>2, FS_Interval
    <2>2. IsFiniteSet(DOMAIN f.node)
      BY <1>2, <2>1
    <2>3. Cardinality(DOMAIN f.node \ {q}) = Cardinality(DOMAIN f.node) - 1
      BY <1>1, <2>2, FS_RemoveElement
    <2> QED
      BY <1>4, <2>3 DEF n
  <1>6. DOMAIN g.node \cup ToSet(g.free) = 1 .. Cardinality(DOMAIN g.node) + Len(g.free)
    <2>1. ToSet(<<q>>) = {q} /\ Len(<<q>>) = 1
      BY DEF ToSet
    <2>2. ToSet(g.free) = {q} /\ Len(g.free) = 1
      BY <1>3, <2>1
    <2>3. n - 1 + 1 = n
      BY <1>2
    <2>4. DOMAIN g.node \cup {q} = 1 .. n
      BY <1>1, <1>2, <1>4
    <2> QED
      BY <1>5, <2>2, <2>3, <2>4
  <1>7. f.hdr.height \in Nat /\ f.hdr.height >= 1
    <2>1. PICK h2, lv2, at2, off2, F2, T2 : Ghosts(f, h2, lv2, at2, off2, F2, T2)
      BY HeldHolds DEF Treed
    <2> QED
      BY <2>1 DEF Ghosts
  <1>8. IsIndex(g) /\ g.hdr.rootPage = f.hdr.rootPage
    <2>1. /\ g = [hdr |-> g.hdr, hdrChanged |-> g.hdrChanged, page0 |-> g.page0,
                  node |-> g.node, free |-> g.free, pinned |-> g.pinned]
          /\ g.hdr = [rootPage |-> g.hdr.rootPage, numPages |-> g.hdr.numPages, height |-> g.hdr.height]
          /\ g.hdr.rootPage = f.hdr.rootPage
          /\ g.hdr.height = f.hdr.height \/ g.hdr.height = f.hdr.height - 1
          /\ g.hdr.numPages = f.hdr.numPages - 1
      BY <1>1 DEF Dropped
    <2>2. g.hdr.rootPage \in Nat \cup {-1} /\ g.hdr.numPages \in Nat /\ g.hdr.height \in Nat
      BY <1>2, <1>7, <2>1
    <2>3. PICK a, b, c : a = g.hdr.rootPage /\ b = g.hdr.numPages /\ c = g.hdr.height
      OBVIOUS
    <2>4. [rootPage |-> a, numPages |-> b, height |-> c] \in [rootPage : Nat \cup {-1}, numPages : Nat, height : Nat]
      BY <2>2, <2>3
    <2>5. g.hdr \in [rootPage : Nat \cup {-1}, numPages : Nat, height : Nat]
      BY <2>1, <2>3, <2>4
    <2> QED
      BY <2>1, <2>5 DEF IsIndex
  <1>9. \A p \in DOMAIN g.node : g.node[p].entries \in Seq(EntrySet) /\ Len(g.node[p].entries) <= MaxKeys
    <2>1. \A p \in DOMAIN f.node : f.node[p].entries \in Seq(EntrySet) /\ Len(f.node[p].entries) <= MaxKeys
      BY DEF Treed, Kept, Shaped
    <2>2. \A p \in DOMAIN g.node : g.node[p].entries = f.node[p].entries
      BY <1>1 DEF Dropped
    <2> QED
      BY <1>4, <2>1, <2>2
  <1>a. g.hdrChanged = TRUE /\ g.pinned = {}
    BY <1>1 DEF Dropped
  <1>b. Shaped(g)
    BY <1>6, <1>8, <1>9, <1>a DEF Shaped
  <1>c. Headed(g, TRUE)
    <2>1. ~(g.hdr.rootPage < 0) /\ g.hdr.rootPage >= 0
      BY <1>2, <1>8
    <2> QED
      BY <1>a, <2>1 DEF Headed
  <1>d. Kept(g, TRUE)
    BY <1>1, <1>b, <1>c DEF Kept
  <1> QED
    BY <1>1, <1>d DEF g

\* What an index of one leaf does.
SortedLoses(C, w, k, rid, x) ==
  /\ (\A j \in x .. w : C[j].rid # rid) => Sorted!DeleteEntry(C, k, rid) = C
  /\ \A z \in x .. w : C[z].rid = rid /\ (\A j \in 1 .. w : C[j].rid = rid => j = z)
       => Sorted!DeleteEntry(C, k, rid) = Removed(C, z)
\* So it does.
LEMMA SortedLosesIs ==
  ASSUME NEW C \in Seq(EntrySet), NEW w \in Nat, w = Len(C), NEW k \in Nat, NEW x, PlacedIn(C, w, k, x),
         NEW rid
  PROVE  SortedLoses(C, w, k, rid, x)
  BY SortedDeletes DEF SortedLoses

\* A delete, as an index of one leaf sees it, and what an emptied leaf leaves.
DeleteKeeps(g, f, k, rid) ==
  /\ Kept(g, TRUE)
  /\ Usable(g) => Contents(g) = Sorted!DeleteEntry(Contents(f), k, rid)
  /\ ~Usable(g) => \E p \in ToSet(Leaves(f)) :
                      numKeys(f.node[p]) = 1 /\ p # f.hdr.rootPage /\ p \notin DOMAIN g.node
\* DeleteEntry keeps the invariant in a tree of at most two levels, and deletes
\* what an index of one leaf would.
LEMMA KeptDelete ==
  ASSUME NEW f, Kept(f, TRUE), Usable(f), f.pinned = {}, f.hdr.height <= 2,
         NEW k \in KeyValues, NEW rid \in RidsOf(k)
  PROVE  DeleteKeeps(DeleteEntry(f, k, rid).ix, f, k, rid)
  <1> DEFINE d == DeleteEntry(f, k, rid)
             C == Contents(f)
             w == Len(C)
  <1>1. Treed(f) /\ Held(f)
    BY UsableTreed DEF Treed
  <1>2. PICK h, lv, at, off, F, T : Ghosts(f, h, lv, at, off, F, T)
    BY <1>1, HeldHolds
  <1>3. /\ Holds(f, h, lv, at, off, F, T) /\ h \in Nat /\ h >= 1 /\ h = f.hdr.height
        /\ C = F[h - 1] /\ C \in Seq(EntrySet) /\ W(F, h - 1) = w /\ w \in Nat
    BY <1>2 DEF Ghosts
  <1>4. h = 1 \/ h = 2
    BY <1>3
  <1>5. Packed(f) /\ Sized(f.node)
    BY <1>1 DEF Held
  <1>6. k \in Nat /\ rid[2] # -1
    BY RidIs
  <1> HIDE DEF d, C, w
  <1>7. PICK x : IsPlace(F, h - 1, k, x) /\ Deletes(d, f, rid, F[h - 1], W(F, h - 1), x)
    BY <1>3, <1>4, <1>5, <1>6, DeleteDone DEF d
  <1>8. PlacedIn(C, w, k, x) /\ Deletes(d, f, rid, C, w, x) /\ x \in 1 .. w + 1
    BY <1>3, <1>7 DEF IsPlace, PlacedIn
  <1>9. \A a, b \in 1 .. w : C[a].rid = C[b].rid => a = b
    <2>1. Holds(f, h, lv, at, off, F, T)
      BY <1>3
    <2>2. \A a, b \in 1 .. W(F, h - 1) : F[h - 1][a].rid = F[h - 1][b].rid => a = b
      BY <2>1, RidsDiffer
    <2> QED
      BY <1>3, <2>2
  <1>a. SortedLoses(C, w, k, rid, x)
    <2>1. w = Len(C)
      BY DEF w
    <2> QED
      BY <1>3, <1>6, <1>8, <2>1, SortedLosesIs
  <1>b. CASE Spared(d, f) /\ \A j \in x .. w : C[j].rid # rid
    <2>1. Kept(d.ix, TRUE) /\ Usable(d.ix) /\ Contents(d.ix) = C
      BY <1>1, <1>b, SparedKeeps DEF C
    <2> QED
      BY <1>a, <1>b, <2>1 DEF DeleteKeeps, SortedLoses, d, C
  <1>c. CASE \E z \in x .. w : /\ C[z].rid = rid
                               /\ \/ d.rc = 0 /\ Stood(d.ix, f, Removed(C, z))
                                  \/ \E q : Emptied(d, f, q)
    <2>1. PICK z \in x .. w : /\ C[z].rid = rid
                              /\ \/ d.rc = 0 /\ Stood(d.ix, f, Removed(C, z))
                                 \/ \E q : Emptied(d, f, q)
      BY <1>c
    <2>2. z \in 1 .. w
      BY <1>3, <1>8
    <2>3. Sorted!DeleteEntry(C, k, rid) = Removed(C, z)
      <3>1. \A j \in 1 .. w : C[j].rid = rid => j = z
        BY <1>9, <2>1, <2>2
      <3> QED
        BY <1>a, <2>1, <3>1 DEF SortedLoses
    <2>4. CASE Stood(d.ix, f, Removed(C, z))
      <3>1. Kept(d.ix, TRUE) /\ Usable(d.ix) /\ Contents(d.ix) = Removed(C, z)
        BY <1>1, <2>4, StoodKeeps
      <3> QED
        BY <2>3, <3>1 DEF DeleteKeeps, d, C
    <2>5. CASE \E q : Emptied(d, f, q)
      <3>1. PICK q : Emptied(d, f, q)
        BY <2>5
      <3>2. Kept(d.ix, TRUE) /\ Usable(d.ix) = FALSE
        BY <1>1, <3>1, EmptiedKeeps
      <3>3. q \in ToSet(Leaves(f)) /\ numKeys(f.node[q]) = 1 /\ q # f.hdr.rootPage /\ q \notin DOMAIN d.ix.node
        BY <3>1 DEF Emptied, Dropped
      <3> QED
        BY <3>2, <3>3 DEF DeleteKeeps, d
    <2> QED
      BY <2>1, <2>4, <2>5
  <1> QED
    BY <1>8, <1>b, <1>c DEF Deletes

\* The entries of a tree that can be used can all be deleted.
Succeeds(d) == d.rc = 0 /\ d.ix.pinned = {}
\* They can, and no page stays pinned.
LEMMA DeleteSucceeds ==
  ASSUME NEW f, Kept(f, TRUE), Usable(f), f.pinned = {}, f.hdr.height <= 2,
         NEW e \in ToSet(Contents(f))
  PROVE  Succeeds(DeleteEntry(f, e.key, e.rid))
  <1> DEFINE C == Contents(f)
             w == Len(C)
             k == e.key
             rid == e.rid
             d == DeleteEntry(f, k, rid)
  <1>1. Treed(f) /\ Held(f)
    BY UsableTreed DEF Treed
  <1>2. PICK h, lv, at, off, F, T : Ghosts(f, h, lv, at, off, F, T)
    BY <1>1, HeldHolds
  <1>3. /\ Holds(f, h, lv, at, off, F, T) /\ h \in Nat /\ h >= 1 /\ h = f.hdr.height
        /\ C = F[h - 1] /\ C \in Seq(EntrySet) /\ W(F, h - 1) = w /\ w \in Nat
    BY <1>2 DEF Ghosts
  <1>4. h = 1 \/ h = 2
    BY <1>3
  <1>5. Packed(f) /\ Sized(f.node)
    BY <1>1 DEF Held
  <1>6. PICK y \in 1 .. w : C[y] = e
    <2>1. e \in {C[i] : i \in DOMAIN C}
      BY DEF ToSet
    <2>2. DOMAIN C = 1 .. w
      BY <1>3
    <2> HIDE DEF C, w
    <2> QED
      BY <2>1, <2>2
  <1>7. k \in KeyValues /\ rid \in RidsOf(k)
    <2>1. Tree(f.node, f.hdr.rootPage, h, lv, at, off, F, T)
      BY <1>3 DEF Holds
    <2>2. Topped(f.node, h, off, F, T)
      BY <2>1 DEF Tree
    <2>3. h - 1 \in 0 .. h - 1
      BY <1>3
    <2>4. T[h - 1][y] \in RidsOf(F[h - 1][y].key) /\ T[h - 1][y] = F[h - 1][y].rid
      BY <1>3, <2>2, <2>3 DEF Topped
    <2>5. e \in EntrySet
      <3> HIDE DEF C, w
      <3> QED
        BY <1>3, <1>6, Elem DEF w
    <2> HIDE DEF C, w
    <2> QED
      BY <1>3, <1>6, <2>4, <2>5 DEF EntrySet
  <1>8. k \in Nat /\ rid[2] # -1
    BY <1>7, RidIs
  <1> HIDE DEF d, C, w
  <1>9. C[y].key = k /\ C[y].rid = rid
    BY <1>6
  <1> HIDE DEF k, rid
  <1>a. PICK x : IsPlace(F, h - 1, k, x) /\ Deletes(d, f, rid, F[h - 1], W(F, h - 1), x)
    BY <1>3, <1>4, <1>5, <1>8, DeleteDone DEF d
  <1>b. PlacedIn(C, w, k, x) /\ Deletes(d, f, rid, C, w, x) /\ x \in 1 .. w + 1
    BY <1>3, <1>a DEF IsPlace, PlacedIn
  <1>c. y \in x .. w
    <2>1. y < x => C[y].key < k
      BY <1>6, <1>b DEF PlacedIn
    <2>2. ~(k < k)
      BY <1>8
    <2> QED
      BY <1>3, <1>6, <1>9, <1>b, <2>1, <2>2
  <1>d. ~\A j \in x .. w : C[j].rid # rid
    BY <1>9, <1>c
  <1>e. d.rc = 0 /\ ((\E Z : Stood(d.ix, f, Z)) \/ \E q : Emptied(d, f, q))
    BY <1>b, <1>d DEF Deletes, Emptied
  <1>f. d.ix.pinned = f.pinned
    BY <1>e DEF Stood, Emptied, Dropped
  <1> QED
    BY <1>e, <1>f DEF Succeeds, d, k, rid

\* The inductive invariant.
IInv == Kept(ix, bOpen)

\* Each step keeps it.
LEMMA StepKeeps ==
  ASSUME Sparse, IInv, [CarefulNext]_vars
  PROVE  IInv'
  <1>1. CASE Recreate
    BY <1>1, KeptNew DEF Recreate, IInv
  <1>2. CASE Open
    <2>1. Kept(ix, FALSE) /\ ix' = OpenIndex(ix) /\ bOpen' = TRUE
      <3>1. bOpen = FALSE
        BY <1>2 DEF Open, IInv, Kept
      <3> QED
        BY <1>2, <3>1 DEF Open, IInv
    <2>2. Kept(OpenIndex(ix), TRUE)
      BY <2>1, KeptOpen
    <2> QED
      BY <2>1, <2>2 DEF IInv
  <1>3. CASE Close
    <2>1. Kept(ix, TRUE) /\ ix' = CloseIndex(ix) /\ bOpen' = FALSE
      <3>1. bOpen = TRUE
        BY <1>3 DEF Close, IInv, Kept
      <3> QED
        BY <1>3, <3>1 DEF Close, IInv
    <2>2. Kept(CloseIndex(ix), FALSE)
      BY <2>1, KeptClose
    <2> QED
      BY <2>1, <2>2 DEF IInv
  <1>4. ASSUME NEW k \in KeyValues, NEW rid \in NewRids(k), Insert(k, rid)
        PROVE  IInv'
    <2>1. rid \in RidsOf(k)
      BY <1>4 DEF NewRids
    <2>2. Kept(ix, TRUE) /\ bOpen' = TRUE /\ Usable(ix) /\ ix' = InsertEntry(ix, k, rid)
          /\ rid \notin {e.rid : e \in ToSet(Contents(ix))}
      <3>1. bOpen = TRUE
        BY <1>4 DEF Insert, IInv, Kept
      <3> QED
        BY <1>4, <3>1 DEF Insert, Sound, UsedRids, IInv
    <2>3. Kept(InsertEntry(ix, k, rid), TRUE)
      BY <2>1, <2>2, KeptInsert DEF InsertKeeps
    <2> QED
      BY <2>2, <2>3 DEF IInv
  <1>5. ASSUME NEW k \in KeyValues, NEW rid \in RidsOf(k), ix.hdr.height <= 2, Delete(k, rid)
        PROVE  IInv'
    <2>1. /\ Kept(ix, TRUE) /\ bOpen' = TRUE /\ Usable(ix) /\ ix.pinned = {}
          /\ ix' = DeleteEntry(ix, k, rid).ix
      <3>1. bOpen = TRUE
        BY <1>5 DEF Delete, IInv, Kept
      <3> QED
        BY <1>5, <3>1 DEF Delete, Sound, IInv
    <2>2. Kept(DeleteEntry(ix, k, rid).ix, TRUE)
      BY <1>5, <2>1, KeptDelete DEF DeleteKeeps
    <2> QED
      BY <2>1, <2>2 DEF IInv
  <1>6. CASE UNCHANGED vars
    BY <1>6 DEF vars, IInv
  <1> QED
    BY <1>1, <1>2, <1>3, <1>4, <1>5, <1>6 DEF CarefulNext

\* A file that is usable is a tree, throughout a session of IX_IndexHandle.
THEOREM AlwaysKept ==
  ASSUME Sparse
  PROVE  CarefulSpec => []IInv
  <1>1. Init => IInv
    BY KeptNew DEF Init, IInv
  <1>2. IInv /\ [CarefulNext]_vars => IInv'
    BY StepKeeps
  <1> QED
    BY <1>1, <1>2, PTL DEF CarefulSpec

\* A page in use is not free, no node has more entries than fit into it.
LEMMA KeptTypeOK ==
  ASSUME IInv
  PROVE  TypeOK
  <1>1. Shaped(ix) /\ bOpen \in BOOLEAN
    BY DEF IInv, Kept
  <1>2. ASSUME NEW p \in DOMAIN ix.node
        PROVE  /\ numKeys(ix.node[p]) <= MaxKeys
               /\ \A i \in 1 .. numKeys(ix.node[p]) :
                    /\ ix.node[p].entries[i].key \in KeyValues
                    /\ ix.node[p].entries[i].rid \in Nat \X (Nat \cup {-1})
    <2>1. PICK es : es = ix.node[p].entries
      OBVIOUS
    <2>2. es \in Seq(EntrySet) /\ Len(es) <= MaxKeys
      BY <1>1, <2>1 DEF Shaped
    <2>3. \A i \in 1 .. Len(es) : es[i] \in EntrySet
      BY <2>2, Elem
    <2>4. numKeys(ix.node[p]) = Len(es)
      BY <2>1 DEF numKeys
    <2>5. \A e \in EntrySet : e.key \in KeyValues /\ e.rid \in Nat \X (Nat \cup {-1})
      BY DEF EntrySet
    <2> QED
      BY <2>1, <2>2, <2>3, <2>4, <2>5
  <1> QED
    BY <1>1, <1>2 DEF TypeOK, Shaped

\* Insert and Split never put more than GetMaxKeys() entries into a node, and
\* no page is at once in use and on the list of those disposed of.
THEOREM AlwaysTypeOK ==
  ASSUME Sparse
  PROVE  CarefulSpec => []TypeOK
  BY AlwaysKept, KeptTypeOK, PTL

\* An open file has a tree.
LEMMA OpenHeld ==
  ASSUME IInv, bOpen, Usable(ix)
  PROVE  Kept(ix, TRUE) /\ Packed(ix) /\ \E h, lv, at, off, F, T : Holds(ix, h, lv, at, off, F, T)
  <1>1. bOpen = TRUE
    BY DEF IInv, Kept
  <1>2. Kept(ix, TRUE)
    BY <1>1 DEF IInv
  <1>3. Held(ix)
    BY <1>2, UsableTreed DEF Treed
  <1>4. \E h, lv, at, off, F, T : Holds(ix, h, lv, at, off, F, T)
    BY <1>3, HeldHolds DEF Ghosts
  <1> QED
    BY <1>2, <1>3, <1>4 DEF Held

\* Then the tree is exact.
LEMMA KeptTreeExact ==
  ASSUME IInv
  PROVE  TreeExact
  <1>1. ASSUME bOpen, Usable(ix)
        PROVE  ExactAt(ix)
    <2>1. Packed(ix) /\ \E h, lv, at, off, F, T : Holds(ix, h, lv, at, off, F, T)
      BY <1>1, OpenHeld
    <2> QED
      BY <2>1, HoldsExact
  <1> QED
    BY <1>1 DEF TreeExact, ExactAt

\* However InsertEntry splits and DeleteEntry drops nodes, each page in use is
\* reached exactly once and each inner key is the largest one under its child.
THEOREM AlwaysTreeExact ==
  ASSUME Sparse
  PROVE  CarefulSpec => []TreeExact
  BY AlwaysKept, KeptTreeExact, PTL

\* The levels are chained.
LEMMA KeptLeavesChained ==
  ASSUME IInv
  PROVE  LeavesChained
  <1>1. ASSUME bOpen, Usable(ix)
        PROVE  ChainedAt(ix)
    <2>1. Packed(ix) /\ \E h, lv, at, off, F, T : Holds(ix, h, lv, at, off, F, T)
      BY <1>1, OpenHeld
    <2> QED
      BY <2>1, HoldsChained
  <1> QED
    BY <1>1 DEF LeavesChained, ChainedAt

\* The links that Split sets lead along each level in the order of the tree,
\* and the keys of the leaves ascend.
THEOREM AlwaysLeavesChained ==
  ASSUME Sparse
  PROVE  CarefulSpec => []LeavesChained
  BY AlwaysKept, KeptLeavesChained, PTL

\* Every entry can be deleted.
LEMMA KeptDeletesSucceed ==
  ASSUME IInv
  PROVE  DeletesSucceed
  <1>1. ASSUME bOpen, Sound, ix.hdr.height <= 2, NEW e \in ToSet(Contents(ix))
        PROVE  Succeeds(DeleteEntry(ix, e.key, e.rid))
    <2>1. Kept(ix, TRUE) /\ Usable(ix) /\ ix.pinned = {}
      BY <1>1, OpenHeld DEF Sound
    <2> QED
      BY <1>1, <2>1, DeleteSucceeds
  <1> QED
    BY <1>1 DEF DeletesSucceed, Succeeds

\* DeleteEntry finds every entry of a tree of up to two levels and leaves no
\* page pinned.
THEOREM AlwaysDeletesSucceed ==
  ASSUME Sparse
  PROVE  CarefulSpec => []DeletesSucceed
  BY AlwaysKept, KeptDeletesSucceed, PTL

\* ActsAsSortedIndex of one step.
SortedStep ==
  /\ \A k \in KeyValues : \A rid \in RidsOf(k) :
       /\ Insert(k, rid) => Contents(ix') = Sorted!InsertEntry(Contents(ix), k, rid)
       /\ ix.hdr.height <= 2 /\ Delete(k, rid) /\ Usable(ix') =>
            Contents(ix') = Sorted!DeleteEntry(Contents(ix), k, rid)
  /\ Open \/ Close => Contents(ix') = Contents(ix)

\* Each step is such a step.
LEMMA StepsSorted ==
  ASSUME Sparse, IInv
  PROVE  SortedStep
  <1>1. ASSUME NEW k \in KeyValues, NEW rid \in RidsOf(k), Insert(k, rid)
        PROVE  Contents(ix') = Sorted!InsertEntry(Contents(ix), k, rid)
    <2>1. Kept(ix, TRUE) /\ Usable(ix) /\ ix' = InsertEntry(ix, k, rid)
          /\ rid \notin {e.rid : e \in ToSet(Contents(ix))}
      <3>1. bOpen = TRUE
        BY <1>1 DEF Insert, IInv, Kept
      <3> QED
        BY <1>1, <3>1 DEF Insert, Sound, UsedRids, IInv
    <2>2. InsertKeeps(InsertEntry(ix, k, rid), ix, k, rid)
      BY <2>1, KeptInsert
    <2> QED
      BY <2>1, <2>2 DEF InsertKeeps
  <1>2. ASSUME NEW k \in KeyValues, NEW rid \in RidsOf(k), ix.hdr.height <= 2, Delete(k, rid), Usable(ix')
        PROVE  Contents(ix') = Sorted!DeleteEntry(Contents(ix), k, rid)
    <2>1. Kept(ix, TRUE) /\ Usable(ix) /\ ix.pinned = {} /\ ix' = DeleteEntry(ix, k, rid).ix
      <3>1. bOpen = TRUE
        BY <1>2 DEF Delete, IInv, Kept
      <3> QED
        BY <1>2, <3>1 DEF Delete, Sound, IInv
    <2>2. DeleteKeeps(DeleteEntry(ix, k, rid).ix, ix, k, rid)
      BY <1>2, <2>1, KeptDelete
    <2> QED
      BY <1>2, <2>1, <2>2 DEF DeleteKeeps
  <1>3. ASSUME Open \/ Close
        PROVE  Contents(ix') = Contents(ix)
    <2>1. CASE Open
      <3>1. bOpen = FALSE /\ ix' = OpenIndex(ix)
        BY <2>1 DEF Open, IInv, Kept
      <3>2. Kept(ix, FALSE)
        BY <3>1 DEF IInv
      <3> QED
        BY <3>1, <3>2, KeptOpen DEF Alike
    <2>2. CASE Close
      <3>1. bOpen = TRUE /\ ix' = CloseIndex(ix)
        BY <2>2 DEF Close, IInv, Kept
      <3>2. Kept(ix, TRUE)
        BY <3>1 DEF IInv
      <3> QED
        BY <3>1, <3>2, KeptClose DEF Alike
    <2> QED
      BY <1>3, <2>1, <2>2
  <1> QED
    BY <1>1, <1>2, <1>3 DEF SortedStep

\* InsertEntry and DeleteEntry do to the entries what they would do in one
\* sorted leaf, at whatever leaf the descent ends and however often it splits.
THEOREM IndexActsAsSorted ==
  ASSUME Sparse
  PROVE  CarefulSpec => ActsAsSortedIndex
  <1>1. IInv /\ [CarefulNext]_vars => [SortedStep]_vars
    BY StepsSorted
  <1>2. CarefulSpec => [][SortedStep]_vars
    BY <1>1, AlwaysKept, PTL DEF CarefulSpec
  <1> QED
    BY <1>2 DEF ActsAsSortedIndex, SortedStep

\* OnlyEmptyingBreaks of one step.
Emptying ==
  Usable(ix) /\ ~Usable(ix') =>
    \E p \in ToSet(Leaves(ix)) :
      numKeys(ix.node[p]) = 1 /\ p # ix.hdr.rootPage /\ p \notin DOMAIN ix'.node

\* No other step does.
LEMMA StepEmpties ==
  ASSUME Sparse, IInv, [CarefulNext]_vars
  PROVE  Emptying
  <1> SUFFICES ASSUME Usable(ix), ~Usable(ix')
               PROVE  \E p \in ToSet(Leaves(ix)) :
                        numKeys(ix.node[p]) = 1 /\ p # ix.hdr.rootPage /\ p \notin DOMAIN ix'.node
    BY DEF Emptying
  <1>1. CASE Recreate
    BY <1>1, KeptNew DEF Recreate
  <1>2. CASE Open
    <2>1. bOpen = FALSE /\ ix' = OpenIndex(ix)
      BY <1>2 DEF Open, IInv, Kept
    <2>2. Kept(ix, FALSE)
      BY <2>1 DEF IInv
    <2> QED
      BY <2>1, <2>2, KeptOpen DEF Alike
  <1>3. CASE Close
    <2>1. bOpen = TRUE /\ ix' = CloseIndex(ix)
      BY <1>3 DEF Close, IInv, Kept
    <2>2. Kept(ix, TRUE)
      BY <2>1 DEF IInv
    <2> QED
      BY <2>1, <2>2, KeptClose DEF Alike
  <1>4. ASSUME NEW k \in KeyValues, NEW rid \in NewRids(k), Insert(k, rid)
        PROVE  FALSE
    <2>1. rid \in RidsOf(k)
      BY <1>4 DEF NewRids
    <2>2. Kept(ix, TRUE) /\ ix' = InsertEntry(ix, k, rid)
          /\ rid \notin {e.rid : e \in ToSet(Contents(ix))}
      <3>1. bOpen = TRUE
        BY <1>4 DEF Insert, IInv, Kept
      <3> QED
        BY <1>4, <3>1 DEF Insert, UsedRids, IInv
    <2>3. InsertKeeps(InsertEntry(ix, k, rid), ix, k, rid)
      BY <2>1, <2>2, KeptInsert
    <2> QED
      BY <2>2, <2>3 DEF InsertKeeps
  <1>5. ASSUME NEW k \in KeyValues, NEW rid \in RidsOf(k), ix.hdr.height <= 2, Delete(k, rid)
        PROVE  \E p \in ToSet(Leaves(ix)) :
                 numKeys(ix.node[p]) = 1 /\ p # ix.hdr.rootPage /\ p \notin DOMAIN ix'.node
    <2>1. Kept(ix, TRUE) /\ ix.pinned = {} /\ ix' = DeleteEntry(ix, k, rid).ix
      <3>1. bOpen = TRUE
        BY <1>5 DEF Delete, IInv, Kept
      <3> QED
        BY <1>5, <3>1 DEF Delete, Sound, IInv
    <2>2. DeleteKeeps(DeleteEntry(ix, k, rid).ix, ix, k, rid)
      BY <1>5, <2>1, KeptDelete
    <2> QED
      BY <2>1, <2>2 DEF DeleteKeeps
  <1>6. CASE UNCHANGED vars
    BY <1>6 DEF vars
  <1> QED
    BY <1>1, <1>2, <1>3, <1>4, <1>5, <1>6 DEF CarefulNext

\* Only a delete that empties a leaf below the root, which disposes of its page,
\* leaves a link to a page that is not in use.
THEOREM EmptyingBreaks ==
  ASSUME Sparse
  PROVE  CarefulSpec => OnlyEmptyingBreaks
  <1>1. IInv /\ [CarefulNext]_vars => [Emptying]_vars
    BY StepEmpties
  <1>2. CarefulSpec => [][Emptying]_vars
    BY <1>1, AlwaysKept, PTL DEF CarefulSpec
  <1> QED
    BY <1>2 DEF OnlyEmptyingBreaks, Emptying
=============================================================================

----------------------------- MODULE IndexFile -----------------------------
(***************************************************************************)
(* The operations of IX_IndexHandle as functions from an index file to an  *)
(* index file.  An index file is a record that holds the handle and the    *)
(* paged file under it:                                                    *)
(*                                                                         *)
(*   hdr         rootPage, numPages and height of the handle's header      *)
(*   hdrChanged  whether CloseIndex will write that header                 *)
(*   page0       the header in page 0                                      *)
(*   node        the node in each page that is in use                      *)
(*   free        the pages that were disposed of, the next to use first    *)
(*   pinned      pages a call has left pinned                              *)
(*                                                                         *)
(* Levels count from 0, the root.  GetNewNode on a page that is not in use *)
(* returns a null pointer that no caller checks; the operators here are    *)
(* meant for trees without such links (Usable in IndexTree).               *)
(***************************************************************************)
EXTENDS BtreeNode, SequencesExt

NewHdr   == [rootPage |-> -1, numPages |-> 1, height |-> 0]
NewIndex == [hdr |-> NewHdr, hdrChanged |-> FALSE, page0 |-> NewHdr,
             node |-> [p \in {} |-> EmptyNode], free |-> <<>>, pinned |-> {}]

\* AllocatePage takes the page disposed of last, or appends one (PageFile).
NewPage(ix) ==
  IF ix.free # <<>> THEN Head(ix.free) ELSE 1 + Cardinality(DOMAIN ix.node) + Len(ix.free)

\* Mutant: hdrChanged is not set.
AddNode_Quiet(ix, n) ==
  LET p == NewPage(ix)
  IN  [ix EXCEPT !.node = [q \in DOMAIN ix.node \cup {p} |-> IF q = p THEN n ELSE ix.node[q]],
                 !.free = IF @ = <<>> THEN @ ELSE Tail(@),
                 !.hdr.numPages = @ + 1]

\* GetNewNode of a new page, which every caller counts.
AddNode(ix, n) ==
  LET p == NewPage(ix)
  IN  [ix EXCEPT !.node = [q \in DOMAIN ix.node \cup {p} |-> IF q = p THEN n ELSE ix.node[q]],
                 !.free = IF @ = <<>> THEN @ ELSE Tail(@),
                 !.hdr.numPages = @ + 1,
                 !.hdrChanged = TRUE]

SetRoot(ix, p) == [ix EXCEPT !.hdr.rootPage = p, !.hdr.height = @ + 1]

OpenIndex(ix) ==
  LET f == [ix EXCEPT !.hdr = ix.page0]
  IN  IF f.hdr.rootPage < 0 THEN SetRoot(AddNode(f, EmptyNode), NewPage(f)) ELSE f

\* CloseFile refuses while a page is pinned, and the assertion ends the process.
CloseIndex(ix) ==
  LET h == IF ix.hdrChanged THEN ix.hdr ELSE ix.page0
  IN  [ix EXCEPT !.hdr = h, !.page0 = h, !.hdrChanged = FALSE]

----------------------------------------------------------------------------
\* The way down: the position that FindKey names or else the last one, and the
\* page of each level.
PosIn(n, k) == IF FindKey(n, k) > numKeys(n) THEN numKeys(n) ELSE FindKey(n, k)
PathPage(ix, k) ==
  LET page[i \in 0 .. ix.hdr.height - 1] ==
        IF i = 0 THEN ix.hdr.rootPage
        ELSE LET n == ix.node[page[i - 1]] IN n.entries[PosIn(n, k)].rid[1]
  IN  page

\* An inner node of the path whose keys are all below k is to bound k.
\* Mutant: it keeps its bound.
Raised_Not(n, k) == n

Raised(n, k) == IF FindKey(n, k) > numKeys(n) THEN SetKey(n, numKeys(n), k) ELSE n

Raise(ix, k) ==
  LET inner == {PathPage(ix, k)[i] : i \in 0 .. ix.hdr.height - 2}
  IN  [ix EXCEPT !.node = [p \in DOMAIN @ |-> IF p \in inner THEN Raised(@[p], k) ELSE @[p]]]

\* The entry that led to a node that was split leads to its upper half.
\* Mutant: it stays.
Redirect_Not(ix, parent, pos, q) == ix

Redirect(ix, parent, pos, q) == [ix EXCEPT !.node[parent] = SetRid(@, pos, Child(q))]

\* One turn of the loop from the leaf up, for a full node: t is the file and the
\* entry that has to go into the node on page p.  The next level gets an entry
\* for the lower half.
SplitNode(t, p, parent, pos) ==
  LET q == NewPage(t.ix)
      s == Split(t.ix.node[p], p, EmptyNode, q)
      isLower == FindKey(s.this, t.key) <= numKeys(s.this)
      this == IF isLower THEN NodeInsert(s.this, t.key, t.rid) ELSE s.this
      rhs  == IF isLower THEN s.rhs ELSE NodeInsert(s.rhs, t.key, t.rid)
      f    == [AddNode(t.ix, rhs) EXCEPT !.node[p] = this]
      root == NodeInsert(NodeInsert(EmptyNode, MaxKey(this), Child(p)), MaxKey(rhs), Child(q))
  IN  [ix  |-> IF parent = NoPage THEN SetRoot(AddNode(f, root), NewPage(f))
               ELSE Redirect(f, parent, pos, q),
       key |-> MaxKey(this), rid |-> Child(p), done |-> FALSE]

\* The turn for the page p; until then nothing changed the way down to it.
InsertStep(t, p, parent, pos) ==
  IF t.done THEN t
  ELSE IF Full(t.ix.node[p]) THEN SplitNode(t, p, parent, pos)
  ELSE [t EXCEPT !.ix.node[p] = NodeInsert(@, t.key, t.rid), !.done = TRUE]

InsertEntry(ix, k, rid) ==
  LET page == PathPage(ix, k)
      h    == ix.hdr.height
      up[i \in 0 .. h] ==   \* after the i lowest levels
        IF i = 0 THEN [ix |-> Raise(ix, k), key |-> k, rid |-> rid, done |-> FALSE]
        ELSE IF i = h THEN InsertStep(up[i - 1], page[0], NoPage, 0)
        ELSE InsertStep(up[i - 1], page[h - i], page[h - i - 1],
                        PosIn(ix.node[page[h - i - 1]], k))
  IN  up[h].ix

----------------------------------------------------------------------------
\* The pages from p on along the links of one side.
Along(ix, p, next(_)) ==
  LET at[i \in 1 .. Cardinality(DOMAIN ix.node)] ==
        IF i = 1 THEN p
        ELSE LET q == at[i - 1] IN IF q = NoPage THEN NoPage ELSE next(ix.node[q])
  IN  [i \in {j \in DOMAIN at : at[j] # NoPage} |-> at[i]]
RightFrom(ix, p) == Along(ix, p, LAMBDA n : n.right)
LeftFrom(ix, p)  == Along(ix, p, LAMBDA n : n.left)

\* The first entry with test, from a position of page p on to the right.
Search(ix, p, pos, test(_)) ==
  LET ps   == RightFrom(ix, p)
      at   == [i \in DOMAIN ps |-> {j \in DOMAIN ix.node[ps[i]].entries :
                 (i = 1 => j >= pos) /\ test(ix.node[ps[i]].entries[j])}]
      hits == {i \in DOMAIN ps : at[i] # {}}
  IN  IF hits = {} THEN [found |-> FALSE, page |-> Last(ps), passed |-> ToSet(Front(ps))]
      ELSE LET i == Min(hits)
           IN  [found |-> TRUE, page |-> ps[i], pos |-> Min(at[i]),
                passed |-> {ps[j] : j \in 1 .. i - 1}]

\* A node without entries, or an inner node, goes: its neighbours are linked.
DropNode(ix, p) ==
  LET n == ix.node[p]
      Relinked(q) ==
        LET m == ix.node[q]
        IN  [m EXCEPT !.right = IF q = n.left THEN n.right ELSE @,
                      !.left  = IF q = n.right THEN n.left ELSE @]
  IN  [ix EXCEPT !.node = [q \in DOMAIN @ \ {p} |-> Relinked(q)],
                 !.free = <<p>> \o @,
                 !.hdr.numPages = @ - 1,
                 !.hdr.height = IF n.left = NoPage /\ n.right = NoPage THEN @ - 1 ELSE @,
                 !.hdrChanged = TRUE]

\* The last entry of a node has gone: its parent bounds it by k, and so do the
\* ancestors above for as long as the path runs through their last entry.
\* Mutant: the bounds stay.
Lowered_Not(ix, page, pos, i, k) == ix

Lowered(ix, page, pos, i, k) ==
  LET last(j) == pos[j] = numKeys(ix.node[page[j]])
      levels  == {i - 1} \cup {j \in 0 .. i - 2 : \A m \in j .. i - 2 : last(m)}
  IN  [ix EXCEPT !.node = [p \in DOMAIN @ |->
         IF \E j \in levels : page[j] = p
         THEN SetKey(@[p], pos[CHOOSE j \in levels : page[j] = p], k) ELSE @[p]]]

\* One turn of the loop from the leaf up, at level i: t is the file, the path,
\* and the return code once the loop has ended.  The entry of the parent is
\* looked for to the right of where the path went down, and a parent passed on
\* the way stays pinned, for the page of the child is unpinned in its place.
\* In the parent the loop looks for the entry of the leaf, which is not there:
\* the parent of a node that goes keeps the entry for it, or goes as well.
RemoveStep(t, i, k, rid) ==
  LET s == Search(t.ix, t.page[i - 1], t.pos[i - 1], LAMBDA e : e.rid[1] = t.page[i])
      p == t.page[i]
      n == NodeRemove(t.ix.node[p], k, rid)
      left == RemoveResult(t.ix.node[p], k, rid)
      page == [t.page EXCEPT ![i - 1] = s.page]
      pos  == [t.pos EXCEPT ![i - 1] = s.pos]
      f == [t.ix EXCEPT !.node[p] = n]
      g == [t.ix EXCEPT !.pinned = @ \cup s.passed]
  IN  IF i = 0 THEN [t EXCEPT !.ix = f, !.rc = 0]
      ELSE IF ~s.found THEN [t EXCEPT !.ix.pinned = @ \cup s.passed \cup {s.page}, !.rc = 1]
      ELSE IF left # 0
      THEN [t EXCEPT !.ix = DropNode(g, p), !.page = page, !.pos = pos]
      ELSE [t EXCEPT !.ix = [IF t.pos[i] > numKeys(n) THEN Lowered(f, page, pos, i, MaxKey(n))
                             ELSE f EXCEPT !.pinned = @ \cup s.passed],
                     !.rc = 0]

\* 1 says that there is no such entry.  The search for the rid ends in the last
\* leaf and leaves it pinned.
DeleteEntry(ix, k, rid) ==
  LET page == PathPage(ix, k)
      h    == ix.hdr.height
      pos  == [i \in 0 .. h - 1 |-> FindKey(ix.node[page[i]], k)]
      s    == Search(ix, page[h - 1], pos[h - 1], LAMBDA e : e.rid = rid)
      up[i \in 0 .. h] ==   \* after the i lowest levels
        IF i = 0
        THEN [ix |-> ix, rc |-> -1, page |-> [page EXCEPT ![h - 1] = s.page],
                                    pos  |-> [pos EXCEPT ![h - 1] = s.pos]]
        ELSE LET t == up[i - 1] IN IF t.rc # -1 THEN t ELSE RemoveStep(t, h - i, k, rid)
      end  == up[h]
  IN  IF \E i \in 0 .. h - 1 : pos[i] > numKeys(ix.node[page[i]]) THEN [rc |-> 1, ix |-> ix]
      ELSE IF ~s.found THEN [rc |-> 1, ix |-> [ix EXCEPT !.pinned = @ \cup {s.page}]]
      ELSE [rc |-> end.rc, ix |-> end.ix]

----------------------------------------------------------------------------
\* A scan from OpenScan until GetNextEntry has nothing left: no caller changes
\* the index in between.  It starts where the path ends and follows the links
\* of one side; on an empty tree OpenScan fails an assertion.
Leaf(ix, v)  == PathPage(ix, v)[ix.hdr.height - 1]
Start(ix, v) == PosIn(ix.node[Leaf(ix, v)], v)
EntriesAt(ix, p)  == IF p \in DOMAIN ix.node THEN ix.node[p].entries ELSE <<>>
EntriesOf(ix, ps) == FlattenSeq([i \in DOMAIN ps |-> EntriesAt(ix, ps[i])])
Rightward(ix, v) ==
  LET es == EntriesOf(ix, RightFrom(ix, Leaf(ix, v)))
  IN  SubSeq(es, Start(ix, v), Len(es))
Leftward(ix, v) ==
  LET es    == EntriesOf(ix, Reverse(LeftFrom(ix, Leaf(ix, v))))
      after == numKeys(ix.node[Leaf(ix, v)]) - Start(ix, v)
  IN  Reverse(SubSeq(es, 1, Len(es) - after))

\* "=" skips the smaller keys and returns what it meets then, whether or not it
\* is v; a later call ends the scan on a key above v.
Equal(es, v) ==
  LET end == Min({i \in DOMAIN es : es[i].key > v} \cup {Len(es) + 1})
      stray == end \in 2 .. Len(es) /\ es[end - 1].key < v
  IN  SelectSeq(SubSeq(es, 1, end - 1), LAMBDA e : e.key = v)
        \o IF stray THEN <<es[end]>> ELSE <<>>

Scan(ix, op, v) ==
  LET es == CASE op = "EQ" -> Equal(Rightward(ix, v), v)
              [] op = "GE" -> SelectSeq(Rightward(ix, v), LAMBDA e : e.key >= v)
              [] op = "GT" -> SelectSeq(Rightward(ix, v), LAMBDA e : e.key > v)
              [] op = "LT" -> SelectSeq(Leftward(ix, v), LAMBDA e : e.key < v)
              [] op = "LE" -> SelectSeq(Leftward(ix, v), LAMBDA e : e.key <= v)
  IN  [i \in DOMAIN es |-> es[i].rid]
=============================================================================

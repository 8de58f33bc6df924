------------------------------ MODULE IndexMgr ------------------------------
(***************************************************************************)
(* IX_IndexHandle as a state machine: one index file through creation,     *)
(* opening, inserts, deletes and closing, in any order a caller may use.   *)
(*                                                                         *)
(* Record ids are only compared for equality, so an entry gets the first   *)
(* one that no entry with its key has.                                     *)
(***************************************************************************)
EXTENDS IndexTree

CONSTANT MaxEntries    \* bound: entries of the index

ASSUME IndexMgrAssumption == MaxEntries \in Nat

VARIABLES
  ix,      \* the index file
  bOpen

vars == <<ix, bOpen>>

Init == ix = NewIndex /\ bOpen = FALSE

UsedRids == {e.rid : e \in ToSet(Contents(ix))}

\* A call on a tree that is not usable goes through a null pointer or takes a
\* reused page for another: what it does is not modelled.
Sound == Usable(ix) /\ ix.pinned = {}

----------------------------------------------------------------------------
\* DestroyIXFile and CreateIXFile again, as ClearTable does; also by the next
\* process, when the session has ended in the assertion of CloseIndex.
Recreate ==
  /\ bOpen => ix.pinned # {}
  /\ ix' = NewIndex /\ bOpen' = FALSE

Open  == ~bOpen /\ ix' = OpenIndex(ix) /\ bOpen' = TRUE
Close == bOpen /\ ix.pinned = {} /\ ix' = CloseIndex(ix) /\ bOpen' = FALSE

Insert(k, rid) ==
  /\ bOpen /\ Sound
  /\ rid \notin UsedRids
  /\ Cardinality(UsedRids) < MaxEntries
  /\ ix' = InsertEntry(ix, k, rid)
  /\ UNCHANGED bOpen

\* UpdateEntry deletes the key of a NULL, for which there is no entry.
Delete(k, rid) ==
  /\ bOpen /\ Sound
  /\ ix' = DeleteEntry(ix, k, rid).ix
  /\ UNCHANGED bOpen

NewRids(k) == {rid \in RidsOf(k) \ UsedRids : \A r \in RidsOf(k) \ UsedRids : rid[2] <= r[2]}

Next ==
  \/ Recreate
  \/ Open
  \/ Close
  \/ \E k \in KeyValues :
       \/ \E rid \in NewRids(k) : Insert(k, rid)
       \/ \E rid \in RidsOf(k) : Delete(k, rid)

Spec == Init /\ [][Next]_vars

\* A session that deletes only while the tree has two levels: in a taller one
\* DeleteEntry gives the grandparent of a leaf a wrong bound (Lowered).
CarefulNext ==
  \/ Recreate
  \/ Open
  \/ Close
  \/ \E k \in KeyValues :
       \/ \E rid \in NewRids(k) : Insert(k, rid)
       \/ \E rid \in RidsOf(k) : ix.hdr.height <= 2 /\ Delete(k, rid)

CarefulSpec == Init /\ [][CarefulNext]_vars

----------------------------------------------------------------------------
\* Nodes hold at most GetMaxKeys() entries, each with a key of the column and
\* the id of a record or a page, and a page that is in use is not free.
TypeOK ==
  /\ bOpen \in BOOLEAN /\ ix.hdrChanged \in BOOLEAN
  /\ DOMAIN ix.node \cup ToSet(ix.free) = 1 .. Cardinality(DOMAIN ix.node) + Len(ix.free)
  /\ ix.pinned \subseteq DOMAIN ix.node
  /\ \A p \in DOMAIN ix.node :
       /\ numKeys(ix.node[p]) <= MaxKeys
       /\ \A i \in 1 .. numKeys(ix.node[p]) :
            /\ ix.node[p].entries[i].key \in KeyValues
            /\ ix.node[p].entries[i].rid \in Nat \X (Nat \cup {-1})

\* The tree reaches each page in use exactly once, through as many levels as the
\* header says, also after it was closed and opened; each inner key is the
\* largest key under its child: a smaller one hides entries from DeleteEntry, a
\* larger one sends a scan for it to entries that do not match.
TreeExact ==
  bOpen /\ Usable(ix) =>
    LET levels == 0 .. ix.hdr.height - 1
        nodes(i) == ToSet(Level(ix)[i])
    IN  /\ UNION {nodes(i) : i \in levels} = DOMAIN ix.node
        /\ \A i \in levels : IsInjective(Level(ix)[i])
        /\ \A i, j \in levels : i # j => nodes(i) \cap nodes(j) = {}
        /\ ix.hdr.numPages = 1 + Cardinality(DOMAIN ix.node)
        /\ \A i \in levels \ {ix.hdr.height - 1} : \A p \in nodes(i) :
             \A e \in ToSet(ix.node[p].entries) : e.key = MaxKey(ix.node[e.rid[1]])

\* The right links of a level lead through its nodes in the order of the tree,
\* the keys of the leaves ascend, and a left link names some node further left.
LeavesChained ==
  bOpen /\ Usable(ix) =>
    /\ \A i \in 0 .. ix.hdr.height - 1 :
         LET ps == Level(ix)[i]
         IN  /\ RightFrom(ix, Head(ps)) = ps
             /\ ix.node[Head(ps)].left = NoPage
             /\ \A j \in 2 .. Len(ps) : \E l \in 1 .. j - 1 : ix.node[ps[j]].left = ps[l]
    /\ LET es == Contents(ix) IN \A i, j \in DOMAIN es : i < j => es[i].key <= es[j].key

Sorted == INSTANCE SortedIndex

\* "return 0 if success" (DeleteEntry): every entry can be deleted, and then no
\* page of the path stays pinned, so that the index can be closed.
DeletesSucceed ==
  bOpen /\ Sound /\ ix.hdr.height <= 2 =>
    \A e \in ToSet(Contents(ix)) :
      LET r == DeleteEntry(ix, e.key, e.rid) IN r.rc = 0 /\ r.ix.pinned = {}

\* An insert adds one entry, where an index of one leaf would have it, whatever
\* splits; a delete takes one entry out or leaves all as it was; nothing else
\* changes an entry.
ActsAsSortedIndex ==
  [][/\ \A k \in KeyValues : \A rid \in RidsOf(k) :
          /\ Insert(k, rid) => Contents(ix') = Sorted!InsertEntry(Contents(ix), k, rid)
          /\ ix.hdr.height <= 2 /\ Delete(k, rid) /\ Usable(ix') =>
               Contents(ix') = Sorted!DeleteEntry(Contents(ix), k, rid)
     /\ Open \/ Close => Contents(ix') = Contents(ix)]_vars

\* Only a delete of the last entry of a leaf below the root leaves the tree with
\* an entry for a page that was disposed of: no split does, and no other delete.
OnlyEmptyingBreaks ==
  [][Usable(ix) /\ ~Usable(ix') =>
       \E p \in ToSet(Leaves(ix)) :
         numKeys(ix.node[p]) = 1 /\ p # ix.hdr.rootPage /\ p \notin DOMAIN ix'.node]_vars
=============================================================================

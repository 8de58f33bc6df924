----------------------------- MODULE BtreeNode -----------------------------
(***************************************************************************)
(* BtreeNode: a page of the tree as arrays of keys and of rids, sorted by  *)
(* key, with the pages of its left and right neighbours.  In a leaf the    *)
(* rid is that of a record; in an inner node it is <<child, -1>>, and the  *)
(* key bounds the keys under the child.  The page of a node is the index   *)
(* under which IndexFile keeps it.  Merge is called by nobody.             *)
(***************************************************************************)
EXTENDS Integers, Sequences

CONSTANT MaxKeys   \* GetMaxKeys()

\* The constructor's division, for a page of pageSize and keys of attrLength
\* bytes: an rid takes 8 bytes, numKeys and the two links 12.
MaxKeysOf(pageSize, attrLength) == (pageSize - 12) \div (8 + attrLength)

ASSUME NodeAssumption == MaxKeys \in Nat /\ MaxKeys >= 2

NoPage == -1

Entry(k, rid) == [key |-> k, rid |-> rid]
Child(p)      == <<p, -1>>
EmptyNode     == [entries |-> <<>>, left |-> NoPage, right |-> NoPage]

numKeys(n)    == Len(n.entries)
MaxKey(n)     == n.entries[numKeys(n)].key
\* Mutant: > for >=.
Full_Late(n) == numKeys(n) > MaxKeys

Full(n) == numKeys(n) >= MaxKeys

SetKey(n, pos, k)   == [n EXCEPT !.entries[pos] = Entry(k, @.rid)]
SetRid(n, pos, rid) == [n EXCEPT !.entries[pos] = Entry(@.key, rid)]

----------------------------------------------------------------------------
\* Positions count from 1; numKeys + 1 says that every key is below k.
\* Mutant: < 0 for <= 0.
FindKey_Past(n, k) ==
  CHOOSE pos \in 1 .. numKeys(n) + 1 :
    /\ pos <= numKeys(n) => n.entries[pos].key > k
    /\ \A q \in 1 .. pos - 1 : n.entries[q].key <= k

FindKey(n, k) ==
  CHOOSE pos \in 1 .. numKeys(n) + 1 :
    /\ pos <= numKeys(n) => n.entries[pos].key >= k
    /\ \A q \in 1 .. pos - 1 : n.entries[q].key < k

Inserted(es, pos, e) ==
  [i \in 1 .. Len(es) + 1 |-> IF i < pos THEN es[i] ELSE IF i = pos THEN e ELSE es[i - 1]]
Removed(es, pos) ==
  [i \in 1 .. Len(es) - 1 |-> IF i < pos THEN es[i] ELSE es[i + 1]]

\* A full node refuses (-1).
NodeInsert(n, k, rid) ==
  IF Full(n) THEN n
  ELSE [n EXCEPT !.entries = Inserted(@, FindKey(n, k), Entry(k, rid))]

\* Remove looks for the rid from the key's position on, whatever the keys are:
\* 0 when a key is left, -1 when none is, -2 when the rid is not there.
RidFrom(n, k, rid) == {pos \in FindKey(n, k) .. numKeys(n) : n.entries[pos].rid = rid}
\* Mutant: a node with one key left counts as empty.
RemoveResult_Early(n, k, rid) ==
  IF RidFrom(n, k, rid) = {} THEN -2 ELSE IF numKeys(n) <= 2 THEN -1 ELSE 0

RemoveResult(n, k, rid) ==
  IF RidFrom(n, k, rid) = {} THEN -2 ELSE IF numKeys(n) = 1 THEN -1 ELSE 0

NodeRemove(n, k, rid) ==
  LET at == RidFrom(n, k, rid)
  IN  IF at = {} THEN n
      ELSE [n EXCEPT !.entries = Removed(@, CHOOSE pos \in at : \A q \in at : pos <= q)]

----------------------------------------------------------------------------
\* A full node moves its upper half behind what rhs holds, which becomes its
\* right neighbour.  The node that was there keeps its left link.
StMovedPos(n) == (numKeys(n) + 1) \div 2

CanSplit(n, rhs) == Full(n) /\ numKeys(rhs) + numKeys(n) - StMovedPos(n) <= MaxKeys

\* Mutant: the moved entries start one further right.
Lower_Drops(n, rhsPage) ==
  [n EXCEPT !.entries = SubSeq(@, 1, StMovedPos(n) - 1), !.right = rhsPage]

Lower(n, rhsPage) ==
  [n EXCEPT !.entries = SubSeq(@, 1, StMovedPos(n)), !.right = rhsPage]

\* Mutant: the right link of the node is lost.
Upper_Ends(n, page, rhs) ==
  [entries |-> rhs.entries \o SubSeq(n.entries, StMovedPos(n) + 1, numKeys(n)),
   left    |-> page,
   right   |-> NoPage]

Upper(n, page, rhs) ==
  [entries |-> rhs.entries \o SubSeq(n.entries, StMovedPos(n) + 1, numKeys(n)),
   left    |-> page,
   right   |-> n.right]

\* Split, from the node on page into rhs on rhsPage.
Split(n, page, rhs, rhsPage) ==
  IF CanSplit(n, rhs)
  THEN [this |-> Lower(n, rhsPage), rhs |-> Upper(n, page, rhs)]
  ELSE [this |-> n, rhs |-> rhs]
=============================================================================

---------------------------- MODULE SortedIndex ----------------------------
(***************************************************************************)
(* An index as its users see it while the tree is one leaf (GetMaxKeys()   *)
(* is 340 for keys of four bytes): a sequence of entries, each a key and   *)
(* the rid it was inserted with, and the changes that the functions of     *)
(* BtreeNode and IX_IndexHandle make to it.  Its scans are in SortedScan.  *)
(***************************************************************************)
EXTENDS Integers, Sequences

Entry(k, rid)  == [key |-> k, rid |-> rid]
Entries(ix)    == {ix[i] : i \in DOMAIN ix}

----------------------------------------------------------------------------
\* FindKey: the leftmost position whose key is not below k, or one past the end.
\* Mutant: < 0 for <= 0.
FindKey_Past(ix, k) ==
  CHOOSE i \in 1 .. Len(ix) + 1 :
    (i = Len(ix) + 1 \/ ix[i].key > k) /\ \A j \in 1 .. i - 1 : ix[j].key <= k

FindKey(ix, k) ==
  CHOOSE i \in 1 .. Len(ix) + 1 :
    (i = Len(ix) + 1 \/ ix[i].key >= k) /\ \A j \in 1 .. i - 1 : ix[j].key < k

\* A new entry goes before the entries of the same key.
\* Mutant: entries are appended.
InsertEntry_Append(ix, k, rid) == Append(ix, Entry(k, rid))

InsertEntry(ix, k, rid) ==
  LET pos == FindKey(ix, k)
  IN  SubSeq(ix, 1, pos - 1) \o <<Entry(k, rid)>> \o SubSeq(ix, pos, Len(ix))

Without(ix, pos) == SubSeq(ix, 1, pos - 1) \o SubSeq(ix, pos + 1, Len(ix))

\* DeleteEntry looks for the rid from that position on, whatever the keys are.
\* When it is not there the result is 1, and the leaf stays pinned unless no
\* key was as large as k: CloseIndex then fails an assertion.
From(ix, k, rid) == {i \in FindKey(ix, k) .. Len(ix) : ix[i].rid = rid}
LeavesPinned(ix, k, rid) == From(ix, k, rid) = {} /\ FindKey(ix, k) <= Len(ix)
\* Mutant: the first entry with the key goes, not the one with the rid.
DeleteEntry_ByKey(ix, k, rid) ==
  IF From(ix, k, rid) = {} THEN ix ELSE Without(ix, FindKey(ix, k))

DeleteEntry(ix, k, rid) ==
  IF From(ix, k, rid) = {} THEN ix
  ELSE Without(ix, CHOOSE i \in From(ix, k, rid) : \A j \in From(ix, k, rid) : i <= j)
=============================================================================

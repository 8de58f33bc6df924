----------------------------- MODULE IndexScans -----------------------------
(***************************************************************************)
(* What whole scans of an index return, whatever IndexMgr has done to its  *)
(* tree, against the same scans of one sorted leaf.                        *)
(***************************************************************************)
EXTENDS IndexMgr

OneLeaf == INSTANCE SortedScan

\* A scan to the right returns what it would on an index of one leaf: each
\* entry that compares as asked, once, in order, across any number of leaves.
RightScansExact ==
  bOpen /\ Sound /\ Contents(ix) # <<>> =>
    \A op \in {"EQ", "GE", "GT"}, v \in KeyValues :
      Scan(ix, op, v) = OneLeaf!Scan(Contents(ix), op, v)

\* A scan to the left returns no entry that does not compare as asked and none
\* twice; it returns all that an index of one leaf would as long as no leaf was
\* split that had a right neighbour, for that one keeps its left link (Split).
Mirrored(f) == LeftFrom(f, Last(Leaves(f))) = Reverse(Leaves(f))
LeftScansFollowLinks ==
  bOpen /\ Sound /\ Contents(ix) # <<>> =>
    \A op \in {"LT", "LE"}, v \in KeyValues :
      LET rids == Scan(ix, op, v)
          all  == OneLeaf!Scan(Contents(ix), op, v)
      IN  /\ ToSet(rids) \subseteq ToSet(all) /\ IsInjective(rids)
          /\ Mirrored(ix) => rids = all

\* "write the RID of those entries which satisfy given condition" (SelectEntry):
\* "=" finds every entry with the key.
EqualKeysFound ==
  bOpen /\ Sound /\ Contents(ix) # <<>> =>
    \A v \in KeyValues : ToSet(Scan(ix, "EQ", v)) = {e.rid : e \in {x \in ToSet(Contents(ix)) : x.key = v}}
=============================================================================

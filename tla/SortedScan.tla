----------------------------- MODULE SortedScan -----------------------------
(***************************************************************************)
(* The scans of an index that is one leaf, from IX_IndexHandle::OpenScan   *)
(* to the last GetNextEntry, as SelectEntry runs them.                     *)
(***************************************************************************)
EXTENDS SortedIndex, SequencesExt

\* What a scan returns, in its order.  OpenScan starts at FindKey, or at the
\* last entry when every key is below v (it fails an assertion on an empty
\* index); "=" and the upward comparisons move right, the others left.  "<="
\* therefore meets only the first of several entries with the key v.
\* "!=" is not implemented: GetNextEntry returns the first entry for ever.
Start(ix, v) == IF FindKey(ix, v) > Len(ix) THEN Len(ix) ELSE FindKey(ix, v)
Rightward(ix, v) == SubSeq(ix, Start(ix, v), Len(ix))
Leftward(ix, v)  == Reverse(SubSeq(ix, 1, Start(ix, v)))

Satisfies(k, op, v) ==
  CASE op = "EQ" -> k = v [] op = "GE" -> k >= v [] op = "GT" -> k > v
    [] op = "LT" -> k < v [] op = "LE" -> k <= v
Taken(got, e, op, v) == IF Satisfies(e.key, op, v) THEN Append(got, e) ELSE got

GetNextEntry(ix, op, v) ==
  FoldLeft(LAMBDA got, e : Taken(got, e, op, v), <<>>,
           IF op \in {"LT", "LE"} THEN Leftward(ix, v) ELSE Rightward(ix, v))

RidsOf(es) == [i \in DOMAIN es |-> es[i].rid]
Scan(ix, op, v) == RidsOf(GetNextEntry(ix, op, v))
=============================================================================

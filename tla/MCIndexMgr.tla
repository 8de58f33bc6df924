----------------------------- MODULE MCIndexMgr -----------------------------
(***************************************************************************)
(* IndexMgr with three keys to a node, as a column of strings of 1024      *)
(* bytes has.  Eight entries make three levels, and fewer do where deletes *)
(* have thinned out the leaves.                                            *)
(***************************************************************************)
EXTENDS IndexScans

MCKeys == 1 .. 6

\* One key twice: fewer entries precede its second copy than fill a leaf, so it
\* is never the largest key of a full one.
OneTwice == [k \in KeyValues |-> IF k = 2 THEN 2 ELSE 1]

\* As many equal entries as half a node and one.
AllTwice == [k \in KeyValues |-> 2]

ASSUME MaxSame = OneTwice => Sparse

ASSUME MaxKeysOf(4092, 1024) = 3 /\ MaxKeysOf(4092, 4) = 340
=============================================================================

----------------------------- MODULE IndexTree -----------------------------
(***************************************************************************)
(* What an index file holds: its pages by levels, as the links down from   *)
(* the root reach them, the entries of the leaves, and the record ids that *)
(* entries have.  The operations are in IndexFile.                         *)
(***************************************************************************)
EXTENDS IndexFile

CONSTANTS
  KeyValues,    \* what a column can hold
  MaxSame       \* bound: entries with the same key, by key

ASSUME IndexTreeAssumption == KeyValues \subseteq Nat /\ MaxSame \in [KeyValues -> Nat \ {0}]

\* The tree by levels, from the left to the right.
Children(f, p) == [i \in DOMAIN EntriesAt(f, p) |-> EntriesAt(f, p)[i].rid[1]]
Below(f, ps) == FlattenSeq([j \in DOMAIN ps |-> Children(f, ps[j])])
Level(f) ==
  LET at[i \in 0 .. f.hdr.height - 1] ==
        IF i = 0 THEN <<f.hdr.rootPage>> ELSE Below(f, at[i - 1])
  IN  at
Leaves(f)   == Level(f)[f.hdr.height - 1]
Contents(f) == IF f.hdr.height = 0 THEN <<>> ELSE EntriesOf(f, Leaves(f))

\* Inner nodes lead to nodes and leaves to records.
IsLink(f, e) == e.rid[2] = -1 /\ e.rid[1] \in DOMAIN f.node
Usable(f) ==
  \A i \in 0 .. f.hdr.height - 1 :
    \A p \in ToSet(Level(f)[i]) :
      /\ p \in DOMAIN f.node
      /\ \A e \in ToSet(f.node[p].entries) :
           IF i < f.hdr.height - 1 THEN IsLink(f, e) ELSE e.rid[2] # -1

----------------------------------------------------------------------------
\* The record ids that entries with the key k can have.
RidsOf(k) == {<<k, n>> : n \in 0 .. MaxSame[k] - 1}

\* Keys that do not repeat much: the entries with one key are no more than half a
\* node, or than half and one when all entries up to them fit into one node.  A
\* key with more can be split between two leaves (MCIndexSame), and then the
\* inner key of the left one is not above the next, as the descent expects.
RidsUpTo(k) == UNION {RidsOf(j) : j \in {l \in KeyValues : l <= k}}
Sparse ==
  \A k \in KeyValues :
    /\ MaxSame[k] <= (MaxKeys + 1) \div 2
    /\ MaxSame[k] <= MaxKeys \div 2 \/ Cardinality(RidsUpTo(k)) <= MaxKeys
=============================================================================

----------------------------- MODULE HashTable -----------------------------
(***************************************************************************)
(* PF_HashTable: an array of buckets, each a chain of entries.  A key is a *)
(* pair <<fd, pageNum>>; pages of the file have its descriptor, blocks of  *)
(* memory have descriptor -1 (MEMORY_FD in the buffer manager).  The code  *)
(* computes the bucket with the % of C, which is negative for a negative   *)
(* sum; only Find looks at the sign.  Insert and Delete index the array    *)
(* with what they get: they are meant for keys whose bucket exists.        *)
(***************************************************************************)
EXTENDS Integers, Sequences, SequencesExt

CONSTANT NumBuckets   \* numBuckets

ASSUME NumBucketsAssumption == NumBuckets \in Nat \ {0}

HASHNOTFOUND == -1
Buckets == 0 .. NumBuckets - 1

NewTable == [b \in Buckets |-> <<>>]

\* The remainder of C has the sign of the dividend.
Remainder(a, n) == IF a >= 0 THEN a % n ELSE -((-a) % n)
Hash(k) == Remainder(k[1] + k[2], NumBuckets)

\* The place of key k in its chain, 0 when it is not there.
IndexIn(chain, k) == SelectInSeq(chain, LAMBDA e : e.key = k)

Find(table, k) ==
  LET b == Hash(k)
  IN  IF b < 0 \/ IndexIn(table[b], k) = 0
      THEN HASHNOTFOUND
      ELSE table[b][IndexIn(table[b], k)].slot

HashInsert(table, k, s) ==
  IF IndexIn(table[Hash(k)], k) # 0 THEN table
  ELSE [table EXCEPT ![Hash(k)] = <<[key |-> k, slot |-> s]>> \o @]

\* Mutant: what follows the entry in the chain goes with it.
HashDelete_Tail(table, k) ==
  IF IndexIn(table[Hash(k)], k) = 0 THEN table
  ELSE [table EXCEPT ![Hash(k)] = SubSeq(@, 1, IndexIn(@, k) - 1)]

HashDelete(table, k) ==
  IF IndexIn(table[Hash(k)], k) = 0 THEN table
  ELSE [table EXCEPT ![Hash(k)] = RemoveAt(@, IndexIn(@, k))]
=============================================================================

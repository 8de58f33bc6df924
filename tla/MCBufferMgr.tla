---------------------------- MODULE MCBufferMgr ----------------------------
(***************************************************************************)
(* BufferMgr on a small instance: two pages and up to three memory blocks  *)
(* compete for three slots, so that a miss must evict, and may find every  *)
(* slot pinned.                                                            *)
(***************************************************************************)
EXTENDS BufferMgr, TLC

CONSTANTS zero, d1   \* page contents

MCData  == {zero, d1}
MCTorn  == {d1}
SlotSymmetry == Permutations(Slots)
=============================================================================

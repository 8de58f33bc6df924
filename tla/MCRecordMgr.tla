---------------------------- MODULE MCRecordMgr ----------------------------
(***************************************************************************)
(* RecordMgr with three pages of two slots and two values: a chain can be  *)
(* broken, rejoined and left behind by a stale header.                     *)
(***************************************************************************)
EXTENDS RecordMgr

CONSTANTS null, v1

MCVals == {null, v1}
=============================================================================

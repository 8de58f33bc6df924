------------------------------ MODULE HeapFile ------------------------------
(***************************************************************************)
(* What RM_FileHandle promises: a file is a set of records, each under the *)
(* record id it was given when it was inserted.  An insert never takes an  *)
(* id that is in use, an operation touches no record but its own, and      *)
(* closing and opening the file changes nothing.                           *)
(***************************************************************************)
CONSTANTS Rids, Vals

VARIABLES
  records,   \* the record under each id
  open       \* whether the file is open

vars == <<records, open>>

NoRecords == [rid \in {} |-> {}]

Init == records = NoRecords /\ open = FALSE

Open  == ~open /\ open' = TRUE /\ UNCHANGED records
Close == open /\ open' = FALSE /\ UNCHANGED records
Reset == ~open /\ records' = NoRecords /\ UNCHANGED open

Insert(rid, v) ==
  /\ open
  /\ rid \notin DOMAIN records
  /\ records' = [r \in DOMAIN records \cup {rid} |-> IF r = rid THEN v ELSE records[r]]
  /\ UNCHANGED open

Delete(rid) ==
  /\ open
  /\ rid \in DOMAIN records
  /\ records' = [r \in DOMAIN records \ {rid} |-> records[r]]
  /\ UNCHANGED open

Update(rid, v) ==
  /\ open
  /\ rid \in DOMAIN records
  /\ records' = [records EXCEPT ![rid] = v]
  /\ UNCHANGED open

Next ==
  \/ Open
  \/ Close
  \/ Reset
  \/ \E rid \in Rids : Delete(rid) \/ \E v \in Vals : Insert(rid, v) \/ Update(rid, v)

Spec == Init /\ [][Next]_vars
=============================================================================

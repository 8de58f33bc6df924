------------------------------ MODULE MCTable ------------------------------
(***************************************************************************)
(* Table with two columns that a statement may fill, drop, add or rename.  *)
(***************************************************************************)
EXTENDS Table

CONSTANTS a, b

MCColumns == {a, b}
MCSchemas == {<<a, b>>, <<a>>}
MCVals    == 0 .. 2

\* Records of equal length, and of lengths whose pages differ in slots: as
\* GetNumSlots has it for an int and for a string of 20 bytes.
OneSlot   == [c \in MCColumns |-> 1]
OneAndTwo == [c \in MCColumns |-> IF c = a THEN 1 ELSE 2]

ASSUME GetNumSlots(4) < GetNumSlots(20)
=============================================================================

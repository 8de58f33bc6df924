------------------------------ MODULE Schemas ------------------------------
(***************************************************************************)
(* What the statements about whole tables promise: a database holds tables *)
(* by name, each with its columns and a number of rows, and a statement    *)
(* happens at once or not at all.                                          *)
(***************************************************************************)
EXTENDS Integers, Sequences, SequencesExt

CONSTANTS
  Tables,      \* names of tables
  Cols,        \* names of columns
  ColumnLists  \* what a table can be created with

VARIABLE tables   \* the tables there are

vars == <<tables>>

Init == tables = [t \in {} |-> <<>>]

Named == DOMAIN tables
With(t, table) == [u \in Named \cup {t} |-> IF u = t THEN table ELSE tables[u]]

CreateTable(t, cols) == t \notin Named /\ tables' = With(t, [cols |-> cols, rows |-> 0])

DropTable(t) == tables' = [u \in Named \ {t} |-> tables[u]]

ClearTable(t) == tables' = With(t, [tables[t] EXCEPT !.rows = 0])

RenameTable(t, n) ==
  /\ n \notin Named
  /\ tables' = [u \in (Named \ {t}) \cup {n} |-> IF u = n THEN tables[t] ELSE tables[u]]

AddColumn(t, c) ==
  /\ tables[t].cols # <<>>
  /\ ~Contains(tables[t].cols, c)
  /\ tables' = With(t, [tables[t] EXCEPT !.cols = Append(@, c)])

\* A table without columns has no rows.
DropColumn(t, c) ==
  /\ Contains(tables[t].cols, c)
  /\ tables' = With(t, [cols |-> Remove(tables[t].cols, c),
                        rows |-> IF Len(tables[t].cols) = 1 THEN 0 ELSE tables[t].rows])

RenameColumn(t, c, n) ==
  /\ Contains(tables[t].cols, c) /\ ~Contains(tables[t].cols, n)
  /\ tables' = With(t, [tables[t] EXCEPT !.cols = [i \in DOMAIN @ |-> IF @[i] = c THEN n ELSE @[i]]])

Insert(t) == tables[t].cols # <<>> /\ tables' = With(t, [tables[t] EXCEPT !.rows = @ + 1])

Next ==
  \/ \E t \in Tables, cols \in ColumnLists : CreateTable(t, cols)
  \/ \E t \in Named :
       \/ DropTable(t) \/ ClearTable(t) \/ Insert(t)
       \/ \E n \in Tables : RenameTable(t, n)
       \/ \E c \in Cols : AddColumn(t, c) \/ DropColumn(t, c) \/ \E n \in Cols : RenameColumn(t, c, n)

Spec == Init /\ [][Next]_vars
=============================================================================

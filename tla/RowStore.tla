----------------------------- MODULE RowStore ------------------------------
(***************************************************************************)
(* What the statements promise: a table is a set of rows, each a value for *)
(* every column.  A statement with a where clause touches the rows whose   *)
(* value in the named column compares as asked, NULL never does, and no    *)
(* statement takes effect in part.                                         *)
(***************************************************************************)
EXTENDS Integers

CONSTANTS
  Rids,      \* identities of rows
  Columns,
  Schemas,   \* column lists a table may be created with, as sets
  Values,    \* what a statement may store and compare with
  Null,
  Ops        \* comparison operators of a where clause

VARIABLES cols, rows
vars == <<cols, rows>>

NoRows == [r \in {} |-> {}]

Compares(x, op, v) ==
  /\ x # Null
  /\ \/ op = "=" /\ x = v
     \/ op = "<" /\ x < v
     \/ op = "<=" /\ x <= v
     \/ op = ">" /\ x > v
     \/ op = ">=" /\ x >= v

\* The sets of rows that a where clause may name.
Selections ==
  LET t == rows
  IN  {{r \in DOMAIN t : Compares(t[r][c], op, v)} : c \in cols, op \in Ops, v \in Values}

\* The columns and values a statement names.
Partial == UNION {[S -> Values] : S \in SUBSET Columns}
Over(row, e) == [c \in cols |-> IF c \in DOMAIN e THEN e[c] ELSE row[c]]

Init == cols \in Schemas /\ rows = NoRows

Recreate(S) == cols' = S /\ rows' = NoRows

Insert(e) ==
  /\ DOMAIN e \subseteq cols
  /\ \E r \in Rids \ DOMAIN rows :
       rows' = [q \in DOMAIN rows \cup {r} |->
                  IF q = r THEN Over([c \in cols |-> Null], e) ELSE rows[q]]
  /\ UNCHANGED cols

Delete(W) ==
  /\ rows' = [r \in DOMAIN rows \ W |-> rows[r]]
  /\ UNCHANGED cols

Update(W, e) ==
  /\ DOMAIN e \subseteq cols
  /\ rows' = [r \in DOMAIN rows |-> IF r \in W THEN Over(rows[r], e) ELSE rows[r]]
  /\ UNCHANGED cols

AddColumn(c) ==
  /\ c \notin cols
  /\ cols' = cols \cup {c}
  /\ rows' = [r \in DOMAIN rows |-> [d \in cols' |-> IF d = c THEN Null ELSE rows[r][d]]]

DropColumn(c) ==
  /\ c \in cols
  /\ cols' = cols \ {c}
  /\ rows' = [r \in DOMAIN rows |-> [d \in cols' |-> rows[r][d]]]

RenameColumn(c, n) ==
  /\ c \in cols /\ n \notin cols
  /\ cols' = (cols \ {c}) \cup {n}
  /\ rows' = [r \in DOMAIN rows |-> [d \in cols' |-> rows[r][IF d = n THEN c ELSE d]]]

Next ==
  \/ \E S \in Schemas : Recreate(S)
  \/ \E e \in Partial : Insert(e)
  \/ \E W \in Selections : Delete(W) \/ \E e \in Partial : Update(W, e)
  \/ \E c \in Columns :
       AddColumn(c) \/ DropColumn(c) \/ \E n \in Columns : RenameColumn(c, n)

Spec == Init /\ [][Next]_vars
=============================================================================

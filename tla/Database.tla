------------------------------ MODULE Database ------------------------------
(***************************************************************************)
(* The statements about the tables of one database, file operation by file *)
(* operation, in a session that can end between any two of them: the       *)
(* process is killed, or an assertion ends it.  The code has no recovery   *)
(* and keeps no record of what was under way; what a user has is the same  *)
(* statements again.  Repair is what such a user does in the sessions that *)
(* follow, each of which can end like the first.                           *)
(*                                                                         *)
(* The session is careful: it gives no name that is in use, no column      *)
(* twice, adds no column to a table without any, and neither adds a column *)
(* nor a row to a table whose columns do not all count their records.      *)
(***************************************************************************)
EXTENDS TableFiles

CONSTANTS
  Tables,    \* names of tables
  Cols,      \* names of columns
  MaxCols,   \* bound: columns in a CREATE TABLE
  MaxRows,   \* bound: rows of all tables
  MaxTries   \* bound: statements a repair takes while no session ends in it

ASSUME DatabaseAssumption == MaxCols \in Nat /\ MaxRows \in Nat /\ MaxTries \in Nat \ {0}

\* A column has one name in its table.
ColumnLists == {cols \in SeqOf(Cols, MaxCols) : IsInjective(cols)}

VARIABLES
  dir,      \* the files of the directory and what they hold
  todo,     \* what is left of the statement under way
  stmt,     \* that statement, or the one the last session died in, or None
  before,   \* history: the directory when that statement started
  died,     \* a session ended in that statement, and the repair is not over
  tries     \* statements of the repair since a session last ended

vars == <<dir, todo, stmt, before, died, tries>>

Init ==
  /\ dir = Nothing /\ todo = <<>> /\ stmt = None /\ before = Nothing
  /\ died = FALSE /\ tries = 0

----------------------------------------------------------------------------
\* What is in the directory, seen as tables; a file that is missing as an empty
\* column.
TablesIn(d) == {t \in Tables : valid(d, t)}
Column(d, t, c) == IF Data(t, c) \in DOMAIN d THEN d[Data(t, c)] ELSE NoRecs
Rows(d, t)  == IF Columns(d, t) = <<>> THEN 0 ELSE Column(d, t, Head(Columns(d, t))).recs
Abs(d)      == [t \in TablesIn(d) |-> [cols |-> Columns(d, t), rows |-> Rows(d, t)]]
Counted(d, t) ==
  \A c \in ToSet(Columns(d, t)) : Column(d, t, c).counted = Column(d, t, c).recs
Intact(d)   ==
  /\ DOMAIN d = UNION {{Scm(t)} \cup UNION {{Data(t, c), Index(t, c)} : c \in ToSet(Columns(d, t))} :
                         t \in TablesIn(d)}
  /\ \A t \in TablesIn(d) :
       /\ IsInjective(Columns(d, t))
       /\ \A c \in ToSet(Columns(d, t)) : Column(d, t, c).recs = Rows(d, t)

\* A whole statement, up to the first operation that fails.
RECURSIVE Run(_, _)
Run(d, calls) ==
  IF calls = <<>> THEN d
  ELSE IF Head(calls) = {} THEN Run(d, Tail(calls))
  ELSE LET c == CHOOSE c \in Head(calls) : TRUE
       IN  IF Works(d, c) THEN Run(Applied(d, c), <<Head(calls) \ {c}>> \o Tail(calls)) ELSE d
After(d, stmts) == FoldLeft(LAMBDA e, s : Run(e, Calls(e, s)), d, stmts)

\* What a repair of s may leave of directory b, in which s had started: what b
\* held, or what s makes of it; only after an INSERT, the table cleared, since no
\* statement removes half a row.
Outcomes(b, s) == {Abs(b), Abs(After(b, <<IF s.what = "insert" THEN Stmt("clear", s.t) ELSE s>>))}
Mended(b, d, s) == Intact(d) /\ Abs(d) \in Outcomes(b, s)

\* The statement that a user gives next to undo or finish s, by what the
\* directory d holds.
Fix(b, d, s) ==
  LET Also(what) == [s EXCEPT !.what = what]
      cols       == IF s.what = "create" THEN s.cols ELSE Columns(b, s.t)
      Again      == [s EXCEPT !.what = "create", !.cols = cols]
      Has(c)     == Contains(Columns(d, s.t), c)
  IN  CASE s.what \in {"create", "drop"}  -> IF valid(d, s.t) THEN Also("drop") ELSE Again
        [] s.what \in {"clear", "insert"} -> Also("clear")
        [] s.what = "rename"       -> IF valid(d, s.t) THEN s ELSE [s EXCEPT !.t = s.n, !.n = s.t]
        [] s.what = "addColumn" \/ (s.what = "dropColumn" /\ Len(cols) > 1) ->
             IF Has(s.c) THEN Also("dropColumn") ELSE Also("addColumn")
        [] s.what = "dropColumn" /\ Len(cols) = 1 ->
             IF valid(d, s.t) THEN Also("drop")
             ELSE IF FilesOf(d, s.t) = {} THEN Also("create") ELSE Again
        [] s.what = "renameColumn" -> IF Has(s.c) THEN s ELSE [s EXCEPT !.c = s.n, !.n = s.c]

----------------------------------------------------------------------------
Begin(s) ==
  /\ Calls(dir, s) # <<>>
  /\ stmt' = s /\ todo' = Calls(dir, s) /\ before' = dir
  /\ UNCHANGED <<dir, died, tries>>

Start ==
  LET Has(t, c) == Contains(Columns(dir, t), c)
  IN  /\ stmt = None
      /\ \/ \E t \in Tables, cols \in ColumnLists :
              Begin([Stmt("create", t) EXCEPT !.cols = cols])
         \/ \E t \in TablesIn(dir) :
              \/ Begin(Stmt("drop", t))
              \/ Begin(Stmt("clear", t))
              \/ /\ MapThenSumSet(LAMBDA u : Rows(dir, u), TablesIn(dir)) < MaxRows /\ Counted(dir, t)
                 /\ Begin(Stmt("insert", t))
              \/ \E n \in Tables : FilesOf(dir, n) = {} /\ Begin([Stmt("rename", t) EXCEPT !.n = n])
              \/ \E c \in Cols :
                   \/ /\ Columns(dir, t) # <<>> /\ ~Has(t, c) /\ Counted(dir, t)
                      /\ Begin([Stmt("addColumn", t) EXCEPT !.c = c])
                   \/ Begin([Stmt("dropColumn", t) EXCEPT !.c = c])
                   \/ \E n \in Cols : ~Has(t, n) /\ Begin([Stmt("renameColumn", t) EXCEPT !.c = c, !.n = n])

End == todo' = <<>> /\ stmt' = None /\ before' = Nothing /\ died' = FALSE /\ tries' = 0

\* A statement is over; in a repair the user goes on until the directory is as
\* it should be, or gives up.
Return ==
  IF died /\ tries < MaxTries /\ ~Mended(before, dir', stmt)
  THEN todo' = <<>> /\ UNCHANGED <<stmt, before, died, tries>>
  ELSE End

Step ==
  /\ todo # <<>> /\ Head(todo) # {}
  /\ \E c \in Head(todo) :
       IF Works(dir, c)
       THEN LET left == <<Head(todo) \ {c}>> \o Tail(todo)
                rest == IF Head(left) = {} THEN Tail(left) ELSE left
            IN  /\ dir' = Applied(dir, c)
                /\ IF rest = <<>> THEN Return
                   ELSE todo' = rest /\ UNCHANGED <<stmt, before, died, tries>>
       ELSE UNCHANGED dir /\ Return

\* The session ends, in a statement of the user or in one of a repair.
Die ==
  /\ todo # <<>> /\ (died \/ dir # before)
  /\ todo' = <<>> /\ died' = TRUE /\ tries' = 0
  /\ UNCHANGED <<dir, stmt, before>>

Repair ==
  /\ died /\ todo = <<>> /\ tries < MaxTries
  /\ todo' = Calls(dir, Fix(before, dir, stmt)) /\ tries' = tries + 1
  /\ UNCHANGED <<dir, stmt, before, died>>

Next == Start \/ Step \/ Die \/ Repair

Spec == Init /\ [][Next]_vars

----------------------------------------------------------------------------
\* Between statements the directory holds a .scm file for each table, a .data
\* and an .index file for each of its columns, no other file, and as many
\* records in each column: doc/internal.md's "7 files on disk" of a table with
\* three columns.  A file that stays behind would make a later CREATE TABLE or
\* ADD of that name fail for ever, because PF_CreateFile does not overwrite.
FilesMatchSchemas == stmt = None => Intact(dir)

\* A statement that was cut off anywhere can be undone or finished with the
\* statements there are, even when these are cut off in their turn, any number
\* of times; no row of any table is lost by that.  Only after an INSERT the table
\* has to be cleared, since no statement removes half a row.
RepairUndoesOrFinishes == [][died /\ ~died' => Abs(dir') \in Outcomes(before, stmt)]_vars

\* To a user who repairs what was cut off, every statement about a table, with
\* its series of file operations, happens at once or not at all, or, for an
\* INSERT, ends as a ClearTable.
S == INSTANCE Schemas WITH tables <- IF stmt = None THEN Abs(dir) ELSE Abs(before)
ImplementsSchemas == S!Spec
=============================================================================

------------------------------- MODULE Table -------------------------------
(***************************************************************************)
(* SM_TableHandle with the statements of wsql.cc that use it, for one      *)
(* table: a record file and an index per column, and no other copy of the  *)
(* rows.  A row is whatever the record files hold at one rid, so every     *)
(* column has to hand out the same rid for the same insert.                *)
(*                                                                         *)
(* A statement opens the files of a column, works on them and closes them  *)
(* before it turns to the next column; between statements all are closed.  *)
(* A statement that returns early or fails an assertion leaves the columns *)
(* it has closed changed and the others as they were; after an assertion   *)
(* the next statement is one of the next process.                          *)
(***************************************************************************)
EXTENDS RecordFile, BtreeNode, SequencesExt

CONSTANTS
  Columns,   \* names a column may have
  Schemas,   \* column lists a table is created with
  Slots,     \* GetNumSlots() of a record file, by column (it follows the length)
  Given,     \* values that statements name
  Ops,       \* comparison operators of a where clause
  MaxPages,  \* bound: pages of a record file
  MaxRows    \* bound: rows of the table, which the leaf of an index has room for

ASSUME TableAssumption ==
  /\ Slots \in [Columns -> Nat \ {0}]
  /\ Given \subseteq Vals
  /\ Vals \subseteq Nat /\ Null = 0
  /\ MaxPages \in Nat /\ MaxRows \in Nat /\ MaxRows <= MaxKeys
  /\ Ops \subseteq {"=", "<", "<=", ">", ">="}
  /\ Schemas \subseteq Seq(Columns)
  /\ \A as \in Schemas : IsInjective(as)   \* a second file of the same name is refused

VARIABLES
  attrs,   \* the columns in the order of the .scm file
  data,    \* the .data file of each column
  index    \* the .index file of each column

vars == <<attrs, data, index>>

\* What the calls do to an index that is one leaf.  With more entries than
\* GetMaxKeys() of its column (MaxKeys is the least of them) it is a tree of
\* several, whose scans may miss entries (IndexMgr): a larger table is not
\* modelled.
Index == INSTANCE SortedScan

Attrs == ToSet(attrs)

\* The open files of one column, and the last return code of the statement.
Files(c) == [file |-> data[c], ix |-> index[c], rc |-> OK]

NewFiles(as) ==
  /\ attrs' = as
  /\ data'  = [c \in ToSet(as) |-> NewFile(Slots[c])]
  /\ index' = [c \in ToSet(as) |-> <<>>]

Init ==
  /\ attrs \in Schemas
  /\ data  = [c \in Attrs |-> NewFile(Slots[c])]
  /\ index = [c \in Attrs |-> <<>>]

\* ClearTable, and DropTable followed by CreateTable with other columns.
Recreate(as) == NewFiles(as)

----------------------------------------------------------------------------
\* InsertEntry.  A column the statement gives no value gets a NULL, which is
\* not entered in the index.
Partial(S) == UNION {[D -> Given] : D \in SUBSET S}

\* Mutant: a column without a value is skipped.
InsertInto_Skips(c, e) ==
  LET r == InsertRec(data[c], IF c \in DOMAIN e THEN e[c] ELSE Null)
  IN  IF c \notin DOMAIN e THEN Files(c)
      ELSE [file |-> CloseRM(r.file), ix |-> Index!InsertEntry(index[c], e[c], InsertRid(data[c])),
            rc |-> OK]

InsertInto(c, e) ==
  IF c \notin DOMAIN e
  THEN [file |-> CloseRM(InsertRec(data[c], Null).file), ix |-> index[c], rc |-> OK]
  ELSE LET r == InsertRec(data[c], e[c])
       IN  [file |-> CloseRM(r.file),
            ix   |-> Index!InsertEntry(index[c], e[c], InsertRid(data[c])),
            rc   |-> r.rc]

\* InsertRec does not fail on a file with room (InsertsSucceed of RecordMgr);
\* if it did, the assertion on a given value would end the statement.
Insert(e) ==
  LET w == [c \in Attrs |-> InsertInto(c, e)]
  IN  /\ \A c \in Attrs : w[c].rc = OK /\ Len(w[c].file.pages) <= MaxPages
      /\ \A c \in Attrs : Cardinality(Used(data[c])) < MaxRows
      /\ data'  = [c \in Attrs |-> w[c].file]
      /\ index' = [c \in Attrs |-> w[c].ix]
      /\ UNCHANGED attrs

----------------------------------------------------------------------------
\* table_where: the rids of a where clause.  ">" is read as ">=".
CompOp(op) ==
  CASE op = "=" -> "EQ" [] op = ">" -> "GE" [] op = "<" -> "LT"
    [] op = "<=" -> "LE" [] op = ">=" -> "GE"
SelectEntry(c, op, v) == Index!Scan(index[c], CompOp(op), v)

\* A where clause on a column whose index is empty fails an assertion before
\* anything has changed.
CanSelect(c) == c \in Attrs /\ index[c] # <<>>

\* DeleteEntry: the rows are deleted column by column.  A NULL has no entry in
\* the index to remove.  The first call that fails ends the statement.
DeleteRow(w, rid) ==
  LET k == Rec(w.file, rid)
  IN  IF w.rc # OK THEN w
      ELSE IF ~HasRec(w.file, rid) THEN [w EXCEPT !.rc = NOSUCH]
      ELSE IF k # Null /\ Index!From(w.ix, k, rid) = {} THEN [w EXCEPT !.rc = "1"]
      ELSE [file |-> DeleteRec(w.file, rid).file,
            ix   |-> IF k = Null THEN w.ix ELSE Index!DeleteEntry(w.ix, k, rid),
            rc   |-> OK]
DeleteRows(c, rids) == FoldLeft(DeleteRow, Files(c), rids)

Delete(c, op, v) ==
  LET rids  == SelectEntry(c, op, v)
      w     == [d \in Attrs |-> DeleteRows(d, rids)]
      fails == {i \in DOMAIN attrs : w[attrs[i]].rc # OK}
      done  == {attrs[i] : i \in {j \in DOMAIN attrs : \A k \in fails : j < k}}
  IN  /\ CanSelect(c)
      /\ data'  = [d \in Attrs |-> IF d \in done THEN CloseRM(w[d].file) ELSE data[d]]
      /\ index' = [d \in Attrs |-> IF d \in done THEN w[d].ix ELSE index[d]]
      /\ UNCHANGED attrs

----------------------------------------------------------------------------
\* UpdateEntry in one column: the old key leaves the index, the new one enters,
\* the record is stored, and the record file closes before the index does.
\* Where the old key left a page pinned, closing the index fails an assertion
\* and its changes are lost.
\* Mutant: the old entry stays.
UpdateRow_KeepsKey(w, rid, v) ==
  [file |-> CloseRM(UpdateRec(w.file, rid, v).file), ix |-> Index!InsertEntry(w.ix, v, rid), rc |-> OK]

UpdateRow(w, rid, v) ==
  LET old == Rec(w.file, rid)
      f   == CloseRM(UpdateRec(w.file, rid, v).file)
  IN  IF Index!LeavesPinned(w.ix, old, rid) THEN [file |-> f, ix |-> w.ix, rc |-> ABORT]
      ELSE [file |-> f, ix |-> Index!InsertEntry(Index!DeleteEntry(w.ix, old, rid), v, rid), rc |-> OK]

\* The row in every column that the statement names, in the order of the .scm
\* file; the first assertion that fails is the last call.
UpdateEntry(t, rid, e) ==
  LET w == [d \in Attrs |-> [file |-> t.data[d], ix |-> t.index[d], rc |-> OK]]
      u == [d \in Attrs |-> IF d \in DOMAIN e THEN UpdateRow(w[d], rid, e[d]) ELSE w[d]]
      fails   == {i \in DOMAIN attrs : u[attrs[i]].rc # OK}
      reached == {attrs[i] : i \in {j \in DOMAIN attrs : \A k \in fails : j <= k}}
  IN  IF t.rc # OK THEN t
      ELSE [data  |-> [d \in Attrs |-> IF d \in reached THEN u[d].file ELSE t.data[d]],
            index |-> [d \in Attrs |-> IF d \in reached THEN u[d].ix ELSE t.index[d]],
            rc    |-> IF fails = {} THEN OK ELSE ABORT]

\* dml_update: the rows of the where clause one after the other.
\* Mutant: the loop over the rows ends after the first.
Opened == [data |-> data, index |-> index, rc |-> OK]
UpdateRows_First(rids, e) == IF rids = <<>> THEN Opened ELSE UpdateEntry(Opened, rids[1], e)

UpdateRows(rids, e) == FoldLeft(LAMBDA t, rid : UpdateEntry(t, rid, e), Opened, rids)

\* GetRec on a rid the column does not have leaves the old key uninitialised:
\* what UpdateEntry does then is not modelled.
Readable(rids, e) == \A d \in DOMAIN e, i \in DOMAIN rids : HasRec(data[d], rids[i])

Update(c, op, v, e) ==
  LET rids == SelectEntry(c, op, v)
      t    == UpdateRows(rids, e)
  IN  /\ CanSelect(c)
      /\ Readable(rids, e)
      /\ data' = t.data /\ index' = t.index
      /\ UNCHANGED attrs
Aborts(c, op, v, e) == UpdateRows(SelectEntry(c, op, v), e).rc # OK

----------------------------------------------------------------------------
\* AddColumn: the new file is filled from the first column when that one counts
\* records.  nextFree of the pages it adds is uninitialised (ExpandPage).  A
\* name in use, and a copy that fails its assertion, are not modelled.
AddColumn(c) ==
  /\ attrs # <<>> /\ c \notin Attrs
  /\ \E g \in {RM_PAGE_LIST_END, RM_PAGE_FULLY_USED} :
       LET rhs == data[Head(attrs)]
           r   == IF GetNumRecs(rhs) > 0 THEN CopyNullFromOthers(NewFile(Slots[c]), rhs, g)
                  ELSE Return(OK, NewFile(Slots[c]))
       IN  /\ r.rc = OK
           /\ data' = [d \in Attrs \cup {c} |-> IF d = c THEN CloseRM(r.file) ELSE data[d]]
  /\ attrs' = Append(attrs, c)
  /\ index' = [d \in Attrs \cup {c} |-> IF d = c THEN <<>> ELSE index[d]]

\* Mutant: the index file stays.
DropColumn_KeepsIndex(c) ==
  /\ c \in Attrs
  /\ attrs' = RemoveFirst(attrs, c)
  /\ data'  = [d \in Attrs \ {c} |-> data[d]]
  /\ UNCHANGED index

DropColumn(c) ==
  /\ c \in Attrs
  /\ attrs' = RemoveFirst(attrs, c)
  /\ data'  = [d \in Attrs \ {c} |-> data[d]]
  /\ index' = [d \in Attrs \ {c} |-> index[d]]

RenameColumn(c, n) ==
  LET Old(d) == IF d = n THEN c ELSE d
  IN  /\ c \in Attrs /\ n \notin Attrs
      /\ attrs' = [i \in DOMAIN attrs |-> IF attrs[i] = c THEN n ELSE attrs[i]]
      /\ data'  = [d \in (Attrs \ {c}) \cup {n} |-> data[Old(d)]]
      /\ index' = [d \in (Attrs \ {c}) \cup {n} |-> index[Old(d)]]

----------------------------------------------------------------------------
Next ==
  \/ \E as \in Schemas : Recreate(as)
  \/ \E e \in Partial(Attrs) : Insert(e)
  \/ \E c \in Columns, op \in Ops, v \in Given :
       \/ Delete(c, op, v)
       \/ \E e \in Partial(Attrs) : Update(c, op, v, e)
  \/ \E c \in Columns :
       \/ AddColumn(c)
       \/ DropColumn(c)
       \/ \E n \in Columns : RenameColumn(c, n)

Spec == Init /\ [][Next]_vars

\* A session that stays clear of what the code does not do: a column is added
\* while no file has a page, an update does not meet a NULL it has to look for
\* in the index, and the last column is not dropped.
CarefulNext ==
  \/ \E as \in Schemas : Recreate(as)
  \/ \E e \in Partial(Attrs) : Insert(e)
  \/ \E c \in Columns, op \in Ops, v \in Given :
       \/ Delete(c, op, v)
       \/ \E e \in Partial(Attrs) : CanSelect(c) /\ ~Aborts(c, op, v, e) /\ Update(c, op, v, e)
  \/ \E c \in Columns :
       \/ (\A d \in Attrs : data[d].pages = <<>>) /\ AddColumn(c)
       \/ Len(attrs) > 1 /\ DropColumn(c)
       \/ \E n \in Columns : RenameColumn(c, n)

CarefulSpec == Init /\ [][CarefulNext]_vars

----------------------------------------------------------------------------
\* The table as a relation.
Value(c, rid) == IF InPages(data[c], rid) THEN Rec(data[c], rid) ELSE Free
Rows == [rid \in Used(data[Head(attrs)]) |-> [c \in Attrs |-> Value(c, rid)]]
Rel == INSTANCE RowStore WITH
  Rids    <- (1 .. MaxPages) \X UNION {0 .. Slots[c] - 1 : c \in Columns},
  Schemas <- {ToSet(as) : as \in Schemas},
  Values  <- Given,
  cols    <- Attrs,
  rows    <- Rows

\* The columns of the .scm file have their two files each, of the right type,
\* and an index names slots that the record file has.
TypeOK ==
  /\ attrs \in Seq(Columns)
  /\ DOMAIN data = Attrs /\ DOMAIN index = Attrs
  /\ \A c \in Attrs :
       /\ IsFile(data[c], MaxPages)
       /\ data[c].slots = Slots[c]
       /\ \A e \in Index!Entries(index[c]) : InPages(data[c], e.rid) /\ e.key \in Vals

\* "the RID of each column in its `.data` file should keep the same"
\* (doc/internal.md): a rid is in use in every column or in none.
RidsAgree == \A c, d \in Attrs : Used(data[c]) = Used(data[d])

\* An index holds, in the order of the keys, one entry for each record that is
\* not NULL, and none for a record that was deleted or has changed.
IndexExact ==
  \A c \in Attrs :
    LET ix == index[c]
    IN  /\ \A i, j \in DOMAIN ix : i < j => ix[i].key <= ix[j].key /\ ix[i] # ix[j]
        /\ Index!Entries(ix) = {Index!Entry(Rec(data[c], rid), rid) :
                            rid \in {r \in Used(data[c]) : Rec(data[c], r) # Null}}

\* "write the RID of those entries which satisfy given condition"
\* (SelectEntry): a where clause selects each row that compares as asked, once,
\* and no other.
SelectExact ==
  \A c \in Attrs, op \in Ops, v \in Given : CanSelect(c) =>
    LET rids == SelectEntry(c, op, v)
    IN  /\ IsInjective(rids)
        /\ ToSet(rids) = {r \in Used(data[c]) : Rel!Compares(Rec(data[c], r), op, v)}

\* A DELETE does not stop half-way: each row it selected is in every column and,
\* unless NULL, in its index.
DeletesSucceed ==
  \A c \in Attrs, op \in Ops, v \in Given : CanSelect(c) =>
    \A d \in Attrs : DeleteRows(d, SelectEntry(c, op, v)).rc = OK

\* ".data file and .index file will be updated" (DeleteEntry): no entry leads
\* to a record that is gone.
NoDeadEntries == \A c \in Attrs : \A e \in Index!Entries(index[c]) : HasRec(data[c], e.rid)

\* The table is a relation: every statement does what it says to the rows its
\* where clause names, in every column, or is not there.
ImplementsRowStore == Rel!Spec
=============================================================================

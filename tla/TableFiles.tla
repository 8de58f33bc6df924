---------------------------- MODULE TableFiles ----------------------------
(***************************************************************************)
(* The directory of a database: a .scm file for each table and a .data and *)
(* an .index file for each of its columns.  A statement about a table is a *)
(* series of file operations, decided when it starts and cut off by the    *)
(* first one that fails or by the end of the process.  Of a .data file we  *)
(* keep how many records it holds and how many GetNumRecs counts: these    *)
(* differ in a column that was filled with NULLs.  Of an .index file we    *)
(* keep that it is there.                                                  *)
(*                                                                         *)
(* Creating and writing one file is one operation here.  Statements that   *)
(* go row by row are the subject of Table; INSERT stands for them.         *)
(***************************************************************************)
EXTENDS Integers, FiniteSets, Sequences, SequencesExt, TLC

Scm(t)      == <<t, "scm">>
Data(t, c)  == <<t, c, "data">>
Index(t, c) == <<t, c, "index">>

\* A file operation: what must exist and what must not for it to succeed, what
\* it removes, and what it writes.
Call(on, off, del, put) == [on |-> on, off |-> off, del |-> del, put |-> put]
Works(d, c)   == c.on \subseteq DOMAIN d /\ c.off \cap DOMAIN d = {}
Applied(d, c) == c.put @@ [f \in DOMAIN d \ c.del |-> d[f]]

Nothing == [f \in {} |-> 0]
Write(f, x)   == Call({}, {}, {}, f :> x)         \* fopen "w"
Create(f, x)  == Call({}, {f}, {}, f :> x)        \* PF_CreateFile: O_EXCL
Destroy(f)    == Call({f}, {}, {f}, Nothing)      \* unlink, remove
Erase(f)      == Call({}, {}, {f}, Nothing)       \* its code is not looked at
Rename(d, f, g)    ==
  Call({f}, {}, {f}, IF f \in DOMAIN d THEN g :> d[f] ELSE Nothing)
TryRename(d, f, g) == [Rename(d, f, g) EXCEPT !.on = {}]   \* nor is its code

NoRecs            == [recs |-> 0, counted |-> 0]
CreateRMFile(t, c) == Create(Data(t, c), NoRecs)
CreateIXFile(t, c) == Create(Index(t, c), 0)

----------------------------------------------------------------------------
\* The series of each statement on directory d.  A member of the series is the
\* set of operations that are done next in any order.
valid(d, t)    == Scm(t) \in DOMAIN d
Columns(d, t)  == d[Scm(t)]
InOrder(calls) == [i \in DOMAIN calls |-> {calls[i]}]
Each(cols, Calls(_)) == FlattenSeq([i \in DOMAIN cols |-> Calls(cols[i])])

\* Mutant: an existing table is not looked for.
CreateTable_NoCheck(d, t, cols) ==
  InOrder(<<Write(Scm(t), cols)>> \o Each(cols, LAMBDA c : <<CreateRMFile(t, c), CreateIXFile(t, c)>>))

CreateTable(d, t, cols) ==
  IF valid(d, t) THEN <<>>
  ELSE InOrder(<<Write(Scm(t), cols)>>
                 \o Each(cols, LAMBDA c : <<CreateRMFile(t, c), CreateIXFile(t, c)>>))

\* Mutant: the files go before the .scm file does.
DropTable_ScmLast(d, t) ==
  InOrder(Each(Columns(d, t), LAMBDA c : <<Destroy(Data(t, c)), Destroy(Index(t, c))>>)
            \o <<Destroy(Scm(t))>>)

DropTable(d, t) ==
  InOrder(<<Destroy(Scm(t))>>
            \o Each(Columns(d, t), LAMBDA c : <<Destroy(Data(t, c)), Destroy(Index(t, c))>>))

ClearTable(d, t) ==
  InOrder(Each(Columns(d, t), LAMBDA c : <<Erase(Data(t, c)), CreateRMFile(t, c),
                                           Erase(Index(t, c)), CreateIXFile(t, c)>>))

\* Every file whose name starts with that of the table, as readdir lists them.
FilesOf(d, t) == {f \in DOMAIN d : f[1] = t}
RenameTable(d, t, n) == <<{Rename(d, f, [f EXCEPT ![1] = n]) : f \in FilesOf(d, t)}>>

\* The new column gets a NULL for each record of the first one, if that counts
\* any, and counts none of them.
CopyNullFromOthers(d, t, c, first) ==
  Call({Data(t, first)}, {}, {},
       IF Data(t, first) \in DOMAIN d /\ d[Data(t, first)].counted > 0
       THEN Data(t, c) :> [d[Data(t, first)] EXCEPT !.counted = 0]
       ELSE Nothing)
AddColumn(d, t, c) ==
  InOrder(<<Write(Scm(t), Append(Columns(d, t), c)), CreateRMFile(t, c),
            CopyNullFromOthers(d, t, c, Head(Columns(d, t))), CreateIXFile(t, c)>>)

\* Mutant: the files go before the .scm file is rewritten.
DropColumn_ScmLast(d, t, c) ==
  IF ~Contains(Columns(d, t), c) THEN <<>>
  ELSE InOrder(<<Destroy(Data(t, c)), Destroy(Index(t, c)), Write(Scm(t), Remove(Columns(d, t), c))>>)

DropColumn(d, t, c) ==
  IF ~Contains(Columns(d, t), c) THEN <<>>
  ELSE InOrder(<<Write(Scm(t), Remove(Columns(d, t), c)), Destroy(Data(t, c)), Destroy(Index(t, c))>>)

RenameColumn(d, t, c, n) ==
  IF ~Contains(Columns(d, t), c) THEN <<>>
  ELSE LET renamed == [i \in DOMAIN Columns(d, t) |->
                         IF Columns(d, t)[i] = c THEN n ELSE Columns(d, t)[i]]
       IN  InOrder(<<Write(Scm(t), renamed), Rename(d, Data(t, c), Data(t, n)),
                     TryRename(d, Index(t, c), Index(t, n))>>)

\* One record for each column; the assertions end the process when a file of
\* it is missing.
AddRecord(d, t, c) ==
  Call({Data(t, c), Index(t, c)}, {}, {},
       IF Data(t, c) \in DOMAIN d
       THEN Data(t, c) :> [recs    |-> d[Data(t, c)].recs + 1,
                           counted |-> d[Data(t, c)].counted + 1]
       ELSE Nothing)
InsertEntry(d, t) == InOrder(Each(Columns(d, t), LAMBDA c : <<AddRecord(d, t, c)>>))

----------------------------------------------------------------------------
\* The statements, as the shell takes them.  ALTER does not look whether the
\* table exists; a session that uses it gives one that does.
Stmt(what, t) == [what |-> what, t |-> t, c |-> "", n |-> "", cols |-> <<>>]
None == [what |-> "none"]
Calls(d, s) ==
  IF s.what # "create" /\ ~valid(d, s.t) THEN <<>>
  ELSE CASE s.what = "create"       -> CreateTable(d, s.t, s.cols)
         [] s.what = "drop"         -> DropTable(d, s.t)
         [] s.what = "clear"        -> ClearTable(d, s.t)
         [] s.what = "rename"       -> RenameTable(d, s.t, s.n)
         [] s.what = "addColumn"    -> AddColumn(d, s.t, s.c)
         [] s.what = "dropColumn"   -> DropColumn(d, s.t, s.c)
         [] s.what = "renameColumn" -> RenameColumn(d, s.t, s.c, s.n)
         [] s.what = "insert"       -> InsertEntry(d, s.t)
=============================================================================

# Verification of WSQL

WSQL is a small relational database: a shell, tables stored by column, one
record file and one B+ tree index per column, and a page buffer under both. It
is one process with one thread and one user. What can go wrong is therefore
not a race but a long sequence of legal calls: a page that is evicted while
somebody holds it, a header that was changed in memory and not written, a
statement that stops after the second of five columns, two counters that are
kept apart and drift. The modules here model these layers from the code, TLC
checks them on small instances, and TLAPS proves the buffer, the paged file and the
record file for every size, inserts into an index of every height and deletes up to
two levels, and the table for as many rows as an index of one leaf holds.

Paths below are relative to the root of the repository (`src/` is its source
directory).

## 1. The system

| part | state | operations | used by |
|---|---|---|---|
| Slot lists of the buffer (`pf_buffermgr.cc`) | `first`, `last`, `free`, and `next`/`prev` of each slot | `InsertFree`, `LinkHead`, `Unlink`, the scans | `PF_BufferMgr` |
| `PF_HashTable` | an array of chains: page to slot | `Find`, `Insert`, `Delete` | `PF_BufferMgr` |
| `PF_BufferMgr` | slots with page, pin count, dirty bit and frame; the pages of the file | `GetPage`, `AllocatePage`, `MarkDirty`, `UnpinPage`, `FlushPages`, `ForcePages`, `ClearBuffer`, `ResizeBuffer`, blocks | `PF_FileHandle` |
| `PF_FileHandle` | the header (`firstFree`, `numPages`), whether it changed, a buffer manager of its own | create, destroy, open, close, allocate, dispose, get, mark, unpin, flush, force, blocks | record files and indexes |
| `RM_FileHandle` | the header of the record file; per page a count of free slots, a bitmap, a link | create, open, close, `InsertRec`, `DeleteRec`, `UpdateRec`, `GetRec`, `ExpandPage`, `CopyNullFromOthers` | tables |
| `BtreeNode`, `IX_IndexHandle` | sorted arrays of keys and rids in pages; the path from the root and its pins | insert with split, delete with underflow, search, scan | tables |
| `SM_TableHandle` | the `.scm` file; a `.data` and an `.index` file per column | insert, delete, update, select; add, drop, rename a column | the shell |
| shell, catalog (`wsql.cc`) | the list of databases in memory and on disk | create, drop, use; the statements | the user |

Layers call downwards only and share no state but files. A statement opens the
files of one column, works on them, closes them, and goes on to the next
column; a failing `assert` ends the process and leaves what was written so
far. Nothing is locked, nothing waits, nothing is retried, and no log is kept.
The code has no recovery. What can be asked of a session that ends in the middle
of a statement is what the next session finds in the directory, and whether the
statements there are can put it right.

What is hard, and where (the `hazards` of `PROJECT.json` give the lines):

- *Buffer*: a call that fails half-way (a read into a slot just evicted, a
  write in the middle of a flush); eviction of dirty, pinned or colliding
  pages; lists that change while they are walked. Correct means: every slot on
  one list, hash table and slots agree, pinned pages stay, nothing written is
  lost except by `ClearBuffer`.
- *Paged file*: a free list threaded through pages that are themselves
  buffered, a header that is written before the pages. Correct means: the free
  list is exactly the unused pages, in memory and in the closed file, and the
  file behaves like an array of pages.
- *Record file*: a chain of pages with room whose head is in a header that two
  of the operations forget to mark changed. Correct means: records keep their
  ids, inserts find room, counts agree with bitmaps.
- *Index*: a split moves half a node and must mend links, bounds and the path
  above; a delete goes down, right and up again, with a page pinned at each step,
  and returns from five places. Correct means: the tree reaches every page once,
  inner keys are the largest of their child, scans and deletes find what a sorted
  list of entries would, and no page stays pinned.
- *Table*: a row exists only in so far as every column gave it the same rid;
  statements work column by column and stop at the first failure. Correct
  means: the columns agree, each index is exact, a statement does to the rows
  what it says.
- *Database*: the `.scm` file says which files there are, and each statement
  about a table is a series of file operations that any of them, or the end of
  the process, can cut off. Correct means: between statements the files are those
  the schemas name, and what was cut off can be undone or finished.

## 2. The modules

    Schemas      <- Database -- TableFiles           statements about whole tables
    RowStore     <- Table ----- SortedScan -- SortedIndex    statements about rows
                      |             ^              ^
                      |         IndexScans --- IndexMgr -- IndexTree -- IndexFile -- BtreeNode
    HeapFile     <- RecordMgr -- RecordFile          record files
    PagedFile    <- PageFile                         paged files
                      |
    PageStore    <- BufferMgr -- BufferPool          buffer
                      |             ^
                 BufferResize   PoolTables -- SlotLists, HashTable

`A <- B` reads "B is shown to implement A", and `^` that the calls below do what
the operators above say. `SlotLists`, `HashTable`, `BufferPool`, `RecordFile`,
`BtreeNode`, `IndexFile`, `IndexTree`, `SortedIndex`, `SortedScan` and `TableFiles`
hold no variables: they are the operations of one C++ object as functions from
its state to its state, so that several state machines use the same definitions.

| module | models | how |
|---|---|---|
| `SlotLists` | the links of `bufTable` | `first`, `last`, `free`, `next` and `prev`, link by link. |
| `HashTable` | `PF_HashTable` | Chains as sequences, the bucket with the `%` of C. |
| `PoolTables` | the lists, the hash table and the descriptors together | One action per way a call of the buffer manager changes them; which slots are pinned is left open. `ActsAsPool` says it is what `BufferPool` does with two sets, an order and a map. |
| `BufferPool` | `PF_BufferMgr` | A pool is a record: used and free slots, their order, page, pin count, dirty bit, frame, hash table, and the file. `fault` is the page whose `read` or `write` fails in the call, with what a `write` that stops half way (`PF_INCOMPLETEWRITE`) has left in that page. |
| `BufferMgr` | the same as a state machine | One action per public method, from call to return. |
| `PageStore` | its contract | `view`, `stable` and `pins` of each page; no slots. |
| `BufferResize` | `ResizeBuffer` | Kept apart: after it a pool need not be one. |
| `PageFile` | `PF_FileHandle` | One action per method, with every call it makes on the pool; a fault may hit the header too. |
| `PagedFile` | its contract | A function from page numbers to contents, and the pins. |
| `RecordFile` | `RM_FileHandle`, `Bitmap`, `RM_Record` | A file is a record: header in memory and on disk, pages with count, link and slots. |
| `RecordMgr` | the same as a state machine | Create, open, close, insert, delete, update in any order. |
| `HeapFile` | its contract | A function from rids to records. |
| `BtreeNode` | a node of an index | Entries, left and right link; search, insert, remove and split with what they return at the limits of a node. |
| `IndexFile` | `IX_IndexHandle` | An index is a record: header, nodes by page, disposed pages, pinned pages. The path from the root is walked as the code walks it, bounds and pins included. |
| `IndexTree` | what an index file holds | Its pages by levels, the entries of its leaves, the record ids a key can have. |
| `IndexMgr` | the index as a state machine | Create, open, close, insert and delete in any order. |
| `IndexScans` | whole scans of it | What `OpenScan` to the last `GetNextEntry` returns in any state of `IndexMgr`, against the same scan of one leaf. |
| `SortedIndex` | what `Table` takes for an index | A sorted sequence of entries; `FindKey`, insert, delete. |
| `SortedScan` | its scans | Start, direction and comparisons as the code has them. |
| `Table` | `SM_TableHandle` and the statements of `wsql.cc` | `attrs`, a record file and an index per column; each statement is one action that folds its calls in the order of the code and stops where the code stops. Each index is one leaf: the tables have at most `MaxRows` rows and a leaf holds `MaxKeys` entries. |
| `RowStore` | what statements promise | Rows as functions from columns to values. |
| `TableFiles` | the file operations of each statement of `SM_TableHandle` about a table | A directory is a function from file names to contents; a statement is a sequence of calls with what each needs, removes and writes. |
| `Database` | the statements of one database in sessions that can end | `Start` takes a statement, `Step` does one file operation, `Die` ends the process, in the middle of a repair too, and `Repair` is the user giving the next statement of one. |
| `Schemas` | what statements about tables promise | Tables by name, with columns and a number of rows. |
| `MC*` | instances | Values of the constants, symmetry. |
| `PoolTablesProofs`, `BufferPoolProofs`, `BufferMgrProofs`, `PageFileProofs`, `FileProofs`, `RecordMgrProofs`, `IndexMgrProofs`, `TableProofs` | proofs | Section 4. |

A definition is named for the method it models, and variables and fields for
the members. A call that fails and changes nothing is a stuttering step. The
operators under "Mutant" comments are faults one could make in the operation
below them; each is used to see that a property can fail.

## 3. What the runs check

All specifications are `Init /\ [][Next]_vars` without fairness: the program
does nothing until somebody calls it, and every call returns. There is no
liveness to state: an action is a call from its start to its return (a file
operation in `Database`), no call waits for another, and no user has to make one.
Every run checks for deadlock: some call is always possible.

| run | instance | shows |
|---|---|---|
| `pool_tables` | 4 slots, 2 buckets, 2 pages, blocks | Find leads to each used slot through the chains of colliding pages and to no other, the victim is the least recently used unpinned slot, a scan that frees slots while it walks misses none, and links and chains do what `BufferPool` says. |
| `buffer_mgr` | 3 slots, 2 pages, blocks, any I/O call may fail, a write half way | Slots, hash table, order and frames stay consistent, pinned pages stay, only `ClearBuffer` loses a change, and the pool is a `PageStore`. |
| `page_file` | 2 pages, 2 slots, blocks, faults | Free list and header are exact in the open and in the closed file, held pages are in use, and the handle is a `PagedFile`. |
| `record_file` | 3 pages of 2 slots, 2 values | Counts, chain head, inserts; the file is a `HeapFile`, through every reopening with a stale header. |
| `table` | 2 columns, up to 2 rows, 3 values, 3 comparisons | Columns agree on rids, indexes and selections are exact, `DELETE` does not stop half-way, and a careful session is a `RowStore`. |
| `index_tree` | 3 keys to a node, 6 keys, 7 entries, up to three levels | The tree and the links of each level agree, inner keys are exact, scans to the right and deletes do what they would on a sorted list, and so do scans to the left where no leaf was split in the middle; only a leaf that loses its last entry leaves a tree that cannot be used. |
| `database` | 2 tables, 3 columns, 2 rows in all, sessions that end any number of times | Between statements the files are those the schemas name; a statement that was cut off after any file operation can be undone or finished without losing a row, except that an `insert` ends as a cleared table, however often the session ends again during the repair; and to a user who does that every statement, or for an `insert` a `clear` in its place, happens at once or not at all. |

The bounds make the interesting cases happen. Three slots for two pages and
any number of blocks: a miss must evict, and may find every slot pinned. Two
pages of a file are enough for a free list with an inner link, for a hole and
for a header that counts a page not yet written. In `page_file` a block of memory
can take one of the two slots, and then `AllocatePage` has to evict the other page
to make room, with a write that may fail. A write that stops half way is left to
`buffer_mgr` (`Torn`: one value that such a page may hold), and `page_file` has
writes that fail as a whole; the theorems about both have either kind.
Its `VIEW` takes two states for one that differ only in what a free slot or a block of
memory held before, which no operation reads. Three pages of two slots give
a chain that is broken in the middle, rejoined, and left behind by a stale
header. One slot per page in `table` makes every insert take or add a page.
`MaxPages`, `MaxPins`, `MaxEntries`, `MaxSame` and `MaxRows` cap the counters in
the guards; in `Table`, `RecordMgr`, `IndexMgr` and `Database` they stop inserts,
nowhere else. In `Table`, `MaxRows` is more than a bound of the check: it is at most
`MaxKeys`, the capacity of a leaf, so that no index has to split. `MaxCols` bounds the columns of a `create table`; `alter table` adds
the third. Three keys to a node is not a bound but the capacity the code computes
for strings of 1024 bytes (`MaxKeysOf(4092, 1024)`; it is 340 for an int); seven
entries with deletes in between give three levels. In `database` rows are only
counted, over both tables: with two of them an `insert` is cut off in an empty table
and in one that has a row. `MaxTries` counts the statements of one repair; seven are
enough whenever the session ends, also when it ends during the repair and the count
starts again.

`CarefulSpec`, which `table` checks, is a session that stays clear of what the
code is known not to do: a column is added only while no file has a page, an
`UPDATE` does not reach a `NULL` that it must find in the index, values are
never 0 (`Given`), the columns have records of equal length (`OneSlot`), the
last column is not dropped, comparisons are those the scan implements for
duplicates (`=`, `<`, `>=`), and a table has no more rows than a leaf has room for
(`MaxRows <= MaxKeys`). Each exclusion is a fault of the code that the
list below names. The last one is the widest: as soon as an index has several
leaves, `<` steps over leaves that came from a split, `=` can miss equal keys, and a
leaf that loses its last entry stays linked (`LeftScansFollowLinks`, `EqualKeysFound`
and `OnlyEmptyingBreaks` say when). `UPDATE` and `DELETE` select their rows by such
scans, so that beyond 340 rows of integers, or 3 of long strings, nothing is claimed of
a table; what the index itself does there is the subject of `IndexMgr`. `index_tree` checks a
`CarefulSpec` too: `OneTwice` keeps equal keys from filling half a leaf, and
entries are deleted only while the tree has two levels. The actions of `IndexMgr`
need a tree without a link to a disposed page (`Sound`), because what the code
does with one is undefined; how such a tree comes about is `OnlyEmptyingBreaks`.
In `Database` a session gives names that are free, adds no column to a table
without any, and neither a row nor a column where a column filled by `AddColumn`
does not count its records.

`Repair` is the one action that is not code: one statement that a user gives to a
database in which a statement was cut off, run as the code runs it, file operation by
file operation, up to the first that fails or the next end of the session. The same statement again is enough for `clear`
and for half a `rename table`; a `drop table` needs the table created again with
the same columns, which fails at the first file that is left, and then dropped; an
`insert` needs the table cleared, because it has given some columns a record and the
others none, and there is no statement that takes back one record: the rows that were
there before are lost with it, and `ImplementsSchemas` says of this user that he
cleared the table. It is the order of the file operations that
makes this possible: `.scm` is written before the files are removed.

### Where the code and its documents disagree

Five runs show a disagreement; TLC finds each in a few steps.

- `buffer_resize`: the comment on `ResizeBuffer` says the pages that cannot be
  dropped are copied to the new buffer. No frame is copied, and the slot of each
  goes back to the free list.
- `record_chain`: the comment in `DeleteRec` says a page that was full joins the
  list of free pages. The header that starts the list is not marked changed, and
  closing the file forgets it.
- `table_rids`: `src/doc/internal.md:28` says the rids of a row are the same in
  every column. Records of different lengths fit different numbers to a page
  (242 for an int, 253 for 20 bytes), so they part when a page is full.
- `table_zero`: the comment on `DeleteEntry` says data and index are updated. A
  value of zero bytes is entered in the index and, taken for `NULL`, not removed.
- `index_same`: the comment on `SelectEntry` says it writes the rids of the
  entries that satisfy the condition. When both halves of a split root end with
  the same key they get into the new root in the wrong order, and `=` misses the
  entries of one of them: 341 equal integers are enough.

Other behaviour met while modelling, without a run of its own. In the index: a
split in the middle leaves the left link of the right neighbour, so that a scan
for `<` or `<=` steps over the new leaf; a leaf below the root that loses its last
entry leaves its parent with an entry for a page that is disposed of; in a tree of
three levels a delete looks at the wrong level to decide whether a bound moves, and
later deletes return 1 for entries that are there, or `=` returns a row that does
not match; `ForcePages` never unpins the header and `Merge` copies bytes for
record ids, but nobody calls either. In tables:
`AddColumn` fills the new column with bytes of the first one instead of `NULL`
and not its index, so that a later `DELETE` fails half-way; the new column counts
none of these records, so that when the first column is dropped and another one
added, that stays empty, although the comment on `AddColumn`
(`src/src/sm_tablehandle.cc:256`) says `NULL`s are set; `RenameTable` to the name
of a table writes over some of its files and leaves the others; `UPDATE` of a `NULL`
leaves a leaf pinned, and `CloseIndex` aborts with the record stored and the index
not; a scan with `<=` returns one of several duplicates; `>` is read as `>=`;
`!=` never ends; a `where` on an empty index aborts; adding a column under a
name in use writes the name twice to the `.scm` file before the creation of its
file fails; `ClearBuffer` returns 0 with pinned pages although its comment
promises an error; `GetRec` accepts page 0.

## 4. What is proved

TLAPS proves, for every value of the constants:

**Tables of the buffer** (`PoolTablesProofs`). `TypeOK`, `ChainsMatchLists`,
`EvictsLeastRecent` and `ActsAsPool`, for any number of slots, buckets and pages.
The code links slots by `next` and `prev`; to speak of a list of any length at
once the proof gives it as a function `L` from the integers to slots that is
`INVALID_SLOT` outside an interval. `LinkHead` is then `Push`, `Unlink` and the
free list are `Cut` and `Push`, and `Linked(l, U, n, F, m)` says that the links are
those of a used list `U` and a free list `F`. Which slots are used and their order
are read off the links by walking them; `WalkMeets` shows that the walk meets
exactly the slots of the list. For the hash table, `Represents(t, h)` says that
the chains hold the map `h`, and `Insert` and `Delete` are updates of it. The
inductive invariant `IInv` is `Threaded(lists)` (there are such lists), every slot
on one of the two, `Hashed(table)`, and `Keyed`: the page of a used slot leads to
that slot and nothing else leads anywhere. The last clause is why `ChainsMatchLists`
survives `Delete`: a second entry for a page would come to light only then.
`ScanAdvances` is the loop invariant of the scan of `ClearBuffer`, which releases
the slots it passes. With `ActsAsPool` the calls on links and chains are the
operations of `BufferPool`, on which the rest is built. Assumed:
`NumPagesAssumption`, `NumBucketsAssumption` and `PoolTablesAssumption`.

**Buffer manager** (`BufferPoolProofs`, `BufferMgrProofs`).
`TypeOK`, `SlotsPartitioned`, `HashMatchesSlots`, `RecencyIsTotalOrder` and
`CleanFramesAreCopies` hold for any number of slots, pages and pins, whichever
read or write fails and whatever a write that stops half way leaves in its page. Together they are inductive between two calls, but a call
breaks them on the way: after `InternalAlloc` a slot is on the used list and
holds no page. `Sound(b, U)` is the invariant of a pool in which `U` are these
slots. Each operator has a lemma that takes `Sound` to `Sound` (`Evict` and
`TakeFree` add a slot to `U`, `Bind` and `Release` remove it), and each action is
a chain of lemmas that starts and ends with `U = {}`. Assumed:
`BufferAssumption` (marks are not data, the descriptor is not that of memory) and
`MaxPinsAssumption`.

The second half of `BufferPoolProofs` says of each method what a caller sees of it: `Quiet(b, c, K)`, that
outside the pages `K` no view, pin or marked frame changed, whatever was evicted
to make room. From this follow `PinnedPageStays`, `OnlyClearLosesUpdates` and the
refinement of `PageStore`. One more invariant is needed, `Contiguous`: the file has
no gap, because an evicted page beyond its end is written only as the next one.
Without it a page could be neither in the buffer nor in the file and yet below the
end of it. A write that stops half way is the exception that `Writes` names: it may
leave one page of the file torn, or a part of a page behind the last one, but the
frame of that page stays in the buffer and dirty (`FailedSound`, `TornQuiet`), so that
no reader is shown it.

**Paged files** (`PageFileProofs`). `TypeOK`, `HeaderMatchesFile`, `HeldPagesInUse`,
`FreeListExact`, and that a handle implements `PagedFile`, for any number of pages,
slots and pins and any failing call. The inductive invariant `PInv` is stated on
what callers see, through `FileInv`: pages below `numPages` exist and no other, held
pages are in use, and some sequence lists every free page once, in the order of
the links from `firstFree`. None of the three is inductive alone: `AllocatePage`
follows a link to a page, and that the page is free and held by nobody is known
only because the list is exact. Blocks of memory change none of the three. The methods are shown to change view, pins and
header (`GetShows`, `UpdateShows`, `UnpinShows`), these changes to keep `FileInv`
(`ReuseKeeps`, `ExtendKeeps`, `DisposeKeeps`) and to be steps of `PagedFile`.
`FreeListExact` states what a walk of at most `numPages` links meets; `WalkFollowsList`
shows that it is the list of the invariant. Assumed: `PageFileAssumption`.

**Record files** (`FileProofs`, `RecordMgrProofs`). `TypeOK`, `CountsExact`, `HeadInFile`,
`InsertsSucceed`, `InsertAddsOne`, and that a record file implements `HeapFile`,
for any number of pages, slots and record values. None of these is inductive:
that the head of the chain is a page of the file needs the same of every link
that may become the head, and the link of a full page is a mark. `FileSound(N, f)`,
for pages of `N` slots, adds that links stay in the file and that a page with room does not carry the
mark (`RM_PAGE_FULLY_USED`); then a stale header on disk does no harm, because
`GetNextFreePage` looks at the count of the page it names. `FillSound`,
`ClearSound`, `UpdateSound`, `AddPageSound` and `CloseSound` carry it through
the operations; `GrownFile` and `ChangedSlot` say what becomes of the
records, and the refinement follows action by action. Assumed: `RecordAssumption`
(no record is the mark `Free`) and `RecordMgrAssumption` (a page has a slot).

**Index** (`FileProofs` for trees and inserts, `IndexMgrProofs`). `TypeOK`, `TreeExact`, `LeavesChained`, `DeletesSucceed`,
`OnlyEmptyingBreaks`, and that inserts and deletes do to the entries what they do in
one sorted leaf (`ActsAsSortedIndex`), for any capacity of a node, any number of
entries and levels, and any set of keys. The difficulty is that the properties speak
of walks (from the root down, along a level) over a tree in the middle of being
changed: `InsertEntry` first raises the bounds on the path, then splits one node
after the other from the leaf up, and between two splits the parent lacks an entry.
The proof never follows a walk to learn what a tree is. `Tree(N, root, h, lv, at, off,
F, T)` gives it by ghosts instead: the level `lv[p]` of each page, its place `at[p]` in
the level, the entries `F[i]` of each whole level as one sequence, and where in it
those of the page begin (`off[p]`). Then "an inner entry is the page and the largest
key of a node below" is an equation between `F[i][j]` and the node at place `j` of
level `i + 1`; a split changes one level by a cut in `F` (`CutTree`), an insert by one
place more (`PlusTree`), a new root adds a level (`AboveTree`), and what a walk
meets is read off the ghosts at the end (`LevelReads`). The last ghost, `T`, is for equal
keys. `InsertEntry` finds the place of a node in its parent again by its largest key; if
two children end with the same key it finds the first of them. `T` names the record id
at the end of each subtree, all different and each belonging to its key; as many equal
keys on a level therefore need as many record ids with that key, and the place is
right as long as these are few. The inductive invariant `IInv` is that header, free
pages and pins agree (`Shaped`, `Header`) and that a file without dangling links has
such ghosts (`Held`). A split of a node in the middle of the loop has an invariant of
its own, `Loop`: a tree as it would be with the parent's entry already there. Assumed:
`NodeAssumption`, `IndexTreeAssumption`, and `Sparse`: equal entries are no more than half
a node, or than half and one while all entries up to them fit into one node.
`MCIndexMgr.cfg` has such keys (an `ASSUME` of `MCIndexMgr` has TLC evaluate it), and
`index_same` shows what the code does without it. `CarefulSpec` deletes only in trees of up to two
levels, because in a taller one `DeleteEntry` spoils the bounds (see section 3).
Inserts are proved for trees of every height. What needs no variables of a session is
in `FileProofs`, with the lemmas about record files: it declares the constants of both
kinds of files, and no proof about one of them uses an assumption about the other.

**Tables** (`TableProofs`). `TypeOK`, `RidsAgree`, `IndexExact`, `SelectExact`,
`DeletesSucceed`, and that a careful session implements `RowStore`, for any number of
columns, pages, slots and values and for up to `MaxKeys` rows. The bound on the rows
is the condition under which `SortedIndex` and `SortedScan` are the index of the code
at all, so it is proved first: `IndexesAreLeaves` says that no index ever holds more
entries than a leaf (`OneLeaf`), because there is an entry for at most each row, and
`SelectsExactly` and `TablesAreRelations` state it together with what they say of
selections and statements. Nothing in the code makes two columns agree:
each record file picks its own rids, from a chain of its own. They agree because
they are alike and make the same of the same calls. `Alike(f, g)` says that two
files have equal headers, as many pages, and on each page the same link, count and
free slots; their records may differ. `AlikeInsert` shows that two such files choose
the same rid and stay alike, whatever they store; `AlikeDelete`, `AlikeUpdate` and
`AlikeClose` do the other calls. To agree on the rids in use would not be enough: two files that do
may have their free pages on different chains, and part at the next insert. An index
is exact because record file and index change together: `Indexed(f, ix)` says that
`ix` holds, in the order of the keys, an entry for each record of `f` that is not
`NULL`, and `IndexedInsert` and `IndexedDelete` keep it through one call on each.
The inductive invariant `TableSound(N)` is that each column has a sound
record file of `N` slots to a page, closed, with such an index, that any two columns
are alike, and that no column is named twice. A statement folds over the rows
it selected; `DeletesStepwise` and `UpdatesStepwise` give the fold as a sequence of
partial results, and `RowsDeleted` and `RowsUpdated` show what each of them has
done. `WhereFinds` shows that a scan returns the rids of `Where(c, op, v)`, once each:
`FindKey` is where the first key that is not smaller would be, and what lies beyond
the end of the scan does not match. From this `DELETE` finds each of its rows in
every column, and each statement is a step of `RowStore` on the rows `Shown`.

Assumed: `TableAssumption`, `RecordAssumption`, and `Careful(N)`, which says of the
constants what `CarefulSpec` cannot say of the steps: all columns have `N` slots to a
page, the statements name no value of zero bytes, compare with `=`, `<` or `>=`,
and create no table without columns. `MCTable.cfg` gives the constants such values.
None can be dropped: `table_rids` and `table_zero` show what happens without the
first and the second; `<=` returns one of several duplicates and `>` is read as `>=`;
and a table without columns has no first column to read the rows from.

**How walks are reasoned about.** The induction theorems of the library take an
operator as a parameter, which the provers cannot instantiate. `LeastMember` goes
around it (a set of naturals that is not empty has a least member, from the
well-founded order on them), and with it that a recursive function whose step does
not leave its domain satisfies its equation (`Iterates` and `Folds` in
`PoolTablesProofs`). A proof about a walk then takes the least step at which the claim
fails. The folds of `Table` are unfolded in the same way, from the definition of
`FoldLeft` in the community modules.

**Only model-checked.** The scans of a tree (`RightScansExact`, `LeftScansFollowLinks`): what
they meet is proved (`LeavesChained`), what they select of it is a fold over a sequence
whose length differs from that of the sequence it is compared with. `Table` is proved on
`SortedScan`, for indexes of one leaf; that the scans of such an index are those of
`SortedScan` is part of these two properties. For the entries
themselves `ActsAsSortedIndex` is the joint, and it is proved. `Database` and
`Schemas`: `Database` runs a series of file operations with a `RECURSIVE` operator,
which the SMT backend does not accept. And the five runs that show a disagreement.
There is no liveness, so none is left unproved.

## 5. What is left out, and why

- Crashes within one file operation: a `.scm` file that is created and not yet
  written, a page file with its header and not all its pages. Pages are written
  by `write` without `fsync`, and nothing says what a file then holds. `Database`
  takes creating and writing one file for one step, and an `insert` into one
  column for another.
- The list of databases in `main`: it is read once and rewritten whole. Dropping
  a name that is not valid enters it with an empty path (`wsql.cc:829`), and a
  session that ends between `mkdir` and the rewriting leaves a directory the list
  does not have (`wsql.cc:812`); both are in the list of hazards.
- Tables so large that an index has several leaves (section 3): `IndexMgr` has such
  indexes, but no module has a table on them.
- A header of a paged file that is written half way: `bHdrChanged` stays set and the
  whole header is written before the file can close, so that nobody reads it.
- Failing I/O is modelled in the buffer and the paged file; a failing page call in
  `RM_FileHandle` returns before anything has changed, and is left out of
  `RecordFile`; of the index, page calls that fail are left out.
- What the index does on a tree with a link to a disposed page: it goes through a
  null pointer or takes a reused page for a node. `!=` scans never end there.
- The page scans of `PF_FileHandle` (`GetNextPage` and the like) are runs of
  `Get` and change nothing else.
- A negative bucket in `PF_HashTable::Insert` and `Delete` indexes in front of
  the array; what happens then is undefined, and such keys are kept to `Find`.
- `CloseRMFile` on a file with a pinned page, which drops what was not written,
  and an overflow of the `short` pin count.
- Texts: parsing of statements, conversion of values, strings cut to their
  length. The documented `update` on one line always fails, because the rest of
  the line is read as the value list; `Update` models the method it should reach.
- `PF_PageHandle`, error messages, `PrintBuffer` and the statistics.

## 6. Plan

Done, in this order: the buffer (links, chains, pool, contract), the paged file,
the record file, the table on sorted indexes, the index with splits and links, the
statements about whole tables with sessions that end; the proofs of the buffer, the
paged file, the record file, the table and the index, with the contract each
implements.

Next, most important first:

1. The scans of the index: that a fold along the leaves selects what the fold over
   one leaf does; then `Table` on indexes of several leaves, with the rows that scans
   then miss.
2. `Database`: the series of file operations without a `RECURSIVE` operator, and the
   proof that between statements the files are those the schemas name.
3. `Catalog`: the list of databases in memory, in its file and as directories.
4. `Table` with columns added to a table that has rows: a run on the drift of
   counts and rids that `CopyNullFromOthers` causes.
5. The linked list and the statistics manager, last, for they are not compiled by
   default.

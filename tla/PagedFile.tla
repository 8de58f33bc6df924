----------------------------- MODULE PagedFile -----------------------------
(***************************************************************************)
(* What PF_FileHandle promises: a file is a set of numbered pages.  A page *)
(* keeps what was last written to it, across any number of closes and      *)
(* opens, until it is disposed of; a page somebody holds cannot be         *)
(* disposed of; and a file with pages still held does not close.           *)
(***************************************************************************)
EXTENDS Integers

CONSTANTS
  MaxPages,   \* bound: pages are numbered 0 .. MaxPages-1
  Vals,       \* what a page can hold
  ZeroVal     \* a page of zero bytes

VARIABLES
  pages,   \* the content of every page of the file
  open,    \* whether the file is open
  pins     \* pins[n]: how many handles on page n are still to be unpinned

vars == <<pages, open, pins>>

PageNums == 0 .. MaxPages - 1
NoPages  == [n \in {} |-> ZeroVal]

Init ==
  /\ pages = NoPages
  /\ open = FALSE
  /\ pins = [n \in PageNums |-> 0]

\* A call that fails, or only moves pages between the buffer and the disk.
Unseen == UNCHANGED vars

Open    == ~open /\ open' = TRUE /\ UNCHANGED <<pages, pins>>
Close   == /\ open /\ \A n \in PageNums : pins[n] = 0
           /\ open' = FALSE /\ UNCHANGED <<pages, pins>>
Destroy == ~open /\ pages' = NoPages /\ UNCHANGED <<open, pins>>

Allocate(n) ==
  /\ open
  /\ pins' = [pins EXCEPT ![n] = 1]
  /\ n \notin DOMAIN pages
  /\ pages' = [m \in DOMAIN pages \cup {n} |-> IF m = n THEN ZeroVal ELSE pages[m]]
  /\ UNCHANGED open

Dispose(n) ==
  /\ open /\ pins[n] = 0
  /\ n \in DOMAIN pages
  /\ pages' = [m \in DOMAIN pages \ {n} |-> pages[m]]
  /\ UNCHANGED <<open, pins>>

Get(n) ==
  /\ open
  /\ pins' = [pins EXCEPT ![n] = @ + 1]
  /\ n \in DOMAIN pages
  /\ UNCHANGED <<pages, open>>

Write(n, v) ==
  /\ pins[n] > 0
  /\ pages' = [pages EXCEPT ![n] = v]
  /\ UNCHANGED <<open, pins>>

Unpin(n) ==
  /\ pins[n] > 0
  /\ pins' = [pins EXCEPT ![n] = @ - 1]
  /\ UNCHANGED <<pages, open>>

Next ==
  \/ Unseen
  \/ Open
  \/ Close
  \/ Destroy
  \/ \E n \in PageNums : Allocate(n) \/ Dispose(n) \/ Get(n) \/ Unpin(n)
  \/ \E n \in PageNums, v \in Vals : Write(n, v)

Spec == Init /\ [][Next]_vars
=============================================================================

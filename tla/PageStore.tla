----------------------------- MODULE PageStore -----------------------------
(***************************************************************************)
(* What the callers of PF_BufferMgr may rely on, with no slots, no lists   *)
(* and no hash table.  A page is read as it was last written (view), the   *)
(* file (stable) only ever receives what a reader would have seen, or the  *)
(* part of it that a failing write got to the file, a page stays for as    *)
(* long as it is pinned, and changes are dropped only by the operation     *)
(* that is documented to drop them, and only all at once.                  *)
(***************************************************************************)
EXTENDS Integers

CONSTANTS
  MaxPages,   \* bound: a file holds pages 0 .. MaxPages-1
  Data,       \* what a page can hold
  Zero,       \* a page of zero bytes
  Torn,       \* what a write that stops half way may leave in a page
  Absent      \* no such page

VARIABLES
  view,     \* view[n]: what a reader of page n is shown
  stable,   \* stable[n]: what the file holds
  pins      \* pins[n]: how many GetPage calls on n are still to be unpinned

vars == <<view, stable, pins>>

PageNums == 0 .. MaxPages - 1

Init ==
  /\ view = [n \in PageNums |-> Absent]
  /\ stable = [n \in PageNums |-> Absent]
  /\ pins = [n \in PageNums |-> 0]

\* Save some pages: the file takes over their view.  At most one save, that of
\* page t, stops half way; a reader is still shown the whole page.  A page
\* before a saved one, in neither the file nor memory, is a hole: zero bytes,
\* or what an earlier save that stopped half way has left there.
NoPage   == -1
Saved(n) == view[n] # Absent /\ stable'[n] = view[n]
Hole(n, t) == /\ stable[n] = Absent
              /\ stable'[n] \in Torn \cup {Zero}
              /\ \E m \in PageNums : m > n /\ stable[m] = Absent /\ (Saved(m) \/ m = t)
Save ==
  /\ stable' \in [PageNums -> Data \cup {Absent}]
  /\ \E t \in {n \in PageNums : view[n] # Absent} \cup {NoPage} :
       \A n \in PageNums :
         \/ stable'[n] = stable[n]
         \/ Saved(n)
         \/ Hole(n, t)
         \/ n = t /\ stable'[n] \in Torn

\* What readers see while some pages are saved: no page reads differently.
Shown(n) == IF view[n] = Absent THEN stable'[n] ELSE view[n]

\* Pin page n; making room for it may save other pages.
Pin(n) ==
  /\ Save
  /\ view' = [m \in PageNums |-> Shown(m)]
  /\ view'[n] # Absent
  /\ pins' = [pins EXCEPT ![n] = @ + 1]

\* A new page, pinned, with the content its creator gives it.
Create(n, d) ==
  /\ view[n] = Absent
  /\ Save
  /\ view' = [m \in PageNums |-> IF m = n THEN d ELSE Shown(m)]
  /\ pins' = [pins EXCEPT ![n] = 1]

Change(n, d) ==
  /\ pins[n] > 0
  /\ view' = [view EXCEPT ![n] = d]
  /\ UNCHANGED <<stable, pins>>

Unpin(n) ==
  /\ pins[n] > 0
  /\ pins' = [pins EXCEPT ![n] = @ - 1]
  /\ UNCHANGED <<view, stable>>

WriteBack ==
  /\ Save
  /\ view' = [m \in PageNums |-> Shown(m)]
  /\ UNCHANGED pins

\* Drop the unsaved changes of every page nobody has pinned.
Discard ==
  /\ view' = [n \in PageNums |-> IF pins[n] = 0 THEN stable[n] ELSE view[n]]
  /\ UNCHANGED <<stable, pins>>

Next ==
  \/ \E n \in PageNums : Pin(n) \/ Unpin(n)
  \/ \E n \in PageNums, d \in Data : Create(n, d) \/ Change(n, d)
  \/ WriteBack
  \/ Discard

Spec == Init /\ [][Next]_vars
=============================================================================

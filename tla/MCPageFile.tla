---------------------------- MODULE MCPageFile ----------------------------
(***************************************************************************)
(* PageFile with two pages in a buffer of two slots, either of which a     *)
(* block of memory may take: AllocatePage may then have to evict a page.   *)
(***************************************************************************)
EXTENDS PageFile, TLC

CONSTANTS zero, v1

MCVals == {zero, v1}
MCData == [nextFree : -2 .. MaxPages - 1, val : MCVals]
MCZero == [nextFree |-> 0, val |-> zero]

\* States that differ in no more than what a slot held before it was freed or
\* became a block of memory: nobody reads that.
LiveKeys   == [s \in Slots |-> IF s \in pool.used THEN pool.key[s] ELSE NoKey]
LiveFrames == [s \in Slots |-> IF LiveKeys[s][1] = Fd THEN pool.data[s] ELSE Zero]
LiveState  == <<exists, bFileOpen, hdr, bHdrChanged, diskHdr,
                [pool EXCEPT !.key = LiveKeys, !.data = LiveFrames]>>
SlotSymmetry == Permutations(Slots)
=============================================================================

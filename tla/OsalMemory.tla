------------------------------ MODULE OsalMemory ------------------------------
(***************************************************************************)
(* The heap of the OSAL (osal/common/OSAL_Memory.c).  Blocks follow one    *)
(* another, each with a header that holds its length and whether it is in  *)
(* use.  The first part is the small-block bucket: a block that is always  *)
(* in use keeps it apart from the rest, and ff1 points to where its first  *)
(* free block may be.  Until osal_mem_kick all requests are served from    *)
(* ff1; afterwards only small ones are.  A request looks for the first     *)
(* run of free blocks that is long enough and joins them on its way.       *)
(*                                                                         *)
(* The search runs with interrupts held off, so nothing comes between its  *)
(* steps; each turn of its loop is one action here.  Addresses and lengths *)
(* count the same unit.  Callers free what they were given and nothing     *)
(* else, and ask for at least one unit and less than 2^16 - Hdr: a larger  *)
(* request wraps to a small one.                                           *)
(***************************************************************************)
EXTENDS Integers

CONSTANTS
    Hdr,        \* OSALMEM_HDRSZ
    MinBlk,     \* OSALMEM_MIN_BLKSZ: a shorter rest is not split off
    SmallBlk,   \* OSALMEM_SMALL_BLKSZ, its header included
    Bucket,     \* OSALMEM_SMALLBLK_BUCKET
    End,        \* where the header is that marks the end of the heap
    Requests    \* the sizes that are asked for

ASSUME SizesAssumption ==
    /\ Hdr \in Nat /\ Hdr >= 1 /\ MinBlk \in Nat /\ MinBlk >= Hdr + 1
    /\ SmallBlk \in Nat /\ Bucket \in Nat /\ Bucket >= Hdr + 1
    /\ End \in Nat /\ End >= Bucket + 2 * Hdr + 1
    /\ Requests \subseteq Nat \ {0}

VARIABLES
    heads,    \* where the headers are, the one at the end left out
    len,      \* the length in each header
    used,     \* the headers whose inUse is set
    ff1,      \* where the first free block of the bucket may be
    kicked,   \* osalMemStat: osal_mem_kick has not been called, is running, is done
    given,    \* what each address was handed out for, or 0
    step,     \* what osal_mem_alloc does: nothing, its loop, its return
    size,     \* its size, the header included
    start,    \* where its search began
    at,       \* its hdr
    prev      \* its prev when coal is set, else None

heapVars == <<heads, len, used, ff1, given>>
searchVars == <<size, start, at, prev>>
memVars == <<heads, len, used, ff1, kicked, given, step, size, start, at, prev>>

None == -1
Pos == 0 .. End
BigBlk == Bucket + Hdr   \* OSALMEM_BIGBLK_IDX

HeapInit ==   \* osal_mem_init
    /\ heads = {0, Bucket, BigBlk}
    /\ len = [h \in Pos |-> CASE h = 0 -> Bucket
                              [] h = Bucket -> Hdr
                              [] h = BigBlk -> End - BigBlk
                              [] OTHER -> 0]
    /\ used = {Bucket}
    /\ ff1 = 0 /\ kicked = "no" /\ given = [h \in Pos |-> 0]
    /\ step = "idle" /\ size = 0 /\ start = 0 /\ at = 0 /\ prev = None

--------------------------------------------------------------------------------
(* osal_mem_alloc *)

Starts(request) ==
    /\ step = "idle"
    /\ size' = request + Hdr
    /\ start' = IF kicked = "yes" /\ request + Hdr > SmallBlk THEN BigBlk ELSE ff1
    /\ at' = start' /\ prev' = None
    /\ step' = "loop"
    /\ UNCHANGED heapVars

Alloc(request) == request \in Requests /\ Starts(request) /\ UNCHANGED kicked

(* The header after the one at at. *)
Goes(p) == /\ prev' = p /\ at' = at + len[at]
           /\ step' = IF at + len[at] = End THEN "null" ELSE "loop"
           /\ UNCHANGED <<kicked, size, start, used, ff1, given>>

(* A slip for SkipsUsed: coal is not cleared. *)
SkipsUsedCoalescing == step = "loop" /\ at \in used /\ Goes(prev) /\ UNCHANGED <<heads, len>>

SkipsUsed == step = "loop" /\ at \in used /\ Goes(None) /\ UNCHANGED <<heads, len>>

SkipsSmall ==
    /\ step = "loop" /\ at \notin used /\ prev = None /\ len[at] < size
    /\ Goes(at) /\ UNCHANGED <<heads, len>>

(* A slip for Coalesce: the length is not added. *)
CoalesceShort(p) == heads' = heads \ {at} /\ len' = [len EXCEPT ![at] = 0]

(* The header at at is part of its block from now on. *)
Coalesce(p) == /\ heads' = heads \ {at}
               /\ len' = [len EXCEPT ![p] = @ + len[at], ![at] = 0]

Joins ==
    /\ step = "loop" /\ at \notin used /\ prev # None /\ len[prev] + len[at] < size
    /\ Coalesce(prev) /\ Goes(prev)

(* A block that is long enough is found: at itself, or prev with at joined to it.
   It is taken at the return. *)
Fits == /\ step = "loop" /\ at \notin used /\ prev = None /\ len[at] >= size
        /\ step' = "take"
        /\ UNCHANGED <<heapVars, kicked, searchVars>>

FitsJoined ==
    /\ step = "loop" /\ at \notin used /\ prev # None /\ len[prev] + len[at] >= size
    /\ Coalesce(prev) /\ at' = prev /\ prev' = None
    /\ step' = "take"
    /\ UNCHANGED <<kicked, size, start, used, ff1, given>>

Returns == step' = "idle" /\ size' = 0 /\ start' = 0 /\ at' = 0 /\ prev' = None

(* The block is split when the rest is worth it, marked, and ff1 moved past it. *)
Splits == len[at] - size >= MinBlk
Taken == IF Splits THEN size ELSE len[at]

Takes ==
    /\ step = "take"
    /\ heads' = IF Splits THEN heads \cup {at + size} ELSE heads
    /\ len' = IF Splits THEN [len EXCEPT ![at] = size, ![at + size] = len[at] - size] ELSE len
    /\ used' = used \cup {at}
    /\ ff1' = IF kicked = "yes" /\ ff1 = at THEN at + Taken ELSE ff1
    /\ given' = [given EXCEPT ![at] = size]
    /\ IF kicked = "now" THEN step' = "kick" /\ UNCHANGED searchVars ELSE Returns
    /\ UNCHANGED kicked

(* Null is returned; osal_mem_kick asserts that it is not. *)
Fails ==
    /\ step = "null"
    /\ IF kicked = "now" THEN step' = "halted" /\ UNCHANGED searchVars ELSE Returns
    /\ UNCHANGED <<heapVars, kicked>>

(* osal_mem_free *)
Free(h) ==
    /\ step = "idle" /\ given[h] # 0
    /\ used' = used \ {h}
    /\ ff1' = IF ff1 > h THEN h ELSE ff1
    /\ given' = [given EXCEPT ![h] = 0]
    /\ UNCHANGED <<heads, len, kicked, step, searchVars>>

(* osal_mem_kick: ff1 is moved past the long-lived blocks to the first that could be
   given out, which is found by taking it and is freed again. *)
Kick == kicked = "no" /\ Starts(1) /\ kicked' = "now"

KickEnds ==
    /\ step = "kick"
    /\ used' = used \ {at} /\ given' = [given EXCEPT ![at] = 0]
    /\ ff1' = at /\ kicked' = "yes" /\ Returns
    /\ UNCHANGED <<heads, len>>

Search == SkipsUsed \/ SkipsSmall \/ Joins \/ Fits \/ FitsJoined
Call == \/ \E request \in Requests : Alloc(request)
        \/ \E h \in heads : Free(h)
        \/ Kick

HeapNext == Call \/ Search \/ Takes \/ Fails \/ KickEnds

HeapSpec == HeapInit /\ [][HeapNext]_memVars

--------------------------------------------------------------------------------
(* Properties. *)

(* Type correctness. *)
HeapTypeOK ==
    /\ heads \subseteq 0 .. End - 1 /\ used \subseteq heads
    /\ len \in [Pos -> Nat] /\ given \in [Pos -> Nat]
    /\ ff1 \in heads \cup {End} /\ kicked \in {"no", "now", "yes"}
    /\ step \in {"idle", "loop", "take", "kick", "null", "halted"}
    /\ size \in Nat /\ start \in Nat /\ at \in Pos /\ prev \in Pos \cup {None}

(* The blocks tile the heap whatever was split and joined: each ends where the next
   begins, the last at the end, and none reaches into another. *)
Tiled ==
    /\ 0 \in heads /\ Bucket \in heads /\ BigBlk \in heads
    /\ \A h \in heads : /\ len[h] >= Hdr /\ h + len[h] \in heads \cup {End}
                        /\ \A g \in heads : g > h => g >= h + len[h]

(* What was handed out stays marked and at least as long as was asked for: no search
   joins it to a free block and no split cuts it. *)
GivenKept ==
    \A h \in Pos : given[h] # 0 => h \in used /\ len[h] >= given[h]

(* ff1 is never past a free block, so that small requests find it: osal_mem_alloc
   moves ff1 on and osal_mem_free moves it back. *)
FirstFree == \A h \in heads \ used : ff1 <= h

(* osal_mem_alloc, osal_mem_free, osal_mem_kick: between any two steps of a search the
   headers are those of a heap in order. *)
HeapSound == Tiled /\ GivenKept /\ FirstFree

(* Null is returned only when no run of free blocks from the start of the search on
   would do, for all that were next to each other have been joined. *)
FailsOnlyWhenFull ==
    step = "null" => \A h \in heads \ used :
                      h >= start => len[h] < size /\ h + len[h] \in used \cup {End}

Heap == INSTANCE Allocator

(* For its callers the heap is an allocator: no two blocks that are handed out
   overlap, whatever was split, joined and freed in between. *)
ImplementsAllocator == Heap!AllocatorSpec
=============================================================================

------------------------------- MODULE Allocator -------------------------------
(***************************************************************************)
(* What osal_mem_alloc and osal_mem_free promise to their callers: a piece *)
(* of the heap that is handed out lies inside the heap and shares nothing  *)
(* with a piece that was handed out before and has not been freed; and     *)
(* only freeing takes a piece away.                                        *)
(***************************************************************************)
EXTENDS Integers

CONSTANT End   \* the end of the heap

VARIABLE given   \* for each address the length handed out there, or 0

Addresses == 0 .. End

AllocatorInit == given = [h \in Addresses |-> 0]

Apart(h, n, g, m) == h + n <= g \/ g + m <= h

Give(h, n) ==
    /\ given[h] = 0 /\ h + n <= End
    /\ \A g \in Addresses : given[g] # 0 => Apart(h, n, g, given[g])
    /\ given' = [given EXCEPT ![h] = n]

Release(h) == given[h] # 0 /\ given' = [given EXCEPT ![h] = 0]

AllocatorNext == \E h \in Addresses : \/ Release(h)
                                      \/ \E n \in 1 .. End : Give(h, n)

AllocatorSpec == AllocatorInit /\ [][AllocatorNext]_given
=============================================================================

-------------------------------- MODULE NvStore --------------------------------
(***************************************************************************)
(* What the non-volatile memory of the OSAL promises to its callers: a     *)
(* table of items in which an operation changes one item at one moment     *)
(* between its call and its return, or, when the power fails first, not    *)
(* at all.  Nothing else changes an item, a reset and what osal_nv_init    *)
(* does after it included.                                                 *)
(***************************************************************************)
CONSTANTS Items,    \* the ids of the items
          Values,   \* what an item can hold
          Missing   \* no value: what an id has that was never initialised, or was deleted

VARIABLES store,   \* what each item holds
          busy,    \* the operation that was called and has not returned, or Idle
          up       \* osal_nv_init has returned since the last reset

storeVars == <<store, busy, up>>

Idle == [id |-> Missing, val |-> Missing]

StoreInit == store = [id \in Items |-> Missing] /\ busy = Idle /\ up = FALSE

(* osal_nv_item_init of a new item, or osal_nv_write of another value. *)
Call(id, v) ==
    /\ up /\ busy = Idle /\ busy' = [id |-> id, val |-> v]
    /\ store[id] # v
    /\ UNCHANGED <<store, up>>

Takes ==
    /\ busy # Idle /\ UNCHANGED <<busy, up>>
    /\ store' = [store EXCEPT ![busy.id] = busy.val]

(* The operation returns SUCCESS, or NV_ITEM_UNINIT for a new item, and the item
   holds the value at the latest now. *)
Returns ==
    /\ busy # Idle /\ busy' = Idle /\ UNCHANGED up
    /\ store' = [store EXCEPT ![busy.id] = busy.val]

(* osal_nv_delete, which writes one word. *)
Delete(id) ==
    /\ up /\ busy = Idle /\ UNCHANGED <<busy, up>>
    /\ store[id] # Missing
    /\ store' = [store EXCEPT ![id] = Missing]

PowerFails == busy' = Idle /\ up' = FALSE /\ UNCHANGED store

Restarts == ~up /\ up' = TRUE /\ UNCHANGED <<store, busy>>

StoreNext ==
    \/ PowerFails \/ Restarts \/ Takes \/ Returns
    \/ \E id \in Items : (\E v \in Values : Call(id, v)) \/ Delete(id)

(* No step of the promise: osal_nv_init gives up the items of S. *)
Loses(S) ==
    /\ ~up /\ up' \in BOOLEAN
    /\ busy = Idle /\ UNCHANGED busy
    /\ store' = [id \in Items |-> IF id \in S THEN Missing ELSE store[id]]

StoreSpec == StoreInit /\ [][StoreNext]_storeVars
=============================================================================

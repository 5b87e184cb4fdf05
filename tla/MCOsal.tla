------------------------------ MODULE MCOsal ------------------------------
(* Two tasks, each with one event of its own and its messages; the second may
   use a timer that reloads itself. *)
EXTENDS Osal

MCReloaded == {<<2, "event">>}
=============================================================================

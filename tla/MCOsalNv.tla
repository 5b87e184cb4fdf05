------------------------------- MODULE MCOsalNv -------------------------------
(* A small flash for TLC. *)
EXTENDS OsalNv

CONSTANTS id1, id2

(* Items of two sizes: a page that was compacted need not be full. *)
MCSize == [id \in Items |-> IF id = id1 THEN 1 ELSE 2]
=============================================================================

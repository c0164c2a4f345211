-------------------------- MODULE MCInventoryTag ---------------------------
(* A small instance of InventoryTag for TLC. *)
EXTENDS InventoryTag
=============================================================================

------------------------------ MODULE MCFindMe ------------------------------
(***************************************************************************)
(* FindMe with the SLE task, the main loop, or both giving commands.       *)
(***************************************************************************)
EXTENDS FindMe

=============================================================================

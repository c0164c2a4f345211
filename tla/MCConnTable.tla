---------------------------- MODULE MCConnTable ----------------------------
(* A small instance of ConnTable: more clients than slots. *)
EXTENDS ConnTable

MCConnIds == 1 .. 4
=============================================================================

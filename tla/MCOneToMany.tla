---------------------------- MODULE MCOneToMany -----------------------------
(* A small instance of OneToMany for TLC. *)
EXTENDS OneToMany

\* More servers of the name than the client has places, and one of another name.
MCServers == 1 .. 4
MCNamed == 1 .. 3
=============================================================================

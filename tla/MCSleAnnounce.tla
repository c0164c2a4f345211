--------------------------- MODULE MCSleAnnounce ---------------------------
(* Small instances of SleAnnounce for TLC. *)
EXTENDS SleAnnounce

\* Publishes by SLE commands only.
MCSleOnly == {"sle"}
\* The main loop and the timer task publish as well.
MCSleAndMain == {"sle", "main"}
MCPm == {"pm"}
=============================================================================

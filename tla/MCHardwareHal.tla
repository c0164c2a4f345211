--------------------------- MODULE MCHardwareHal ---------------------------
(* A small instance of HardwareHal for TLC. *)
EXTENDS HardwareHal

\* The SLE task and the UART console of the main loop run commands.
MCCallers == {"sle", "uart"}
=============================================================================

----------------------------- MODULE MCAirMouse ------------------------------
(* A small instance of AirMouse for TLC. *)
EXTENDS AirMouse

MCChords == {"letter", "volume", "VOICE", "LEFT", "SWITCH", "PAIR", "UNPAIR"}
=============================================================================

------------------------------- MODULE MCRcu --------------------------------
(* A small instance of Rcu for TLC. *)
EXTENDS Rcu

MCChords == {"letter", "volume", "VOICE", "OTT", "TvConnect", "Unpair", "IrLearn"}
MCIds == {0}
=============================================================================

---------------------------- MODULE MCRoundLoop ----------------------------
(* RoundLoop with named objections, for TLC.                               *)
EXTENDS RoundLoop

CONSTANTS o1, o2
=============================================================================

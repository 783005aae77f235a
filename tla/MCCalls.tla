------------------------------ MODULE MCCalls -------------------------------
(* Calls with small ceilings, for TLC.                                     *)
EXTENDS Calls, TLC

CONSTANTS q1, q2

\* One Job bounded by its calls alone, one by its tokens as well.
MCKinds == {[calls |-> 2, tokens |-> 0, refresh |-> FALSE],
            [calls |-> 3, tokens |-> 2, refresh |-> TRUE]}
=============================================================================

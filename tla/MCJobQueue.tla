----------------------------- MODULE MCJobQueue -----------------------------
(* The job queue on small instances; each .cfg asks one question.          *)
EXTENDS JobQueue, TLC

CONSTANTS r1, s1, s2, q1

SlotSymmetry == Permutations({s1, s2})
=============================================================================

-------------------------- MODULE MCCelldSessions --------------------------
(* Instances of CelldSessions for TLC: the slots and the session ids are    *)
(* model values, and interchangeable.                                       *)
EXTENDS CelldSessions, TLC

Symmetry == Permutations(Procs) \union Permutations(SessionIds)
=============================================================================

-------------------------- MODULE MCSessionRouter --------------------------
(***************************************************************************)
(* SessionRouter for TLC: connections and sessions are interchangeable.    *)
(***************************************************************************)
EXTENDS SessionRouter, TLC

Symmetry == Permutations(Clients) \cup Permutations(Sessions) \cup Permutations(Removals)
============================================================================

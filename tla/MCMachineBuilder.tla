-------------------------- MODULE MCMachineBuilder --------------------------
(* Every builder program over two state names, two events, from lists of   *)
(* up to two entries (duplicates included) and two rules.                  *)
EXTENDS MachineBuilder, TLC

MCFromLists == UNION {[1..n -> StateNames] : n \in 1..2}

MCGuardLists == {<<g>> : g \in GuardNames}

Symmetry == Permutations(StateNames) \cup Permutations(EventNames)
=============================================================================

---------------------------- MODULE MCDispatcher ----------------------------
(* One or two subscribers over a log of up to three records of one or two  *)
(* machines, read one record or two at a time.                             *)
EXTENDS Dispatcher, TLC

CONSTANTS m1, m2

MCFilters == {None, m1}
Symmetry == Permutations(Handles) \cup Permutations(Ids)
=============================================================================

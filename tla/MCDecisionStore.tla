--------------------------- MODULE MCDecisionStore ---------------------------
(***************************************************************************)
(* DecisionStore for TLC: two questions, one of them a hard gate.  Request *)
(* slots are interchangeable.                                              *)
(***************************************************************************)
EXTENDS DecisionStore, TLC

CONSTANTS soft, hard

MCIntents == {soft, hard}

MCHard == {hard}

Symmetry == Permutations(Requests)
=============================================================================

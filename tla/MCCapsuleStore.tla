--------------------------- MODULE MCCapsuleStore ---------------------------
(***************************************************************************)
(* CapsuleStore for TLC.  Ids and bodies are only compared for equality,   *)
(* and request slots are interchangeable.                                  *)
(***************************************************************************)
EXTENDS CapsuleStore, TLC

Symmetry ==
    Permutations(Tasks) \cup Permutations(CapsuleIds) \cup Permutations(Bodies)
        \cup Permutations(Requests)
=============================================================================

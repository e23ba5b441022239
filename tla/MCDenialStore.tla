---------------------------- MODULE MCDenialStore ----------------------------
(***************************************************************************)
(* DenialStore for TLC.  The policy's thresholds 3 and 10 become 2 and 3,  *)
(* so that both are reached, in both orders; Row and Outcome are infinite  *)
(* and appear only in membership tests.                                    *)
(***************************************************************************)
EXTENDS DenialStore
=============================================================================

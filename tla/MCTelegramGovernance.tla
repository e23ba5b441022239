------------------------- MODULE MCTelegramGovernance -------------------------
(***************************************************************************)
(* TelegramGovernance for TLC.  YES stands for the two final actions and   *)
(* DEFER for the two that leave the decision open.  Decisions are not      *)
(* symmetric: one of them does not allow DEFER, the other one is also      *)
(* acted on by another interface.                                          *)
(***************************************************************************)
EXTENDS TelegramGovernance
=============================================================================

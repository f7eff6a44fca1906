---------------------------- MODULE MCWithdrawal ----------------------------
(***************************************************************************)
(* Instances of Withdrawal: two withdrawals that compete for slots.        *)
(***************************************************************************)
EXTENDS Withdrawal

============================================================================

---------------------------- MODULE MCWalletAuth ----------------------------
(* WalletAuth on small sets for TLC. *)
EXTENDS WalletAuth, TLC

\* The oracle's keys are interchangeable: nothing compares them but for equality.
KeySymmetry == Permutations(ServerKeys)
=============================================================================

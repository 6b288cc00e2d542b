---------------------------- MODULE SignTxClaims ----------------------------
(* What the code says of signing a transaction, and does not keep. *)
EXTENDS SignTx

\* sign_tx.c:604: "Bitcoin: Confirm all non-change outputs".  The test below the
\* comment begins with 'for_liquid &&', in the branch where that is false: the
\* outputs of a payment in bitcoin are never shown, and it is signed when the user
\* has agreed to its fee.
OutputsConfirmed == Signatures # {} => agreed.outputs
=============================================================================

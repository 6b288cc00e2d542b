------------------------------ MODULE PinVault ------------------------------
(***************************************************************************)
(* What the PIN-protected wallet promises its owner, with no flash, oracle *)
(* or handler in sight.  A sealed wallet can be opened only by spending a  *)
(* guess before the outcome is known, and only a good guess or a new seal  *)
(* refills the budget.  The source a wallet answers to is fixed when it is *)
(* opened, sealed or (for a temporary wallet) first used; only a source    *)
(* that had its session locked to change the PIN elsewhere gets the wallet *)
(* back from there.  The vault may lose its content at any time; it never  *)
(* gives it away.                                                          *)
(* WalletAuth implements this specification.                               *)
(***************************************************************************)
EXTENDS Naturals

CONSTANTS Wallets, TempWallets, Sources, None, MaxAttempts

VARIABLES
    sealed,     \* the wallet that can still be opened with the PIN
    budget,     \* guesses left
    trying,     \* a guess has been spent and its outcome is not yet known
    open,       \* the wallet whose keys are in use
    owner,      \* the source it answers to
    temporary,  \* the open wallet is not to be sealed
    lender      \* the source whose session was locked to change the PIN

vars == <<sealed, budget, trying, open, owner, temporary, lender>>

Init == /\ sealed = None /\ budget = 0 /\ trying = FALSE
        /\ open = None /\ owner = None /\ temporary = FALSE
        /\ lender = None

\* The user brings in a wallet of their own: one to be kept only if none is
\* sealed.
Bring(w, t) ==
    /\ ~trying
    /\ t \/ sealed = None
    /\ open' = w /\ owner' = None /\ temporary' = t
    /\ UNCHANGED <<sealed, budget, trying, lender>>

Adopt(s) ==
    /\ open # None /\ temporary /\ owner = None
    /\ owner' = s
    /\ lender' \in {lender, None}
    /\ UNCHANGED <<sealed, budget, trying, open, temporary>>

Guess ==
    /\ sealed # None /\ budget > 0 /\ ~trying /\ open = None
    /\ budget' = budget - 1 /\ trying' = TRUE
    /\ UNCHANGED <<sealed, open, owner, temporary, lender>>

Open(s) ==
    /\ trying
    /\ open' = sealed /\ owner' = s /\ temporary' = FALSE
    /\ budget' = MaxAttempts /\ trying' = FALSE
    /\ UNCHANGED <<sealed, lender>>

Seal ==
    /\ open # None /\ ~temporary
    /\ sealed' = open /\ budget' = MaxAttempts /\ trying' = FALSE
    /\ UNCHANGED <<open, owner, temporary, lender>>

\* A wallet just sealed answers to the source that had it sealed.
Claim(s) ==
    /\ open # None /\ sealed = open /\ budget = MaxAttempts /\ ~temporary
    /\ owner = None /\ owner' = s
    /\ UNCHANGED <<sealed, budget, trying, open, temporary, lender>>

\* The session is locked to change the PIN, and handed back afterwards.
Lend ==
    /\ open # None /\ ~temporary
    /\ lender' = owner /\ open' = None /\ owner' = None
    /\ UNCHANGED <<sealed, budget, trying, temporary>>

HandBack ==
    /\ open # None /\ ~temporary /\ lender # None
    /\ owner' = lender /\ lender' = None
    /\ UNCHANGED <<sealed, budget, trying, open, temporary>>

\* A guess fails, the wallet is locked, or the sealed wallet is destroyed.
Drop ==
    /\ trying' = FALSE /\ lender' \in {lender, None}
    /\ \/ UNCHANGED <<open, owner, temporary>>
       \/ open' = None /\ owner' = None /\ temporary' = FALSE
    /\ \/ UNCHANGED <<sealed, budget>>
       \/ sealed' = None /\ budget' = 0

Next ==
    \/ \E w \in Wallets \cup TempWallets, t \in BOOLEAN : Bring(w, t)
    \/ \E s \in Sources : Adopt(s) \/ Open(s) \/ Claim(s)
    \/ Guess \/ Seal \/ Lend \/ HandBack \/ Drop

Spec == Init /\ [][Next]_vars
=============================================================================

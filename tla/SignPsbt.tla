------------------------------ MODULE SignPsbt ------------------------------
(* sign_psbt: a partially signed bitcoin transaction comes in one message.  The
   inputs this wallet has keys of are to be signed; what is known of them decides
   which outputs are taken for change and not shown.  The user goes through the
   others and the fee, the inputs are signed, and the result is handed back in
   pieces, each but the first when the app asks for it.

   The wallets registered on the unit, of multisigs or of descriptors, are called
   records.  A Green wallet is not registered: the service's key and this wallet's own
   tell its scripts, with the subaccount and the recovery key, if any, that the
   transaction states of each input and output for itself.  What the scripts are is in
   the fields; the code finds out by making the script for a key and a path and
   comparing. *)
EXTENDS Naturals, FiniteSets, FiniteSetsExt

CONSTANTS
    MaxInputs, MaxOutputs,  \* of a transaction
    Records,                \* wallets registered on the unit
    Greens,                 \* Green wallets: a subaccount and a recovery key, or none
    Lengths,                \* what a signed transaction can be long
    Chunk,                  \* PSBT_OUT_CHUNK_SIZE
    None

ASSUME SignPsbtAssumption ==
    /\ MaxInputs \in Nat \ {0} /\ MaxOutputs \in Nat \ {0}
    /\ Lengths \subseteq Nat \ {0}
    /\ Chunk \in Nat \ {0}
    /\ None \notin Records
    /\ Greens \cap Records = {} /\ "own" \notin Greens \cup Records

VARIABLES
    pc,          \* where the handler is
    req,         \* the transaction
    flags,       \* what kinds of inputs are signed, what became of the search (signing_flags)
    record,      \* the record the inputs are of (multisig_data or descriptor)
    scanned,     \* how many inputs have been looked at
    mine,        \* the inputs to sign (signing_inputs)
    hidden,      \* the outputs taken for change
    seen,        \* the outputs the user has agreed to
    feeSeen,     \* whether the user has agreed to the fee
    signed,      \* the inputs signed
    len,         \* how long the result is
    replies,     \* how many pieces of it have been sent
    sent,        \* how much of it
    fault        \* the assertion that failed

answer == <<len, replies, sent>>
vars == <<pc, req, flags, record, scanned, mine, hidden, seen, feeSeen, signed, answer, fault>>

-----------------------------------------------------------------------------
(* Transactions *)

\* One key of this wallet among none, one, the two or three of a Green multisig, or
\* several.  'wallets' are, of several, the records the script is one of, and of Green's
\* the Green wallet its keys and paths are of: no script is made and compared there.
\* 'long' says that the path of the key is longer than the device reads.
Inputs ==
    [keys: {"none", "single"}, wallets: {{}}, long: {FALSE}]
    \cup [keys: {"green"}, wallets: {{g} : g \in Greens}, long: {FALSE}]
    \cup [keys: {"multi"}, wallets: SUBSET Records, long: BOOLEAN]

\* The wallets a script is of that has the keys of a Green one: that Green wallet, if it
\* is the script of these keys and paths, and records that may have the same keys.
GreenScripts == {G \cup R : G \in {{}} \cup {{g} : g \in Greens}, R \in SUBSET Records}

\* 'own': the script is the one this wallet makes; 'wallets': those it is of; 'change':
\* the path says so; 'usual': it is one this wallet would use.  Every output with the
\* keys of a Green wallet counts as change.
Outputs ==
    [keys: {"none"}, own: {FALSE}, wallets: {{}}, change: {FALSE}, usual: {TRUE}]
    \cup [keys: {"single"}, own: BOOLEAN, wallets: {{}}, change: BOOLEAN, usual: BOOLEAN]
    \cup [keys: {"green"}, own: {FALSE}, wallets: GreenScripts, change: {TRUE}, usual: {TRUE}]
    \cup [keys: {"multi"}, own: {FALSE}, wallets: SUBSET Records, change: BOOLEAN, usual: BOOLEAN]

Transactions(n, k) == [ins: [1..n -> Inputs], outs: [1..k -> Outputs]]

AllTransactions == UNION {Transactions(n, k) : n \in 1..MaxInputs, k \in 1..MaxOutputs}

NoTransaction == [ins |-> <<>>, outs |-> <<>>]

InputsOf(t) == DOMAIN t.ins
OutputsOf(t) == DOMAIN t.outs

Init ==
    /\ pc = "idle"
    /\ req = NoTransaction
    /\ flags = {} /\ record = None
    /\ scanned = 0 /\ mine = {}
    /\ hidden = {} /\ seen = {} /\ feeSeen = FALSE
    /\ signed = {}
    /\ len = 0 /\ replies = 0 /\ sent = 0
    /\ fault = "none"

\* The message being served is answered with an error.
Reject == pc' = "failed"

SignPsbt ==
    /\ pc = "idle"
    /\ req' \in AllTransactions
    /\ pc' = "scan"
    /\ UNCHANGED <<flags, record, scanned, mine, hidden, seen, feeSeen, signed, answer, fault>>

-----------------------------------------------------------------------------
(* The inputs *)

Flag(in) == [single |-> "singlesig", green |-> "green", multi |-> "multisig"][in.keys]

\* Mutant: an input that does not fit the record leaves it standing.
MatchFirst(in, found) == record' = record /\ flags' = found

\* A record held already has to fit.
MatchHeld(in, found) ==
    /\ record' = record
    /\ flags' = IF record \in in.wallets THEN found ELSE found \cup {"abandoned"}

\* The registered multisigs and then the descriptors are gone through for one that fits.
FindRecord(in, found) ==
    \/ in.wallets = {} /\ record' = record /\ flags' = found \cup {"abandoned"}
    \/ record' \in in.wallets /\ flags' = found \cup {"record"}

\* An input of this wallet: the search for the one record all of them are of goes on,
\* or is given up for good.  A path that is too long leaves things as they are.
LookAt(in) ==
    LET found == flags \cup {Flag(in)}
        given == found \cap {"singlesig", "green"} # {}
    IN  IF "abandoned" \in found \/ given
        THEN flags' = found \cup {"abandoned"} /\ record' = record
        ELSE IF in.long THEN flags' = found /\ record' = record
        ELSE IF "record" \in found THEN MatchHeld(in, found) ELSE FindRecord(in, found)

ScanInput ==
    LET i == scanned + 1
        in == req.ins[i]
    IN  /\ pc = "scan"
        /\ scanned' = i
        /\ IF in.keys = "none" THEN UNCHANGED <<flags, record, mine>>
           ELSE mine' = mine \cup {i} /\ LookAt(in)
        /\ pc' = IF i + 1 \in InputsOf(req) THEN "scan" ELSE "amounts"
        /\ UNCHANGED <<req, hidden, seen, feeSeen, signed, answer, fault>>

\* Its amount is missing, or it is to be signed in a way that is not supported; or, when
\* all have been seen, less comes in than goes out.
RejectAmounts ==
    /\ pc \in {"scan", "amounts"}
    /\ Reject
    /\ UNCHANGED <<req, flags, record, scanned, mine, hidden, seen, feeSeen, signed, answer, fault>>

-----------------------------------------------------------------------------
(* The outputs *)

\* An output is one of the wallet the inputs are of: of its own key, if one signs;
\* of the record, if nothing else does; or of a Green wallet, whichever its own recovery
\* key and path say, if only Green inputs are signed.
Validated(o) ==
    \/ o.keys = "single" /\ "singlesig" \in flags /\ o.own
    \/ o.keys = "green" /\ flags = {"green", "abandoned"} /\ o.wallets \cap Greens # {}
    \/ o.keys \in {"green", "multi"} /\ flags = {"multisig", "record"} /\ record \in o.wallets

\* One with a warning is shown whatever it is.
TakenForChange(o) == Validated(o) /\ o.change /\ o.usual

ValidateOutputs ==
    /\ pc = "amounts"
    /\ hidden' = {k \in OutputsOf(req) : TakenForChange(req.outs[k])}
    /\ pc' = "outputs"
    /\ UNCHANGED <<req, flags, record, scanned, mine, seen, feeSeen, signed, answer, fault>>

\* Mutant: change is left out, even if it is all there is.
DisplayedAlways == OutputsOf(req) \ hidden

\* If all would be hidden, none is.
Displayed == IF hidden = OutputsOf(req) THEN OutputsOf(req) ELSE OutputsOf(req) \ hidden

\* One screen per output, in their order; going back from any of them ends it all.
AgreeOutput ==
    /\ pc = "outputs"
    /\ Displayed \ seen # {}
    /\ seen' = seen \cup {Min(Displayed \ seen)}
    /\ UNCHANGED <<pc, req, flags, record, scanned, mine, hidden, feeSeen, signed, answer, fault>>

\* show_btc_fee_confirmation_activity() asserts that something is paid.
ShowFee ==
    /\ pc = "outputs"
    /\ Displayed \subseteq seen
    /\ \/ pc' = "fee" /\ UNCHANGED fault
       \/ pc' = "dead" /\ fault' = "nothing_paid"
    /\ UNCHANGED <<req, flags, record, scanned, mine, hidden, seen, feeSeen, signed, answer>>

AgreeFee ==
    /\ pc = "fee"
    /\ feeSeen' = TRUE
    /\ pc' = "sign"
    /\ UNCHANGED <<req, flags, record, scanned, mine, hidden, seen, signed, answer, fault>>

Decline ==
    /\ pc \in {"outputs", "fee"}
    /\ Reject
    /\ UNCHANGED <<req, flags, record, scanned, mine, hidden, seen, feeSeen, signed, answer, fault>>

-----------------------------------------------------------------------------
(* The signatures, and the answer *)

Sign ==
    /\ pc = "sign"
    /\ signed' = mine
    /\ len' \in Lengths
    /\ pc' = "send"
    /\ UNCHANGED <<req, flags, record, scanned, mine, hidden, seen, feeSeen, replies, sent, fault>>

\* A hash or a signature could not be made, or the result not be written: the inputs
\* signed so far go nowhere.
SignFails ==
    /\ pc = "sign"
    /\ signed' \in SUBSET mine
    /\ Reject
    /\ UNCHANGED <<req, flags, record, scanned, mine, hidden, seen, feeSeen, answer, fault>>

\* Mutant: as many messages as there are full pieces.
FullPieces == IF len < Chunk THEN 1 ELSE len \div Chunk

\* How many messages the answer is announced to be.
Messages == len \div Chunk + 1

\* Every message but the last waits to be followed up; that there is something left
\* to send is asserted.
SendChunk ==
    /\ pc = "send"
    /\ IF sent < len
       THEN /\ sent' = sent + Min({Chunk, len - sent})
            /\ replies' = replies + 1
            /\ pc' = IF replies' < Messages THEN "await" ELSE "done"
            /\ UNCHANGED fault
       ELSE /\ pc' = "dead"
            /\ fault' = "nothing_left"
            /\ UNCHANGED <<sent, replies>>
    /\ UNCHANGED <<req, flags, record, scanned, mine, hidden, seen, feeSeen, signed, len>>

\* The app asks for one of the messages, with the number and the count it has been
\* told; another one than the next is an error, as is any other message.
GetExtendedData(seqnum, seqlen) ==
    /\ pc = "await"
    /\ IF seqnum = replies + 1 /\ seqlen = Messages THEN pc' = "send" ELSE Reject
    /\ UNCHANGED <<req, flags, record, scanned, mine, hidden, seen, feeSeen, signed, answer, fault>>

\* The connection goes while the app is waited for.
LinkLost ==
    /\ pc = "await"
    /\ Reject
    /\ UNCHANGED <<req, flags, record, scanned, mine, hidden, seen, feeSeen, signed, answer, fault>>

\* jade_process_call_on_exit(): all is freed, and the main loop waits for the next.
Leave ==
    /\ pc \in {"done", "failed", "dead"}
    /\ pc' = "idle"
    /\ req' = NoTransaction
    /\ flags' = {} /\ record' = None
    /\ scanned' = 0 /\ mine' = {}
    /\ hidden' = {} /\ seen' = {} /\ feeSeen' = FALSE
    /\ signed' = {}
    /\ len' = 0 /\ replies' = 0 /\ sent' = 0
    /\ fault' = "none"

Numbers == 1..(Max(Lengths) \div Chunk + 1)

Next ==
    \/ SignPsbt
    \/ ScanInput \/ RejectAmounts
    \/ ValidateOutputs \/ AgreeOutput
    \/ ShowFee \/ AgreeFee \/ Decline
    \/ Sign \/ SignFails
    \/ SendChunk
    \/ \E seqnum, seqlen \in Numbers : GetExtendedData(seqnum, seqlen)
    \/ LinkLost \/ Leave

Spec == Init /\ [][Next]_vars

-----------------------------------------------------------------------------
(* Properties *)

TypeOK ==
    /\ pc \in {"idle", "scan", "amounts", "outputs", "fee", "sign", "send", "await", "done", "failed", "dead"}
    /\ req \in AllTransactions \cup {NoTransaction}
    /\ flags \subseteq {"singlesig", "green", "multisig", "record", "abandoned"}
    /\ record \in Records \cup {None}
    /\ scanned \in 0..MaxInputs
    /\ mine \subseteq InputsOf(req)
    /\ hidden \subseteq OutputsOf(req) /\ seen \subseteq OutputsOf(req)
    /\ feeSeen \in BOOLEAN
    /\ signed \subseteq mine
    /\ len \in Lengths \cup {0}
    /\ sent \in 0..len /\ replies \in 0..len
    /\ fault \in {"none", "nothing_paid", "nothing_left"}

\* The wallets an input can be said to spend from.
Of(in) ==
    CASE in.keys = "single" -> {"own"}
      [] in.keys \in {"green", "multi"} -> in.wallets

\* Those an output can be said to go back to.
To(o) ==
    CASE o.keys \in {"green", "multi"} -> o.wallets
      [] o.keys = "single" /\ o.own -> {"own"}
      [] OTHER -> {}

\* All inputs to be signed are of Green wallets, and the output is of one, maybe another:
\* its recovery key and its subaccount are not compared with those of the inputs.
FromGreenToGreen(o) ==
    /\ \A i \in mine : req.ins[i].keys = "green"
    /\ To(o) \cap Greens # {}

\* An output the user was not shown is change: it goes back to a wallet that an input
\* to be signed spends from, and, unless it is to the wallet's own single key, one that
\* every input to be signed spends from, but for those whose path is too long to read.
\* The exception is an output to a Green wallet when only Green ones are spent from.
HiddenIsChange ==
    \A k \in OutputsOf(req) : signed # {} /\ k \notin seen =>
        /\ req.outs[k].change
        /\ \/ \E w \in To(req.outs[k]) :
                 /\ \E i \in mine : w \in Of(req.ins[i])
                 /\ w # "own" => \A i \in mine : w \in Of(req.ins[i]) \/ req.ins[i].long
           \/ FromGreenToGreen(req.outs[k])

\* Signatures leave the unit only for a transaction of which the user has agreed to at
\* least one output, to every output not taken for change, and to the fee.
Agreed == replies > 0 => seen # {} /\ OutputsOf(req) \ hidden \subseteq seen /\ feeSeen

\* An answer that was sent to its announced end is whole; and the only thing that stops
\* one half way is its app, or a length that is a multiple of the piece.
Whole ==
    /\ pc = "done" => sent = len /\ replies = Messages /\ signed = mine
    /\ fault = "nothing_left" => sent = len /\ len % Chunk = 0
=============================================================================

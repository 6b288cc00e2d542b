------------------------------- MODULE SignTx -------------------------------
(* sign_tx and sign_liquid_tx: the companion app has the inputs of a transaction
   signed.  It sends the transaction, then one 'tx_input' message per input; the
   user agrees to the outputs before the inputs are sent, and to the fee after.
   There are two ways to hand over the signatures:

   - with anti-exfil (req.ae), every 'tx_input' is answered with the device's
     opening for the app's commitment, or with nothing; then every signature is
     asked for by a 'get_signature' with the app's entropy, and sent in answer;
   - without it, no 'tx_input' is answered until the user has agreed; then all
     of them are, each with its signature.

   Only the app that unlocked the keys is on line (see Dashboard!InterfacesFit).
   The app may be wrong in anything it says of an input: kinds, amounts, order. *)
EXTENDS Naturals, Sequences

CONSTANTS
    MaxInputs,   \* inputs of a transaction, at most
    Values,      \* what an input can be worth
    Outs,        \* what the outputs of a payment can be worth together
    Changes,     \* what of a swap can come back as change
    Word,        \* amounts are unsigned integers below Word
    None

ASSUME SignTxAssumption ==
    /\ MaxInputs \in Nat \ {0}
    /\ Word \in Nat \ {0}
    /\ Values \subseteq 0..(Word - 1)
    /\ Changes \subseteq 0..(Word - 1)
    /\ Outs \subseteq Nat
    /\ None \notin Nat

VARIABLES
    pc,          \* where the handler is
    req,         \* the request being served
    ins,         \* what the app has said of the inputs so far (signing_data->inputs)
    paid,        \* what the inputs so far are worth together (input_amount)
    sum,         \* of the swap's asset, what is known to be put in (validated_value)
    agreed,      \* what the user has agreed to: the outputs, or the swap, and the fee
    got,         \* messages taken since the request
    log,         \* the answers sent to them
    fault,       \* the assertion that failed
    real,        \* history: what the inputs so far are in truth worth together
    net          \* history: of the swap's asset, what the wallet in truth puts in

vars == <<pc, req, ins, paid, sum, agreed, got, log, fault, real, net>>

-----------------------------------------------------------------------------
(* Requests and messages *)

\* Inputs are pre-segwit, segwit v0 or taproot.
Types == {"pre", "v0", "v1"}

Utxos == [type: Types, value: Values]

\* The outputs being spent; whether it is on Liquid, and there a swap, a partial
\* one, without fee; the summary of what the wallet puts in, net of change, as the
\* app states it.  A payment in bitcoin has none of these, and pays out 'out'.
Requests(n) ==
    [utxo: [1..n -> Utxos], ae: BOOLEAN, liquid: {FALSE}, swap: {FALSE}, partial: {FALSE},
     free: {FALSE}, summary: {None}, change: {0}, out: Outs]
    \cup
    {r \in [utxo: [1..n -> Utxos], ae: BOOLEAN, liquid: {TRUE}, swap: BOOLEAN, partial: BOOLEAN,
            free: BOOLEAN, summary: {None} \cup 0..(Word - 1), change: {0} \cup Changes, out: {0}] :
        /\ r.swap => r.summary # None
        /\ r.swap => IF r.partial THEN n = 1 ELSE n >= 2
        /\ r.summary = None => r.change = 0
        /\ r.free => r.partial}

AllRequests == UNION {Requests(n) : n \in 1..MaxInputs}

NoRequest == [utxo |-> <<>>, ae |-> FALSE, liquid |-> FALSE, swap |-> FALSE, partial |-> FALSE,
              free |-> FALSE, summary |-> None, change |-> 0, out |-> 0]

NumInputs == Len(req.utxo)

\* What the app says of an input: to be signed or not, its type, the transaction
\* it spends from in full or only the amount, that amount (on Liquid: the one the
\* value commitment is for), a commitment for anti-exfil, blinding data.
Inputs == [path: BOOLEAN, type: Types, full: BOOLEAN, value: Values, commit: BOOLEAN, blinded: BOOLEAN]

Answer(k, what, i, entropy) == [to |-> k, is |-> what, input |-> i, entropy |-> entropy]
Error(k) == Answer(k, "error", 0, FALSE)

Answers == [to: Nat, is: {"ok", "error", "opening", "empty", "sig"}, input: Nat, entropy: BOOLEAN]

NotAgreed == [outputs |-> FALSE, fee |-> None]

Init ==
    /\ pc = "idle"
    /\ req = NoRequest
    /\ ins = <<>>
    /\ paid = 0
    /\ sum = 0
    /\ agreed = NotAgreed
    /\ got = 0
    /\ log = <<>>
    /\ fault = "none"
    /\ real = 0
    /\ net = 0

Finish(answers) == pc' = "done" /\ log' = log \o answers

-----------------------------------------------------------------------------
(* The request, and what is shown before the inputs *)

\* Unsigned: less than nothing wraps around.
Minus(x) == (Word - x) % Word

\* Change is taken off the summary of what is put in as soon as the outputs have
\* been looked at, in unsigned arithmetic.
SignTx ==
    /\ pc = "idle"
    /\ req' \in AllRequests
    /\ pc' = "outputs"
    /\ sum' = Minus(req'.change)
    /\ net' = (Word - req'.change) % Word
    /\ UNCHANGED <<ins, paid, agreed, got, log, fault, real>>

\* The swap's summaries, or the outputs of a payment, are put to the user on
\* Liquid; in bitcoin nothing is, whatever the comment there says.
ConfirmOutputs ==
    /\ pc = "outputs"
    /\ pc' = "inputs"
    /\ agreed' = [agreed EXCEPT !.outputs = req.liquid]
    /\ log' = Append(log, Answer(0, "ok", 0, FALSE))
    /\ UNCHANGED <<req, ins, paid, sum, got, fault, real, net>>

DeclineOutputs ==
    /\ pc = "outputs"
    /\ req.liquid
    /\ Finish(<<Error(0)>>)
    /\ UNCHANGED <<req, ins, paid, sum, agreed, got, fault, real, net>>

-----------------------------------------------------------------------------
(* The inputs *)

\* Whether a signature for this input will be made with the app's entropy.
UsesAe(m) == req.ae /\ m.commit

\* What a message says of its input is looked at together with its type.
Sane(m) ==
    /\ m.commit => req.ae /\ m.path /\ m.type # "v1"
    /\ m.path /\ m.type = "v1" => req.ae
    /\ ~m.path => m.type # "v1"

\* Mutant: the app's word for the amount, with any number of inputs.
AmountStated(m) ==
    IF m.full THEN m.value = req.utxo[Len(ins) + 1].value ELSE m.type = "v0"

\* Bitcoin: the transaction spent from, checked by its hash, tells the amount.
\* Where there is only one input and the signature covers its amount, the app's
\* word will do.
AmountKnown(m) ==
    IF m.full THEN m.value = req.utxo[Len(ins) + 1].value
    ELSE m.type = "v0" /\ NumInputs = 1

\* Mutant: amounts of pre-segwit inputs count as well.
CountsAll(m) == TRUE

\* Liquid: inputs used for a summary must have an amount their signature covers.
Countable(m) == m.path /\ req.summary # None => m.type # "pre"

Acceptable(m) ==
    /\ Sane(m)
    /\ IF req.liquid THEN ~m.full /\ Countable(m) ELSE ~m.blinded /\ AmountKnown(m)

Counted(m) == req.summary # None /\ m.path /\ m.blinded

\* Takes an input's message, and in the anti-exfil flow answers it.
TxInput(m) ==
    LET i == Len(ins) + 1
    IN  /\ pc = "inputs"
        /\ Acceptable(m)
        /\ got' = got + 1
        /\ ins' = Append(ins, m)
        /\ paid' = IF req.liquid THEN paid ELSE paid + m.value
        /\ real' = IF req.liquid THEN real ELSE real + req.utxo[i].value
        /\ sum' = IF Counted(m) THEN (sum + m.value) % Word ELSE sum
        /\ net' = IF Counted(m) THEN (net + req.utxo[i].value) % Word ELSE net
        /\ log' = IF req.ae THEN Append(log, Answer(got + 1, IF UsesAe(m) THEN "opening" ELSE "empty", i, FALSE))
                            ELSE log
        /\ pc' = IF i = NumInputs THEN "totals" ELSE "inputs"
        /\ UNCHANGED <<req, agreed, fault>>

\* Another message, parameters that will not do, or a hash that cannot be made.
RejectInput ==
    /\ pc = "inputs"
    /\ got' = got + 1
    /\ Finish(<<Error(got + 1)>>)
    /\ UNCHANGED <<req, ins, paid, sum, agreed, fault, real, net>>

\* Mutant: the last input is told, though it has had its answer.
FailOnLast == Finish(<<Error(got)>>)

\* Going wrong after the inputs: the last of them can be answered with the error,
\* but in the anti-exfil flow it has its answer, and the next message gets the error.
Fail ==
    IF req.ae THEN pc' = "late" /\ UNCHANGED log
    ELSE Finish(<<Error(got)>>)

-----------------------------------------------------------------------------
(* What is checked and shown after the inputs *)

Balanced ==
    IF req.liquid THEN req.summary \in {None, sum} ELSE paid >= req.out

\* A hash for a taproot input cannot be made, or the amounts do not fit.
TotalsFail ==
    /\ pc = "totals"
    /\ \/ \E i \in 1..Len(ins) : ins[i].path /\ ins[i].type = "v1"
       \/ ~Balanced
    /\ Fail
    /\ UNCHANGED <<req, ins, paid, sum, agreed, got, fault, real, net>>

\* The fee is put to the user; show_btc_fee_confirmation_activity() asserts that
\* something is paid.  A partial swap or payment without fee is not shown one.
TotalsFit ==
    /\ pc = "totals"
    /\ Balanced
    /\ IF ~req.liquid /\ req.out = 0
       THEN pc' = "dead" /\ fault' = "nothing_paid"
       ELSE pc' = (IF req.partial /\ req.free THEN "sign" ELSE "fee") /\ UNCHANGED fault
    /\ UNCHANGED <<req, ins, paid, sum, agreed, got, log, real, net>>

ConfirmFee ==
    /\ pc = "fee"
    /\ agreed' = [agreed EXCEPT !.fee = IF req.liquid THEN 0 ELSE paid - req.out]
    /\ pc' = "sign"
    /\ UNCHANGED <<req, ins, paid, sum, got, log, fault, real, net>>

DeclineFee ==
    /\ pc = "fee"
    /\ Fail
    /\ UNCHANGED <<req, ins, paid, sum, agreed, got, fault, real, net>>

\* The message the error was waiting for.
LateError ==
    /\ pc = "late"
    /\ got' = got + 1
    /\ Finish(<<Error(got + 1)>>)
    /\ UNCHANGED <<req, ins, paid, sum, agreed, fault, real, net>>

-----------------------------------------------------------------------------
(* The signatures *)

Signed(k, i, entropy) == Answer(k, IF ins[i].path THEN "sig" ELSE "empty", i, entropy)

\* send_ec_signature_replies(): none leaves before all have been made.
SendSignatures ==
    /\ pc = "sign"
    /\ ~req.ae
    /\ \/ Finish([i \in 1..Len(ins) |-> Signed(i, i, FALSE)])
       \/ \E i \in 1..Len(ins) : ins[i].path /\ Finish(<<Error(i)>>)
    /\ UNCHANGED <<req, ins, paid, sum, agreed, got, fault, real, net>>

\* The input the next 'get_signature' is for.
Awaited == got - Len(ins) + 1

\* Mutant: entropy is used if it is there.
EntropyOptional(i, entropy) == TRUE

\* Entropy goes with a commitment, or neither.
EntropyFits(i, entropy) == ins[i].path => entropy = UsesAe(ins[i])

\* send_ae_signature_replies(): one signature, or nothing, for each message.
GetSignature(entropy) ==
    LET i == Awaited
    IN  /\ pc = "sign"
        /\ req.ae
        /\ EntropyFits(i, entropy)
        /\ got' = got + 1
        /\ log' = Append(log, Signed(got + 1, i, ins[i].path /\ entropy))
        /\ pc' = IF i = Len(ins) THEN "done" ELSE "sign"
        /\ UNCHANGED <<req, ins, paid, sum, agreed, fault, real, net>>

\* Another message, other parameters, or no signature could be made.
RejectGetSignature ==
    /\ pc = "sign"
    /\ req.ae
    /\ got' = got + 1
    /\ Finish(<<Error(got + 1)>>)
    /\ UNCHANGED <<req, ins, paid, sum, agreed, fault, real, net>>

\* The connection goes while a message is waited for: no message, and no answer.
LinkLost ==
    /\ pc \in {"inputs", "late"} \/ (pc = "sign" /\ req.ae)
    /\ Finish(<<>>)
    /\ UNCHANGED <<req, ins, paid, sum, agreed, got, fault, real, net>>

\* jade_process_call_on_exit(): all is freed, and the main loop waits for the next.
Leave ==
    /\ pc \in {"done", "dead"}
    /\ pc' = "idle"
    /\ req' = NoRequest
    /\ ins' = <<>>
    /\ paid' = 0
    /\ sum' = 0
    /\ agreed' = NotAgreed
    /\ got' = 0
    /\ log' = <<>>
    /\ fault' = "none"
    /\ real' = 0
    /\ net' = 0

Next ==
    \/ SignTx
    \/ ConfirmOutputs \/ DeclineOutputs
    \/ \E m \in Inputs : TxInput(m)
    \/ RejectInput
    \/ TotalsFail \/ TotalsFit
    \/ ConfirmFee \/ DeclineFee \/ LateError
    \/ SendSignatures
    \/ \E entropy \in BOOLEAN : GetSignature(entropy)
    \/ RejectGetSignature
    \/ LinkLost \/ Leave

Spec == Init /\ [][Next]_vars

-----------------------------------------------------------------------------
(* Properties *)

TypeOK ==
    /\ pc \in {"idle", "outputs", "inputs", "totals", "fee", "late", "sign", "done", "dead"}
    /\ req \in AllRequests \cup {NoRequest}
    /\ ins \in Seq(Inputs) /\ Len(ins) <= NumInputs
    /\ paid \in Nat /\ real \in Nat
    /\ sum \in 0..(Word - 1) /\ net \in 0..(Word - 1)
    /\ agreed \in [outputs: BOOLEAN, fee: Nat \cup {None}]
    /\ got \in 0..(2 * NumInputs + 1)
    /\ log \in Seq(Answers)
    /\ fault \in {"none", "nothing_paid"}

Signatures == {k \in DOMAIN log : log[k].is = "sig"}

\* Whether the signature made for input i holds on the network: it is of the
\* input's type, and a segwit one covers the amount of its input, a taproot one
\* those of all inputs.
Valid(i) ==
    /\ ins[i].type = req.utxo[i].type
    /\ ins[i].type = "v0" => ins[i].value = req.utxo[i].value
    /\ ins[i].type = "v1" => \A j \in 1..Len(ins) : ins[j].value = req.utxo[j].value

\* Whatever the app says of the amounts, and in whatever order: a signature in
\* bitcoin that is good for anything is one for which the user has agreed to the
\* fee that will really be paid.
FeeIsTrue ==
    ~req.liquid => \A k \in Signatures : Valid(log[k].input) => agreed.fee = real - req.out

\* A swap the device has signed for, and whose signatures are good, takes from the
\* wallet, net of change, what the user has agreed to: of the inputs whose blinding
\* is known, and in unsigned arithmetic.
SummaryTrue ==
    /\ req.summary # None
    /\ Signatures # {}
    /\ \A i \in 1..Len(ins) : ins[i].path => Valid(i)
    => agreed.outputs /\ req.summary = net

\* An input whose commitment was answered with an opening is signed with the
\* app's entropy and not without, once, and after the opening; others never are.
AntiExfil ==
    req.ae => \A k \in Signatures :
        /\ log[k].entropy = ins[log[k].input].commit
        /\ log[k].entropy => \E j \in 1..(k - 1) : log[j].is = "opening" /\ log[j].input = log[k].input
        /\ \A j \in Signatures : log[j].input = log[k].input => j = k

\* The input a message is about, by its place in the exchange.
InputOf(k) == IF k <= NumInputs THEN k ELSE k - NumInputs

\* Messages are answered in the order they came, none twice, each about its own
\* input; and without anti-exfil the signatures leave together or not at all.
AnswersMatch ==
    /\ \A j, k \in DOMAIN log : j < k => log[j].to < log[k].to
    /\ \A k \in DOMAIN log : log[k].input # 0 => log[k].input = InputOf(log[k].to)
    /\ ~req.ae /\ Signatures # {} => Len(log) = NumInputs + 1 /\ \A k \in DOMAIN log : log[k].is # "error"
=============================================================================

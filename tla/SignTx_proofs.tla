---------------------------- MODULE SignTx_proofs ----------------------------
(***************************************************************************)
(* What a signature stands for: proofs for any number of inputs, any       *)
(* amounts and any word size, whatever the companion app says of them.     *)
(***************************************************************************)
EXTENDS SignTx, SequenceTheorems, TLAPS

\* What of a request the steps below need to know.
RequestOK(r) ==
    /\ Len(r.utxo) \in Nat \ {0}
    /\ \A i \in 1..Len(r.utxo) : r.utxo[i].type \in Types /\ r.utxo[i].value \in Values
    /\ r.ae \in BOOLEAN /\ r.liquid \in BOOLEAN
    /\ r.change \in 0..(Word - 1)
    /\ r.summary # None => r.liquid
    /\ r.out \in Nat

\* How far the exchange is at each stage.
Progress ==
    /\ pc = "idle" => req = NoRequest /\ ins = <<>>
    /\ pc # "idle" => req \in AllRequests
    /\ pc \in {"idle", "outputs"} => ins = <<>> /\ got = 0 /\ log = <<>>
    /\ pc = "inputs" => Len(ins) < NumInputs /\ got = Len(ins)
    /\ pc \in {"totals", "fee", "late", "sign"} => Len(ins) = NumInputs /\ got >= NumInputs
    /\ pc \in {"totals", "fee", "late"} => got = NumInputs
    /\ pc = "late" => req.ae
    /\ pc = "sign" => IF req.ae THEN got < 2 * NumInputs ELSE got = NumInputs

IsReal(i) == ins[i].value = req.utxo[i].value

\* What the device knows of the amounts: where the app could only tell the truth,
\* what was added up is what is there.
Amounts ==
    /\ ~req.liquid => \A i \in 1..Len(ins) : IsReal(i) \/ (NumInputs = 1 /\ ins[i].type = "v0")
    /\ (\A i \in 1..Len(ins) : IsReal(i)) => paid = real
    /\ req.summary # None /\ (\A i \in 1..Len(ins) : ins[i].path => Valid(i)) => sum = net

\* Nothing is signed before the user has agreed, and what has been agreed stays.
Consent ==
    /\ pc \in {"inputs", "totals", "fee", "sign"} => agreed.outputs = req.liquid
    /\ pc = "fee" => Balanced
    /\ pc = "sign" \/ Signatures # {} =>
         /\ Len(ins) = NumInputs
         /\ agreed.outputs = req.liquid
         /\ ~req.liquid => agreed.fee = paid - req.out
         /\ req.liquid => req.summary \in {None, sum}

\* What the answer in place k is.
IsOk(k) == k = 1 /\ log[k].is = "ok" /\ log[k].input = 0 /\ log[k].to = 0

IsOpening(k) ==
    /\ req.ae
    /\ k \in 2..(Len(ins) + 1)
    /\ log[k].to = k - 1 /\ log[k].input = k - 1
    /\ log[k].is = IF UsesAe(ins[k - 1]) THEN "opening" ELSE "empty"

IsLateSignature(k) ==
    /\ req.ae
    /\ k > NumInputs + 1 /\ k - 1 - NumInputs \in 1..Len(ins)
    /\ log[k].to = k - 1 /\ log[k].input = k - 1 - NumInputs
    /\ log[k].is \in {"sig", "empty"}
    /\ log[k].is = "sig" => log[k].entropy = ins[k - 1 - NumInputs].commit

IsBatchSignature(k) ==
    /\ ~req.ae
    /\ pc = "done"
    /\ Len(log) = NumInputs + 1
    /\ k \in 2..(NumInputs + 1)
    /\ log[k].to = k - 1 /\ log[k].input = k - 1
    /\ log[k].is \in {"sig", "empty"}
    /\ Len(ins) = NumInputs

IsError(k) ==
    /\ log[k].is = "error" /\ log[k].input = 0
    /\ k = Len(log) /\ log[k].to >= k - 1
    /\ pc = "done"
    /\ ~req.ae => Signatures = {}

\* The answers so far are these, in this order.
Exchange ==
    /\ pc \in {"inputs", "totals", "fee", "late", "sign"} => Len(log) = (IF req.ae THEN got + 1 ELSE 1)
    /\ pc \in {"dead", "done"} => log # <<>>
    /\ \A k \in DOMAIN log :
        IsOk(k) \/ IsOpening(k) \/ IsLateSignature(k) \/ IsBatchSignature(k) \/ IsError(k)
    /\ pc \in {"inputs", "totals", "fee", "late", "dead"} => Signatures = {}

IInv == TypeOK /\ Progress /\ Amounts /\ Consent /\ Exchange

USE SignTxAssumption

-----------------------------------------------------------------------------
(* Types and the place in the exchange                                       *)

LEMMA RequestFacts ==
    ASSUME NEW r \in AllRequests
    PROVE  RequestOK(r)
<1>1. PICK n \in 1..MaxInputs : r \in Requests(n)
  BY DEF AllRequests
<1> DEFINE Payments == [utxo: [1..n -> Utxos], ae: BOOLEAN, liquid: {FALSE}, swap: {FALSE}, partial: {FALSE},
                          free: {FALSE}, summary: {None}, change: {0}, out: Outs]
<1> DEFINE OnLiquid == [utxo: [1..n -> Utxos], ae: BOOLEAN, liquid: {TRUE}, swap: BOOLEAN, partial: BOOLEAN,
                          free: BOOLEAN, summary: {None} \cup 0..(Word - 1), change: {0} \cup Changes, out: {0}]
<1>a. r \in Payments \/ r \in OnLiquid
  BY <1>1 DEF Requests
<1>b. n \in Nat \ {0}
  OBVIOUS
<1>c. /\ r.utxo \in [1..n -> Utxos]
      /\ r.ae \in BOOLEAN /\ r.liquid \in BOOLEAN
      /\ r.change \in {0} \cup Changes
      /\ r.summary # None => r.liquid
      /\ r.out \in {0} \cup Outs
  <2>1. CASE r \in Payments
    BY <2>1
  <2>2. CASE r \in OnLiquid
    BY <2>2
  <2> QED
    BY <1>a, <2>1, <2>2
<1> HIDE DEF Payments, OnLiquid
<1>2. r.utxo \in [1..n -> Utxos] /\ n \in Nat \ {0}
  BY <1>b, <1>c
<1>3. r.utxo \in Seq(Utxos)
  BY <1>2, SeqDef
<1>4. Len(r.utxo) = n
  BY <1>2, <1>3, LenProperties
<1>5. \A i \in 1..n : r.utxo[i].type \in Types /\ r.utxo[i].value \in Values
  BY <1>2 DEF Utxos
<1>6. r.change \in 0..(Word - 1) /\ r.out \in Nat
  <2>1. r.change \in {0} \cup Changes /\ r.out \in {0} \cup Outs
    BY <1>c, Zenon
  <2>2. Changes \subseteq 0..(Word - 1) /\ 0 \in 0..(Word - 1) /\ Outs \subseteq Nat /\ 0 \in Nat
    BY SignTxAssumption
  <2>3. r.change \in 0..(Word - 1)
    BY <2>1, <2>2, Zenon
  <2>5. r.out \in Nat
    BY <2>1, <2>2, Zenon
  <2> QED
    BY <2>3, <2>5
<1>7. r.ae \in BOOLEAN /\ r.liquid \in BOOLEAN /\ (r.summary # None => r.liquid)
  BY <1>c, Zenon
<1> QED
  BY <1>2, <1>4, <1>5, <1>6, <1>7 DEF RequestOK

\* Only what is done on Liquid can be done in part.
LEMMA PartialIsLiquid ==
    ASSUME NEW r \in AllRequests
    PROVE  r.partial => r.liquid
<1>1. PICK n \in 1..MaxInputs : r \in Requests(n)
  BY DEF AllRequests
<1> QED
  BY <1>1 DEF Requests

LEMMA NumInputsType == TypeOK => NumInputs \in Nat
BY RequestFacts DEF TypeOK, RequestOK, NumInputs, NoRequest

\* A number taken from nothing, or added, stays below Word.
LEMMA Below ==
    ASSUME NEW x \in Int
    PROVE  x % Word \in 0..(Word - 1)
OBVIOUS

LEMMA AmountsAreNumbers == Values \subseteq Nat
BY SignTxAssumption

LEMMA AnswerType ==
    ASSUME NEW k \in Nat, NEW what \in {"ok", "error", "opening", "empty", "sig"},
           NEW i \in Nat, NEW entropy \in BOOLEAN
    PROVE  Answer(k, what, i, entropy) \in Answers
BY DEF Answer, Answers

LEMMA ErrorType ==
    ASSUME NEW k \in Nat
    PROVE  Error(k) \in Answers
BY AnswerType DEF Error

\* An error at the end of what has been sent.
LEMMA FinishError ==
    ASSUME log \in Seq(Answers), NEW k \in Nat, Finish(<<Error(k)>>)
    PROVE  /\ pc' = "done"
           /\ log' = Append(log, Error(k))
           /\ log' \in Seq(Answers)
BY ErrorType, AppendIsConcat DEF Finish

LEMMA InitIInv == Init => IInv
<1> SUFFICES ASSUME Init PROVE IInv
  OBVIOUS
<1>1. NumInputs = 0
  BY DEF Init, NumInputs, NoRequest
<1> QED
  BY <1>1 DEF Init, IInv, TypeOK, Progress, Amounts, Consent, Exchange, Signatures, NotAgreed,
              NoRequest, NumInputs

LEMMA TypeStep == IInv /\ [Next]_vars => TypeOK' /\ Progress'
<1> SUFFICES ASSUME IInv, [Next]_vars PROVE TypeOK' /\ Progress'
  OBVIOUS
<1>a. TypeOK /\ Progress
  BY DEF IInv
<1>b. NumInputs \in Nat
  BY <1>a, NumInputsType
<1>c. ins \in Seq(Inputs) /\ Len(ins) \in Nat /\ log \in Seq(Answers) /\ got \in Nat
  BY <1>a, <1>b DEF TypeOK
<1>1. CASE SignTx
  <2>1. req' \in AllRequests /\ RequestOK(req')
    BY <1>1, RequestFacts DEF SignTx
  <2>2. sum' \in 0..(Word - 1) /\ net' \in 0..(Word - 1)
    <3>1. (Word - req'.change) \in Int
      BY <2>1 DEF RequestOK
    <3> QED
      BY <1>1, <3>1, Below DEF SignTx, Minus
  <2>3. NumInputs' \in Nat /\ NumInputs' >= 1
    BY <2>1 DEF RequestOK, NumInputs
  <2>4. ins = <<>> /\ got = 0 /\ log = <<>>
    BY <1>1, <1>a DEF Progress, SignTx
  <2>5. pc' = "outputs" /\ UNCHANGED <<ins, paid, agreed, got, log, fault, real>>
    BY <1>1 DEF SignTx
  <2>6. Len(ins') = 0 /\ got' = 0
    BY <2>4, <2>5
  <2>7. Len(ins') <= NumInputs' /\ got' \in 0..(2 * NumInputs' + 1)
    <3>1. \A x \in Nat : 0 \in 0..(2 * x + 1) /\ 0 <= x
      OBVIOUS
    <3> QED
      BY <2>3, <2>6, <3>1, Zenon
  <2>8. pc' \in {"idle", "outputs", "inputs", "totals", "fee", "late", "sign", "done", "dead"}
    BY <2>5
  <2>9. TypeOK'
    BY <1>a, <2>1, <2>2, <2>5, <2>7, <2>8, Zenon DEF TypeOK
  <2> QED
    BY <2>1, <2>4, <2>5, <2>9 DEF Progress
<1>2. CASE ConfirmOutputs
  <2>1. NumInputs' = NumInputs /\ NumInputs >= 1
    BY <1>2, <1>a, RequestFacts DEF ConfirmOutputs, NumInputs, Progress, RequestOK
  <2>2. log' \in Seq(Answers)
    <3>1. Answer(0, "ok", 0, FALSE) \in Answers
      BY AnswerType
    <3> QED
      BY <1>2, <1>c, <3>1, AppendProperties, Zenon DEF ConfirmOutputs
  <2>3. agreed' \in [outputs: BOOLEAN, fee: Nat \cup {None}]
    <3>1. req.liquid \in BOOLEAN
      BY <1>2, <1>a, RequestFacts DEF ConfirmOutputs, Progress, RequestOK
    <3> QED
      BY <1>2, <1>a, <3>1 DEF ConfirmOutputs, TypeOK
  <2>4. /\ pc = "outputs" /\ pc' = "inputs"
        /\ UNCHANGED <<req, ins, paid, sum, got, fault, real, net>>
    BY <1>2 DEF ConfirmOutputs
  <2>5. pc' \in {"idle", "outputs", "inputs", "totals", "fee", "late", "sign", "done", "dead"}
    BY <2>4
  <2>6. TypeOK'
    BY <1>a, <2>1, <2>2, <2>3, <2>4, <2>5, Zenon DEF TypeOK
  <2>7. Len(ins) = 0 /\ got = 0 /\ ins' = ins /\ got' = got
    BY <1>a, <2>4 DEF Progress
  <2> QED
    BY <1>a, <2>1, <2>4, <2>6, <2>7 DEF Progress, NumInputs
<1>3. CASE DeclineOutputs
  <2>1. log' \in Seq(Answers) /\ pc' = "done"
    BY <1>3, <1>c, FinishError DEF DeclineOutputs
  <2> QED
    BY <1>3, <1>a, <2>1 DEF DeclineOutputs, TypeOK, Progress, NumInputs
<1>4. ASSUME NEW m \in Inputs, TxInput(m) PROVE TypeOK' /\ Progress'
  <2>1. NumInputs' = NumInputs /\ pc # "idle" /\ Len(ins) < NumInputs /\ got = Len(ins)
    BY <1>4, <1>a DEF TxInput, Progress, NumInputs
  <2>2. m.value \in Nat /\ req.utxo[Len(ins) + 1].value \in Nat
    <3>1. RequestOK(req) /\ Len(ins) + 1 \in 1..Len(req.utxo)
      BY <2>1, <1>a, <1>b, <1>c, RequestFacts DEF Progress, NumInputs
    <3>2. m.value \in Values
      BY <1>4 DEF Inputs
    <3>3. req.utxo[Len(ins) + 1].value \in Values
      BY <3>1 DEF RequestOK
    <3> QED
      BY <3>2, <3>3, AmountsAreNumbers, Zenon
  <2>3. sum' \in 0..(Word - 1) /\ net' \in 0..(Word - 1)
    <3>1. sum \in Int /\ net \in Int /\ sum \in 0..(Word - 1) /\ net \in 0..(Word - 1)
      BY <1>a DEF TypeOK
    <3>2. /\ (sum + m.value) % Word \in 0..(Word - 1)
          /\ (net + req.utxo[Len(ins) + 1].value) % Word \in 0..(Word - 1)
      <4>1. (sum + m.value) \in Int /\ (net + req.utxo[Len(ins) + 1].value) \in Int
        BY <2>2, <3>1
      <4> QED
        BY <4>1, Below
    <3> QED
      BY <1>4, <3>1, <3>2 DEF TxInput
  <2>4. log' \in Seq(Answers)
    <3> DEFINE a == Answer(got + 1, IF UsesAe(m) THEN "opening" ELSE "empty", Len(ins) + 1, FALSE)
    <3>1. a \in Answers
      <4>1. got + 1 \in Nat /\ Len(ins) + 1 \in Nat
        BY <1>c
      <4>2. (IF UsesAe(m) THEN "opening" ELSE "empty") \in {"ok", "error", "opening", "empty", "sig"}
        OBVIOUS
      <4> QED
        BY <4>1, <4>2, AnswerType
    <3>2. log' = log \/ log' = Append(log, a)
      BY <1>4 DEF TxInput
    <3> HIDE DEF a
    <3> QED
      BY <1>c, <3>1, <3>2
  <2>5. ins' \in Seq(Inputs) /\ Len(ins') = Len(ins) + 1
    BY <1>4, <1>c DEF TxInput
  <2>6. paid' \in Nat /\ real' \in Nat
    <3>1. paid \in Nat /\ real \in Nat
      BY <1>a DEF TypeOK
    <3>2. paid' \in {paid, paid + m.value} /\ real' \in {real, real + req.utxo[Len(ins) + 1].value}
      BY <1>4 DEF TxInput
    <3> QED
      BY <2>2, <3>1, <3>2
  <2>7. pc' = IF Len(ins) + 1 = NumInputs THEN "totals" ELSE "inputs"
    BY <1>4 DEF TxInput, NumInputs
  <2>8. got' = got + 1 /\ UNCHANGED <<req, agreed, fault>>
    BY <1>4 DEF TxInput
  <2> QED
    BY <1>a, <1>b, <1>c, <2>1, <2>3, <2>4, <2>5, <2>6, <2>7, <2>8 DEF TypeOK, Progress
<1>5. CASE RejectInput \/ LateError \/ RejectGetSignature
  <2>1. pc \in {"inputs", "late", "sign"} /\ got' = got + 1 /\ Finish(<<Error(got + 1)>>)
        /\ UNCHANGED <<req, ins, paid, sum, agreed, fault, real, net>>
    BY <1>5 DEF RejectInput, LateError, RejectGetSignature
  <2>2. log' \in Seq(Answers) /\ pc' = "done"
    BY <2>1, <1>c, FinishError
  <2>3. NumInputs' = NumInputs /\ got' \in 0..(2 * NumInputs + 1)
    BY <2>1, <1>a, <1>b, <1>c, <1>5 DEF Progress, NumInputs, RejectGetSignature
  <2> QED
    BY <1>a, <2>1, <2>2, <2>3 DEF TypeOK, Progress
<1>6. CASE TotalsFail \/ DeclineFee
  <2>1. pc \in {"totals", "fee"} /\ Fail /\ UNCHANGED <<req, ins, paid, sum, agreed, got, fault, real, net>>
    BY <1>6 DEF TotalsFail, DeclineFee
  <2>2. log' \in Seq(Answers) /\ (pc' = "done" \/ (pc' = "late" /\ req.ae))
    BY <2>1, <1>c, FinishError DEF Fail
  <2>3. pc' \in {"idle", "outputs", "inputs", "totals", "fee", "late", "sign", "done", "dead"}
    BY <2>2
  <2>4. NumInputs' = NumInputs
    BY <2>1 DEF NumInputs
  <2>5. TypeOK'
    BY <1>a, <2>1, <2>2, <2>3, <2>4, Zenon DEF TypeOK
  <2>6. got = NumInputs /\ Len(ins) = NumInputs
    BY <1>a, <2>1 DEF Progress
  <2> QED
    BY <1>a, <1>b, <2>1, <2>2, <2>4, <2>5, <2>6 DEF Progress
<1>7. CASE TotalsFit
  <2>1. /\ pc = "totals" /\ UNCHANGED <<req, ins, paid, sum, agreed, got, log, real, net>>
        /\ \/ pc' = "dead" /\ fault' = "nothing_paid"
           \/ pc' \in {"fee", "sign"} /\ fault' = fault
    BY <1>7 DEF TotalsFit
  <2>2. NumInputs' = NumInputs /\ NumInputs >= 1
    BY <2>1, <1>a, RequestFacts DEF NumInputs, Progress, RequestOK
  <2> QED
    BY <1>a, <1>b, <2>1, <2>2 DEF TypeOK, Progress
<1>8. CASE ConfirmFee
  <2>1. agreed' \in [outputs: BOOLEAN, fee: Nat \cup {None}]
    <3>1. req.liquid \in BOOLEAN /\ req.out \in Nat
      BY <1>8, <1>a, RequestFacts DEF ConfirmFee, Progress, RequestOK
    <3>2. ~req.liquid => paid >= req.out
      BY <1>8 DEF IInv, Consent, Balanced, ConfirmFee
    <3>3. (IF req.liquid THEN 0 ELSE paid - req.out) \in Nat
      BY <3>1, <3>2, <1>a DEF TypeOK
    <3> QED
      BY <1>8, <1>a, <3>3 DEF ConfirmFee, TypeOK
  <2>2. pc = "fee" /\ pc' = "sign" /\ UNCHANGED <<req, ins, paid, sum, got, log, fault, real, net>>
    BY <1>8 DEF ConfirmFee
  <2>3. NumInputs' = NumInputs /\ NumInputs >= 1
    BY <2>2, <1>a, RequestFacts DEF NumInputs, Progress, RequestOK
  <2> QED
    BY <1>a, <1>b, <2>1, <2>2, <2>3 DEF TypeOK, Progress
<1>9. CASE SendSignatures
  <2>1. log' \in Seq(Answers) /\ pc' = "done"
    <3>1. CASE Finish([i \in 1..Len(ins) |-> Signed(i, i, FALSE)])
      <4>1. \A i \in 1..Len(ins) : Signed(i, i, FALSE) \in Answers
        <5> SUFFICES ASSUME NEW i \in 1..Len(ins) PROVE Signed(i, i, FALSE) \in Answers
          OBVIOUS
        <5>1. i \in Nat /\ (IF ins[i].path THEN "sig" ELSE "empty") \in {"ok", "error", "opening", "empty", "sig"}
          BY <1>c
        <5> QED
          BY <5>1, AnswerType DEF Signed
      <4>2. [i \in 1..Len(ins) |-> Signed(i, i, FALSE)] \in Seq(Answers)
        <5>1. [i \in 1..Len(ins) |-> Signed(i, i, FALSE)] \in [1..Len(ins) -> Answers]
          BY <4>1
        <5> QED
          BY <5>1, <1>c, SeqDef
      <4> QED
        BY <3>1, <4>2, <1>c, ConcatProperties DEF Finish
    <3>2. CASE \E i \in 1..Len(ins) : ins[i].path /\ Finish(<<Error(i)>>)
      <4>1. PICK i \in 1..Len(ins) : Finish(<<Error(i)>>)
        BY <3>2
      <4> QED
        BY <4>1, <1>c, FinishError
    <3> QED
      BY <1>9, <3>1, <3>2 DEF SendSignatures
  <2> QED
    BY <1>9, <1>a, <2>1 DEF SendSignatures, TypeOK, Progress, NumInputs
<1>10. ASSUME NEW entropy \in BOOLEAN, GetSignature(entropy) PROVE TypeOK' /\ Progress'
  <2>1. NumInputs' = NumInputs /\ Len(ins) = NumInputs /\ got >= NumInputs /\ got < 2 * NumInputs /\ req.ae
    BY <1>10, <1>a, <1>b DEF GetSignature, Progress, NumInputs
  <2>2. Awaited \in 1..Len(ins) /\ (Awaited = Len(ins) <=> got + 1 = 2 * NumInputs)
    BY <2>1, <1>b, <1>c DEF Awaited
  <2>3. log' \in Seq(Answers)
    <3>1. (ins[Awaited].path /\ entropy) \in BOOLEAN
      OBVIOUS
    <3>2. (IF ins[Awaited].path THEN "sig" ELSE "empty") \in {"ok", "error", "opening", "empty", "sig"}
      OBVIOUS
    <3>3. got + 1 \in Nat /\ Awaited \in Nat
      BY <2>2, <1>c
    <3>4. Signed(got + 1, Awaited, ins[Awaited].path /\ entropy) \in Answers
      BY <3>1, <3>2, <3>3, AnswerType DEF Signed
    <3> QED
      BY <1>10, <1>c, <3>4 DEF GetSignature
  <2>4. pc' = (IF Awaited = Len(ins) THEN "done" ELSE "sign") /\ got' = got + 1
        /\ UNCHANGED <<req, ins, paid, sum, agreed, fault, real, net>>
    BY <1>10 DEF GetSignature
  <2> QED
    BY <1>a, <1>b, <1>c, <2>1, <2>2, <2>3, <2>4 DEF TypeOK, Progress
<1>11. CASE LinkLost
  <2>1. log' = log /\ pc' = "done"
    BY <1>11, <1>c, ConcatEmptySeq DEF LinkLost, Finish
  <2> QED
    BY <1>11, <1>a, <2>1 DEF LinkLost, TypeOK, Progress, NumInputs
<1>12. CASE Leave
  <2>1. NumInputs' = 0
    BY <1>12 DEF Leave, NumInputs, NoRequest
  <2> QED
    BY <1>12, <2>1 DEF Leave, TypeOK, Progress, NotAgreed
<1>13. CASE UNCHANGED vars
  BY <1>13, <1>a DEF vars, TypeOK, Progress, NumInputs
<1> QED
  BY <1>1, <1>2, <1>3, <1>4, <1>5, <1>6, <1>7, <1>8, <1>9, <1>10, <1>11, <1>12, <1>13 DEF Next

-----------------------------------------------------------------------------
(* What the device knows of the amounts                                      *)

\* Only three actions touch the request, its inputs and the amounts.
LEMMA OtherActions ==
    [Next]_vars => \/ SignTx \/ Leave \/ \E m \in Inputs : TxInput(m)
                   \/ UNCHANGED <<req, ins, paid, sum, real, net>>
BY DEF Next, vars, ConfirmOutputs, DeclineOutputs, RejectInput, TotalsFail, TotalsFit, ConfirmFee,
       DeclineFee, LateError, SendSignatures, GetSignature, RejectGetSignature, LinkLost

LEMMA AmountsStep == IInv /\ [Next]_vars => Amounts'
<1> SUFFICES ASSUME IInv, [Next]_vars PROVE Amounts'
  OBVIOUS
<1>a. TypeOK /\ Progress /\ Amounts
  BY DEF IInv
<1>1. CASE SignTx
  <2>1. ins' = <<>> /\ paid' = paid /\ real' = real /\ sum' = net'
    BY <1>1, <1>a DEF SignTx, Progress, Minus
  <2>2. paid = real
    <3>1. Len(ins) = 0
      BY <1>1, <1>a DEF SignTx, Progress
    <3> QED
      BY <1>a, <3>1 DEF Amounts
  <2>3. Len(ins') = 0
    BY <2>1
  <2> QED
    BY <2>1, <2>2, <2>3 DEF Amounts
<1>2. ASSUME NEW m \in Inputs, TxInput(m) PROVE Amounts'
  <2> DEFINE last == Len(ins) + 1
  <2>1. /\ req \in AllRequests /\ RequestOK(req) /\ last \in 1..NumInputs
        /\ ins \in Seq(Inputs) /\ Len(ins) \in Nat
    BY <1>2, <1>a, NumInputsType, RequestFacts DEF TxInput, Progress, TypeOK
  <2>2. /\ req' = req /\ NumInputs' = NumInputs
        /\ ins' = Append(ins, m) /\ Len(ins') = last
        /\ ins'[last] = m /\ \A i \in 1..Len(ins) : ins'[i] = ins[i]
    BY <1>2, <2>1 DEF TxInput, NumInputs
  <2>3. Acceptable(m)
    BY <1>2 DEF TxInput
  <2>4. ASSUME ~req'.liquid, NEW i \in 1..Len(ins')
        PROVE  IsReal(i)' \/ (NumInputs' = 1 /\ ins'[i].type = "v0")
    <3>1. CASE i = last
      <4>1. AmountKnown(m)
        BY <2>2, <2>3, <2>4 DEF Acceptable
      <4> QED
        BY <2>2, <3>1, <4>1 DEF AmountKnown, IsReal
    <3>2. CASE i # last
      <4>1. i \in 1..Len(ins)
        BY <2>1, <2>2, <3>2
      <4> QED
        BY <1>a, <2>2, <2>4, <4>1 DEF Amounts, IsReal
    <3> QED
      BY <3>1, <3>2
  <2>5. ASSUME \A i \in 1..Len(ins') : IsReal(i)' PROVE paid' = real'
    <3>1. \A i \in 1..Len(ins) : IsReal(i)
      <4> SUFFICES ASSUME NEW i \in 1..Len(ins) PROVE IsReal(i)
        OBVIOUS
      <4>1. i \in 1..Len(ins')
        BY <2>1, <2>2
      <4> QED
        BY <2>2, <2>5, <4>1 DEF IsReal
    <3>2. m.value = req.utxo[last].value
      <4>1. last \in 1..Len(ins')
        BY <2>1, <2>2
      <4> QED
        BY <2>2, <2>5, <4>1 DEF IsReal
    <3>3. paid = real
      BY <1>a, <3>1 DEF Amounts
    <3> QED
      BY <1>2, <3>2, <3>3 DEF TxInput
  <2>6. ASSUME req'.summary # None, \A i \in 1..Len(ins') : ins'[i].path => Valid(i)' PROVE sum' = net'
    <3>1. ASSUME NEW i \in 1..Len(ins), ins[i].path PROVE Valid(i)
      <4>1. i \in 1..Len(ins') /\ ins'[i] = ins[i] /\ \A j \in 1..Len(ins) : j \in 1..Len(ins')
        BY <2>1, <2>2
      <4>2. Valid(i)'
        BY <2>6, <3>1, <4>1
      <4> QED
        BY <2>2, <4>1, <4>2 DEF Valid
    <3>2. sum = net
      BY <1>a, <2>2, <2>6, <3>1 DEF Amounts
    <3>3. ASSUME Counted(m) PROVE m.value = req.utxo[last].value
      <4>1. m.path /\ req.liquid /\ m.type \in {"v0", "v1"}
        BY <2>1, <2>2, <2>3, <2>6, <3>3 DEF Counted, Acceptable, Countable, RequestOK, Inputs, Types
      <4>2. PICK i \in 1..Len(ins') : i = last
        BY <2>1, <2>2
      <4>3. ins'[i] = m
        BY <2>2, <4>2
      <4>4. Valid(i)'
        BY <2>6, <4>1, <4>3
      <4> QED
        BY <2>2, <4>1, <4>2, <4>3, <4>4 DEF Valid
    <3> QED
      BY <1>2, <3>2, <3>3 DEF TxInput
  <2> QED
    BY <2>4, <2>5, <2>6 DEF Amounts
<1>3. CASE Leave
  <2>1. Len(ins') = 0
    BY <1>3 DEF Leave
  <2> QED
    BY <1>3, <2>1 DEF Leave, Amounts
<1>4. CASE UNCHANGED <<req, ins, paid, sum, real, net>>
  BY <1>4, <1>a DEF Amounts, IsReal, Valid, NumInputs
<1> QED
  BY <1>1, <1>2, <1>3, <1>4, OtherActions

-----------------------------------------------------------------------------
(* What the user has agreed to                                               *)

\* Before anything is signed there is no signature, and a message that is no
\* signature adds none.
LEMMA NoneAdded ==
    ASSUME log \in Seq(Answers), NEW a, a.is # "sig", log' \in {log, Append(log, a)}
    PROVE  Signatures' = Signatures
<1>1. CASE log' = log
  BY <1>1 DEF Signatures
<1>2. CASE log' = Append(log, a)
  <2>1. Len(log) \in Nat /\ DOMAIN log = 1..Len(log)
    BY LenProperties
  <2>2. DOMAIN log' = 1..(Len(log) + 1) /\ log'[Len(log) + 1] = a /\ \A k \in 1..Len(log) : log'[k] = log[k]
    BY <1>2, <2>1
  <2> QED
    BY <2>1, <2>2 DEF Signatures
<1> QED
  BY <1>1, <1>2

LEMMA ConsentStep == IInv /\ [Next]_vars => Consent'
<1> SUFFICES ASSUME IInv, [Next]_vars PROVE Consent'
  OBVIOUS
<1>a. TypeOK /\ Progress /\ Consent /\ Exchange
  BY DEF IInv
<1>b. log \in Seq(Answers)
  BY <1>a DEF TypeOK
<1>c. /\ \A k, what, i, e : what # "sig" => Answer(k, what, i, e).is # "sig"
      /\ \A k : Error(k).is # "sig"
  BY DEF Answer, Error
<1>1. CASE SignTx
  <2>1. log' = <<>> /\ pc' = "outputs"
    BY <1>1, <1>a DEF SignTx, Progress
  <2> QED
    BY <2>1 DEF Consent, Signatures
<1>2. CASE ConfirmOutputs
  <2>1. Signatures = {}
    BY <1>2, <1>a DEF ConfirmOutputs, Progress, Signatures
  <2>2. Signatures' = {}
    <3>1. Answer(0, "ok", 0, FALSE).is # "sig"
      BY <1>c
    <3>2. log' \in {log, Append(log, Answer(0, "ok", 0, FALSE))}
      BY <1>2 DEF ConfirmOutputs
    <3> QED
      BY <1>b, <2>1, <3>1, <3>2, NoneAdded
  <2>3. agreed'.outputs = req'.liquid /\ pc' = "inputs"
    BY <1>2, <1>a DEF ConfirmOutputs, TypeOK
  <2> QED
    BY <2>2, <2>3 DEF Consent
<1>3. CASE DeclineOutputs
  <2>1. Signatures = {}
    BY <1>3, <1>a DEF DeclineOutputs, Progress, Signatures
  <2>2. pc' = "done" /\ log' = Append(log, Error(0))
    BY <1>3, <1>b, FinishError DEF DeclineOutputs
  <2>3. Signatures' = {}
    <3>1. Error(0).is # "sig" /\ log' \in {log, Append(log, Error(0))}
      BY <1>c, <2>2
    <3> QED
      BY <1>b, <2>1, <3>1, NoneAdded
  <2> QED
    BY <2>2, <2>3 DEF Consent
<1>4. ASSUME NEW m \in Inputs, TxInput(m) PROVE Consent'
  <2>1. Signatures = {} /\ agreed' = agreed /\ req' = req /\ agreed.outputs = req.liquid /\ pc' \in {"inputs", "totals"}
    BY <1>4, <1>a DEF TxInput, Exchange, Consent
  <2>2. Signatures' = {}
    <3> DEFINE a == Answer(got + 1, IF UsesAe(m) THEN "opening" ELSE "empty", Len(ins) + 1, FALSE)
    <3>1. a.is # "sig"
      BY <1>c
    <3>2. log' \in {log, Append(log, a)}
      BY <1>4 DEF TxInput
    <3> HIDE DEF a
    <3> QED
      BY <1>b, <2>1, <3>1, <3>2, NoneAdded
  <2> QED
    BY <2>1, <2>2 DEF Consent
<1>5. CASE RejectInput \/ LateError \/ RejectGetSignature
  <2>1. pc \in {"inputs", "late", "sign"} /\ got' = got + 1 /\ Finish(<<Error(got + 1)>>)
        /\ UNCHANGED <<req, ins, paid, sum, agreed, fault, real, net>>
    BY <1>5 DEF RejectInput, LateError, RejectGetSignature
  <2>2. got + 1 \in Nat
    BY <1>a, NumInputsType DEF TypeOK
  <2>3. log' = Append(log, Error(got + 1)) /\ pc' = "done"
    BY <2>1, <2>2, <1>b, FinishError
  <2>4. Signatures' = Signatures
    <3>1. Error(got + 1).is # "sig" /\ log' \in {log, Append(log, Error(got + 1))}
      BY <1>c, <2>3
    <3> QED
      BY <1>b, <3>1, NoneAdded
  <2> QED
    BY <1>a, <2>1, <2>3, <2>4 DEF Consent, NumInputs
<1>6. CASE TotalsFail \/ DeclineFee
  <2>1. pc \in {"totals", "fee"} /\ Fail /\ UNCHANGED <<req, ins, paid, sum, agreed, got, fault, real, net>>
    BY <1>6 DEF TotalsFail, DeclineFee
  <2>2. got \in Nat /\ Signatures = {}
    BY <1>a, <2>1, NumInputsType DEF TypeOK, Exchange
  <2>3. log' \in {log, Append(log, Error(got))} /\ pc' \in {"done", "late"}
    BY <2>1, <2>2, <1>b, FinishError DEF Fail
  <2>4. Signatures' = {}
    BY <2>2, <2>3, <1>b, <1>c, NoneAdded
  <2> QED
    BY <2>3, <2>4 DEF Consent
<1>7. CASE TotalsFit
  <2>1. /\ pc = "totals" /\ Balanced /\ UNCHANGED <<req, ins, paid, sum, agreed, got, log, real, net>>
        /\ pc' \in {"dead", "fee", "sign"}
        /\ pc' = "sign" => req.partial
    BY <1>7 DEF TotalsFit
  <2>2. Len(ins) = NumInputs /\ Signatures' = {} /\ agreed.outputs = req.liquid /\ req \in AllRequests
    BY <1>a, <2>1 DEF Progress, Exchange, Consent, Signatures
  <2>3. req.partial => req.liquid
    BY <2>2, PartialIsLiquid
  <2> QED
    BY <2>1, <2>2, <2>3 DEF Consent, Balanced, NumInputs
<1>8. CASE ConfirmFee
  <2>1. /\ pc = "fee" /\ pc' = "sign" /\ UNCHANGED <<req, ins, paid, sum, got, log, fault, real, net>>
        /\ agreed' = [agreed EXCEPT !.fee = IF req.liquid THEN 0 ELSE paid - req.out]
    BY <1>8 DEF ConfirmFee
  <2>2. Len(ins) = NumInputs /\ Signatures' = {} /\ agreed.outputs = req.liquid /\ Balanced
    BY <1>a, <2>1 DEF Progress, Exchange, Consent, Signatures
  <2>3. agreed'.outputs = req.liquid /\ (~req.liquid => agreed'.fee = paid - req.out)
    BY <1>a, <2>1, <2>2 DEF TypeOK
  <2> QED
    BY <2>1, <2>2, <2>3 DEF Consent, Balanced, NumInputs
<1>9. CASE SendSignatures \/ \E entropy \in BOOLEAN : GetSignature(entropy)
  <2>1. pc = "sign" /\ pc' \in {"sign", "done"} /\ UNCHANGED <<req, ins, paid, sum, agreed, fault, real, net>>
    BY <1>9 DEF SendSignatures, GetSignature, Finish
  <2> QED
    BY <1>a, <2>1 DEF Consent, NumInputs
<1>10. CASE LinkLost
  <2>1. log' = log /\ pc' = "done" /\ UNCHANGED <<req, ins, paid, sum, agreed>>
    BY <1>10, <1>b, ConcatEmptySeq DEF LinkLost, Finish
  <2> QED
    BY <1>a, <2>1 DEF Consent, Signatures, NumInputs
<1>11. CASE Leave
  BY <1>11 DEF Leave, Consent, Signatures
<1>12. CASE UNCHANGED vars
  BY <1>12, <1>a DEF vars, Consent, Signatures, NumInputs, Balanced
<1> QED
  BY <1>1, <1>2, <1>3, <1>4, <1>5, <1>6, <1>7, <1>8, <1>9, <1>10, <1>11, <1>12 DEF Next

-----------------------------------------------------------------------------
(* The answers                                                               *)

Plain(k) == IsOk(k) \/ IsOpening(k) \/ IsLateSignature(k)

\* Every answer keeps its place and its meaning when one is added, or an input.
LEMMA Kept ==
    ASSUME TypeOK, Exchange, pc # "done", req' = req,
           ins' = ins \/ (\E m \in Inputs : ins' = Append(ins, m)),
           log' = log \/ (\E a \in Answers : log' = Append(log, a))
    PROVE  /\ Len(log) \in Nat
           /\ \A k \in 1..Len(log) : Plain(k)'
<1>1. ins \in Seq(Inputs) /\ log \in Seq(Answers) /\ Len(ins) \in Nat /\ Len(log) \in Nat /\ NumInputs \in Nat
  BY NumInputsType DEF TypeOK
<1>2. SUFFICES ASSUME NEW k \in 1..Len(log) PROVE Plain(k)'
  BY <1>1
<1>3. log'[k] = log[k]
  BY <1>1
<1>4. Len(ins') \in Nat /\ Len(ins') >= Len(ins) /\ \A i \in 1..Len(ins) : ins'[i] = ins[i]
  <2>1. CASE ins' = ins
    BY <1>1, <2>1
  <2>2. CASE \E m \in Inputs : ins' = Append(ins, m)
    <3>1. PICK m \in Inputs : ins' = Append(ins, m)
      BY <2>2
    <3>2. Len(ins') = Len(ins) + 1 /\ \A i \in 1..Len(ins) : ins'[i] = ins[i]
      BY <1>1, <3>1
    <3> QED
      BY <1>1, <3>2
  <2> QED
    BY <2>1, <2>2
<1>5. Plain(k)
  BY <1>1 DEF Exchange, Plain, IsBatchSignature, IsError
<1>6. NumInputs' = NumInputs
  BY DEF NumInputs
<1>7. CASE IsOk(k)
  BY <1>3, <1>7 DEF IsOk, Plain
<1>8. CASE IsOpening(k)
  <2>1. k - 1 \in 1..Len(ins) /\ ins'[k - 1] = ins[k - 1]
    BY <1>1, <1>4, <1>8 DEF IsOpening
  <2> QED
    BY <1>1, <1>3, <1>4, <1>8, <2>1 DEF IsOpening, Plain, UsesAe
<1>9. CASE IsLateSignature(k)
  <2>1. k - 1 - NumInputs \in 1..Len(ins) /\ ins'[k - 1 - NumInputs] = ins[k - 1 - NumInputs]
    BY <1>4, <1>9 DEF IsLateSignature
  <2>2. k - 1 - NumInputs \in 1..Len(ins')
    BY <1>1, <1>4, <2>1
  <2> QED
    BY <1>3, <1>6, <1>9, <2>1, <2>2 DEF IsLateSignature, Plain
<1> QED
  BY <1>5, <1>7, <1>8, <1>9 DEF Plain

\* An error is the last answer.
LEMMA ErrorEnds ==
    ASSUME TypeOK, Exchange, pc # "done", req' = req, ins' = ins,
           NEW k \in Nat, k >= Len(log), log' = Append(log, Error(k)), pc' = "done",
           ~req.ae => Signatures = {}
    PROVE  Exchange'
<1>1. log \in Seq(Answers) /\ Len(log) \in Nat /\ Error(k) \in Answers
  BY ErrorType DEF TypeOK
<1>2. \A j \in 1..Len(log) : Plain(j)'
  BY <1>1, Kept
<1>3. Len(log') = Len(log) + 1 /\ log'[Len(log')] = Error(k) /\ DOMAIN log' = 1..(Len(log) + 1)
  BY <1>1
<1>4. Error(k).is = "error" /\ Error(k).input = 0 /\ Error(k).to = k
  BY DEF Error, Answer
<1>5. Signatures' = Signatures
  <2>1. Error(k).is # "sig" /\ log' \in {log, Append(log, Error(k))}
    BY <1>4
  <2> QED
    BY <1>1, <2>1, NoneAdded
<1>6. ASSUME NEW j \in DOMAIN log', j # Len(log) + 1 PROVE Plain(j)'
  <2>1. j \in 1..Len(log)
    BY <1>1, <1>3, <1>6
  <2> QED
    BY <1>2, <2>1
<1>7. ASSUME NEW j \in DOMAIN log', j = Len(log) + 1 PROVE IsError(j)'
  <2>1. log'[j] = Error(k) /\ j = Len(log')
    BY <1>3, <1>7
  <2>2. k >= j - 1
    BY <1>1, <1>7
  <2> QED
    BY <1>4, <1>5, <2>1, <2>2 DEF IsError
<1> QED
  BY <1>1, <1>3, <1>6, <1>7 DEF Exchange, Plain

LEMMA ExchangeStep == IInv /\ [Next]_vars => Exchange'
<1> SUFFICES ASSUME IInv, [Next]_vars PROVE Exchange'
  OBVIOUS
<1>a. TypeOK /\ Progress /\ Exchange
  BY DEF IInv
<1>b. /\ log \in Seq(Answers) /\ Len(log) \in Nat /\ ins \in Seq(Inputs) /\ Len(ins) \in Nat
      /\ NumInputs \in Nat /\ got \in Nat
  BY <1>a, NumInputsType DEF TypeOK
<1>1. CASE SignTx
  <2>1. log' = <<>> /\ pc' = "outputs"
    BY <1>1, <1>a DEF SignTx, Progress
  <2> QED
    BY <2>1 DEF Exchange
<1>2. CASE ConfirmOutputs
  <2>1. log = <<>> /\ log' = Append(log, Answer(0, "ok", 0, FALSE)) /\ pc' = "inputs" /\ got' = 0
    BY <1>2, <1>a DEF ConfirmOutputs, Progress
  <2>2. /\ log' = <<Answer(0, "ok", 0, FALSE)>> /\ Len(log') = 1 /\ DOMAIN log' = {1}
        /\ log'[1] = Answer(0, "ok", 0, FALSE)
    BY <2>1
  <2>3. IsOk(1)'
    BY <2>2 DEF IsOk, Answer
  <2>4. Signatures' = {}
    BY <2>2 DEF Signatures, Answer
  <2> QED
    BY <2>1, <2>2, <2>3, <2>4 DEF Exchange
<1>3. CASE DeclineOutputs
  <2>1. log = <<>> /\ pc # "done" /\ req' = req /\ ins' = ins
    BY <1>3, <1>a DEF DeclineOutputs, Progress
  <2>2. pc' = "done" /\ log' = Append(log, Error(0))
    BY <1>3, <1>b, FinishError DEF DeclineOutputs
  <2>3. 0 >= Len(log) /\ Signatures = {}
    BY <2>1 DEF Signatures
  <2> QED
    BY <1>a, <2>1, <2>2, <2>3, ErrorEnds
<1>4. ASSUME NEW m \in Inputs, TxInput(m) PROVE Exchange'
  <2> DEFINE a == Answer(got + 1, IF UsesAe(m) THEN "opening" ELSE "empty", Len(ins) + 1, FALSE)
  <2>1. /\ pc = "inputs" /\ pc' \in {"inputs", "totals"}
        /\ req' = req /\ ins' = Append(ins, m) /\ got' = got + 1
        /\ log' = IF req.ae THEN Append(log, a) ELSE log
    BY <1>4 DEF TxInput
  <2>2. a \in Answers
    <3>1. got + 1 \in Nat /\ Len(ins) + 1 \in Nat
      BY <1>b
    <3>2. (IF UsesAe(m) THEN "opening" ELSE "empty") \in {"ok", "error", "opening", "empty", "sig"}
      OBVIOUS
    <3> QED
      BY <3>1, <3>2, AnswerType
  <2>3. /\ a.to = got + 1 /\ a.input = Len(ins) + 1
        /\ a.is = IF UsesAe(m) THEN "opening" ELSE "empty"
    BY DEF Answer
  <2> HIDE DEF a
  <2>4. log' = log \/ (\E x \in Answers : log' = Append(log, x))
    BY <2>1, <2>2
  <2>5. \A k \in 1..Len(log) : Plain(k)'
    BY <1>a, <1>4, <2>1, <2>4, Kept
  <2>6. got = Len(ins) /\ Len(log) = (IF req.ae THEN got + 1 ELSE 1)
    BY <1>a, <2>1 DEF Progress, Exchange
  <2>7. Signatures' = {}
    <3>1. a.is # "sig" /\ log' \in {log, Append(log, a)} /\ Signatures = {}
      BY <1>a, <2>1, <2>3 DEF Exchange
    <3> QED
      BY <1>b, <3>1, NoneAdded
  <2>8. CASE req.ae
    <3>1. /\ log' = Append(log, a) /\ Len(log') = Len(log) + 1 /\ DOMAIN log' = 1..(Len(log) + 1)
          /\ log'[Len(log) + 1] = a
      BY <1>b, <2>1, <2>2, <2>8
    <3>2. Len(ins') = Len(ins) + 1 /\ ins'[Len(ins) + 1] = m
      BY <1>b, <2>1
    <3>3. ASSUME NEW k \in DOMAIN log', k = Len(log) + 1 PROVE IsOpening(k)'
      <4>1. k \in 2..(Len(ins') + 1) /\ k - 1 = Len(ins) + 1 /\ k - 1 = got + 1
        BY <1>b, <2>6, <2>8, <3>2, <3>3
      <4>2. ins'[k - 1] = m /\ log'[k] = a
        BY <3>1, <3>2, <3>3, <4>1
      <4>3. UsesAe(m)' = UsesAe(m)
        BY <2>1 DEF UsesAe
      <4> QED
        BY <2>1, <2>3, <2>8, <4>1, <4>2, <4>3 DEF IsOpening, UsesAe
    <3>4. ASSUME NEW k \in DOMAIN log', k # Len(log) + 1 PROVE Plain(k)'
      <4>1. k \in 1..Len(log)
        BY <1>b, <3>1, <3>4
      <4> QED
        BY <2>5, <4>1
    <3>5. Len(log') = got' + 1 /\ req'.ae
      BY <1>b, <2>1, <2>6, <2>8, <3>1
    <3> QED
      BY <2>1, <2>7, <3>3, <3>4, <3>5 DEF Exchange, Plain
  <2>9. CASE ~req.ae
    <3>1. log' = log /\ Len(log') = 1 /\ ~req'.ae /\ DOMAIN log' = 1..Len(log)
      BY <1>b, <2>1, <2>6, <2>9
    <3> QED
      BY <2>1, <2>5, <2>7, <3>1 DEF Exchange, Plain
  <2> QED
    BY <2>8, <2>9
<1>5. CASE RejectInput \/ LateError \/ RejectGetSignature
  <2>1. pc \in {"inputs", "late", "sign"} /\ got' = got + 1 /\ Finish(<<Error(got + 1)>>)
        /\ UNCHANGED <<req, ins, paid, sum, agreed, fault, real, net>>
    BY <1>5 DEF RejectInput, LateError, RejectGetSignature
  <2>2. got + 1 \in Nat /\ got + 1 >= Len(log)
    <3>1. Len(log) = IF req.ae THEN got + 1 ELSE 1
      BY <1>a, <2>1 DEF Exchange
    <3> QED
      BY <1>b, <3>1
  <2>3. log' = Append(log, Error(got + 1)) /\ pc' = "done"
    BY <2>1, <2>2, <1>b, FinishError
  <2>4. ~req.ae => Signatures = {}
    BY <1>5, <1>a DEF RejectInput, LateError, RejectGetSignature, Exchange
  <2> QED
    BY <1>a, <2>1, <2>2, <2>3, <2>4, ErrorEnds
<1>6. CASE TotalsFail \/ DeclineFee
  <2>1. pc \in {"totals", "fee"} /\ Fail /\ UNCHANGED <<req, ins, paid, sum, agreed, got, fault, real, net>>
    BY <1>6 DEF TotalsFail, DeclineFee
  <2>2. Signatures = {} /\ got = NumInputs /\ NumInputs >= 1 /\ Len(log) = (IF req.ae THEN got + 1 ELSE 1)
    BY <1>a, <1>b, <2>1, RequestFacts DEF Exchange, Progress, RequestOK, NumInputs
  <2>3. CASE req.ae
    <3>1. pc' = "late" /\ log' = log
      BY <2>1, <2>3 DEF Fail
    <3>2. \A k \in 1..Len(log) : Plain(k)'
      BY <1>a, <2>1, <3>1, Kept
    <3> QED
      BY <1>b, <2>1, <2>2, <3>1, <3>2 DEF Exchange, Plain, Signatures
  <2>4. CASE ~req.ae
    <3>1. pc' = "done" /\ log' = Append(log, Error(got))
      BY <2>1, <2>4, <1>b, FinishError DEF Fail
    <3>2. got >= Len(log)
      BY <2>2, <2>4
    <3> QED
      BY <1>a, <1>b, <2>1, <2>2, <3>1, <3>2, ErrorEnds
  <2> QED
    BY <2>3, <2>4
<1>7. CASE TotalsFit \/ ConfirmFee
  <2>1. /\ pc \in {"totals", "fee"} /\ UNCHANGED <<req, ins, paid, sum, got, log, real, net>>
        /\ pc' \in {"dead", "fee", "sign"}
    BY <1>7 DEF TotalsFit, ConfirmFee
  <2>2. Signatures' = {} /\ Len(log) = (IF req.ae THEN got + 1 ELSE 1)
    BY <1>a, <2>1 DEF Exchange, Signatures
  <2>3. \A k \in 1..Len(log) : Plain(k)'
    BY <1>a, <2>1, Kept
  <2>4. log' # <<>> /\ DOMAIN log' = 1..Len(log) /\ Len(log') = Len(log)
    <3>1. Len(log) # 0
      BY <1>b, <2>2
    <3> QED
      BY <1>b, <2>1, <3>1, LenProperties
  <2> QED
    BY <2>1, <2>2, <2>3, <2>4 DEF Exchange, Plain
<1>8. CASE SendSignatures
  <2>1. pc = "sign" /\ ~req.ae /\ req' = req /\ ins' = ins /\ pc' = "done" /\ Len(log) = 1
    BY <1>8, <1>a DEF SendSignatures, Finish, Exchange
  <2>2. CASE \E i \in 1..Len(ins) : ins[i].path /\ Finish(<<Error(i)>>)
    <3>1. PICK i \in 1..Len(ins) : Finish(<<Error(i)>>)
      BY <2>2
    <3>2. i \in Nat /\ i >= Len(log)
      BY <1>b, <2>1
    <3>3. log' = Append(log, Error(i))
      BY <1>b, <3>1, <3>2, FinishError
    <3>4. Signatures = {}
      BY <1>a, <1>b, <2>1 DEF Signatures, Exchange, IsOk, IsOpening, IsLateSignature, IsBatchSignature, IsError
    <3> QED
      BY <1>a, <2>1, <3>2, <3>3, <3>4, ErrorEnds
  <2>3. CASE Finish([i \in 1..Len(ins) |-> Signed(i, i, FALSE)])
    <3> DEFINE batch == [i \in 1..Len(ins) |-> Signed(i, i, FALSE)]
    <3>1. batch \in Seq(Answers)
      <4>1. ASSUME NEW i \in 1..Len(ins) PROVE Signed(i, i, FALSE) \in Answers
        <5>1. i \in Nat /\ (IF ins[i].path THEN "sig" ELSE "empty") \in {"ok", "error", "opening", "empty", "sig"}
          BY <1>b
        <5> QED
          BY <5>1, AnswerType DEF Signed
      <4>2. batch \in [1..Len(ins) -> Answers]
        BY <4>1
      <4> QED
        BY <4>2, <1>b, SeqDef
    <3>2. DOMAIN batch = 1..Len(ins) /\ Len(batch) = Len(ins)
      BY <3>1, <1>b, LenProperties
    <3>3. log' = log \o batch
      BY <2>3 DEF Finish
    <3>4. \A i \in 1..Len(ins) : batch[i] = Signed(i, i, FALSE)
      OBVIOUS
    <3> HIDE DEF batch
    <3>5. /\ Len(log') = Len(ins) + 1 /\ log' \in Seq(Answers)
          /\ \A k \in 1..(Len(ins) + 1) : log'[k] = IF k = 1 THEN log[1] ELSE batch[k - 1]
      <4>1. Len(log') = 1 + Len(ins) /\ log' \in Seq(Answers)
            /\ \A k \in 1..(1 + Len(ins)) : log'[k] = IF k <= 1 THEN log[k] ELSE batch[k - 1]
        <5>1. /\ log \o batch \in Seq(Answers)
              /\ Len(log \o batch) = Len(log) + Len(batch)
              /\ \A k \in 1..(Len(log) + Len(batch)) :
                    (log \o batch)[k] = IF k <= Len(log) THEN log[k] ELSE batch[k - Len(log)]
          BY <1>b, <3>1, ConcatProperties
        <5> QED
          BY <2>1, <3>2, <3>3, <5>1
      <4> QED
        BY <1>b, <4>1
    <3>6. Len(ins) = NumInputs /\ NumInputs' = NumInputs
      BY <1>a, <2>1 DEF Progress, NumInputs
    <3>7. IsOk(1)
      BY <1>a, <1>b, <2>1 DEF Exchange, IsOk, IsOpening, IsLateSignature, IsBatchSignature, IsError
    <3>8. IsOk(1)'
      BY <1>b, <3>5, <3>7 DEF IsOk
    <3>9. ASSUME NEW k \in DOMAIN log', k # 1 PROVE IsBatchSignature(k)'
      <4>1. k \in 2..(NumInputs + 1) /\ k - 1 \in 1..Len(ins)
        BY <1>b, <3>5, <3>6, <3>9, LenProperties
      <4>2. log'[k] = Signed(k - 1, k - 1, FALSE)
        <5>1. k \in 1..(Len(ins) + 1)
          BY <1>b, <4>1
        <5>2. log'[k] = batch[k - 1]
          BY <3>5, <3>9, <5>1
        <5> QED
          BY <3>4, <4>1, <5>2
      <4>3. log'[k].to = k - 1 /\ log'[k].input = k - 1 /\ log'[k].is \in {"sig", "empty"}
        BY <4>2 DEF Signed, Answer
      <4> QED
        BY <2>1, <3>5, <3>6, <4>1, <4>3 DEF IsBatchSignature
    <3> QED
      BY <1>b, <2>1, <3>5, <3>8, <3>9 DEF Exchange
  <2> QED
    BY <1>8, <2>2, <2>3 DEF SendSignatures
<1>9. ASSUME NEW entropy \in BOOLEAN, GetSignature(entropy) PROVE Exchange'
  <2> DEFINE a == Signed(got + 1, Awaited, ins[Awaited].path /\ entropy)
  <2>1. /\ pc = "sign" /\ pc' \in {"sign", "done"} /\ req.ae
        /\ UNCHANGED <<req, ins>> /\ got' = got + 1
        /\ log' = Append(log, a)
        /\ EntropyFits(Awaited, entropy)
    BY <1>9 DEF GetSignature
  <2>2. Len(ins) = NumInputs /\ got >= NumInputs /\ got < 2 * NumInputs /\ Len(log) = got + 1 /\ NumInputs' = NumInputs
    BY <1>a, <2>1 DEF Progress, Exchange, NumInputs
  <2>3. Awaited \in 1..Len(ins) /\ Awaited = got - NumInputs + 1
    BY <1>b, <2>2 DEF Awaited
  <2>4. a \in Answers
    <3>1. (ins[Awaited].path /\ entropy) \in BOOLEAN
      OBVIOUS
    <3>2. (IF ins[Awaited].path THEN "sig" ELSE "empty") \in {"ok", "error", "opening", "empty", "sig"}
      OBVIOUS
    <3>3. got + 1 \in Nat /\ Awaited \in Nat
      BY <1>b, <2>3
    <3> QED
      BY <3>1, <3>2, <3>3, AnswerType DEF Signed
  <2>5. /\ a.to = got + 1 /\ a.input = Awaited /\ a.is \in {"sig", "empty"}
        /\ a.is = "sig" => a.entropy = ins[Awaited].commit
    <3>1. /\ a.to = got + 1 /\ a.input = Awaited /\ a.entropy = (ins[Awaited].path /\ entropy)
          /\ a.is = IF ins[Awaited].path THEN "sig" ELSE "empty"
      BY DEF Signed, Answer
    <3>2. ins[Awaited].commit \in BOOLEAN /\ ins[Awaited].path \in BOOLEAN
      <4>1. ins[Awaited] \in Inputs
        BY <1>b, <2>3
      <4> QED
        BY <4>1 DEF Inputs
    <3>3. ins[Awaited].path => entropy = ins[Awaited].commit
      BY <2>1, <3>2 DEF EntropyFits, UsesAe
    <3> HIDE DEF a
    <3> QED
      BY <3>1, <3>2, <3>3
  <2> HIDE DEF a
  <2>6. \A k \in 1..Len(log) : Plain(k)'
    BY <1>a, <2>1, <2>4, Kept
  <2>7. Len(log') = Len(log) + 1 /\ log'[Len(log) + 1] = a /\ DOMAIN log' = 1..(Len(log) + 1)
    BY <1>b, <2>1, <2>4
  <2>8. ASSUME NEW k \in DOMAIN log', k = Len(log) + 1 PROVE IsLateSignature(k)'
    <3>1. k = got + 2 /\ k > NumInputs + 1 /\ k - 1 - NumInputs = Awaited
      BY <1>b, <2>2, <2>3, <2>8
    <3>2. log'[k] = a
      BY <2>7, <2>8
    <3>3. k - 1 = got + 1 /\ k - 1 - NumInputs' \in 1..Len(ins')
      BY <1>b, <2>1, <2>2, <2>3, <3>1
    <3> QED
      BY <2>1, <2>2, <2>5, <3>1, <3>2, <3>3 DEF IsLateSignature
  <2>9. ASSUME NEW k \in DOMAIN log', k # Len(log) + 1 PROVE Plain(k)'
    <3>1. k \in 1..Len(log)
      BY <1>b, <2>7, <2>9
    <3> QED
      BY <2>6, <3>1
  <2>10. Len(log') = got' + 1 /\ log' # <<>>
    BY <1>b, <2>1, <2>2, <2>7
  <2> QED
    BY <2>1, <2>8, <2>9, <2>10 DEF Exchange, Plain
<1>10. CASE LinkLost
  <2>1. log' = log /\ pc' = "done" /\ UNCHANGED <<req, ins>> /\ pc \in {"inputs", "late", "sign"}
    BY <1>10, <1>b, ConcatEmptySeq DEF LinkLost, Finish
  <2>2. \A k \in 1..Len(log) : Plain(k)'
    BY <1>a, <2>1, Kept
  <2>3. log' # <<>> /\ DOMAIN log' = 1..Len(log)
    BY <1>a, <1>b, <2>1 DEF Exchange
  <2> QED
    BY <2>1, <2>2, <2>3 DEF Exchange, Plain
<1>11. CASE Leave
  BY <1>11 DEF Leave, Exchange
<1>12. CASE UNCHANGED vars
  BY <1>12, <1>a DEF vars, Exchange, IsOk, IsOpening, IsLateSignature, IsBatchSignature, IsError, Signatures,
                     NumInputs, UsesAe
<1> QED
  BY <1>1, <1>2, <1>3, <1>4, <1>5, <1>6, <1>7, <1>8, <1>9, <1>10, <1>11, <1>12 DEF Next

LEMMA Invariance == Spec => []IInv
<1>1. IInv /\ [Next]_vars => IInv'
  BY TypeStep, AmountsStep, ConsentStep, ExchangeStep DEF IInv
<1> QED
  BY InitIInv, <1>1, PTL DEF Spec

-----------------------------------------------------------------------------
(* What follows                                                              *)

\* The state of the signing handlers keeps its types: sums stay below the word size
\* and nothing is answered or counted past the inputs of the request.
THEOREM TypeCorrect == Spec => []TypeOK
BY Invariance, PTL DEF IInv

\* The place of a signature tells its input, and it was the one answer about it.
LEMMA SignaturePlace ==
    ASSUME IInv, NEW k \in Signatures
    PROVE  /\ k \in DOMAIN log
           /\ Len(ins) = NumInputs
           /\ log[k].input \in 1..Len(ins)
           /\ IsLateSignature(k) \/ IsBatchSignature(k)
<1>1. TypeOK /\ Exchange /\ Consent
  BY DEF IInv
<1>2. /\ log \in Seq(Answers) /\ Len(log) \in Nat /\ Len(ins) \in Nat /\ NumInputs \in Nat
      /\ DOMAIN log = 1..Len(log)
  BY <1>1, NumInputsType DEF TypeOK
<1>3. k \in DOMAIN log /\ log[k].is = "sig"
  BY DEF Signatures
<1>4. Len(ins) = NumInputs
  BY <1>1 DEF Consent
<1>5. IsLateSignature(k) \/ IsBatchSignature(k)
  BY <1>1, <1>3 DEF Exchange, IsOk, IsOpening, IsError
<1>6. k \in Nat
  BY <1>2, <1>3
<1>7. log[k].input \in 1..Len(ins)
  <2>1. CASE IsLateSignature(k)
    BY <2>1 DEF IsLateSignature
  <2>2. CASE IsBatchSignature(k)
    <3>1. log[k].input = k - 1 /\ k \in 2..(NumInputs + 1)
      BY <2>2 DEF IsBatchSignature
    <3> QED
      BY <1>2, <1>4, <3>1
  <2> QED
    BY <1>5, <2>1, <2>2
<1> QED
  BY <1>3, <1>4, <1>5, <1>7

\* Whatever the app says of amounts and types: a signature that is good for anything
\* is for a bitcoin payment whose real fee the user has agreed to.
THEOREM FeeAgreed == Spec => []FeeIsTrue
<1>1. IInv => FeeIsTrue
  <2> SUFFICES ASSUME IInv, ~req.liquid, NEW k \in Signatures, Valid(log[k].input)
               PROVE  agreed.fee = real - req.out
    BY DEF FeeIsTrue
  <2>1. Len(ins) = NumInputs /\ log[k].input \in 1..Len(ins)
    BY SignaturePlace
  <2>2. \A i \in 1..Len(ins) : IsReal(i)
    <3> SUFFICES ASSUME NEW i \in 1..Len(ins), ~IsReal(i) PROVE FALSE
      OBVIOUS
    <3>1. NumInputs = 1 /\ ins[i].type = "v0"
      BY DEF IInv, Amounts
    <3>2. log[k].input = i
      BY <2>1, <3>1
    <3> QED
      BY <3>1, <3>2 DEF Valid, IsReal
  <2>3. paid = real
    BY <2>2 DEF IInv, Amounts
  <2> QED
    BY <2>3 DEF IInv, Consent
<1> QED
  BY <1>1, Invariance, PTL

\* A swap the device has signed for, and whose signatures are good, takes from the
\* wallet what the user has agreed to, net of change, in unsigned arithmetic.
THEOREM SwapAgreed == Spec => []SummaryTrue
<1>1. IInv => SummaryTrue
  <2> SUFFICES ASSUME IInv, req.summary # None, Signatures # {},
                      \A i \in 1..Len(ins) : ins[i].path => Valid(i)
               PROVE  agreed.outputs /\ req.summary = net
    BY DEF SummaryTrue
  <2>1. sum = net
    BY DEF IInv, Amounts
  <2>2. req.liquid
    <3>1. pc # "idle"
      BY DEF IInv, Progress, Signatures
    <3> QED
      BY <3>1, RequestFacts DEF IInv, Progress, RequestOK
  <2> QED
    BY <2>1, <2>2 DEF IInv, Consent
<1> QED
  BY <1>1, Invariance, PTL

\* Every answer is told by its place: what message it is for and what input.
LEMMA AnswerPlace ==
    ASSUME IInv, NEW k \in DOMAIN log
    PROVE  /\ k \in Nat /\ k >= 1 /\ k <= Len(log)
           /\ log[k].to >= k - 1
           /\ k < Len(log) => log[k].to = k - 1
           /\ log[k].input # 0 => log[k].to = k - 1 /\ log[k].input = InputOf(k - 1)
<1>1. /\ log \in Seq(Answers) /\ Len(log) \in Nat /\ Len(ins) \in Nat /\ NumInputs \in Nat
      /\ DOMAIN log = 1..Len(log) /\ Len(ins) <= NumInputs
  BY NumInputsType DEF IInv, TypeOK
<1>2. k \in Nat /\ k >= 1 /\ k <= Len(log)
  BY <1>1
<1>3. IsOk(k) \/ IsOpening(k) \/ IsLateSignature(k) \/ IsBatchSignature(k) \/ IsError(k)
  BY DEF IInv, Exchange
<1>4. CASE IsOk(k)
  BY <1>2, <1>4 DEF IsOk
<1>5. CASE IsOpening(k) \/ IsBatchSignature(k)
  <2>1. log[k].to = k - 1 /\ log[k].input = k - 1 /\ k - 1 <= NumInputs
    <3>1. CASE IsOpening(k)
      <4>1. log[k].to = k - 1 /\ log[k].input = k - 1 /\ k \in 2..(Len(ins) + 1)
        BY <3>1 DEF IsOpening
      <4> QED
        BY <1>1, <1>2, <4>1
    <3>2. CASE IsBatchSignature(k)
      <4>1. log[k].to = k - 1 /\ log[k].input = k - 1 /\ k \in 2..(NumInputs + 1)
        BY <3>2 DEF IsBatchSignature
      <4> QED
        BY <1>1, <1>2, <4>1
    <3> QED
      BY <1>5, <3>1, <3>2
  <2> QED
    BY <1>2, <2>1 DEF InputOf
<1>6. CASE IsLateSignature(k)
  <2>1. log[k].to = k - 1 /\ log[k].input = k - 1 - NumInputs /\ k - 1 > NumInputs
    BY <1>1, <1>2, <1>6 DEF IsLateSignature
  <2> QED
    BY <1>1, <1>2, <2>1 DEF InputOf
<1>7. CASE IsError(k)
  BY <1>2, <1>7 DEF IsError
<1> QED
  BY <1>3, <1>4, <1>5, <1>6, <1>7

\* Messages are answered in order, none twice, each about its own input, and without
\* anti-exfil the signatures leave together or not at all.
THEOREM AnsweredInOrder == Spec => []AnswersMatch
<1>1. IInv => AnswersMatch
  <2> SUFFICES ASSUME IInv PROVE AnswersMatch
    OBVIOUS
  <2>1. ASSUME NEW j \in DOMAIN log, NEW k \in DOMAIN log, j < k PROVE log[j].to < log[k].to
    <3>1. j < Len(log) /\ j \in Nat /\ k \in Nat
      BY <2>1, AnswerPlace DEF IInv, TypeOK
    <3>2. log[j].to = j - 1 /\ log[k].to >= k - 1
      BY <3>1, AnswerPlace
    <3>3. log[k].to \in Nat
      <4>1. log[k] \in Answers
        BY DEF IInv, TypeOK
      <4> QED
        BY <4>1 DEF Answers
    <3> QED
      BY <2>1, <3>1, <3>2, <3>3
  <2>2. ASSUME NEW k \in DOMAIN log, log[k].input # 0 PROVE log[k].input = InputOf(log[k].to)
    BY <2>2, AnswerPlace
  <2>3. ASSUME ~req.ae, Signatures # {}
        PROVE  Len(log) = NumInputs + 1 /\ \A k \in DOMAIN log : log[k].is # "error"
    <3>1. PICK s \in Signatures : IsBatchSignature(s)
      BY <2>3, SignaturePlace DEF IsLateSignature
    <3>2. ASSUME NEW k \in DOMAIN log, log[k].is = "error" PROVE FALSE
      <4>1. IsError(k)
        BY <3>2 DEF IInv, Exchange, IsOk, IsOpening, IsLateSignature, IsBatchSignature
      <4> QED
        BY <2>3, <4>1 DEF IsError
    <3> QED
      BY <3>1, <3>2 DEF IsBatchSignature
  <2> QED
    BY <2>1, <2>2, <2>3 DEF AnswersMatch
<1> QED
  BY <1>1, Invariance, PTL

\* An input whose commitment was answered with an opening is signed with the app's
\* entropy and not without, once, and after the opening.
THEOREM AntiExfilKept == Spec => []AntiExfil
<1>1. IInv => AntiExfil
  <2> SUFFICES ASSUME IInv, req.ae, NEW k \in Signatures
               PROVE  /\ log[k].entropy = ins[log[k].input].commit
                      /\ log[k].entropy => \E j \in 1..(k - 1) : log[j].is = "opening" /\ log[j].input = log[k].input
                      /\ \A j \in Signatures : log[j].input = log[k].input => j = k
    BY DEF AntiExfil
  <2> DEFINE i == log[k].input
  <2>1. k \in DOMAIN log /\ i \in 1..Len(ins) /\ Len(ins) = NumInputs /\ IsLateSignature(k) /\ log[k].is = "sig"
    BY SignaturePlace DEF IsBatchSignature, Signatures
  <2>2. /\ log \in Seq(Answers) /\ Len(log) \in Nat /\ Len(ins) \in Nat /\ NumInputs \in Nat
        /\ DOMAIN log = 1..Len(log)
    BY NumInputsType DEF IInv, TypeOK
  <2>3. k \in Nat /\ k <= Len(log) /\ i \in Nat /\ i = k - 1 - NumInputs
    BY <2>1, <2>2 DEF IsLateSignature
  <2>4. log[k].entropy = ins[i].commit
    BY <2>1, <2>3 DEF IsLateSignature
  <2>5. ASSUME log[k].entropy PROVE \E j \in 1..(k - 1) : log[j].is = "opening" /\ log[j].input = i
    <3>1. i + 1 \in DOMAIN log /\ i + 1 \in 1..(k - 1) /\ i + 1 > 1 /\ i + 1 < Len(log) /\ ~(i + 1 > NumInputs + 1)
      BY <2>1, <2>2, <2>3
    <3>2. IsOpening(i + 1)
      BY <3>1 DEF IInv, Exchange, IsOk, IsLateSignature, IsBatchSignature, IsError
    <3>3. ins[i].commit
      BY <2>4, <2>5
    <3>4. log[i + 1].is = "opening" /\ log[i + 1].input = i
      BY <2>1, <2>3, <3>2, <3>3 DEF IsOpening, UsesAe
    <3> QED
      BY <3>1, <3>4
  <2>6. ASSUME NEW j \in Signatures, log[j].input = i PROVE j = k
    <3>1. j \in DOMAIN log /\ IsLateSignature(j)
      BY SignaturePlace DEF IsBatchSignature
    <3>2. j \in Nat /\ i = j - 1 - NumInputs
      BY <2>2, <2>6, <3>1 DEF IsLateSignature
    <3> QED
      BY <2>2, <2>3, <3>2
  <2> QED
    BY <2>4, <2>5, <2>6
<1> QED
  BY <1>1, Invariance, PTL
=============================================================================

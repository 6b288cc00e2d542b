---------------------------- MODULE SignPsbt_proofs ----------------------------
(***************************************************************************)
(* What sign_psbt hides, what the user has agreed to, and how the result   *)
(* is sent: proofs for any number of inputs, outputs and records, and any  *)
(* length of the result and of a piece.                                    *)
(***************************************************************************)
EXTENDS SignPsbt, WellFoundedInduction, TLAPS

Agreeing == {"outputs", "fee"}
Sending == {"send", "await", "done"}
Decided == Agreeing \cup {"sign"} \cup Sending

\* There is a transaction, but in the main loop.
Begun ==
    /\ pc = "idle" => req = NoTransaction /\ flags = {} /\ scanned = 0
    /\ pc # "idle" => req \in AllTransactions
    /\ pc = "scan" => scanned + 1 \in InputsOf(req)

\* The flags tell of what kinds the inputs to sign are.
Kinds ==
    /\ \A i \in mine : req.ins[i].keys # "none" /\ Flag(req.ins[i]) \in flags
    /\ "singlesig" \in flags => \E i \in mine : req.ins[i].keys = "single"
    /\ "green" \in flags => \E i \in mine : req.ins[i].keys = "green"

\* The record, unless the search has been given up, is that of every input to sign whose
\* path could be read.
OneRecord ==
    "abandoned" \notin flags =>
        /\ "record" \in flags =>
            /\ \E i \in mine : req.ins[i].keys = "multi" /\ record \in req.ins[i].wallets
            /\ \A i \in mine : record \in req.ins[i].wallets \/ req.ins[i].long
        /\ "record" \notin flags => \A i \in mine : req.ins[i].long

\* What is hidden was decided when all inputs had been seen, ...
Hiding ==
    /\ pc \in Decided \/ signed # {} \/ replies > 0
        => hidden = {k \in OutputsOf(req) : TakenForChange(req.outs[k])}
    /\ pc \in {"idle", "scan", "amounts"} => signed = {} /\ replies = 0 /\ len = 0

\* ... and the rest agreed to before the fee, and the fee before there is a signature.
Consent ==
    /\ pc \in Decided \ {"outputs"} \/ signed # {} \/ replies > 0 => Displayed \subseteq seen
    /\ pc \in {"sign"} \cup Sending \/ signed # {} \/ replies > 0 => feeSeen = TRUE

\* All pieces but the last are full, and there are no more than announced.
Pieces ==
    /\ pc \in Decided \ Sending => len = 0
    /\ len = 0 => sent = 0 /\ replies = 0
    /\ pc \in Sending => signed = mine /\ len \in Lengths
    /\ pc \in {"send", "await"} => sent = Chunk * replies /\ replies <= len \div Chunk
    /\ pc = "done" => sent = len /\ replies = Messages
    /\ replies <= sent
    /\ fault # "none" => pc = "dead"
    /\ fault = "nothing_left" => sent = len /\ len % Chunk = 0

IInv == TypeOK /\ Begun /\ Kinds /\ OneRecord /\ Hiding /\ Consent /\ Pieces

-----------------------------------------------------------------------------
(* Numbers *)

LEMMA Division ==
    ASSUME NEW n \in Int, NEW c \in Int, c > 0
    PROVE  /\ n \div c \in Int /\ n % c \in 0..(c - 1)
           /\ n = (n \div c) * c + (n % c)
<1>1. n = (n \div c) * c + (n % c)
  BY SMTT(20)
<1>2. n \div c \in Int /\ n % c \in 0..(c - 1)
  OBVIOUS
<1> QED
  BY <1>1, <1>2

LEMMA Times ==
    ASSUME NEW a \in Nat, NEW b \in Nat, NEW c \in Nat
    PROVE  /\ c * (a + 1) = c * a + c /\ c * a = a * c /\ c * a \in Nat
           /\ a <= b => c * a <= c * b
           /\ c > 0 => a <= c * a
OBVIOUS

LEMMA MinOfTwo ==
    ASSUME NEW a \in Nat, NEW b \in Nat
    PROVE  Min({a, b}) = IF a <= b THEN a ELSE b
BY DEF Min

-----------------------------------------------------------------------------
(* Transactions *)

LEMMA TransactionParts ==
    ASSUME NEW t \in AllTransactions
    PROVE  \E n \in 1..MaxInputs, k \in 1..MaxOutputs :
               /\ t.ins \in [1..n -> Inputs] /\ t.outs \in [1..k -> Outputs]
               /\ InputsOf(t) = 1..n /\ OutputsOf(t) = 1..k
<1>1. PICK n \in 1..MaxInputs, k \in 1..MaxOutputs : t \in Transactions(n, k)
  BY DEF AllTransactions
<1>2. t.ins \in [1..n -> Inputs] /\ t.outs \in [1..k -> Outputs]
  BY <1>1 DEF Transactions
<1> QED
  BY <1>2 DEF InputsOf, OutputsOf

LEMMA InputParts ==
    ASSUME NEW in \in Inputs
    PROVE  /\ in.keys \in {"none", "single", "green", "multi"}
           /\ in.keys = "multi" => in.wallets \subseteq Records
           /\ in.keys = "green" => \E g \in Greens : in.wallets = {g}
           /\ in.long \in BOOLEAN
           /\ in.keys # "none" => Flag(in) \in {"singlesig", "green", "multisig"}
           /\ in.keys = "single" <=> (in.keys # "none" /\ Flag(in) = "singlesig")
           /\ in.keys = "green" <=> (in.keys # "none" /\ Flag(in) = "green")
           /\ in.keys = "multi" <=> (in.keys # "none" /\ Flag(in) = "multisig")
<1>1. /\ in.keys \in {"none", "single", "green", "multi"} /\ in.long \in BOOLEAN
      /\ in.keys = "multi" => in.wallets \subseteq Records
      /\ in.keys = "green" => \E g \in Greens : in.wallets = {g}
  BY DEF Inputs
<1> QED
  BY <1>1 DEF Flag

LEMMA SmallestOf ==
    ASSUME NEW n \in Nat, NEW S \in SUBSET (1..n), S # {}
    PROVE  Min(S) \in S
<1> DEFINE Less == OpToRel(<, Nat)
<1>1. \A x, y \in Nat : <<x, y>> \in Less <=> x < y
  BY DEF OpToRel
<1>2. \E x \in S : \A y \in S : <<y, x>> \notin Less
  <2>1. S \subseteq Nat
    OBVIOUS
  <2> HIDE DEF Less
  <2>2. IsWellFoundedOn(Less, Nat)
    BY NatLessThanWellFounded DEF Less
  <2> QED
    BY <2>1, <2>2, WFMin, Zenon
<1>3. \E x \in S : \A y \in S : x <= y
  <2> HIDE DEF Less
  <2>0. S \subseteq Nat
    OBVIOUS
  <2>1. PICK x \in S : \A y \in S : <<y, x>> \notin Less
    BY <1>2
  <2>2. \A y \in S : ~(y < x)
    BY <2>0, <2>1, <1>1
  <2> QED
    BY <2>0, <2>2
<1> QED
  BY <1>3 DEF Min

\* A piece is Chunk long: so many full ones fit, and what is left is shorter.
LEMMA PiecesFit ==
    ASSUME NEW n \in Nat, NEW r \in Nat
    PROVE  /\ n \div Chunk \in Nat /\ n % Chunk \in 0..(Chunk - 1)
           /\ n = Chunk * (n \div Chunk) + (n % Chunk)
           /\ r <= n \div Chunk => Chunk * r + (n % Chunk) <= n /\ Chunk * r \in Nat
           /\ r = n \div Chunk => n - Chunk * r < Chunk
<1>1. Chunk \in Nat \ {0}
  BY SignPsbtAssumption
<1> DEFINE q == n \div Chunk
           m == n % Chunk
<1>2. q \in Int /\ m \in 0..(Chunk - 1) /\ n = q * Chunk + m
  BY <1>1, Division
<1> HIDE DEF q, m
<1>3. q \in Nat
  BY <1>1, <1>2
<1>4. q * Chunk = Chunk * q
  BY <1>1, <1>3, Times
<1>5. r <= q => Chunk * r <= Chunk * q
  BY <1>1, <1>3, Times
<1>6. Chunk * r \in Nat /\ Chunk * q \in Nat
  BY <1>1, <1>3, Times
<1> QED
  BY <1>1, <1>2, <1>3, <1>4, <1>5, <1>6 DEF q, m

-----------------------------------------------------------------------------
(* Steps that only move on: all but these change something that IInv speaks of *)

LEMMA Smaller == OutputsOf(req) \ hidden \subseteq Displayed /\ Displayed \subseteq OutputsOf(req)
BY DEF Displayed

\* The handler goes to another place with what it has.
LEMMA Moves ==
    ASSUME IInv, pc # "idle", pc \notin {"done", "dead"},
           UNCHANGED <<req, flags, record, scanned, mine, hidden, seen, signed, answer, fault>>,
           feeSeen' \in BOOLEAN, feeSeen => feeSeen',
           pc' = "failed"
    PROVE  IInv'
<1>1. TypeOK'
  BY DEF IInv, TypeOK, answer, InputsOf, OutputsOf
<1>2. Begun' /\ Kinds' /\ OneRecord'
  BY DEF IInv, Begun, Kinds, OneRecord, Flag
<1>3. Hiding' /\ Consent'
  BY DEF IInv, Hiding, Consent, Decided, Agreeing, Sending, Displayed, OutputsOf, TakenForChange,
         Validated, answer, TypeOK
<1>4. Pieces'
  BY DEF IInv, Pieces, Decided, Agreeing, Sending, answer, TypeOK
<1> QED
  BY <1>1, <1>2, <1>3, <1>4 DEF IInv

LEMMA InitInv == Init => IInv
<1> SUFFICES ASSUME Init PROVE IInv
  OBVIOUS
<1>1. Lengths \subseteq Nat \ {0} /\ MaxInputs \in Nat
  BY SignPsbtAssumption
<1>2. DOMAIN NoTransaction.ins = {} /\ DOMAIN NoTransaction.outs = {}
  BY DEF NoTransaction
<1>3. TypeOK
  <2>1. scanned \in 0..MaxInputs /\ len \in Lengths \cup {0} /\ sent \in 0..len /\ replies \in 0..len
    BY <1>1 DEF Init
  <2>2. mine = {} /\ hidden = {} /\ seen = {} /\ signed = {} /\ req = NoTransaction
    BY DEF Init
  <2>3. /\ pc \in {"idle"} /\ flags = {} /\ record = None /\ feeSeen = FALSE /\ fault = "none"
    BY DEF Init
  <2> QED
    BY <2>1, <2>2, <2>3 DEF TypeOK
<1>4. Begun /\ Kinds /\ OneRecord
  BY DEF Init, Begun, Kinds, OneRecord
<1>5. Hiding /\ Consent /\ Pieces
  BY DEF Init, Hiding, Consent, Pieces, Decided, Agreeing, Sending
<1> QED
  BY <1>3, <1>4, <1>5 DEF IInv

LEMMA LeaveInv == Leave => IInv'
<1>1. Leave => Init'
  BY DEF Leave, Init
<1> QED
  BY <1>1, InitInv, PTL

-----------------------------------------------------------------------------
(* The inputs *)

LEMMA ReceiveInv == ASSUME IInv, SignPsbt PROVE IInv'
<1> USE DEF SignPsbt
<1>1. PICK n \in 1..MaxInputs, k \in 1..MaxOutputs :
          InputsOf(req') = 1..n /\ OutputsOf(req') = 1..k
  BY TransactionParts
<1>2. /\ req' \in AllTransactions /\ pc = "idle" /\ pc' = "scan"
      /\ UNCHANGED <<flags, record, scanned, mine, hidden, seen, feeSeen, signed, len, replies, sent, fault>>
  BY DEF answer
<1>3. /\ mine = {} /\ signed = {} /\ hidden = {} /\ seen = {} /\ flags = {} /\ scanned = 0
      /\ len = 0 /\ sent = 0 /\ replies = 0 /\ fault = "none"
  <2>1. InputsOf(NoTransaction) = {} /\ OutputsOf(NoTransaction) = {}
    BY DEF NoTransaction, InputsOf, OutputsOf
  <2>2. req = NoTransaction /\ flags = {} /\ scanned = 0 /\ len = 0
    BY <1>2 DEF IInv, Begun, Hiding
  <2>3. mine = {} /\ hidden = {} /\ seen = {} /\ signed = {}
    BY <2>1, <2>2 DEF IInv, TypeOK
  <2>4. sent = 0 /\ replies = 0 /\ fault = "none"
    BY <2>2, <1>2 DEF IInv, Pieces
  <2> QED
    BY <2>2, <2>3, <2>4
<1>4. TypeOK'
  BY <1>2, <1>3 DEF IInv, TypeOK
<1>5. Begun' /\ Kinds' /\ OneRecord'
  BY <1>1, <1>2, <1>3 DEF Begun, Kinds, OneRecord
<1>6. Hiding' /\ Consent' /\ Pieces'
  BY <1>2, <1>3 DEF Hiding, Consent, Pieces, Decided, Agreeing, Sending
<1> QED
  BY <1>4, <1>5, <1>6 DEF IInv

\* What an input does to the flags and the record.
LEMMA LookAtKeeps ==
    ASSUME NEW in \in Inputs, in.keys # "none", LookAt(in), record \in Records \cup {None},
           flags \subseteq {"singlesig", "green", "multisig", "record", "abandoned"}
    PROVE  /\ flags \cup {Flag(in)} \subseteq flags'
           /\ flags' \subseteq flags \cup {Flag(in), "record", "abandoned"}
           /\ record' \in Records \cup {None}
           /\ "record" \in flags' /\ "abandoned" \notin flags' =>
                /\ in.keys = "multi" /\ (record' \in in.wallets \/ in.long)
                /\ "record" \in flags => record' = record
                /\ "record" \notin flags =>
                     record' \in in.wallets /\ \A f \in flags : f = "multisig"
           /\ "abandoned" \notin flags' => "abandoned" \notin flags
           /\ "record" \notin flags' /\ "abandoned" \notin flags' => in.long /\ "record" \notin flags
<1>1. /\ in.keys \in {"single", "green", "multi"} /\ in.long \in BOOLEAN
      /\ in.keys = "multi" => in.wallets \subseteq Records
      /\ Flag(in) \in {"singlesig", "green", "multisig"}
      /\ Flag(in) = "multisig" => in.keys = "multi"
  BY InputParts
<1> DEFINE found == flags \cup {Flag(in)}
           given == found \cap {"singlesig", "green"} # {}
<1>2. CASE "abandoned" \in found \/ given
  BY <1>1, <1>2 DEF LookAt
<1>3. CASE "abandoned" \notin found /\ ~given
  <2>1. Flag(in) = "multisig" /\ \A f \in flags : f \in {"multisig", "record"}
    BY <1>1, <1>3
  <2>2. IF in.long THEN flags' = found /\ record' = record
        ELSE IF "record" \in found THEN MatchHeld(in, found) ELSE FindRecord(in, found)
    BY <1>3 DEF LookAt
  <2> QED
    BY <1>1, <2>1, <2>2 DEF MatchHeld, FindRecord
<1> QED
  BY <1>2, <1>3

LEMMA ScanInv == ASSUME IInv, ScanInput PROVE IInv'
<1> DEFINE i == scanned + 1
           in == req.ins[i]
<1>1. /\ pc = "scan" /\ scanned' = i
      /\ IF in.keys = "none" THEN UNCHANGED <<flags, record, mine>> ELSE mine' = mine \cup {i} /\ LookAt(in)
      /\ pc' = IF i + 1 \in InputsOf(req) THEN "scan" ELSE "amounts"
      /\ UNCHANGED <<req, hidden, seen, feeSeen, signed, len, replies, sent, fault>>
  BY DEF ScanInput, answer
<1>2. PICK n \in 1..MaxInputs : req.ins \in [1..n -> Inputs] /\ InputsOf(req) = 1..n
  BY <1>1, TransactionParts DEF IInv, Begun
<1>3. i \in 1..n /\ in \in Inputs /\ MaxInputs \in Nat /\ i \in 0..MaxInputs
  BY <1>1, <1>2, SignPsbtAssumption DEF IInv, Begun, TypeOK
<1>4. /\ record \in Records \cup {None}
      /\ flags \subseteq {"singlesig", "green", "multisig", "record", "abandoned"}
      /\ mine \subseteq 1..n
  BY <1>2 DEF IInv, TypeOK
<1>5. /\ signed = {} /\ replies = 0 /\ len = 0
  BY <1>1 DEF IInv, Hiding
<1> HIDE DEF i, in
<1>6. Begun' /\ Hiding' /\ Consent' /\ Pieces'
  <2>1. Begun'
    BY <1>1 DEF IInv, Begun, InputsOf, i
  <2>2. pc' \in {"scan", "amounts"}
    BY <1>1
  <2> QED
    BY <1>1, <1>5, <2>1, <2>2 DEF IInv, Hiding, Consent, Pieces, Decided, Agreeing, Sending
<1>7. CASE in.keys = "none"
  <2>1. UNCHANGED <<flags, record, mine>>
    BY <1>1, <1>7
  <2>2. TypeOK'
    BY <1>1, <1>3, <2>1 DEF IInv, TypeOK, InputsOf, OutputsOf
  <2>3. Kinds' /\ OneRecord'
    BY <1>1, <2>1 DEF IInv, Kinds, OneRecord, Flag
  <2> QED
    BY <1>6, <2>2, <2>3 DEF IInv
<1>8. CASE in.keys # "none"
  <2>1. mine' = mine \cup {i} /\ LookAt(in)
    BY <1>1, <1>8
  <2>2. /\ flags \cup {Flag(in)} \subseteq flags'
        /\ flags' \subseteq flags \cup {Flag(in), "record", "abandoned"}
        /\ record' \in Records \cup {None}
        /\ "record" \in flags' /\ "abandoned" \notin flags' =>
             /\ in.keys = "multi" /\ (record' \in in.wallets \/ in.long)
             /\ "record" \in flags => record' = record
             /\ "record" \notin flags =>
                  record' \in in.wallets /\ \A f \in flags : f = "multisig"
        /\ "abandoned" \notin flags' => "abandoned" \notin flags
        /\ "record" \notin flags' /\ "abandoned" \notin flags' => in.long /\ "record" \notin flags
    BY <1>3, <1>4, <1>8, <2>1, LookAtKeeps
  <2>3. /\ Flag(in) \in {"singlesig", "green", "multisig"}
        /\ in.keys = "single" <=> Flag(in) = "singlesig"
        /\ in.keys = "green" <=> Flag(in) = "green"
    BY <1>3, <1>8, InputParts
  <2>4. TypeOK'
    BY <1>1, <1>2, <1>3, <1>4, <1>5, <2>1, <2>2, <2>3 DEF IInv, TypeOK, InputsOf, OutputsOf
  <2>5. /\ \A j \in mine : req.ins[j].keys # "none" /\ Flag(req.ins[j]) \in flags
        /\ "singlesig" \in flags => \E j \in mine : req.ins[j].keys = "single"
        /\ "green" \in flags => \E j \in mine : req.ins[j].keys = "green"
    BY DEF IInv, Kinds
  <2>6. req' = req /\ in = req.ins[i]
    BY <1>1 DEF in
  <2>7. Kinds'
    <3>1. \A j \in mine' : req.ins[j].keys # "none" /\ Flag(req.ins[j]) \in flags'
      BY <1>8, <2>1, <2>2, <2>5, <2>6
    <3>2. "singlesig" \in flags' => \E j \in mine' : req.ins[j].keys = "single"
      BY <2>1, <2>2, <2>3, <2>5, <2>6
    <3>3. "green" \in flags' => \E j \in mine' : req.ins[j].keys = "green"
      BY <2>1, <2>2, <2>3, <2>5, <2>6
    <3> QED
      BY <2>6, <3>1, <3>2, <3>3 DEF Kinds, Flag
  <2>8. OneRecord'
    <3> SUFFICES ASSUME "abandoned" \notin flags' PROVE OneRecord'
      BY DEF OneRecord
    <3>1. "abandoned" \notin flags
      BY <2>2
    <3>2. CASE "record" \in flags
      BY <2>1, <2>2, <2>6, <3>1, <3>2 DEF IInv, OneRecord
    <3>3. CASE "record" \notin flags
      BY <2>1, <2>2, <2>6, <3>1, <3>3 DEF IInv, OneRecord
    <3> QED
      BY <3>2, <3>3
  <2> QED
    BY <1>6, <2>4, <2>7, <2>8 DEF IInv
<1> QED
  BY <1>7, <1>8

LEMMA RejectInv == ASSUME IInv, RejectAmounts \/ Decline \/ LinkLost PROVE IInv'
<1>1. /\ pc \in {"scan", "amounts", "outputs", "fee", "await"} /\ pc' = "failed"
      /\ UNCHANGED <<req, flags, record, scanned, mine, hidden, seen, feeSeen, signed, answer, fault>>
  BY DEF RejectAmounts, Decline, LinkLost, Reject
<1>2. feeSeen \in BOOLEAN
  BY DEF IInv, TypeOK
<1> QED
  BY <1>1, <1>2, Moves

-----------------------------------------------------------------------------
(* The outputs *)

LEMMA ValidateInv == ASSUME IInv, ValidateOutputs PROVE IInv'
<1> USE DEF ValidateOutputs, answer
<1>1. signed = {} /\ replies = 0 /\ len = 0
  BY DEF IInv, Hiding
<1>2. TypeOK'
  BY DEF IInv, TypeOK, InputsOf, OutputsOf
<1>3. Begun' /\ Kinds' /\ OneRecord'
  BY DEF IInv, Begun, Kinds, OneRecord, Flag, InputsOf
<1>4. Hiding' /\ Consent' /\ Pieces'
  BY <1>1 DEF IInv, Hiding, Consent, Pieces, Decided, Agreeing, Sending, OutputsOf, TakenForChange, Validated
<1> QED
  BY <1>2, <1>3, <1>4 DEF IInv

LEMMA AgreeOutputInv == ASSUME IInv, AgreeOutput PROVE IInv'
<1>1. /\ pc = "outputs" /\ pc' = pc /\ Displayed \ seen # {} /\ seen' = seen \cup {Min(Displayed \ seen)}
      /\ UNCHANGED <<req, flags, record, scanned, mine, hidden, feeSeen, signed, len, replies, sent, fault>>
  BY DEF AgreeOutput, answer
<1>2. PICK k \in 1..MaxOutputs : OutputsOf(req) = 1..k
  BY <1>1, TransactionParts DEF IInv, Begun
<1>3. Min(Displayed \ seen) \in OutputsOf(req)
  <2>1. Displayed \ seen \in SUBSET (1..k) /\ k \in Nat
    BY <1>2, Smaller, SignPsbtAssumption
  <2> QED
    BY <1>1, <1>2, <2>1, SmallestOf
<1>4. TypeOK'
  BY <1>1, <1>3 DEF IInv, TypeOK, InputsOf, OutputsOf
<1>5. Begun' /\ Kinds' /\ OneRecord'
  BY <1>1 DEF IInv, Begun, Kinds, OneRecord, Flag
<1>6. Displayed' = Displayed
  BY <1>1 DEF Displayed, OutputsOf
<1>7. Hiding' /\ Consent' /\ Pieces'
  BY <1>1, <1>6 DEF IInv, Hiding, Consent, Pieces, Decided, Agreeing, Sending, OutputsOf, TakenForChange, Validated
<1> QED
  BY <1>4, <1>5, <1>7 DEF IInv

LEMMA FeeInv == ASSUME IInv, ShowFee \/ AgreeFee PROVE IInv'
<1>1. /\ pc \in Agreeing /\ pc' \in {"fee", "sign", "dead"} /\ Displayed \subseteq seen
      /\ pc' = "sign" => feeSeen' = TRUE
      /\ feeSeen' = feeSeen \/ feeSeen' = TRUE
      /\ UNCHANGED <<req, flags, record, scanned, mine, hidden, seen, signed, len, replies, sent>>
      /\ fault' \in {fault, "nothing_paid"} /\ (fault' = fault \/ pc' = "dead")
  BY DEF ShowFee, AgreeFee, answer, Agreeing, IInv, Consent, Decided, TypeOK
<1>2. len = 0 /\ sent = 0 /\ replies = 0 /\ fault = "none"
  BY <1>1 DEF IInv, Pieces, Agreeing, Decided, Sending
<1>3. TypeOK'
  BY <1>1, <1>2 DEF IInv, TypeOK, InputsOf, OutputsOf
<1>4. Begun' /\ Kinds' /\ OneRecord'
  BY <1>1 DEF IInv, Begun, Kinds, OneRecord, Flag, Agreeing
<1>5. Displayed' = Displayed
  BY <1>1 DEF Displayed, OutputsOf
<1>6. Hiding'
  BY <1>1 DEF IInv, Hiding, Decided, Agreeing, Sending, OutputsOf, TakenForChange, Validated
<1>7. Consent'
  BY <1>1, <1>2, <1>5 DEF IInv, Consent, Decided, Agreeing, Sending, TypeOK
<1>8. Pieces'
  BY <1>1, <1>2 DEF IInv, Pieces, Decided, Agreeing, Sending
<1> QED
  BY <1>3, <1>4, <1>6, <1>7, <1>8 DEF IInv

-----------------------------------------------------------------------------
(* The signatures, and the answer *)

LEMMA SignInv == ASSUME IInv, Sign \/ SignFails PROVE IInv'
<1>1. /\ pc = "sign" /\ signed' \subseteq mine
      /\ \/ pc' = "send" /\ len' \in Lengths /\ signed' = mine
         \/ pc' = "failed" /\ len' = len
      /\ UNCHANGED <<req, flags, record, scanned, mine, hidden, seen, feeSeen, replies, sent, fault>>
  BY DEF Sign, SignFails, Reject, answer
<1>2. len = 0 /\ sent = 0 /\ replies = 0 /\ fault = "none" /\ feeSeen = TRUE /\ Displayed \subseteq seen
  BY <1>1 DEF IInv, Pieces, Consent, Agreeing, Decided, Sending
<1>3. Lengths \subseteq Nat \ {0} /\ Chunk \in Nat \ {0}
  BY SignPsbtAssumption
<1>4. TypeOK'
  <2>1. len' \in Lengths \cup {0} /\ sent' \in 0..len' /\ replies' \in 0..len' /\ fault' = "none"
    <3>1. len' \in Lengths \cup {0} /\ len' \in Nat
      <4>1. len' \in Lengths \/ len' = 0
        BY <1>1, <1>2
      <4>2. \A n \in Lengths : n \in Nat
        BY <1>3
      <4>3. CASE len' \in Lengths
        BY <4>2, <4>3, Zenon
      <4>4. CASE len' = 0
        BY <4>4
      <4> QED
        BY <4>1, <4>3, <4>4, Zenon
    <3>2. sent' = 0 /\ replies' = 0 /\ fault' = "none"
      BY <1>1, <1>2
    <3> QED
      BY <3>1, <3>2
  <2>2. pc' \in {"send", "failed"} /\ signed' \subseteq mine' /\ feeSeen' \in BOOLEAN
    BY <1>1, <1>2
  <2> QED
    BY <1>1, <2>1, <2>2 DEF IInv, TypeOK, InputsOf, OutputsOf
<1>5. Begun' /\ Kinds' /\ OneRecord'
  BY <1>1 DEF IInv, Begun, Kinds, OneRecord, Flag
<1>6. Displayed' = Displayed
  BY <1>1 DEF Displayed, OutputsOf
<1>7. Hiding' /\ Consent'
  BY <1>1, <1>2, <1>6 DEF IInv, Hiding, Consent, Decided, Agreeing, Sending, OutputsOf, TakenForChange, Validated
<1>8. Pieces'
  <2>1. 0 = Chunk * 0
    BY <1>3
  <2>2. \A n \in Lengths : n # 0 /\ 0 <= n \div Chunk
    BY <1>3, PiecesFit
  <2> QED
    BY <1>1, <1>2, <2>1, <2>2 DEF IInv, Pieces, Decided, Agreeing, Sending
<1> QED
  BY <1>4, <1>5, <1>7, <1>8 DEF IInv

LEMMA SendInv == ASSUME IInv, SendChunk PROVE IInv'
<1>1. /\ pc = "send"
      /\ UNCHANGED <<req, flags, record, scanned, mine, hidden, seen, feeSeen, signed, len>>
      /\ IF sent < len
         THEN /\ sent' = sent + Min({Chunk, len - sent})
              /\ replies' = replies + 1
              /\ pc' = IF replies' < Messages THEN "await" ELSE "done"
              /\ fault' = fault
         ELSE pc' = "dead" /\ fault' = "nothing_left" /\ sent' = sent /\ replies' = replies
  BY DEF SendChunk
<1>2. /\ Chunk \in Nat \ {0} /\ len \in Nat \ {0} /\ sent \in 0..len /\ replies \in 0..len
      /\ sent = Chunk * replies /\ replies <= len \div Chunk /\ replies <= sent
      /\ signed = mine /\ len \in Lengths /\ fault = "none"
  BY <1>1, SignPsbtAssumption DEF IInv, TypeOK, Pieces, Sending
<1>r. len \in Nat /\ replies \in Nat /\ replies + 1 \in Nat /\ replies <= len \div Chunk
  BY <1>2
<1>3. /\ len \div Chunk \in Nat /\ len % Chunk \in 0..(Chunk - 1)
      /\ Chunk * replies + (len % Chunk) <= len
      /\ replies = len \div Chunk => len - Chunk * replies < Chunk
      /\ replies + 1 <= len \div Chunk => Chunk * (replies + 1) <= len
      /\ Chunk * (replies + 1) = Chunk * replies + Chunk
  <2>1. /\ len \div Chunk \in Nat /\ len % Chunk \in 0..(Chunk - 1)
        /\ Chunk * replies + (len % Chunk) <= len
        /\ replies = len \div Chunk => len - Chunk * replies < Chunk
    BY <1>r, PiecesFit
  <2>2. replies + 1 <= len \div Chunk => Chunk * (replies + 1) + (len % Chunk) <= len /\ Chunk * (replies + 1) \in Nat
    BY <1>r, PiecesFit
  <2>3. Chunk * (replies + 1) = Chunk * replies + Chunk
    BY <1>2, Times
  <2> QED
    BY <1>2, <2>1, <2>2, <2>3
<1>4. /\ pc' \in {"await", "done", "dead"}
      /\ sent' \in 0..len /\ replies' \in 0..len /\ replies' <= sent'
      /\ pc' = "await" => sent' = Chunk * replies' /\ replies' <= len \div Chunk /\ fault' = "none"
      /\ pc' = "done" => sent' = len /\ replies' = Messages /\ fault' = "none"
      /\ pc' = "dead" => sent' = len /\ len % Chunk = 0 /\ fault' = "nothing_left"
  <2>1. CASE sent < len
    <3>1. /\ sent' = sent + (IF Chunk <= len - sent THEN Chunk ELSE len - sent) /\ replies' = replies + 1
          /\ pc' = IF replies + 1 < len \div Chunk + 1 THEN "await" ELSE "done"
          /\ fault' = "none"
      BY <1>1, <1>2, <2>1, MinOfTwo DEF Messages
    <3>2. sent' \in 0..len /\ replies' <= sent' /\ replies' \in 0..len
      BY <1>2, <2>1, <3>1
    <3>3. CASE replies + 1 <= len \div Chunk
      BY <1>2, <1>3, <3>1, <3>2, <3>3
    <3>4. CASE replies = len \div Chunk
      BY <1>2, <1>3, <3>1, <3>2, <3>4 DEF Messages
    <3> QED
      BY <1>2, <1>3, <3>3, <3>4
  <2>2. CASE sent = len
    BY <1>1, <1>2, <1>3, <2>2
  <2> QED
    BY <1>2, <2>1, <2>2
<1>5. TypeOK'
  BY <1>1, <1>2, <1>4 DEF IInv, TypeOK, InputsOf, OutputsOf
<1>6. Begun' /\ Kinds' /\ OneRecord'
  BY <1>1, <1>4 DEF IInv, Begun, Kinds, OneRecord, Flag
<1>7. Displayed' = Displayed
  BY <1>1 DEF Displayed, OutputsOf
<1>8. Hiding' /\ Consent'
  BY <1>1, <1>4, <1>7 DEF IInv, Hiding, Consent, Decided, Agreeing, Sending, OutputsOf, TakenForChange, Validated
<1>9. Pieces'
  BY <1>1, <1>2, <1>4 DEF Pieces, Decided, Agreeing, Sending, Messages
<1> QED
  BY <1>5, <1>6, <1>8, <1>9 DEF IInv

LEMMA AskInv == ASSUME IInv, NEW seqnum, NEW seqlen, GetExtendedData(seqnum, seqlen) PROVE IInv'
<1>1. /\ pc = "await" /\ pc' \in {"send", "failed"}
      /\ UNCHANGED <<req, flags, record, scanned, mine, hidden, seen, feeSeen, signed, answer, fault>>
  BY DEF GetExtendedData, Reject
<1>2. CASE pc' = "failed"
  BY <1>1, <1>2, Moves DEF IInv, TypeOK
<1>3. CASE pc' = "send"
  <2> USE DEF answer
  <2>1. TypeOK'
    BY <1>1, <1>3 DEF IInv, TypeOK, InputsOf, OutputsOf
  <2>2. Begun' /\ Kinds' /\ OneRecord'
    BY <1>1, <1>3 DEF IInv, Begun, Kinds, OneRecord, Flag
  <2>3. Displayed' = Displayed
    BY <1>1 DEF Displayed, OutputsOf
  <2>4. Hiding' /\ Consent'
    BY <1>1, <1>3, <2>3 DEF IInv, Hiding, Consent, Decided, Agreeing, Sending, OutputsOf, TakenForChange, Validated
  <2>5. Pieces'
    BY <1>1, <1>3 DEF IInv, Pieces, Decided, Agreeing, Sending
  <2> QED
    BY <2>1, <2>2, <2>4, <2>5 DEF IInv
<1> QED
  BY <1>1, <1>2, <1>3

-----------------------------------------------------------------------------
(* The whole *)

LEMMA NextInv == IInv /\ [Next]_vars => IInv'
<1> SUFFICES ASSUME IInv, [Next]_vars PROVE IInv'
  OBVIOUS
<1>1. CASE SignPsbt
  BY <1>1, ReceiveInv
<1>2. CASE ScanInput
  BY <1>2, ScanInv
<1>3. CASE RejectAmounts \/ Decline \/ LinkLost
  BY <1>3, RejectInv
<1>4. CASE ValidateOutputs
  BY <1>4, ValidateInv
<1>5. CASE AgreeOutput
  BY <1>5, AgreeOutputInv
<1>6. CASE ShowFee \/ AgreeFee
  BY <1>6, FeeInv
<1>7. CASE Sign \/ SignFails
  BY <1>7, SignInv
<1>8. CASE SendChunk
  BY <1>8, SendInv
<1>9. CASE \E seqnum, seqlen \in Numbers : GetExtendedData(seqnum, seqlen)
  BY <1>9, AskInv
<1>10. CASE Leave
  BY <1>10, LeaveInv
<1>11. CASE UNCHANGED vars
  BY <1>11 DEF vars, answer, IInv, TypeOK, Begun, Kinds, OneRecord, Hiding, Consent, Pieces,
               InputsOf, OutputsOf, Flag, TakenForChange, Validated, Displayed, Messages
<1> QED
  BY <1>1, <1>2, <1>3, <1>4, <1>5, <1>6, <1>7, <1>8, <1>9, <1>10, <1>11 DEF Next

LEMMA Inductive == Spec => []IInv
BY InitInv, NextInv, PTL DEF Spec

-----------------------------------------------------------------------------
\* Every variable keeps its type; not more is sent than there is, and not in more
\* messages.
THEOREM TypeCorrect == Spec => []TypeOK
<1>1. IInv => TypeOK
  BY DEF IInv
<1> QED
  BY <1>1, Inductive, PTL

\* An output that was not shown, of a transaction that is signed, is change: it goes back
\* to a wallet that the inputs signed spend from, or from Green wallets to a Green wallet.
THEOREM OnlyChangeHidden == Spec => []HiddenIsChange
<1>1. IInv => HiddenIsChange
  <2> SUFFICES ASSUME IInv, NEW k \in OutputsOf(req), signed # {}, k \notin seen
               PROVE  /\ req.outs[k].change
                      /\ \/ \E w \in To(req.outs[k]) :
                              /\ \E i \in mine : w \in Of(req.ins[i])
                              /\ w # "own" => \A i \in mine : w \in Of(req.ins[i]) \/ req.ins[i].long
                         \/ FromGreenToGreen(req.outs[k])
    BY DEF HiddenIsChange
  <2> DEFINE o == req.outs[k]
  <2>1. TakenForChange(o)
    <3>1. Displayed \subseteq seen /\ hidden = {j \in OutputsOf(req) : TakenForChange(req.outs[j])}
      BY DEF IInv, Consent, Hiding
    <3> QED
      BY <3>1, Smaller
  <2>2. /\ mine \subseteq InputsOf(req)
        /\ \A i \in mine : req.ins[i].keys # "none" /\ Flag(req.ins[i]) \in flags
    BY DEF IInv, TypeOK, Kinds
  <2>3. \A i \in InputsOf(req) : req.ins[i] \in Inputs
    <3>1. req \in AllTransactions
      <4>1. pc # "idle"
        BY DEF IInv, Hiding
      <4> QED
        BY <4>1 DEF IInv, Begun
    <3> QED
      BY <3>1, TransactionParts
  <2>4. CASE o.keys = "single" /\ "singlesig" \in flags /\ o.own
    <3>1. To(o) = {"own"}
      BY <2>4 DEF To
    <3>2. PICK i \in mine : req.ins[i].keys = "single"
      BY <2>4 DEF IInv, Kinds
    <3>3. "own" \in Of(req.ins[i])
      BY <3>2 DEF Of
    <3> QED
      BY <2>1, <3>1, <3>2, <3>3 DEF TakenForChange
  <2>5. CASE o.keys = "green" /\ flags = {"green", "abandoned"} /\ o.wallets \cap Greens # {}
    <3>1. To(o) = o.wallets
      BY <2>5 DEF To
    <3>2. \A i \in mine : req.ins[i].keys = "green"
      BY <2>2, <2>3, <2>5, InputParts
    <3> QED
      BY <2>1, <2>5, <3>1, <3>2 DEF TakenForChange, FromGreenToGreen
  <2>6. CASE o.keys \in {"green", "multi"} /\ flags = {"multisig", "record"} /\ record \in o.wallets
    <3>1. To(o) = o.wallets
      BY <2>6 DEF To
    <3>2. \A i \in mine : req.ins[i].keys = "multi"
      BY <2>2, <2>3, <2>6, InputParts
    <3>3. \A i \in mine : Of(req.ins[i]) = req.ins[i].wallets
      BY <3>2 DEF Of
    <3>4. /\ \E i \in mine : record \in req.ins[i].wallets
          /\ \A i \in mine : record \in req.ins[i].wallets \/ req.ins[i].long
      BY <2>6 DEF IInv, OneRecord
    <3> QED
      BY <2>1, <2>6, <3>1, <3>3, <3>4 DEF TakenForChange
  <2> QED
    BY <2>1, <2>4, <2>5, <2>6 DEF TakenForChange, Validated
<1> QED
  BY <1>1, Inductive, PTL

\* Nothing signed leaves the unit before the user has agreed to the fee and to every
\* output that is not taken for change, and to at least one.
THEOREM AgreedFirst == Spec => []Agreed
<1>1. IInv => Agreed
  <2> SUFFICES ASSUME IInv, replies > 0 PROVE seen # {} /\ OutputsOf(req) \ hidden \subseteq seen /\ feeSeen
    BY DEF Agreed
  <2>1. Displayed \subseteq seen /\ feeSeen = TRUE
    BY DEF IInv, Consent
  <2>2. pc # "idle"
    BY DEF IInv, Hiding
  <2>3. OutputsOf(req) # {}
    <3>1. PICK k \in 1..MaxOutputs : OutputsOf(req) = 1..k
      BY <2>2, TransactionParts DEF IInv, Begun
    <3>2. 1 \in 1..k
      BY <3>1, SignPsbtAssumption
    <3> QED
      BY <3>1, <3>2
  <2>4. Displayed # {}
    BY <2>3 DEF Displayed, IInv, TypeOK
  <2> QED
    BY <2>1, <2>4, Smaller
<1> QED
  BY <1>1, Inductive, PTL

\* The pieces sent to their announced end are the whole result; if it is a multiple of
\* a piece long, one too many has been announced.
THEOREM SentWhole == Spec => []Whole
<1>1. IInv => Whole
  BY DEF IInv, Pieces, Sending, Whole
<1> QED
  BY <1>1, Inductive, PTL
=============================================================================

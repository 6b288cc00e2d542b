------------------------------ MODULE Ota_proofs ------------------------------
(***************************************************************************)
(* What is booted, how an upload from a stick can be left waiting, and     *)
(* that it ends otherwise: proofs for any images, announcements, queue     *)
(* sizes and number of parts, with any packets from any source, errors     *)
(* anywhere, the stick pulled out and power lost.                          *)
(***************************************************************************)
EXTENDS Ota, Integers, TLAPS

Unit == Packets \cup {Garbage}
Requests == [from : Sources, what : {"ota", "ota_delta"}, arg : Offers]
Chunks == [from : Sources, what : {"ota_data"}, arg : Packets]
Others == [from : Sources, what : {"ota_complete", "other"}, arg : {None}]
Message == Requests \cup Chunks \cup Others

WorkerSet == [at : {"gone", "open", "reply", "send", "finish", "last", "end", "failed"},
              left : 0..Parts, file : Images \cup {None}, fresh : BOOLEAN]

\* What travels between the tasks: a worker that still sends has something to send.
QueueOK ==
    /\ inbox \in Seq(Message)
    /\ worker \in WorkerSet
    /\ worker.at \in {"open", "reply", "send"} => worker.file \in Images /\ worker.left # 0

\* Types of what an upload leaves in memory.
DataOK ==
    /\ got \in Seq(Unit) /\ slot \in Seq(Unit)
    /\ confirmed \in BOOLEAN
    /\ Uploading => offer \in Offers
    /\ shown # None => shown.version \in Fitting /\ shown.hash = offer.image

\* As long as there is no error, a unit is written for every packet.
InStep ==
    /\ pc \in {"data", "complete"} /\ status = "ok" => Len(slot) = Len(got)
    /\ pc \in {"write", "confirm"} => /\ status = "ok" /\ got # <<>>
                                   /\ Len(slot) + 1 = Len(got)
    /\ pc = "confirm" => ~confirmed /\ shown # None

\* What is in the partition comes from the packets, one after the other; what the user was
\* asked about comes from one of them; and without that, what is there is too short.
HeaderOK ==
    /\ confirmed => shown # None
    /\ \A k \in DOMAIN slot : k \in DOMAIN got /\ slot[k] \in {got[k], Garbage}
    /\ shown # None => \E k \in DOMAIN got : shown.version \in Reads(got[k])
    /\ ~confirmed => \A k \in DOMAIN slot : slot[k][1] \in Tiny \/ k < Parts

UploadOK == DataOK /\ InStep /\ HeaderOK

IInv == QueueOK /\ UploadOK

USE OtaAssumption

-----------------------------------------------------------------------------
(* The queue and the worker                                                  *)

LEMMA PostType ==
    ASSUME inbox \in Seq(Message), NEW from, NEW what, NEW arg,
           [from |-> from, what |-> what, arg |-> arg] \in Message,
           Post(from, what, arg)
    PROVE  inbox' \in Seq(Message)
BY DEF Post

LEMMA TakeType ==
    ASSUME inbox \in Seq(Message), Take
    PROVE  inbox' \in Seq(Message) /\ Head(inbox) \in Message
BY DEF Take

\* Nothing but requests carries an announcement, nothing but chunks a packet.
LEMMA Contents ==
    ASSUME NEW m \in Message
    PROVE  /\ m.from \in Sources
           /\ m.what \in {"ota", "ota_delta"} => m.arg \in Offers
           /\ m.what = "ota_data" => m.arg \in Packets
BY DEF Message, Requests, Chunks, Others

LEMMA QueueStep == QueueOK /\ [Next]_vars => QueueOK'
<1> SUFFICES ASSUME QueueOK, [Next]_vars PROVE QueueOK'
  OBVIOUS
<1> USE DEF QueueOK
<1>1. CASE Host
  <2> PICK h \in Hosts : \/ Connect(h) \/ Disconnect(h) \/ HostRequests(h)
                         \/ HostSendsData(h) \/ HostSends(h)
    BY <1>1 DEF Host
  <2>0. UNCHANGED worker
    BY DEF Connect, Disconnect, HostRequests, HostSendsData, HostSends, world
  <2>1. CASE Connect(h) \/ Disconnect(h)
    BY <2>0, <2>1 DEF Connect, Disconnect
  <2>2. CASE HostRequests(h)
    <3>1. PICK what \in {"ota", "ota_delta"}, o \in Offers : Post(h, what, o)
      BY <2>2 DEF HostRequests
    <3>2. [from |-> h, what |-> what, arg |-> o] \in Message
      BY DEF Message, Requests, Sources
    <3> QED
      BY <2>0, <3>1, <3>2, PostType
  <2>3. CASE HostSendsData(h)
    <3>1. PICK p \in Files \X (1..Parts) : Post(h, "ota_data", p)
      BY <2>3 DEF HostSendsData
    <3>2. p \in Packets
      BY <3>1, OtaAssumption DEF Packets
    <3>3. [from |-> h, what |-> "ota_data", arg |-> p] \in Message
      BY <3>2 DEF Message, Chunks, Sources
    <3> QED
      BY <2>0, <3>1, <3>3, PostType
  <2>4. CASE HostSends(h)
    <3>1. PICK what \in {"ota_complete", "other"} : Post(h, what, None)
      BY <2>4 DEF HostSends
    <3>2. [from |-> h, what |-> what, arg |-> None] \in Message
      BY DEF Message, Others, Sources
    <3> QED
      BY <2>0, <3>1, <3>2, PostType
  <2> QED
    BY <2>1, <2>2, <2>3, <2>4
<1>2. CASE StartUsbUpload
  <2>1. CASE UNCHANGED <<inbox, worker>>
    BY <2>1
  <2>2. CASE ~UNCHANGED <<inbox, worker>>
    <3>1. PICK o \in Offers, f \in Files :
            /\ Post("internal", "ota", o)
            /\ worker' = [at |-> "open", left |-> Parts, file |-> f,
                          fresh |-> inbox = <<>> /\ out = <<>>]
      BY <1>2, <2>2, SMT DEF StartUsbUpload
    <3>2. [from |-> "internal", what |-> "ota", arg |-> o] \in Message
      BY DEF Message, Requests, Sources
    <3>3. (inbox = <<>> /\ out = <<>>) \in BOOLEAN
      OBVIOUS
    <3>4. worker' \in WorkerSet
      BY <3>1, <3>3 DEF WorkerSet
    <3> QED
      BY <3>1, <3>2, <3>4, PostType
  <2> QED
    BY <2>1, <2>2
<1>3. CASE \/ AcceptUpload \/ RefuseMessage \/ RejectData \/ AcceptData
           \/ Install \/ RejectComplete \/ NotComplete
  <2>1. Take /\ UNCHANGED worker
    BY <1>3 DEF AcceptUpload, RefuseMessage, RejectData, AcceptData, Install,
                RejectComplete, NotComplete, world
  <2> QED
    BY <2>1, TakeType
<1>4. CASE \/ LostAtData \/ WriteUnit \/ PatchFails \/ LostAtComplete
           \/ Confirm \/ Decline \/ Leave
  BY <1>4 DEF LostAtData, WriteUnit, PatchFails, LostAtComplete, Confirm,
              Decline, Leave, world
<1>5. CASE Restart
  BY <1>5 DEF Restart, NoWorker, WorkerSet
<1>6. CASE WorkerSends
  <2>1. worker.file \in Images /\ worker.left \in 1..Parts
    BY <1>6 DEF WorkerSends, WorkerSet
  <2>2. <<worker.file, Parts - worker.left + 1>> \in Packets
    BY <2>1 DEF Packets
  <2>3. [from |-> "internal", what |-> "ota_data",
         arg |-> <<worker.file, Parts - worker.left + 1>>] \in Message
    BY <2>2 DEF Message, Chunks, Sources
  <2>4. inbox' \in Seq(Message)
    BY <1>6, <2>3, PostType DEF WorkerSends
  <2>5. worker' \in WorkerSet
    <3> DEFINE next == IF worker.left = 1 THEN "finish" ELSE "reply"
    <3>1. worker' = [worker EXCEPT !.left = @ - 1, !.at = next]
      BY <1>6 DEF WorkerSends
    <3>2. worker.left - 1 \in 0..Parts /\ next \in {"finish", "reply"}
      BY <2>1
    <3> HIDE DEF next
    <3> QED
      BY <3>1, <3>2 DEF WorkerSet
  <2>6. worker'.at \in {"open", "reply", "send"} => worker'.file \in Images /\ worker'.left # 0
    BY <1>6, <2>1 DEF WorkerSends, WorkerSet
  <2> QED
    BY <2>4, <2>5, <2>6
<1>7. CASE WorkerCompletes
  <2>1. [from |-> "internal", what |-> "ota_complete", arg |-> None] \in Message
    BY DEF Message, Others, Sources
  <2>2. inbox' \in Seq(Message)
    BY <1>7, <2>1, PostType DEF WorkerCompletes
  <2> QED
    BY <1>7, <2>2 DEF WorkerCompletes, WorkerGo, WorkerSet
<1>8. CASE WorkerOpens \/ WorkerReadsReply \/ WorkerReadFails \/ WorkerReadsLast \/ WorkerEnds
  BY <1>8 DEF WorkerOpens, WorkerReadsReply, WorkerReadFails, WorkerReadsLast, WorkerEnds,
              WorkerGo, WorkerSet
<1>9. CASE UNCHANGED vars
  BY <1>9 DEF vars, world
<1> QED
  BY <1>1, <1>2, <1>3, <1>4, <1>5, <1>6, <1>7, <1>8, <1>9 DEF Next, User, Main, Worker

-----------------------------------------------------------------------------
(* The upload                                                                *)

\* Anything that leaves the upload alone, and at most ends it or leaves it waiting.
LEMMA Ended ==
    ASSUME UploadOK, UNCHANGED joctx,
           ~(pc' \in {"data", "write", "confirm", "complete"})
    PROVE  UploadOK'
BY DEF UploadOK, DataOK, InStep, HeaderOK, joctx, Uploading

\* On to the next packet, or the end, with an error or with a unit for every packet.
LEMMA NextUnitStep ==
    ASSUME DataOK', HeaderOK', NEW st, NextUnit(st, slot'), UNCHANGED got,
           st = "ok" => Len(slot') = Len(got)
    PROVE  UploadOK'
<1>1. pc' \in {"data", "complete", "dead"}
  BY DEF NextUnit
<1>2. status' = "ok" => st = "ok"
  BY DEF NextUnit
<1> QED
  BY <1>1, <1>2 DEF UploadOK, InStep

LEMMA UploadFailsEnds ==
    ASSUME NEW st, st # "ok", UploadFails(st)
    PROVE  pc' \in {"error", "declined"}
BY DEF UploadFails, EndWith

LEMMA TroubleStep ==
    ASSUME UploadOK, pc \in {"write", "confirm"}, NEW st, st # "ok", Trouble(st),
           UNCHANGED joctx
    PROVE  UploadOK'
<1>1. CASE kind = "full"
  <2>1. pc' \in {"error", "declined"}
    BY <1>1, UploadFailsEnds DEF Trouble
  <2> QED
    BY <2>1, Ended
<1>2. CASE kind # "full"
  <2>1. NextUnit(st, slot')
    BY <1>2 DEF Trouble
  <2>2. pc' \in {"data", "complete", "dead"}
    BY <2>1 DEF NextUnit
  <2>3. DataOK' /\ HeaderOK'
    BY <2>2 DEF UploadOK, DataOK, HeaderOK, joctx, Uploading
  <2> QED
    BY <2>1, <2>3, NextUnitStep DEF joctx
<1> QED
  BY <1>1, <1>2

\* A unit is written after the user has been asked, or while there is too little.
LEMMA UnitDoneStep ==
    ASSUME UploadOK, pc \in {"write", "confirm"}, status = "ok",
           NEW u \in {got[Len(got)], Garbage}, UnitDone(u),
           UNCHANGED <<kind, source, offer, got, shown>>,
           confirmed' \in BOOLEAN, confirmed => confirmed',
           confirmed' => shown # None,
           ~confirmed' => Short(u)
    PROVE  UploadOK'
<1> USE DEF UploadOK
<1>1. got \in Seq(Unit) /\ slot \in Seq(Unit) /\ Len(slot) + 1 = Len(got) /\ got # <<>>
  BY DEF DataOK, InStep
<1>2. u \in Unit
  BY <1>1 DEF Unit
<1>3. slot' = Append(slot, u) /\ slot' \in Seq(Unit) /\ Len(slot') = Len(got)
  BY <1>1, <1>2 DEF UnitDone
<1>4. NextUnit("ok", slot')
  BY DEF UnitDone
<1>5. pc' \in {"data", "complete", "dead"}
  BY <1>4 DEF NextUnit
<1>6. DataOK'
  BY <1>1, <1>3 DEF DataOK, Uploading
<1>7. HeaderOK'
  <2>1. DOMAIN slot' = 1..Len(got) /\ DOMAIN got' = 1..Len(got) /\ Len(got) \in Nat
    BY <1>1, <1>3
  <2>2. \A k \in 1..Len(got) : IF k = Len(got) THEN slot'[k] = u
                                ELSE k \in DOMAIN slot /\ slot'[k] = slot[k]
    BY <1>1, <1>2, <1>3
  <2>3. \A k \in DOMAIN slot' : k \in DOMAIN got' /\ slot'[k] \in {got'[k], Garbage}
    BY <2>1, <2>2 DEF HeaderOK
  <2>4. ~confirmed' => \A k \in DOMAIN slot' : slot'[k][1] \in Tiny \/ k < Parts
    BY <1>1, <2>1, <2>2 DEF HeaderOK, Short
  <2>5. shown' # None => \E k \in DOMAIN got' : shown'.version \in Reads(got'[k])
    BY DEF HeaderOK
  <2> QED
    BY <2>3, <2>4, <2>5 DEF HeaderOK
<1> QED
  BY <1>3, <1>4, <1>6, <1>7, NextUnitStep

LEMMA AcceptUploadStep ==
    ASSUME QueueOK, AcceptUpload
    PROVE  UploadOK'
<1>1. Head(inbox) \in Message
  BY TakeType DEF AcceptUpload, QueueOK
<1>2. offer' \in Offers
  BY <1>1, Contents DEF AcceptUpload
<1>3. /\ got' = <<>> /\ slot' = <<>> /\ confirmed' = FALSE /\ shown' = None
      /\ pc' = "data"
  BY DEF AcceptUpload
<1>4. <<>> \in Seq(Unit) /\ Len(<<>>) = 0
  OBVIOUS
<1>5. DataOK' /\ InStep'
  BY <1>2, <1>3, <1>4 DEF DataOK, InStep, Uploading
<1>6. HeaderOK'
  BY <1>3, <1>4 DEF HeaderOK
<1> QED
  BY <1>5, <1>6 DEF UploadOK

LEMMA AcceptDataStep ==
    ASSUME QueueOK, UploadOK, AcceptData
    PROVE  UploadOK'
<1> USE DEF UploadOK
<1> DEFINE m == Head(inbox)
           e == IF Continues(m.arg) THEN m.arg ELSE Garbage
<1>1. m \in Message /\ m.what = "ota_data"
  BY TakeType DEF AcceptData, QueueOK, Refused
<1>2. e \in Unit
  BY <1>1, Contents DEF Unit
<1>3. /\ got \in Seq(Unit) /\ slot \in Seq(Unit) /\ Len(slot) = Len(got)
      /\ got' = Append(got, e) /\ pc' = "write" /\ status' = "ok"
      /\ UNCHANGED <<kind, source, offer, slot, confirmed, shown>>
  BY DEF AcceptData, DataOK, InStep
<1> HIDE DEF e
<1>4. got' \in Seq(Unit) /\ Len(got') = Len(got) + 1 /\ got' # <<>>
  BY <1>2, <1>3
<1>5. \A k \in DOMAIN got : k \in DOMAIN got' /\ got'[k] = got[k]
  BY <1>2, <1>3
<1>6. DataOK'
  BY <1>3, <1>4 DEF DataOK, Uploading, AcceptData
<1>7. InStep'
  BY <1>3, <1>4 DEF InStep
<1>8. HeaderOK'
  BY <1>3, <1>5 DEF HeaderOK
<1> QED
  BY <1>6, <1>7, <1>8

\* Every packet that is not refused adds to what was received.
LEMMA Received ==
    ASSUME QueueOK, UploadOK, AcceptData
    PROVE  Len(got') = Len(got) + 1 /\ Len(got) \in Nat
<1> DEFINE m == Head(inbox)
           e == IF Continues(m.arg) THEN m.arg ELSE Garbage
<1>1. m \in Message /\ m.what = "ota_data"
  BY TakeType DEF AcceptData, QueueOK, Refused
<1>2. e \in Unit
  BY <1>1, Contents DEF Unit
<1>3. got \in Seq(Unit) /\ got' = Append(got, e)
  BY DEF AcceptData, UploadOK, DataOK
<1> HIDE DEF e
<1> QED
  BY <1>2, <1>3

\* The header that is shown was read from a packet that has been accepted.
LEMMA Asked ==
    ASSUME UploadOK, pc = "write", NEW u \in Units, NEW h \in Reads(u)
    PROVE  \E k \in DOMAIN got : h \in Reads(got[k])
<1>1. u = got[Len(got)]
  BY DEF Units, Garbage, Reads, Images
<1>2. Len(got) \in DOMAIN got
  BY DEF UploadOK, DataOK, InStep
<1> QED
  BY <1>1, <1>2, Zenon

LEMMA WriteUnitStep ==
    ASSUME UploadOK, WriteUnit
    PROVE  UploadOK'
<1> USE DEF UploadOK
<1>0. pc = "write" /\ UNCHANGED <<kind, source, offer, got, confirmed>>
  BY DEF WriteUnit
<1>1. CASE Trouble("bad") /\ UNCHANGED shown
  BY <1>0, <1>1, TroubleStep DEF Trouble, joctx
<1>2. ASSUME NEW u \in Units, ~confirmed, Validate(u)
      PROVE  UploadOK'
  <2> PICK h \in Reads(u) :
        IF h \in Fitting THEN Ask(h) ELSE Trouble("bad") /\ UNCHANGED shown
    BY <1>2 DEF Validate
  <2>1. CASE h \in Fitting
    <3>1. /\ pc' = "confirm" /\ UNCHANGED <<slot, status>>
          /\ shown' = [version |-> h, hash |-> offer.image]
      BY <2>1 DEF Ask
    <3>2. offer \in Offers
      BY <1>0 DEF DataOK, Uploading
    <3>3. shown' # None /\ shown'.version = h /\ shown'.hash = offer.image
      BY <2>1, <3>1, <3>2 DEF Images
    <3>4. \E k \in DOMAIN got : h \in Reads(got[k])
      BY <1>0, Asked
    <3>5. HeaderOK'
      BY <1>0, <1>2, <3>1, <3>3, <3>4 DEF HeaderOK
    <3>6. DataOK' /\ InStep'
      BY <1>0, <1>2, <2>1, <3>1, <3>2, <3>3 DEF DataOK, InStep, Uploading
    <3> QED
      BY <3>5, <3>6
  <2>2. CASE h \notin Fitting
    BY <1>0, <1>1, <2>2
  <2> QED
    BY <2>1, <2>2
<1>3. ASSUME NEW u \in Units, confirmed \/ Short(u), UnitDone(u), UNCHANGED shown
      PROVE  UploadOK'
  <2>1. u \in {got[Len(got)], Garbage}
    BY DEF Units
  <2>2. confirmed' \in BOOLEAN /\ status = "ok" /\ (confirmed => shown # None)
    BY <1>0 DEF DataOK, InStep, HeaderOK
  <2> QED
    BY <1>0, <1>3, <2>1, <2>2, UnitDoneStep
<1> QED
  BY <1>1, <1>2, <1>3 DEF WriteUnit

LEMMA ConfirmStep ==
    ASSUME UploadOK, Confirm
    PROVE  UploadOK'
<1> USE DEF UploadOK
<1>1. pc = "confirm" /\ status = "ok" /\ ~confirmed /\ shown # None
  BY DEF Confirm, InStep
<1>2. confirmed' = TRUE /\ UNCHANGED <<kind, source, offer, got, shown>>
  BY DEF Confirm
<1>3. CASE kind = "full"
  <2>1. pc' = "write" /\ UNCHANGED <<slot, status>>
    BY <1>3 DEF Confirm
  <2> QED
    BY <1>1, <1>2, <2>1 DEF DataOK, InStep, HeaderOK, Uploading
<1>4. CASE kind # "full"
  <2>1. UnitDone(got[Len(got)])
    BY <1>4 DEF Confirm
  <2> QED
    BY <1>1, <1>2, <2>1, UnitDoneStep
<1> QED
  BY <1>3, <1>4

\* Whatever happens keeps the written units, the packets and the user's answer in step.
LEMMA UploadStep == IInv /\ [Next]_vars => UploadOK'
<1> SUFFICES ASSUME QueueOK, UploadOK, [Next]_vars PROVE UploadOK'
  BY DEF IInv
<1>1. CASE UNCHANGED <<pc, upload>>
  BY <1>1 DEF UploadOK, DataOK, InStep, HeaderOK, Uploading, upload, joctx
<1>2. CASE Host \/ Worker \/ RefuseMessage
  <2>1. UNCHANGED <<pc, upload>>
    BY <1>2 DEF Host, Connect, Disconnect, HostRequests, HostSendsData, HostSends,
                Worker, WorkerOpens, WorkerReadsReply, WorkerSends, WorkerReadFails,
                WorkerCompletes, WorkerReadsLast, WorkerEnds, RefuseMessage
  <2> QED
    BY <1>1, <2>1
<1>3. CASE StartUsbUpload
  <2>1. UNCHANGED upload /\ (pc' = pc \/ pc' = "dead")
    BY <1>3 DEF StartUsbUpload
  <2> QED
    BY <1>1, <2>1, Ended DEF upload
<1>4. CASE RejectData
  <2>1. UNCHANGED joctx /\ pc' \in {"error", "declined"}
    BY <1>4, UploadFailsEnds DEF RejectData
  <2> QED
    BY <2>1, Ended
<1>5. CASE PatchFails
  <2>1. UNCHANGED joctx /\ pc' \in {"error", "declined"}
    BY <1>5, UploadFailsEnds DEF PatchFails
  <2> QED
    BY <2>1, Ended
<1>6. CASE LostAtData
  <2>1. UNCHANGED joctx /\ pc = "data"
    BY <1>6 DEF LostAtData
  <2>2. \/ UNCHANGED <<pc, status>>
        \/ status' = "bad" /\ pc' \in {"data", "complete"}
        \/ pc' \in {"error", "declined"}
    BY <1>6, UploadFailsEnds DEF LostAtData
  <2> QED
    BY <2>1, <2>2, Ended DEF UploadOK, DataOK, InStep, HeaderOK, joctx, Uploading
<1>7. CASE Decline
  <2>1. Trouble("declined") /\ pc = "confirm" /\ UNCHANGED joctx
    BY <1>7 DEF Decline, Trouble, joctx
  <2> QED
    BY <2>1, TroubleStep
<1>8. CASE Install \/ RejectComplete \/ NotComplete \/ LostAtComplete
  <2>1. UNCHANGED joctx /\ pc' \in {"success", "declined", "error"}
    BY <1>8 DEF Install, RejectComplete, NotComplete, LostAtComplete, upload, EndWith
  <2> QED
    BY <2>1, Ended
<1>9. CASE Leave \/ Restart
  <2>1. /\ pc' = "home" /\ got' = <<>> /\ slot' = <<>> /\ confirmed' = FALSE
        /\ shown' = None
    BY <1>9 DEF Leave, Restart, Forget
  <2>2. <<>> \in Seq(Unit) /\ DOMAIN <<>> = {}
    OBVIOUS
  <2> QED
    BY <2>1, <2>2 DEF UploadOK, DataOK, InStep, HeaderOK, Uploading
<1>10. CASE UNCHANGED vars
  BY <1>1, <1>10 DEF vars
<1> QED
  BY <1>2, <1>3, <1>4, <1>5, <1>6, <1>7, <1>8, <1>9, <1>10,
     AcceptUploadStep, AcceptDataStep, WriteUnitStep, ConfirmStep DEF Next, User, Main

LEMMA InitOK == Init => IInv
<1> SUFFICES ASSUME Init PROVE IInv
  OBVIOUS
<1>1. inbox \in Seq(Message) /\ got \in Seq(Unit) /\ slot \in Seq(Unit) /\ DOMAIN slot = {}
  BY DEF Init
<1>2. worker \in WorkerSet /\ worker.at = "gone"
  BY DEF Init, NoWorker, WorkerSet
<1> QED
  BY <1>1, <1>2 DEF Init, IInv, QueueOK, UploadOK, DataOK, InStep, HeaderOK, Uploading

LEMMA Invariance == Spec => []IInv
<1>1. IInv /\ [Next]_vars => IInv'
  BY QueueStep, UploadStep DEF IInv
<1> QED
  BY InitOK, <1>1, PTL DEF Spec

-----------------------------------------------------------------------------
(* What is booted                                                            *)

\* The partition that passes the check holds the image on the user's screen, and the
\* version there is from it.
LEMMA Checked ==
    ASSUME UploadOK, pc = "complete", MayInstall
    PROVE  /\ confirmed /\ slot = Whole(shown.hash) /\ shown.hash = offer.image
           /\ shown.hash \in Images /\ shown.version \in Fitting
           /\ shown.version \in {shown.hash} \cup Inside[shown.hash]
<1> USE DEF UploadOK
<1>1. PICK i \in Images \ Tiny : slot = Whole(i)
  BY DEF MayInstall
<1>2. Parts \in 1..Parts
  OBVIOUS
<1>3. DOMAIN slot = 1..Parts /\ \A k \in 1..Parts : slot[k] = <<i, k>>
  BY <1>1 DEF Whole
<1>4. got = slot
  <2>1. got \in Seq(Unit) /\ slot \in Seq(Unit) /\ Len(slot) = Len(got)
    BY DEF DataOK, InStep, MayInstall
  <2>2. \A k \in 1..Parts : slot[k] # Garbage
    BY <1>1, <1>3 DEF Garbage, Images
  <2>3. \A k \in 1..Parts : got[k] = slot[k]
    BY <1>3, <2>2 DEF HeaderOK
  <2> QED
    BY <1>3, <2>1, <2>3
<1>5. confirmed
  <2>1. slot[Parts][1] \notin Tiny
    BY <1>1, <1>2, <1>3
  <2> QED
    BY <1>2, <1>3, <2>1 DEF HeaderOK
<1>6. shown # None /\ shown.version \in Fitting /\ shown.hash = offer.image
  BY <1>5 DEF HeaderOK, DataOK
<1>7. offer.image = i
  <2>1. slot = Whole(offer.image)
    BY <1>4 DEF MayInstall, HashMatches
  <2>2. slot[Parts] = <<offer.image, Parts>>
    BY <1>2, <2>1 DEF Whole
  <2> QED
    BY <1>2, <1>3, <2>2
<1>8. PICK k \in 1..Parts : shown.version \in Reads(<<i, k>>)
  BY <1>3, <1>4, <1>6 DEF HeaderOK
<1>9. shown.version = i \/ shown.version \in Inside[i]
  BY <1>8 DEF Reads
<1> QED
  BY <1>1, <1>5, <1>6, <1>7, <1>9

\* Only Install changes what is booted, and its answer names it.
LEMMA BootStep ==
    ASSUME IInv, Next
    PROVE  \/ Install
           \/ UNCHANGED boot /\ (told' \in {None, "error"} \/ UNCHANGED <<told, offer>>)
<1>1. CASE Host \/ Worker
  BY <1>1 DEF Host, Connect, Disconnect, HostRequests, HostSendsData, HostSends,
              Worker, WorkerOpens, WorkerReadsReply, WorkerSends, WorkerReadFails,
              WorkerCompletes, WorkerReadsLast, WorkerEnds, upload, joctx
<1>2. CASE User
  BY <1>2 DEF User, StartUsbUpload, Confirm, Decline, Leave, Forget, upload, joctx
<1>3. CASE Main
  BY <1>3 DEF Main, AcceptUpload, RefuseMessage, RejectData, AcceptData, LostAtData,
              WriteUnit, PatchFails, RejectComplete, NotComplete,
              LostAtComplete, upload, joctx
<1>4. CASE Restart
  BY <1>4 DEF Restart, Forget
<1> QED
  BY <1>1, <1>2, <1>3, <1>4 DEF Next

\* The unit boots another firmware only if the user has confirmed it, and then all of
\* it, with no other version than one whose header is in it: for any images, number of
\* parts, hosts, announcements and queue sizes.
THEOREM OnlyConfirmed == Spec => Installed
<1>1. IInv /\ [Next]_vars =>
        [boot' # boot => /\ confirmed /\ boot' = Whole(shown.hash)
                         /\ shown.version \in {shown.hash} \cup Inside[shown.hash]]_vars
  <2> SUFFICES ASSUME IInv, Next, boot' # boot
               PROVE  /\ confirmed /\ boot' = Whole(shown.hash)
                      /\ shown.version \in {shown.hash} \cup Inside[shown.hash]
    OBVIOUS
  <2>1. Install
    BY BootStep
  <2> QED
    BY <2>1, Checked DEF Install, IInv
<1> QED
  BY <1>1, Invariance, PTL DEF Spec, Installed

\* What is booted is a whole image that is for this board, or has such a one's header in
\* it, whatever was uploaded, confirmed, declined, cut off or patched before.
THEOREM BootsThisBoard == Spec => []FitsBoard
<1>1. Init => FitsBoard
  BY DEF Init, FitsBoard, Images
<1>2. IInv /\ FitsBoard /\ [Next]_vars => FitsBoard'
  <2> SUFFICES ASSUME IInv, FitsBoard, [Next]_vars PROVE FitsBoard'
    OBVIOUS
  <2>1. CASE Install
    <3>1. boot' = Whole(shown.hash) /\ shown.hash \in Images
      BY <2>1, Checked DEF Install, IInv
    <3>2. shown.hash \in Fitting \/ Inside[shown.hash] \cap Fitting # {}
      BY <2>1, Checked DEF Install, IInv
    <3> QED
      BY <3>1, <3>2 DEF FitsBoard
  <2>2. CASE UNCHANGED boot
    BY <2>2 DEF FitsBoard
  <2> QED
    BY <2>1, <2>2, BootStep DEF vars
<1> QED
  BY <1>1, <1>2, Invariance, PTL DEF Spec

\* A host that was told "complete" may rely on it until another upload starts.
THEOREM ToldTheTruth == Spec => []CompleteMeansInstalled
<1>1. Init => CompleteMeansInstalled
  BY DEF Init, CompleteMeansInstalled
<1>2. IInv /\ CompleteMeansInstalled /\ [Next]_vars => CompleteMeansInstalled'
  <2> SUFFICES ASSUME IInv, CompleteMeansInstalled, [Next]_vars
               PROVE  CompleteMeansInstalled'
    OBVIOUS
  <2>1. CASE Install
    <3>1. boot' = slot /\ slot = Whole(offer.image) /\ UNCHANGED offer
      BY <2>1, Checked DEF Install, IInv, joctx
    <3> QED
      BY <3>1 DEF CompleteMeansInstalled
  <2>2. CASE UNCHANGED boot /\ told' \in {None, "error"}
    BY <2>2 DEF CompleteMeansInstalled
  <2>3. CASE UNCHANGED <<boot, told, offer>>
    BY <2>3 DEF CompleteMeansInstalled
  <2> QED
    BY <2>1, <2>2, <2>3, BootStep DEF vars, upload, joctx
<1> QED
  BY <1>1, <1>2, Invariance, PTL DEF Spec

-----------------------------------------------------------------------------
(* An upload that waits for the stick                                        *)

\* The upload in progress is fed by the worker, or by what it has left behind.
Ours == Uploading /\ source = "internal"

\* A message of the worker is on its way.
Sent == \E k \in 1..Len(inbox) : inbox[k].from = "internal"

\* The main task will reply to the packet it is writing, or end the upload.
Owed == pc \in {"write", "confirm"} /\ kind = "full"

\* Behind place k of the queue there is an 'ota_complete' of the worker.
Closes(m) == m.from = "internal" /\ m.what = "ota_complete"
ClosedAfter(k) == \E n \in 1..Len(inbox) : n > k /\ Closes(inbox[n])
Opens(m) == m.from = "internal" /\ m.what \in {"ota", "ota_delta"}

\* A worker that has left, or has not begun, has left something to read.
Left ==
    Ours /\ worker.at \in {"gone", "failed", "end", "open"} => out # <<>> \/ Sent \/ Owed

\* A refusal the worker reads next is not all there is, so that it may leave.
NotAll ==
    Ours /\ worker.at \in {"open", "reply"} /\ out # <<>>
        => Head(out) \/ Len(out) >= 2 \/ Sent \/ Owed

\* While the worker waits for its last reply, its 'ota_complete' is still to come to the
\* upload in progress, and to any that is requested before it.
ToClose ==
    worker.at = "last" =>
        /\ Ours => ClosedAfter(0)
        /\ \A k \in 1..Len(inbox) : Opens(inbox[k]) => ClosedAfter(k)

Replies == out \in Seq(BOOLEAN)
Stranding == Replies /\ Left /\ NotAll /\ ToClose

LEMMA RepliesStep == Replies /\ [Next]_vars => Replies'
<1> SUFFICES ASSUME Replies, [Next]_vars PROVE Replies'
  OBVIOUS
<1> USE DEF Replies
<1>1. ASSUME NEW to, NEW ok \in BOOLEAN, Reply(to, ok) PROVE out' \in Seq(BOOLEAN)
  BY <1>1 DEF Reply
<1>2. ASSUME NEW st, Trouble(st) PROVE out' \in Seq(BOOLEAN)
  BY <1>1, <1>2 DEF Trouble, UploadFails
<1>3. ASSUME NEW u, UnitDone(u) PROVE out' \in Seq(BOOLEAN)
  BY <1>1, <1>3 DEF UnitDone
<1>4. CASE Host
  BY <1>4 DEF Host, Connect, Disconnect, HostRequests, HostSendsData, HostSends
<1>5. CASE Worker
  <2>1. UNCHANGED out \/ (out # <<>> /\ out' = Tail(out))
    BY <1>5 DEF Worker, WorkerOpens, WorkerReadsReply, WorkerSends, WorkerReadFails,
                WorkerCompletes, WorkerReadsLast, WorkerEnds
  <2> QED
    BY <2>1
<1>6. CASE StartUsbUpload \/ Leave \/ Restart
  <2>1. UNCHANGED out \/ out' = <<>>
    BY <1>6 DEF StartUsbUpload, Leave, Restart
  <2>2. <<>> \in Seq(BOOLEAN)
    OBVIOUS
  <2> QED
    BY <2>1, <2>2
<1>7. CASE AcceptUpload \/ RefuseMessage
  BY <1>1, <1>7 DEF AcceptUpload, RefuseMessage
<1>8. CASE RejectData \/ AcceptData \/ LostAtData
  BY <1>1, <1>8 DEF RejectData, AcceptData, LostAtData, UploadFails
<1>9. CASE WriteUnit \/ PatchFails
  BY <1>1, <1>2, <1>3, <1>9 DEF WriteUnit, PatchFails, UploadFails, Validate, Ask
<1>10. CASE Confirm \/ Decline
  BY <1>2, <1>3, <1>10 DEF Confirm, Decline
<1>11. CASE Install \/ RejectComplete \/ NotComplete \/ LostAtComplete
  BY <1>1, <1>11 DEF Install, RejectComplete, NotComplete, LostAtComplete
<1>12. CASE UNCHANGED vars
  BY <1>12 DEF vars
<1> QED
  BY <1>4, <1>5, <1>6, <1>7, <1>8, <1>9, <1>10, <1>11, <1>12 DEF Next, User, Main

\* A message behind the others changes nothing for those in front of it.
LEMMA Behind ==
    ASSUME inbox \in Seq(Message), NEW e, inbox' = Append(inbox, e), e \in Message
    PROVE  /\ Len(inbox') = Len(inbox) + 1 /\ inbox'[Len(inbox) + 1] = e
           /\ Sent => Sent'
           /\ e.from = "internal" => Sent'
           /\ \A k \in Nat : ClosedAfter(k) => ClosedAfter(k)'
           /\ \A k \in 1..Len(inbox) : inbox'[k] = inbox[k]
           /\ Closes(e) => \A k \in 0..Len(inbox) : ClosedAfter(k)'
<1>1. /\ Len(inbox') = Len(inbox) + 1 /\ inbox'[Len(inbox) + 1] = e
      /\ \A k \in 1..Len(inbox) : inbox'[k] = inbox[k]
  OBVIOUS
<1>2. Len(inbox) \in Nat
  OBVIOUS
<1> QED
  BY <1>1, <1>2 DEF Sent, ClosedAfter

\* With the first message gone, the others move up.
LEMMA Ahead ==
    ASSUME inbox \in Seq(Message), Take
    PROVE  /\ Len(inbox') = Len(inbox) - 1
           /\ \A k \in 1..Len(inbox') : inbox'[k] = inbox[k + 1]
           /\ \A k \in Nat : ClosedAfter(k + 1) => ClosedAfter(k)'
           /\ ClosedAfter(0) /\ ~Closes(Head(inbox)) => ClosedAfter(0)'
<1>1. /\ Len(inbox') = Len(inbox) - 1 /\ Len(inbox) \in Nat \ {0}
      /\ \A k \in 1..Len(inbox') : inbox'[k] = inbox[k + 1]
      /\ inbox[1] = Head(inbox)
  BY DEF Take
<1>2. ASSUME NEW k \in Nat, ClosedAfter(k + 1) PROVE ClosedAfter(k)'
  <2>1. PICK n \in 1..Len(inbox) : n > k + 1 /\ Closes(inbox[n])
    BY <1>2 DEF ClosedAfter
  <2>2. n - 1 \in 1..Len(inbox') /\ n - 1 > k /\ inbox'[n - 1] = inbox[n]
    BY <1>1, <2>1
  <2> QED
    BY <2>1, <2>2 DEF ClosedAfter, Closes
<1>3. ASSUME ClosedAfter(0), ~Closes(Head(inbox)) PROVE ClosedAfter(0)'
  <2>1. ClosedAfter(1)
    BY <1>1, <1>3 DEF ClosedAfter
  <2> QED
    BY <1>2, <2>1
<1> QED
  BY <1>1, <1>2, <1>3

\* What the steps of the main task do to an upload that is fed by the stick.
LEMMA MainStep ==
    ASSUME QueueOK, Main \/ Confirm \/ Decline, Ours'
    PROVE  \/ AcceptUpload /\ Opens(Head(inbox)) /\ Reply("internal", TRUE)
           \/ /\ AcceptData /\ Ours /\ ~Closes(Head(inbox))
              /\ Owed' \/ Reply("internal", TRUE)
           \/ /\ UNCHANGED inbox /\ Ours
              /\ \/ Owed /\ (Owed' \/ Reply("internal", TRUE))
                 \/ ~Owed /\ UNCHANGED out
<1>1. \A st : EndWith(st) => ~Ours'
  BY DEF EndWith, Ours, Uploading
<1>2. \A st : UploadFails(st) => ~Ours'
  BY <1>1 DEF UploadFails
<1>3. CASE AcceptUpload
  BY <1>3 DEF AcceptUpload, Opens, Ours
<1>4. CASE RefuseMessage
  BY <1>4 DEF RefuseMessage, Ours, Uploading
<1>5. CASE RejectData
  BY <1>2, <1>5 DEF RejectData
<1>6. CASE AcceptData
  BY <1>6 DEF AcceptData, Ours, Uploading, Refused, Closes, Owed
<1>7. CASE LostAtData
  BY <1>2, <1>7 DEF LostAtData, Ours, Uploading, Owed, joctx
<1>8. pc \in {"write", "confirm"} /\ UNCHANGED <<kind, source, inbox>>
        => Ours /\ source = "internal" /\ (Owed <=> kind = "full")
  BY DEF Ours, Uploading, Owed
<1>9. ASSUME pc \in {"write", "confirm"}, UNCHANGED <<kind, source, inbox>>,
             \/ kind = "full" /\ (pc' \in {"write", "confirm"} \/ Reply(source, TRUE))
             \/ kind # "full" /\ UNCHANGED out
      PROVE  /\ UNCHANGED inbox /\ Ours
             /\ \/ Owed /\ (Owed' \/ Reply("internal", TRUE))
                \/ ~Owed /\ UNCHANGED out
  BY <1>8, <1>9 DEF Owed
<1>10. CASE WriteUnit
  <2>1. /\ pc = "write" /\ UNCHANGED <<kind, source, inbox>>
        /\ \/ \E u \in Units : Validate(u) \/ UnitDone(u)
           \/ Trouble("bad")
    BY <1>10, Zenon DEF WriteUnit
  <2>2. \/ kind = "full" /\ (pc' = "confirm" \/ Reply(source, TRUE))
        \/ kind # "full" /\ UNCHANGED out
    BY <1>2, <2>1 DEF Validate, Ask, UnitDone, Trouble
  <2> QED
    BY <1>9, <2>1, <2>2
<1>11. CASE PatchFails
  BY <1>2, <1>11 DEF PatchFails
<1>12. CASE Confirm
  <2>1. /\ pc = "confirm" /\ UNCHANGED <<kind, source, inbox>>
        /\ \/ kind = "full" /\ pc' = "write"
           \/ kind # "full" /\ UNCHANGED out
    BY <1>12 DEF Confirm, UnitDone
  <2> QED
    BY <1>9, <2>1
<1>13. CASE Decline
  <2>1. pc = "confirm" /\ UNCHANGED <<kind, source, inbox>> /\ kind # "full" /\ UNCHANGED out
    BY <1>2, <1>13 DEF Decline, Trouble
  <2> QED
    BY <1>9, <2>1
<1>14. CASE Install \/ RejectComplete \/ NotComplete \/ LostAtComplete
  BY <1>1, <1>14 DEF Install, RejectComplete, NotComplete, LostAtComplete
<1> QED
  BY <1>3, <1>4, <1>5, <1>6, <1>7, <1>10, <1>11, <1>12, <1>13, <1>14 DEF Main

\* The steps that are not the main task's leave the upload alone, and add to the queue
\* at most what is posted.
LEMMA OtherStep ==
    ASSUME QueueOK, Host \/ Worker \/ UNCHANGED vars
    PROVE  /\ UNCHANGED <<pc, kind, source>>
           /\ inbox' = inbox \/ \E e \in Message : inbox' = Append(inbox, e)
<1>1. CASE UNCHANGED vars
  BY <1>1 DEF vars, upload, joctx
<1>2. UNCHANGED <<pc, upload>> => UNCHANGED <<pc, kind, source>>
  BY DEF upload, joctx
<1>3. CASE Host
  <2> PICK h \in Hosts : \/ Connect(h) \/ Disconnect(h) \/ HostRequests(h)
                         \/ HostSendsData(h) \/ HostSends(h)
    BY <1>3 DEF Host
  <2>1. CASE Connect(h) \/ Disconnect(h)
    BY <1>2, <2>1 DEF Connect, Disconnect
  <2>2. CASE HostRequests(h)
    BY <1>2, <2>2 DEF HostRequests, Post, Message, Requests, Sources
  <2>3. CASE HostSendsData(h)
    BY <1>2, <2>3 DEF HostSendsData, Post, Message, Chunks, Sources, Packets
  <2>4. CASE HostSends(h)
    BY <1>2, <2>4 DEF HostSends, Post, Message, Others, Sources
  <2> QED
    BY <2>1, <2>2, <2>3, <2>4
<1>4. CASE WorkerSends
  <2>1. worker.file \in Images /\ Parts - worker.left + 1 \in 1..Parts
    BY <1>4 DEF WorkerSends, WorkerSet, QueueOK
  <2>2. [from |-> "internal", what |-> "ota_data",
         arg |-> <<worker.file, Parts - worker.left + 1>>] \in Message
    BY <2>1 DEF Message, Chunks, Sources, Packets
  <2> QED
    BY <1>2, <1>4, <2>2 DEF WorkerSends, Post
<1>5. CASE WorkerCompletes
  BY <1>2, <1>5 DEF WorkerCompletes, Post, Message, Others, Sources
<1>6. CASE WorkerOpens \/ WorkerReadsReply \/ WorkerReadFails \/ WorkerReadsLast \/ WorkerEnds
  BY <1>2, <1>6 DEF WorkerOpens, WorkerReadsReply, WorkerReadFails, WorkerReadsLast, WorkerEnds
<1> QED
  BY <1>1, <1>3, <1>4, <1>5, <1>6 DEF Worker

LEMMA Added ==
    ASSUME NEW S, NEW s \in Seq(S), NEW e \in S
    PROVE  /\ Append(s, e) # <<>> /\ (s = <<>> => Head(Append(s, e)) = e)
           /\ s # <<>> => Len(Append(s, e)) >= 2
<1>1. s # <<>> => Len(s) >= 1
  OBVIOUS
<1>2. Append(s, e) \in Seq(S) /\ Len(Append(s, e)) = Len(s) + 1 /\ Append(s, e)[Len(s) + 1] = e
  OBVIOUS
<1>3. Len(s) \in Nat /\ (s = <<>> => Len(s) = 0)
  OBVIOUS
<1>4. Append(s, e) # <<>>
  BY <1>2, <1>3
<1>5. s = <<>> => Head(Append(s, e)) = e
  BY <1>2, <1>3, <1>4
<1> QED
  BY <1>1, <1>2, <1>3, <1>4, <1>5

LEMMA FirstOfOne == \A x : Head(<<x>>) = x
OBVIOUS

LEMMA MoreThanOne ==
    ASSUME NEW S, NEW s \in Seq(S), Len(s) >= 2
    PROVE  Tail(s) # <<>>
<1>1. s # <<>> /\ Tail(s) \in Seq(S) /\ Len(Tail(s)) = Len(s) - 1 /\ Len(s) \in Nat
  OBVIOUS
<1>2. Len(Tail(s)) # 0
  BY <1>1
<1>3. Len(<<>>) = 0
  OBVIOUS
<1> QED
  BY <1>2, <1>3, Zenon

\* An added reply is one to read, and makes a refusal before it not the last.
LEMMA Replied ==
    ASSUME Replies, Reply("internal", TRUE)
    PROVE  out' # <<>> /\ (Head(out') \/ Len(out') >= 2)
<1>1. out \in Seq(BOOLEAN) /\ out' = Append(out, TRUE) /\ TRUE \in BOOLEAN
  BY DEF Replies, Reply
<1>2. out = <<>> => Head(out')
  BY <1>1, Added, Zenon
<1>3. out' # <<>> /\ (out # <<>> => Len(out') >= 2)
  BY <1>1, Added, Zenon
<1> QED
  BY <1>2, <1>3, Zenon

\* Neither starting the upload from a menu, nor what ends one, leaves one of ours.
LEMMA NotOurs ==
    ASSUME StartUsbUpload \/ Leave \/ Restart
    PROVE  ~Ours'
BY DEF StartUsbUpload, Leave, Restart, Ours, Uploading, upload, joctx

LEMMA LeftStep == IInv /\ Stranding /\ [Next]_vars => (Left /\ NotAll)'
<1> SUFFICES ASSUME IInv, Stranding, [Next]_vars, Ours' PROVE (Left /\ NotAll)'
  BY DEF Left, NotAll
<1> USE DEF Stranding
<1> QueueOK /\ inbox \in Seq(Message) /\ out \in Seq(BOOLEAN)
  BY DEF IInv, QueueOK, Replies
<1>1. CASE Main \/ Confirm \/ Decline
  <2>1. UNCHANGED worker
    BY <1>1 DEF Main, AcceptUpload, RefuseMessage, RejectData, AcceptData, LostAtData,
                WriteUnit, PatchFails, Install, RejectComplete, NotComplete, LostAtComplete,
                Confirm, Decline, world
  <2>2. CASE Owed' \/ Reply("internal", TRUE)
    BY <2>2, Replied DEF Left, NotAll
  <2>3. CASE UNCHANGED inbox /\ Ours /\ ~Owed /\ UNCHANGED out
    BY <2>1, <2>3 DEF Left, NotAll, Sent
  <2> QED
    BY <1>1, <2>2, <2>3, MainStep
<1>2. CASE Host \/ Worker \/ UNCHANGED vars
  <2>1. Ours /\ (Owed <=> Owed') /\ (Sent => Sent')
    <3>1. UNCHANGED <<pc, kind, source>> /\ (inbox' = inbox \/ \E e \in Message : inbox' = Append(inbox, e))
      BY <1>2, OtherStep
    <3> QED
      BY <3>1, Behind DEF Ours, Uploading, Owed, Sent
  <2>2. CASE Host \/ UNCHANGED vars
    <3>1. UNCHANGED <<worker, out>>
      BY <2>2 DEF Host, Connect, Disconnect, HostRequests, HostSendsData, HostSends, vars, world
    <3> QED
      BY <2>1, <3>1 DEF Left, NotAll
  <2>3. CASE WorkerOpens
    <3>1. worker.at = "open" /\ worker'.at \in {"reply", "failed"} /\ UNCHANGED out
      BY <2>3 DEF WorkerOpens, WorkerGo, QueueOK, WorkerSet
    <3> QED
      BY <2>1, <3>1 DEF Left, NotAll
  <2>4. CASE WorkerReadsReply
    <3>1. /\ worker.at = "reply" /\ out # <<>> /\ out' = Tail(out)
          /\ worker'.at = IF Head(out) THEN "send" ELSE "end"
      BY <2>4 DEF WorkerReadsReply, WorkerGo, QueueOK, WorkerSet
    <3>2. Len(out) >= 2 => out' # <<>>
      BY <3>1, MoreThanOne, Zenon
    <3> QED
      BY <2>1, <3>1, <3>2 DEF Left, NotAll
  <2>5. CASE WorkerSends
    <3>1. worker'.at \in {"finish", "reply"}
      BY <2>5 DEF WorkerSends, QueueOK, WorkerSet
    <3>2. Sent'
      <4>1. worker.file \in Images /\ Parts - worker.left + 1 \in 1..Parts
        BY <2>5 DEF WorkerSends, WorkerSet, QueueOK
      <4>2. [from |-> "internal", what |-> "ota_data",
             arg |-> <<worker.file, Parts - worker.left + 1>>] \in Message
        BY <4>1 DEF Message, Chunks, Sources, Packets
      <4> QED
        BY <2>5, <4>2, Behind DEF WorkerSends, Post
    <3> QED
      BY <3>1, <3>2 DEF Left, NotAll
  <2>6. CASE WorkerReadFails \/ WorkerCompletes
    <3>1. worker'.at \in {"finish", "last"}
      BY <2>6 DEF WorkerReadFails, WorkerCompletes, WorkerGo, QueueOK, WorkerSet
    <3> QED
      BY <3>1 DEF Left, NotAll
  <2>7. CASE WorkerReadsLast
    <3>1. worker.at = "last" /\ worker'.at = "end" /\ UNCHANGED inbox
      BY <2>7 DEF WorkerReadsLast, WorkerGo, QueueOK, WorkerSet
    <3>2. Sent
      BY <2>1, <3>1 DEF ToClose, ClosedAfter, Closes, Sent
    <3> QED
      BY <2>1, <3>1, <3>2 DEF Left, NotAll
  <2>8. CASE WorkerEnds
    <3>1. worker.at = "end" /\ worker'.at = "gone" /\ UNCHANGED out
      BY <2>8 DEF WorkerEnds, WorkerGo, QueueOK, WorkerSet
    <3> QED
      BY <2>1, <3>1 DEF Left, NotAll
  <2> QED
    BY <1>2, <2>2, <2>3, <2>4, <2>5, <2>6, <2>7, <2>8 DEF Worker
<1>3. CASE StartUsbUpload \/ Leave \/ Restart
  BY <1>3, NotOurs
<1> QED
  BY <1>1, <1>2, <1>3 DEF Next, User

\* An 'ota_complete' in the queue stays in front of nothing it has to come after.
LEMMA ToCloseStep == IInv /\ Stranding /\ [Next]_vars => ToClose'
<1> SUFFICES ASSUME IInv, Stranding, [Next]_vars, worker'.at = "last" PROVE ToClose'
  BY DEF ToClose
<1> USE DEF Stranding
<1> QueueOK /\ inbox \in Seq(Message) /\ Len(inbox) \in Nat
  BY DEF IInv, QueueOK
<1>1. CASE UNCHANGED worker /\ UNCHANGED inbox /\ (Ours' => Ours)
  BY <1>1 DEF ToClose, ClosedAfter, Opens, Closes
<1>2. ASSUME NEW e \in Message, inbox' = Append(inbox, e), Ours' => Ours, UNCHANGED worker,
             e.from # "internal"
      PROVE  ToClose'
  <2>1. \A k \in 1..Len(inbox') : Opens(inbox'[k]) => k \in 1..Len(inbox) /\ Opens(inbox[k])
    BY <1>2, Behind DEF Opens
  <2> QED
    BY <1>2, <2>1, Behind DEF ToClose
<1>3. CASE Host \/ UNCHANGED vars
  <2>1. UNCHANGED worker /\ (Ours' => Ours)
    <3>1. UNCHANGED <<pc, kind, source>>
      BY <1>3, OtherStep
    <3>2. UNCHANGED worker
      BY <1>3 DEF Host, Connect, Disconnect, HostRequests, HostSendsData, HostSends, vars, world
    <3> QED
      BY <3>1, <3>2 DEF Ours, Uploading
  <2>2. \/ UNCHANGED inbox
        \/ \E h \in Hosts : \E what, arg : Post(h, what, arg)
    BY <1>3 DEF Host, Connect, Disconnect, HostRequests, HostSendsData, HostSends, vars
  <2>3. inbox' = inbox \/ \E e \in Message : inbox' = Append(inbox, e)
    BY <1>3, OtherStep
  <2>4. CASE UNCHANGED inbox
    BY <1>1, <2>1, <2>4
  <2>5. CASE ~UNCHANGED inbox
    <3>1. PICK e \in Message : inbox' = Append(inbox, e)
      BY <2>3, <2>5
    <3>2. e.from # "internal"
      <4>1. PICK h \in Hosts : \E what, arg : Post(h, what, arg)
        BY <2>2, <2>5
      <4>2. inbox'[Len(inbox) + 1].from = h
        BY <4>1 DEF Post
      <4>3. inbox'[Len(inbox) + 1] = e
        BY <3>1
      <4> QED
        BY <4>2, <4>3
    <3> QED
      BY <1>2, <2>1, <3>1, <3>2
  <2> QED
    BY <2>4, <2>5
<1>4. CASE Worker
  <2>1. WorkerCompletes
    BY <1>4 DEF Worker, WorkerOpens, WorkerReadsReply, WorkerSends, WorkerReadFails,
                WorkerCompletes, WorkerReadsLast, WorkerEnds, WorkerGo, QueueOK, WorkerSet
  <2> DEFINE e == [from |-> "internal", what |-> "ota_complete", arg |-> None]
  <2>2. inbox' = Append(inbox, e) /\ e \in Message /\ Closes(e) /\ ~Opens(e)
    BY <2>1 DEF WorkerCompletes, Post, Message, Others, Sources, Closes, Opens
  <2> HIDE DEF e
  <2>3. \A k \in 0..Len(inbox) : ClosedAfter(k)'
    BY <2>2, Behind
  <2>4. \A k \in 1..Len(inbox') : Opens(inbox'[k]) => k \in 1..Len(inbox)
    BY <2>2, Behind
  <2> QED
    BY <2>3, <2>4 DEF ToClose
<1>5. CASE Main \/ Confirm \/ Decline
  <2>1. UNCHANGED worker
    BY <1>5 DEF Main, AcceptUpload, RefuseMessage, RejectData, AcceptData, LostAtData,
                WriteUnit, PatchFails, Install, RejectComplete, NotComplete, LostAtComplete,
                Confirm, Decline, world
  <2>2. inbox' = inbox \/ Take
    BY <1>5 DEF Main, AcceptUpload, RefuseMessage, RejectData, AcceptData, LostAtData,
                WriteUnit, PatchFails, Install, RejectComplete, NotComplete, LostAtComplete,
                Confirm, Decline
  <2>3. \A k \in 1..Len(inbox') : Opens(inbox'[k]) => ClosedAfter(k)'
    <3>1. CASE inbox' = inbox
      BY <2>1, <3>1 DEF ToClose, ClosedAfter
    <3>2. CASE Take
      <4> TAKE k \in 1..Len(inbox')
      <4> HAVE Opens(inbox'[k])
      <4>1. k + 1 \in 1..Len(inbox) /\ Opens(inbox[k + 1]) /\ k \in Nat
        BY <3>2, Ahead
      <4>2. ClosedAfter(k + 1)
        BY <2>1, <4>1 DEF ToClose
      <4> QED
        BY <3>2, <4>1, <4>2, Ahead
    <3> QED
      BY <2>2, <3>1, <3>2
  <2>4. ASSUME Ours' PROVE ClosedAfter(0)'
    <3>1. CASE AcceptUpload /\ Opens(Head(inbox))
      <4>1. Take /\ Head(inbox) = inbox[1] /\ 1 \in 1..Len(inbox)
        BY <3>1 DEF AcceptUpload, Take
      <4>2. ClosedAfter(0 + 1)
        BY <2>1, <3>1, <4>1 DEF ToClose
      <4> QED
        BY <4>1, <4>2, Ahead
    <3>2. CASE AcceptData /\ Ours /\ ~Closes(Head(inbox))
      <4>1. Take
        BY <3>2 DEF AcceptData
      <4>2. ClosedAfter(0)
        BY <2>1, <3>2 DEF ToClose
      <4> QED
        BY <3>2, <4>1, <4>2, Ahead
    <3>3. CASE UNCHANGED inbox /\ Ours
      BY <2>1, <3>3 DEF ToClose, ClosedAfter
    <3> QED
      BY <1>5, <2>4, <3>1, <3>2, <3>3, MainStep
  <2> QED
    BY <2>3, <2>4 DEF ToClose
<1>6. CASE StartUsbUpload
  <2>1. UNCHANGED worker \/ worker'.at = "open"
    BY <1>6 DEF StartUsbUpload
  <2>2. worker.at # "last"
    BY <1>6 DEF StartUsbUpload
  <2> QED
    BY <2>1, <2>2
<1>7. CASE Leave
  <2>1. UNCHANGED <<worker, inbox>>
    BY <1>7 DEF Leave, world
  <2> QED
    BY <1>1, <1>7, <2>1, NotOurs
<1>8. CASE Restart
  BY <1>8 DEF Restart, NoWorker
<1> QED
  BY <1>3, <1>4, <1>5, <1>6, <1>7, <1>8 DEF Next, User

\* However the stick is pulled out, requests from elsewhere interfere and messages are
\* refused: the worker leaves an upload waiting for it only with a reply unread.
THEOREM ReadsBeforeLeaving == Spec => []OnlyUnreadReplyStrands
<1>1. Init => Stranding
  <2> SUFFICES ASSUME Init PROVE Stranding
    OBVIOUS
  <2>1. out = <<>> /\ <<>> \in Seq(BOOLEAN) /\ ~Ours /\ worker.at = "gone"
    BY DEF Init, Ours, Uploading, NoWorker
  <2> QED
    BY <2>1 DEF Stranding, Replies, Left, NotAll, ToClose
<1>2. IInv /\ Stranding /\ [Next]_vars => Stranding'
  BY RepliesStep, LeftStep, ToCloseStep DEF Stranding
<1>3. Stranding => OnlyUnreadReplyStrands
  BY DEF Stranding, Left, Ours, Uploading, Sent, Owed, OnlyUnreadReplyStrands
<1> QED
  BY <1>1, <1>2, <1>3, Invariance, PTL DEF Spec
-----------------------------------------------------------------------------
(* Types of what the invariants above do not speak of *)

Places == {"home", "data", "write", "confirm", "complete", "error", "declined", "success", "dead"}
Screens == [version : Images, hash : Images]

Course ==
    /\ pc \in Places /\ kind \in {"full", "delta"} /\ status \in {"ok", "declined", "bad"}
    /\ told \in {None, "true", "error"} /\ shown \in Screens \cup {None}

Parties ==
    /\ source \in Sources \cup {None} /\ offer \in Offers \cup {None}
    /\ id \in Sources \cup {None} /\ lastSource \in Sources \cup {None}
    /\ links \subseteq Hosts /\ serialOff \in BOOLEAN

Sizes == Len(inbox) <= QueueSize /\ Len(out) <= OutSize

Rest == Course /\ Parties /\ Sizes

\* What handlers have in common.
LEMMA CourseOfUpload ==
    /\ \A st \in {"ok", "declined", "bad"} : EndWith(st) => pc' \in Places
    /\ \A st \in {"declined", "bad"} : UploadFails(st) => pc' \in Places /\ status' = st
    /\ \A st \in {"ok", "declined", "bad"} : \A w : NextUnit(st, w) => pc' \in Places /\ status' \in {st, "bad"}
BY DEF EndWith, UploadFails, NextUnit, Places

LEMMA CourseOfUnit ==
    ASSUME Course
    PROVE  /\ \A st \in {"declined", "bad"} : Trouble(st) => pc' \in Places /\ status' \in {"ok", "declined", "bad"}
           /\ \A u : UnitDone(u) => pc' \in Places /\ status' \in {"ok", "declined", "bad"}
<1>1. ASSUME NEW st \in {"declined", "bad"}, Trouble(st)
      PROVE  pc' \in Places /\ status' \in {"ok", "declined", "bad"}
  BY <1>1, CourseOfUpload DEF Trouble
<1>2. ASSUME NEW u, UnitDone(u) PROVE pc' \in Places /\ status' \in {"ok", "declined", "bad"}
  BY <1>2, CourseOfUpload DEF UnitDone, Course
<1> QED
  BY <1>1, <1>2

LEMMA CourseStep == IInv /\ Course /\ [Next]_vars => Course'
<1> SUFFICES ASSUME IInv, Course, [Next]_vars PROVE Course'
  OBVIOUS
<1> USE DEF joctx, upload
<1>1. CASE Host \/ Worker
  <2>1. UNCHANGED <<pc, kind, status, told, shown>>
    <3>1. CASE Host
      BY <3>1 DEF Host, Connect, Disconnect, HostRequests, HostSendsData, HostSends
    <3>2. CASE Worker
      BY <3>2 DEF Worker, WorkerOpens, WorkerReadsReply, WorkerSends, WorkerReadFails,
                  WorkerCompletes, WorkerReadsLast, WorkerEnds
    <3> QED
      BY <1>1, <3>1, <3>2
  <2> QED
    BY <2>1 DEF Course
<1>2. CASE StartUsbUpload
  BY <1>2 DEF StartUsbUpload, Course, Places
<1>3. CASE AcceptUpload
  BY <1>3 DEF AcceptUpload, Course, Places
<1>4. CASE RefuseMessage
  BY <1>4 DEF RefuseMessage, Course
<1>5. CASE RejectData \/ PatchFails
  <2>1. UNCHANGED <<kind, told, shown>>
    BY <1>5 DEF RejectData, PatchFails
  <2>2. \/ UploadFails("bad")
        \/ status # "ok" /\ UploadFails(status)
    BY <1>5 DEF RejectData, PatchFails
  <2> QED
    BY <2>1, <2>2, CourseOfUpload DEF Course
<1>6. CASE AcceptData
  BY <1>6 DEF AcceptData, Course, Places
<1>7. CASE LostAtData
  <2>1. UNCHANGED <<kind, told, shown>>
    BY <1>7 DEF LostAtData
  <2>2. \/ UNCHANGED <<pc, status>>
        \/ status' = "bad" /\ pc' \in {"data", "complete"}
        \/ UploadFails("bad")
    BY <1>7 DEF LostAtData
  <2> QED
    BY <2>1, <2>2, CourseOfUpload DEF Course, Places
<1>8. CASE WriteUnit
  <2>1. UNCHANGED <<kind, told>>
    BY <1>8 DEF WriteUnit
  <2>2. \/ pc' = "confirm" /\ UNCHANGED status
        \/ Trouble("bad")
        \/ \E u \in Units : UnitDone(u)
    BY <1>8 DEF WriteUnit, Validate, Ask
  <2>3. pc' \in Places /\ status' \in {"ok", "declined", "bad"}
    BY <2>2, CourseOfUnit DEF Course, Places
  <2>4. shown' \in Screens \cup {None}
    <3>1. CASE UNCHANGED shown
      BY <3>1 DEF Course
    <3>2. ASSUME NEW u \in Units, NEW h \in Reads(u), Ask(h) PROVE shown' \in Screens
      <4>1. pc = "write"
        BY <1>8 DEF WriteUnit
      <4>2. offer \in Offers /\ h \in Images
        BY <4>1 DEF IInv, UploadOK, DataOK, Uploading, Reads
      <4> QED
        BY <3>2, <4>2 DEF Ask, Screens
    <3> QED
      BY <1>8, <3>1, <3>2 DEF WriteUnit, Validate
  <2> QED
    BY <2>1, <2>3, <2>4 DEF Course
<1>9. CASE Confirm
  <2>1. UNCHANGED <<kind, told, shown>>
    BY <1>9 DEF Confirm
  <2>2. (pc' = "write" /\ UNCHANGED status) \/ UnitDone(got[Len(got)])
    BY <1>9 DEF Confirm
  <2> QED
    BY <2>1, <2>2, CourseOfUnit DEF Course, Places
<1>10. CASE Decline
  BY <1>10, CourseOfUnit DEF Decline, Course
<1>11. CASE Install \/ RejectComplete \/ NotComplete \/ LostAtComplete
  <2>1. UNCHANGED <<kind, shown>> /\ told' \in {told, "true", "error"}
    BY <1>11 DEF Install, RejectComplete, NotComplete, LostAtComplete
  <2>2. \E st \in {"ok", "declined", "bad"} : EndWith(st) /\ status' = st
    <3>1. CASE Install
      BY <3>1 DEF Install, MayInstall, Course
    <3>2. CASE RejectComplete
      BY <3>2 DEF RejectComplete, Course
    <3>3. CASE NotComplete \/ LostAtComplete
      BY <3>3 DEF NotComplete, LostAtComplete, Course
    <3> QED
      BY <1>11, <3>1, <3>2, <3>3
  <2> QED
    BY <2>1, <2>2, CourseOfUpload DEF Course
<1>12. CASE Leave \/ Restart
  BY <1>12 DEF Leave, Restart, Forget, Course, Places
<1>13. CASE UNCHANGED vars
  BY <1>13 DEF vars, Course
<1> QED
  BY <1>1, <1>2, <1>3, <1>4, <1>5, <1>6, <1>7, <1>8, <1>9, <1>10, <1>11, <1>12, <1>13
     DEF Next, User, Main

LEMMA PartiesStep == IInv /\ Parties /\ [Next]_vars => Parties'
<1> SUFFICES ASSUME IInv, Parties, [Next]_vars PROVE Parties'
  OBVIOUS
<1> USE DEF joctx, upload, world, Parties
<1>q. Take => inbox # <<>> /\ Head(inbox) \in Message
  BY TakeType DEF IInv, QueueOK, Take
<1>h. Take => /\ Head(inbox).from \in Sources
              /\ Head(inbox).what \in {"ota", "ota_delta"} => Head(inbox).arg \in Offers
  BY <1>q, Contents
<1>1. CASE Host
  BY <1>1 DEF Host, Connect, Disconnect, HostRequests, HostSendsData, HostSends
<1>2. CASE Worker
  BY <1>2 DEF Worker, WorkerOpens, WorkerReadsReply, WorkerSends, WorkerReadFails,
              WorkerCompletes, WorkerReadsLast, WorkerEnds
<1>3. CASE StartUsbUpload
  BY <1>3 DEF StartUsbUpload
<1>4. CASE AcceptUpload
  BY <1>4, <1>h DEF AcceptUpload
<1>5. CASE RefuseMessage
  BY <1>5, <1>h DEF RefuseMessage
<1>6. CASE RejectData
  BY <1>6, <1>h DEF RejectData
<1>7. CASE AcceptData
  BY <1>7, <1>h DEF AcceptData
<1>8. CASE LostAtData
  BY <1>8 DEF LostAtData
<1>9. CASE WriteUnit \/ Decline
  <2>1. UNCHANGED <<source, offer, lastSource, links, serialOff>>
    BY <1>9 DEF WriteUnit, Decline
  <2>2. id' \in {id, None}
    BY <1>9 DEF WriteUnit, Decline, Validate, Ask, Trouble, UnitDone
  <2> QED
    BY <2>1, <2>2
<1>10. CASE Confirm
  <2>1. UNCHANGED <<source, offer, lastSource, links, serialOff>>
    BY <1>10 DEF Confirm
  <2>2. id' \in {id, None}
    BY <1>10 DEF Confirm, UnitDone
  <2> QED
    BY <2>1, <2>2
<1>11. CASE PatchFails \/ LostAtComplete
  BY <1>11 DEF PatchFails, LostAtComplete
<1>12. CASE Install \/ RejectComplete \/ NotComplete
  BY <1>12, <1>h DEF Install, RejectComplete, NotComplete
<1>13. CASE Leave \/ Restart
  BY <1>13 DEF Leave, Restart, Forget
<1>14. CASE UNCHANGED vars
  BY <1>14 DEF vars
<1> QED
  BY <1>1, <1>2, <1>3, <1>4, <1>5, <1>6, <1>7, <1>8, <1>9, <1>10, <1>11, <1>12, <1>13, <1>14
     DEF Next, User, Main

\* Whoever posts or replies finds a place first.
LEMMA InboxMoves ==
    [Next]_vars => \/ UNCHANGED inbox \/ inbox' = <<>> \/ Take
                   \/ Room /\ \E m : inbox' = Append(inbox, m)
<1> SUFFICES ASSUME [Next]_vars
             PROVE  \/ UNCHANGED inbox \/ inbox' = <<>> \/ Take
                    \/ Room /\ \E m : inbox' = Append(inbox, m)
  OBVIOUS
<1>1. CASE Host
  BY <1>1 DEF Host, Connect, Disconnect, HostRequests, HostSendsData, HostSends, Post
<1>2. CASE Worker
  BY <1>2 DEF Worker, WorkerOpens, WorkerReadsReply, WorkerSends, WorkerReadFails,
              WorkerCompletes, WorkerReadsLast, WorkerEnds, Post
<1>3. CASE StartUsbUpload
  BY <1>3 DEF StartUsbUpload, Post
<1>4. CASE \/ AcceptUpload \/ RefuseMessage \/ RejectData \/ AcceptData
           \/ Install \/ RejectComplete \/ NotComplete
  BY <1>4 DEF AcceptUpload, RefuseMessage, RejectData, AcceptData, Install, RejectComplete,
              NotComplete
<1>5. CASE \/ LostAtData \/ WriteUnit \/ PatchFails \/ LostAtComplete
           \/ Confirm \/ Decline \/ Leave \/ Restart \/ UNCHANGED vars
  BY <1>5 DEF LostAtData, WriteUnit, PatchFails, LostAtComplete, Confirm, Decline, Leave,
              Restart, vars
<1> QED
  BY <1>1, <1>2, <1>3, <1>4, <1>5 DEF Next, User, Main

LEMMA OutMoves ==
    [Next]_vars => \/ UNCHANGED out \/ out' = <<>> \/ (out # <<>> /\ out' = Tail(out))
                   \/ Len(out) < OutSize /\ \E ok : out' = Append(out, ok)
<1> DEFINE Moves == \/ UNCHANGED out \/ out' = <<>> \/ (out # <<>> /\ out' = Tail(out))
                    \/ Len(out) < OutSize /\ \E ok : out' = Append(out, ok)
<1> SUFFICES ASSUME [Next]_vars PROVE Moves
  OBVIOUS
<1>r. \A to, ok : Reply(to, ok) => Moves
  BY DEF Reply
<1>u. \A st : UploadFails(st) => Moves
  BY <1>r DEF UploadFails
<1>t. \A st : Trouble(st) => Moves
  BY <1>u DEF Trouble
<1>d. \A u : UnitDone(u) => Moves
  BY <1>r DEF UnitDone
<1>k. UNCHANGED out => Moves
  OBVIOUS
<1> HIDE DEF Moves
<1>1. CASE Host \/ StartUsbUpload \/ Leave \/ LostAtComplete \/ UNCHANGED vars
  BY <1>1, <1>k DEF Host, Connect, Disconnect, HostRequests, HostSendsData, HostSends,
                    StartUsbUpload, Leave, LostAtComplete, vars
<1>2. CASE Worker \/ Restart
  BY <1>2 DEF Worker, WorkerOpens, WorkerReadsReply, WorkerSends, WorkerReadFails,
              WorkerCompletes, WorkerReadsLast, WorkerEnds, Restart, Moves
<1>3. CASE \/ AcceptUpload \/ RefuseMessage \/ AcceptData
           \/ Install \/ RejectComplete \/ NotComplete
  BY <1>3, <1>r, <1>k DEF AcceptUpload, RefuseMessage, AcceptData, Install, RejectComplete,
                          NotComplete
<1>4. CASE RejectData \/ PatchFails \/ LostAtData
  BY <1>4, <1>u, <1>k DEF RejectData, PatchFails, LostAtData
<1>5. CASE WriteUnit \/ Confirm \/ Decline
  BY <1>5, <1>t, <1>d, <1>k DEF WriteUnit, Validate, Ask, Confirm, Decline
<1> QED
  BY <1>1, <1>2, <1>3, <1>4, <1>5 DEF Next, User, Main

LEMMA SizesStep == IInv /\ Replies /\ Sizes /\ [Next]_vars => Sizes'
<1> SUFFICES ASSUME IInv, Replies, Sizes, [Next]_vars PROVE Sizes'
  OBVIOUS
<1>q. inbox \in Seq(Message) /\ out \in Seq(BOOLEAN)
  BY DEF IInv, QueueOK, Replies
<1>1. Len(inbox') <= QueueSize
  <2>1. CASE Take
    BY <2>1, <1>q DEF Take, Sizes
  <2>2. CASE Room /\ \E m : inbox' = Append(inbox, m)
    BY <2>2, <1>q DEF Room
  <2> QED
    BY <2>1, <2>2, InboxMoves DEF Sizes
<1>2. Len(out') <= OutSize
  <2>1. CASE out # <<>> /\ out' = Tail(out)
    BY <2>1, <1>q DEF Sizes
  <2>2. CASE Len(out) < OutSize /\ \E ok : out' = Append(out, ok)
    BY <2>2, <1>q
  <2> QED
    BY <2>1, <2>2, OutMoves DEF Sizes
<1> QED
  BY <1>1, <1>2 DEF Sizes

\* Every variable keeps its type, the queues their sizes, and the worker counts no further
\* than to nothing, whatever hosts send and wherever the stick is pulled.
THEOREM TypeCorrect == Spec => []TypeOK
<1>1. Init => Replies /\ Rest
  <2> SUFFICES ASSUME Init PROVE Replies /\ Rest
    OBVIOUS
  <2>1. Course /\ Parties
    BY DEF Init, Course, Parties, Places
  <2>2. Replies /\ Sizes
    <3>1. inbox = <<>> /\ out = <<>>
      BY DEF Init
    <3> QED
      BY <3>1 DEF Replies, Sizes
  <2> QED
    BY <2>1, <2>2 DEF Rest
<1>2. IInv /\ Replies /\ Rest /\ [Next]_vars => (Replies /\ Rest)'
  BY RepliesStep, CourseStep, PartiesStep, SizesStep DEF Rest
<1>3. IInv /\ Replies /\ Rest /\ FitsBoard => TypeOK
  <2> SUFFICES ASSUME IInv, Replies, Rest, FitsBoard PROVE TypeOK
    OBVIOUS
  <2>1. boot \in [1..Parts -> Packets]
    BY DEF FitsBoard, Whole, Packets, Images
  <2>2. \A k \in DOMAIN inbox : Messages(inbox[k])
    <3>1. \A m \in Message : Messages(m)
      BY DEF Messages, Message, Requests, Chunks, Others
    <3> QED
      BY <3>1 DEF IInv, QueueOK
  <2>3. worker \in WorkerSet
    BY DEF IInv, QueueOK
  <2>4. got \in Seq(Packets \cup {Garbage}) /\ slot \in Seq(Packets \cup {Garbage}) /\ confirmed \in BOOLEAN
    BY DEF IInv, UploadOK, DataOK, Unit
  <2>5. /\ worker.at \in {"gone", "open", "reply", "send", "finish", "last", "end", "failed"}
        /\ worker.left \in 0..Parts /\ worker.file \in Images \cup {None}
        /\ worker.fresh \in BOOLEAN
    BY <2>3 DEF WorkerSet
  <2> QED
    BY <2>1, <2>2, <2>4, <2>5 DEF TypeOK, Rest, Course, Parties, Sizes, Places, Screens, Replies
<1> QED
  BY <1>1, <1>2, <1>3, Invariance, BootsThisBoard, PTL DEF Spec

-----------------------------------------------------------------------------
(* An upload from a stick that starts afresh                                 *)

Mine(m) == m.from = "internal"
NoneSent == \A k \in 1..Len(inbox) : ~Mine(inbox[k])

\* The worker has just one message in the queue, the one at k.
OnlyAt(k, what) ==
    /\ Mine(inbox[k]) /\ inbox[k].what = what
    /\ \A n \in 1..Len(inbox) : Mine(inbox[n]) => n = k
OneSent(what) == \E k \in 1..Len(inbox) : OnlyAt(k, what)

\* It has two: the last packet, and 'ota_complete' behind it.
DataThenClose ==
    \E k, c \in 1..Len(inbox) :
        /\ k < c /\ Mine(inbox[k]) /\ inbox[k].what = "ota_data"
        /\ Closes(inbox[c])
        /\ \A n \in 1..Len(inbox) : Mine(inbox[n]) => n \in {k, c}

\* Where the n-th packet of the worker is.
OnItsWay(n) == pc = "data" /\ out = <<>> /\ Len(got) + 1 = n
Writing(n) == pc \in {"write", "confirm"} /\ out = <<>> /\ Len(got) = n
Answered(n) ==
    pc = (IF n = Parts THEN "complete" ELSE "data") /\ out = <<TRUE>> /\ Len(got) = n
NextPlease(n) == pc = "data" /\ out = <<>> /\ Len(got) = n

Packet(n) ==
    \/ OnItsWay(n) /\ OneSent("ota_data")
    \/ (Writing(n) \/ Answered(n)) /\ NoneSent
PacketThenClose(n) ==
    \/ OnItsWay(n) /\ DataThenClose
    \/ (Writing(n) \/ Answered(n)) /\ OneSent("ota_complete")

SentParts == Parts - worker.left

\* The request of a worker that starts with empty queues is the first to be read, while
\* nobody has replied.
Announced == worker.fresh =>
    \A k \in 1..Len(inbox) : Opens(inbox[k]) =>
        /\ OnlyAt(k, "ota") /\ k = 1 /\ inbox[k].arg.parts = Parts
        /\ pc \in {"home", "dead"} /\ out = <<>>
        /\ worker.at \in {"open", "reply", "failed"} /\ worker.left = Parts

\* The main task and the worker take turns: what lies in the two queues and how many
\* packets have arrived follow from where the worker is.
InTurn == worker.fresh /\ Ours =>
    /\ kind = "full" /\ offer.parts = Parts
    /\ worker.at \in {"open", "failed"} => worker.left = Parts /\ Answered(0) /\ NoneSent
    /\ worker.at = "reply" => Packet(SentParts)
    /\ worker.at = "send" => NextPlease(SentParts) /\ NoneSent
    /\ worker.at = "finish" => IF worker.left = 0 THEN Packet(Parts)
                               ELSE NextPlease(SentParts) /\ NoneSent
    /\ worker.at = "last" => IF worker.left = 0 THEN PacketThenClose(Parts)
                             ELSE NextPlease(SentParts) /\ OneSent("ota_complete")
    /\ worker.at \in {"end", "gone"} => pc = "complete" /\ out = <<>> /\ OneSent("ota_complete")

\* Another's message behind the rest changes nothing.
LEMMA OthersPost ==
    ASSUME inbox \in Seq(Message), NEW e \in Message, inbox' = Append(inbox, e), ~Mine(e)
    PROVE  /\ NoneSent => NoneSent'
           /\ \A k \in 1..Len(inbox) : \A w : OnlyAt(k, w) => OnlyAt(k, w)'
           /\ \A w : OneSent(w) => OneSent(w)'
           /\ DataThenClose => DataThenClose'
           /\ \A k \in 1..Len(inbox') : Opens(inbox'[k]) =>
                    k \in 1..Len(inbox) /\ inbox'[k] = inbox[k]
<1>1. /\ Len(inbox') = Len(inbox) + 1 /\ Len(inbox) \in Nat /\ inbox'[Len(inbox) + 1] = e
      /\ \A k \in 1..Len(inbox) : inbox'[k] = inbox[k]
  OBVIOUS
<1>2. \A k \in 1..Len(inbox') : Mine(inbox'[k]) => k \in 1..Len(inbox) /\ inbox'[k] = inbox[k]
  BY <1>1
<1>3. 1..Len(inbox) \subseteq 1..Len(inbox')
  BY <1>1

<1>4. NoneSent => NoneSent'
  BY <1>2 DEF NoneSent
<1>5. ASSUME NEW k \in 1..Len(inbox), NEW w, OnlyAt(k, w) PROVE OnlyAt(k, w)'
  BY <1>1, <1>2, <1>3, <1>5 DEF OnlyAt, Mine
<1>6. ASSUME NEW w, OneSent(w) PROVE OneSent(w)'
  BY <1>3, <1>5, <1>6 DEF OneSent
<1>7. DataThenClose => DataThenClose'
  <2> SUFFICES ASSUME DataThenClose PROVE DataThenClose'
    OBVIOUS
  <2>1. PICK k, c \in 1..Len(inbox) :
          /\ k < c /\ Mine(inbox[k]) /\ inbox[k].what = "ota_data"
          /\ Closes(inbox[c])
          /\ \A n \in 1..Len(inbox) : Mine(inbox[n]) => n \in {k, c}
    BY DEF DataThenClose
  <2>2. \A n \in 1..Len(inbox') : Mine(inbox'[n]) => n \in {k, c}
    BY <1>2, <2>1
  <2>3. /\ k \in 1..Len(inbox') /\ c \in 1..Len(inbox')
        /\ inbox'[k] = inbox[k] /\ inbox'[c] = inbox[c]
    BY <1>1, <1>3
  <2> QED
    BY <2>1, <2>2, <2>3 DEF DataThenClose
<1>8. \A k \in 1..Len(inbox') : Opens(inbox'[k]) => Mine(inbox'[k])
  BY DEF Opens, Mine
<1> QED
  BY <1>2, <1>4, <1>5, <1>6, <1>7, <1>8

\* What the worker posts is behind the rest too.
LEMMA WorkerPosts ==
    ASSUME inbox \in Seq(Message), NEW e \in Message, inbox' = Append(inbox, e), Mine(e)
    PROVE  /\ NoneSent => OneSent(e.what)'
           /\ Closes(e) /\ OneSent("ota_data") => DataThenClose'
<1>1. /\ Len(inbox') = Len(inbox) + 1 /\ Len(inbox) \in Nat /\ inbox'[Len(inbox) + 1] = e
      /\ \A k \in 1..Len(inbox) : inbox'[k] = inbox[k]
  OBVIOUS
<1>2. 1..Len(inbox') = 1..Len(inbox) \cup {Len(inbox) + 1}
  BY <1>1
<1>3. ASSUME NoneSent PROVE OneSent(e.what)'
  <2>1. PICK k \in 1..Len(inbox') : k = Len(inbox) + 1
    BY <1>2
  <2>2. inbox'[k] = e /\ \A n \in 1..Len(inbox') : Mine(inbox'[n]) => n = k
    BY <1>1, <1>2, <1>3, <2>1 DEF NoneSent
  <2>3. OnlyAt(k, e.what)'
    BY <2>2 DEF OnlyAt, Mine
  <2> QED
    BY <2>1, <2>3 DEF OneSent
<1>4. ASSUME Closes(e), OneSent("ota_data") PROVE DataThenClose'
  <2>1. PICK k \in 1..Len(inbox) : OnlyAt(k, "ota_data")
    BY <1>4 DEF OneSent
  <2>2. \A n \in 1..Len(inbox') : Mine(inbox'[n]) => n \in {k, Len(inbox) + 1}
    BY <1>1, <1>2, <2>1 DEF OnlyAt, Mine
  <2>3. /\ k < Len(inbox) + 1 /\ k \in 1..Len(inbox') /\ Len(inbox) + 1 \in 1..Len(inbox')
        /\ Mine(inbox'[k]) /\ inbox'[k].what = "ota_data" /\ Closes(inbox'[Len(inbox) + 1])
    BY <1>1, <1>2, <1>4, <2>1 DEF OnlyAt, Mine
  <2> QED
    BY <2>2, <2>3 DEF DataThenClose
<1> QED
  BY <1>3, <1>4

\* The main task reads the worker's messages in their order.
LEMMA MainTakes ==
    ASSUME inbox \in Seq(Message), Take
    PROVE  /\ NoneSent => ~Mine(Head(inbox))
           /\ \A w : OneSent(w) /\ Mine(Head(inbox)) => Head(inbox).what = w /\ NoneSent'
           /\ DataThenClose /\ Mine(Head(inbox))
                => Head(inbox).what = "ota_data" /\ OneSent("ota_complete")'
<1>1. /\ Len(inbox') = Len(inbox) - 1 /\ Len(inbox) \in Nat \ {0}
      /\ \A k \in 1..Len(inbox') : inbox'[k] = inbox[k + 1] /\ k + 1 \in 1..Len(inbox) /\ k + 1 # 1
      /\ inbox[1] = Head(inbox) /\ 1 \in 1..Len(inbox)
  BY DEF Take
<1>2. NoneSent => ~Mine(Head(inbox))
  BY <1>1 DEF NoneSent
<1>3. ASSUME NEW w, OneSent(w), Mine(Head(inbox)) PROVE Head(inbox).what = w /\ NoneSent'
  <2>1. PICK k \in 1..Len(inbox) : OnlyAt(k, w)
    BY <1>3 DEF OneSent
  <2>2. k = 1
    BY <1>1, <1>3, <2>1 DEF OnlyAt
  <2> QED
    BY <1>1, <2>1, <2>2 DEF OnlyAt, NoneSent
<1>4. ASSUME DataThenClose, Mine(Head(inbox))
      PROVE  Head(inbox).what = "ota_data" /\ OneSent("ota_complete")'
  <2>1. PICK k, c \in 1..Len(inbox) :
          /\ k < c /\ Mine(inbox[k]) /\ inbox[k].what = "ota_data"
          /\ Closes(inbox[c])
          /\ \A n \in 1..Len(inbox) : Mine(inbox[n]) => n \in {k, c}
    BY <1>4 DEF DataThenClose
  <2>2. k = 1
    BY <1>1, <1>4, <2>1
  <2>3. c - 1 \in 1..Len(inbox') /\ inbox'[c - 1] = inbox[c]
    BY <1>1, <2>1, <2>2
  <2>4. \A n \in 1..Len(inbox') : Mine(inbox'[n]) => n = c - 1
    BY <1>1, <2>1, <2>2
  <2>5. OnlyAt(c - 1, "ota_complete")'
    BY <2>1, <2>3, <2>4 DEF OnlyAt, Closes, Mine
  <2> QED
    BY <1>1, <2>1, <2>2, <2>3, <2>5 DEF OneSent
<1> QED
  BY <1>2, <1>3, <1>4

-----------------------------------------------------------------------------
\* With no request of the worker in the queue, none comes but from the menu.
NoRequest == \A k \in 1..Len(inbox) : ~Opens(inbox[k])

LEMMA NoRequestTake ==
    ASSUME inbox \in Seq(Message), Take
    PROVE  /\ NoRequest => NoRequest'
           /\ worker.fresh /\ Announced => NoRequest'
<1>1. /\ Len(inbox') = Len(inbox) - 1 /\ Len(inbox) \in Nat \ {0}
      /\ \A k \in 1..Len(inbox') : inbox'[k] = inbox[k + 1] /\ k + 1 \in 1..Len(inbox) /\ k + 1 # 1
  BY DEF Take
<1> QED
  BY <1>1 DEF NoRequest, Announced, Opens

LEMMA AnnouncedStep == IInv /\ Announced /\ [Next]_vars => Announced'
<1> SUFFICES ASSUME IInv, Announced, [Next]_vars, worker'.fresh PROVE Announced'
  BY DEF Announced
<1> QueueOK /\ inbox \in Seq(Message) /\ Len(inbox) \in Nat
  BY DEF IInv, QueueOK
<1>n. NoRequest' => Announced'
  BY DEF Announced, NoRequest
<1>k. ASSUME UNCHANGED <<inbox, out>>, pc' = pc \/ pc' = "dead", worker.fresh,
             /\ worker'.left = worker.left
             /\ worker.at \in {"open", "reply", "failed"} =>
                    worker'.at \in {"open", "reply", "failed"}
      PROVE  Announced'
  BY <1>k DEF Announced, OnlyAt, Mine
<1>1. CASE Host \/ UNCHANGED vars
  <2>1. UNCHANGED <<worker, out, pc>>
    BY <1>1 DEF Host, Connect, Disconnect, HostRequests, HostSendsData, HostSends, vars, world
  <2>2. CASE UNCHANGED inbox
    BY <1>k, <2>1, <2>2
  <2>3. CASE ~UNCHANGED inbox
    <3>1. PICK e \in Message : inbox' = Append(inbox, e)
      BY <1>1, <2>3, OtherStep
    <3>2. ~Mine(e)
      <4>1. PICK h \in Hosts : \E what, arg : Post(h, what, arg)
        BY <1>1, <2>3 DEF Host, Connect, Disconnect, HostRequests, HostSendsData, HostSends, vars
      <4>2. inbox'[Len(inbox) + 1].from = h
        BY <4>1 DEF Post
      <4>3. inbox'[Len(inbox) + 1] = e
        BY <3>1
      <4> QED
        BY <4>2, <4>3 DEF Mine
    <3>3. \A k \in 1..Len(inbox) : OnlyAt(k, "ota") => OnlyAt(k, "ota")'
      BY <3>1, <3>2, OthersPost
    <3>4. \A k \in 1..Len(inbox') : Opens(inbox'[k]) => k \in 1..Len(inbox) /\ inbox'[k] = inbox[k]
      BY <3>1, <3>2, OthersPost
    <3> QED
      BY <2>1, <3>3, <3>4 DEF Announced
  <2> QED
    BY <2>2, <2>3
<1>2. CASE StartUsbUpload
  <2>1. CASE UNCHANGED <<inbox, worker>>
    <3>1. UNCHANGED out /\ pc' \in {pc, "dead"}
      BY <1>2 DEF StartUsbUpload
    <3> QED
      BY <1>k, <2>1, <3>1
  <2>2. CASE ~UNCHANGED <<inbox, worker>>
    <3>1. PICK o \in Offers, f \in Files :
            /\ o.parts = Parts /\ Post("internal", "ota", o)
            /\ worker' = [at |-> "open", left |-> Parts, file |-> f,
                          fresh |-> inbox = <<>> /\ out = <<>>]
      BY <1>2, <2>2, SMT DEF StartUsbUpload
    <3>2. inbox = <<>> /\ out = <<>>
      BY <3>1, Zenon
    <3>3. Len(inbox') = 1 /\ inbox'[1] = [from |-> "internal", what |-> "ota", arg |-> o]
      BY <3>1, <3>2 DEF Post
    <3>4. pc' = "home" /\ out' = <<>>
      BY <1>2, <2>2, <3>1, <3>2 DEF StartUsbUpload, Post
    <3>5. worker'.at = "open" /\ worker'.left = Parts
      BY <3>1
    <3>6. ASSUME NEW k \in 1..Len(inbox') PROVE k = 1
      BY <3>3
    <3>7. OnlyAt(1, "ota")'
      BY <3>3, <3>6 DEF OnlyAt, Mine
    <3> QED
      BY <3>1, <3>3, <3>4, <3>5, <3>6, <3>7 DEF Announced
  <2> QED
    BY <2>1, <2>2
<1>3. CASE \/ AcceptUpload \/ RefuseMessage \/ RejectData \/ AcceptData
           \/ Install \/ RejectComplete \/ NotComplete
  <2>1. Take /\ UNCHANGED worker
    BY <1>3 DEF AcceptUpload, RefuseMessage, RejectData, AcceptData, Install,
                RejectComplete, NotComplete, world
  <2> QED
    BY <1>n, <2>1, NoRequestTake
<1>4. CASE \/ LostAtData \/ WriteUnit \/ PatchFails \/ LostAtComplete
           \/ Confirm \/ Decline \/ Leave
  <2>1. UNCHANGED <<inbox, worker>> /\ pc \notin {"home", "dead"}
    BY <1>4 DEF LostAtData, WriteUnit, PatchFails, LostAtComplete, Confirm,
                Decline, Leave, world
  <2>2. NoRequest
    BY <2>1 DEF Announced, NoRequest
  <2> QED
    BY <1>n, <2>1, <2>2 DEF NoRequest
<1>5. CASE Restart
  <2>1. inbox' = <<>>
    BY <1>5 DEF Restart
  <2>2. NoRequest'
    BY <2>1 DEF NoRequest
  <2> QED
    BY <1>n, <2>2
<1>6. CASE WorkerOpens \/ WorkerReadsReply \/ WorkerReadFails \/ WorkerReadsLast \/ WorkerEnds
  <2>1. UNCHANGED <<inbox, pc>> /\ worker'.fresh = worker.fresh /\ worker'.left = worker.left
    BY <1>6 DEF WorkerOpens, WorkerReadsReply, WorkerReadFails, WorkerReadsLast, WorkerEnds,
                WorkerGo, QueueOK, WorkerSet
  <2>2. CASE WorkerOpens
    <3>1. worker'.at \in {"reply", "failed"} /\ UNCHANGED out
      BY <2>2 DEF WorkerOpens, WorkerGo, QueueOK, WorkerSet
    <3> QED
      BY <1>k, <2>1, <3>1
  <2>3. CASE ~WorkerOpens
    <3>1. (worker.at = "reply" /\ out # <<>>) \/ worker.at \in {"send", "last", "end"}
      BY <1>6, <2>3 DEF WorkerReadsReply, WorkerReadFails, WorkerReadsLast, WorkerEnds
    <3>2. NoRequest
      BY <2>1, <3>1 DEF Announced, NoRequest
    <3> QED
      BY <1>n, <2>1, <3>2 DEF NoRequest
  <2> QED
    BY <2>2, <2>3
<1>7. CASE WorkerSends \/ WorkerCompletes
  <2>1. worker.at \in {"send", "finish"} /\ worker'.fresh = worker.fresh
    BY <1>7 DEF WorkerSends, WorkerCompletes, WorkerGo, QueueOK, WorkerSet
  <2>2. NoRequest
    BY <2>1 DEF Announced, NoRequest
  <2>3. PICK what, arg : Post("internal", what, arg) /\ what \in {"ota_data", "ota_complete"}
    BY <1>7 DEF WorkerSends, WorkerCompletes
  <2>4. /\ Len(inbox') = Len(inbox) + 1
        /\ \A k \in 1..Len(inbox) : inbox'[k] = inbox[k]
        /\ inbox'[Len(inbox) + 1].what = what
    BY <2>3 DEF Post
  <2>5. NoRequest'
    BY <2>2, <2>3, <2>4 DEF NoRequest, Opens
  <2> QED
    BY <1>n, <2>5
<1> QED
  BY <1>1, <1>2, <1>3, <1>4, <1>5, <1>6, <1>7 DEF Next, User, Main, Worker

-----------------------------------------------------------------------------
\* Steps of the others move nothing the worker has sent.
LEMMA InTurnKept ==
    ASSUME InTurn, UNCHANGED <<pc, kind, source, offer, got, out, worker>>,
           NoneSent => NoneSent', \A w : OneSent(w) => OneSent(w)',
           DataThenClose => DataThenClose'
    PROVE  InTurn'
BY DEF InTurn, Ours, Uploading, Packet, PacketThenClose, OnItsWay, Writing, Answered,
       NextPlease, SentParts

\* The request is answered, and the worker has sent nothing else.
LEMMA InTurnOpens ==
    ASSUME QueueOK, Announced, AcceptUpload, worker.fresh, Ours'
    PROVE  InTurn'
<1> DEFINE m == Head(inbox)
<1>1. /\ inbox \in Seq(Message) /\ Take /\ pc = "home"
      /\ m = inbox[1] /\ 1 \in 1..Len(inbox) /\ m \in Message
  BY TakeType DEF QueueOK, AcceptUpload, Take
<1>2. /\ pc' = "data" /\ offer' = m.arg /\ got' = <<>> /\ source' = m.from
      /\ kind' = (IF m.what = "ota" THEN "full" ELSE "delta")
      /\ UNCHANGED worker /\ m.what \in {"ota", "ota_delta"}
      /\ Reply(m.from, TRUE)
  BY DEF AcceptUpload
<1>3. m.from = "internal"
  BY <1>2 DEF Ours
<1>4. Opens(m)
  BY <1>2, <1>3 DEF Opens
<1>5. /\ OnlyAt(1, "ota") /\ inbox[1].arg.parts = Parts /\ out = <<>>
      /\ worker.at \in {"open", "reply", "failed"} /\ worker.left = Parts
  BY <1>1, <1>4 DEF Announced
<1>6. OneSent("ota") /\ Mine(m)
  BY <1>1, <1>3, <1>5 DEF OneSent, Mine
<1>7. m.what = "ota" /\ NoneSent'
  BY <1>1, <1>6, MainTakes
<1>8. out' = <<TRUE>>
  <2>1. out' = Append(<<>>, TRUE)
    BY <1>2, <1>3, <1>5 DEF Reply
  <2>2. Append(<<>>, TRUE) = <<TRUE>>
    OBVIOUS
  <2> QED
    BY <2>1, <2>2
<1>9. kind' = "full" /\ offer'.parts = Parts
  BY <1>1, <1>2, <1>5, <1>7
<1>10. Len(got') = 0 /\ Parts # 0
  BY <1>2
<1>11. Answered(0)'
  BY <1>2, <1>8, <1>10 DEF Answered
<1>12. SentParts' = 0
  BY <1>2, <1>5 DEF SentParts
<1>13. Packet(SentParts)'
  BY <1>7, <1>11, <1>12 DEF Packet
<1> QED
  BY <1>2, <1>5, <1>7, <1>9, <1>11, <1>13 DEF InTurn

\* A packet is read: it was the worker's, and the first of its messages.
LEMMA InTurnReads ==
    ASSUME QueueOK, UploadOK, InTurn, AcceptData, worker.fresh, Ours'
    PROVE  InTurn'
<1> DEFINE m == Head(inbox)
<1>1. /\ inbox \in Seq(Message) /\ Take /\ pc = "data" /\ m.what = "ota_data"
      /\ m.from = source /\ pc' = "write"
      /\ UNCHANGED <<kind, source, offer, worker>>
      /\ kind = "full" => UNCHANGED out
  BY DEF QueueOK, AcceptData, Refused, world
<1>2. Ours /\ Mine(m)
  BY <1>1 DEF Ours, Uploading, Mine
<1>3. kind = "full" /\ UNCHANGED out /\ offer.parts = Parts
  BY <1>1, <1>2 DEF InTurn
<1>4. Len(got') = Len(got) + 1
  BY Received
<1>5. ~NoneSent /\ ~OneSent("ota_complete")
  BY <1>1, <1>2, MainTakes
<1>6. (OneSent("ota_data") => NoneSent') /\ (DataThenClose => OneSent("ota_complete")')
  BY <1>1, <1>2, MainTakes
<1>7. \A n \in Nat : OnItsWay(n) => Writing(n)'
  BY <1>1, <1>3, <1>4 DEF OnItsWay, Writing
<1>8. SentParts \in Nat /\ UNCHANGED SentParts /\ Parts \in Nat
  BY <1>1 DEF SentParts, QueueOK, WorkerSet
<1>9. Packet(SentParts) => Packet(SentParts)'
  BY <1>5, <1>6, <1>7, <1>8 DEF Packet, Writing
<1>10. Packet(Parts) => Packet(Parts)'
  BY <1>5, <1>6, <1>7, <1>8 DEF Packet, Writing
<1>11. PacketThenClose(Parts) => PacketThenClose(Parts)'
  BY <1>5, <1>6, <1>7, <1>8 DEF PacketThenClose, Writing
<1> QED
  BY <1>1, <1>2, <1>3, <1>5, <1>9, <1>10, <1>11 DEF InTurn

\* The packet is written, or the user asked first; then it is acknowledged.
LEMMA InTurnWrites ==
    ASSUME InTurn, WriteUnit \/ Confirm \/ Decline, worker.fresh, Ours'
    PROVE  InTurn'
<1>1. /\ pc \in {"write", "confirm"} /\ UNCHANGED <<inbox, worker, kind, source, offer, got>>
  BY DEF WriteUnit, Confirm, Decline, world
<1>2. Ours
  BY <1>1 DEF Ours, Uploading
<1>3. kind = "full" /\ offer.parts = Parts /\ source = "internal"
  BY <1>2 DEF InTurn, Ours
<1>4. \A st : ~Trouble(st)
  BY <1>3 DEF Trouble, UploadFails, EndWith, Ours, Uploading
<1>5. \/ pc' \in {"write", "confirm"} /\ UNCHANGED out
      \/ \E u : UnitDone(u)
  <2>1. CASE WriteUnit
    BY <1>4, <2>1 DEF WriteUnit, Validate, Ask
  <2>2. CASE Confirm
    BY <1>3, <2>2 DEF Confirm
  <2>3. CASE Decline
    BY <1>4, <2>3 DEF Decline
  <2> QED
    BY <2>1, <2>2, <2>3
<1>6. ASSUME NEW u, UnitDone(u), NEW n, Writing(n) PROVE Answered(n)'
  <2>1. out = <<>> /\ Len(got) = n
    BY <1>6 DEF Writing
  <2>2. out' = <<TRUE>>
    <3>1. out' = Append(<<>>, TRUE)
      BY <1>3, <1>6, <2>1 DEF UnitDone, Reply
    <3>2. Append(<<>>, TRUE) = <<TRUE>>
      OBVIOUS
    <3> QED
      BY <3>1, <3>2
  <2>3. NextUnit(status, slot')
    BY <1>6 DEF UnitDone
  <2>4. Finished <=> n = Parts
    BY <1>3, <2>1 DEF Finished
  <2>5. pc' = IF n = Parts THEN "complete" ELSE "data"
    BY <2>3, <2>4 DEF NextUnit, Ours, Uploading
  <2> QED
    BY <1>1, <2>1, <2>2, <2>5 DEF Answered
<1>7. \A n : Writing(n) => Writing(n)' \/ Answered(n)'
  <2> SUFFICES ASSUME NEW n, Writing(n) PROVE Writing(n)' \/ Answered(n)'
    OBVIOUS
  <2>1. CASE pc' \in {"write", "confirm"} /\ UNCHANGED out
    BY <1>1, <2>1 DEF Writing
  <2> QED
    BY <1>5, <1>6, <2>1
<1>8. \A n : ~Answered(n) /\ ~OnItsWay(n) /\ ~NextPlease(n)
  BY <1>1 DEF Answered, OnItsWay, NextPlease
<1>9. (NoneSent => NoneSent') /\ \A w : OneSent(w) => OneSent(w)'
  BY <1>1 DEF NoneSent, OneSent, OnlyAt
<1>10. SentParts' = SentParts
  BY <1>1 DEF SentParts
<1>11. \A n : Packet(n) => Packet(n)'
  BY <1>7, <1>8, <1>9 DEF Packet
<1>12. \A n : PacketThenClose(n) => PacketThenClose(n)'
  BY <1>7, <1>8, <1>9 DEF PacketThenClose
<1> QED
  BY <1>1, <1>2, <1>3, <1>8, <1>10, <1>11, <1>12 DEF InTurn

\* The worker reads its replies, and sends.
LEMMA InTurnWorks ==
    ASSUME QueueOK, InTurn, Worker, worker.fresh, Ours'
    PROVE  InTurn'
<1>1. /\ UNCHANGED <<pc, kind, source, offer, got>> /\ worker \in WorkerSet
      /\ inbox \in Seq(Message)
  BY DEF QueueOK, Worker, WorkerOpens, WorkerReadsReply, WorkerSends, WorkerReadFails,
         WorkerCompletes, WorkerReadsLast, WorkerEnds, upload, joctx
<1>2. Ours
  BY <1>1 DEF Ours, Uploading
<1>3. /\ kind = "full" /\ offer.parts = Parts /\ kind' = "full" /\ offer'.parts = Parts
      /\ worker.left \in 0..Parts /\ Parts \in Nat \ {0}
  BY <1>1, <1>2 DEF InTurn, WorkerSet
<1>q. UNCHANGED inbox => /\ NoneSent' <=> NoneSent
                         /\ \A w : OneSent(w)' <=> OneSent(w)
  BY DEF NoneSent, OneSent, OnlyAt
<1>r. out = <<TRUE>> => Tail(out) = <<>> /\ Head(out)
  <2>1. Tail(<<TRUE>>) = <<>>
    OBVIOUS
  <2>2. Head(<<TRUE>>) = TRUE
    BY FirstOfOne, Zenon
  <2> QED
    BY <2>1, <2>2, Zenon
<1>4. CASE WorkerOpens
  <2>1. /\ worker.at = "open" /\ worker'.at \in {"reply", "failed"} /\ worker'.left = worker.left
        /\ UNCHANGED <<inbox, out>>
    BY <1>1, <1>4 DEF WorkerOpens, WorkerGo, WorkerSet
  <2>2. worker.left = Parts /\ Answered(0) /\ NoneSent
    BY <1>2, <2>1 DEF InTurn
  <2>3. Answered(0)' /\ NoneSent'
    BY <1>1, <1>q, <2>1, <2>2 DEF Answered
  <2>4. SentParts' = 0
    BY <2>1, <2>2 DEF SentParts
  <2>5. Packet(SentParts)'
    BY <2>3, <2>4 DEF Packet
  <2> QED
    BY <1>3, <2>1, <2>2, <2>3, <2>5 DEF InTurn
<1>5. CASE WorkerReadsReply
  <2>1. /\ worker.at = "reply" /\ out # <<>> /\ out' = Tail(out) /\ worker'.left = worker.left
        /\ worker'.at = IF Head(out) THEN "send" ELSE "end"
        /\ UNCHANGED inbox /\ worker.left # 0
    BY <1>1, <1>5 DEF WorkerReadsReply, WorkerGo, WorkerSet, QueueOK
  <2>2. Packet(SentParts)
    BY <1>2, <2>1 DEF InTurn
  <2>3. Answered(SentParts) /\ NoneSent
    BY <2>1, <2>2 DEF Packet, OnItsWay, Writing
  <2>4. SentParts # Parts /\ SentParts' = SentParts
    <3>1. worker.left # 0 /\ worker'.left = worker.left
      BY <2>1, Zenon
    <3> QED
      BY <1>3, <3>1 DEF SentParts
  <2>5. pc = "data" /\ out = <<TRUE>> /\ Len(got) = SentParts
    BY <2>3, <2>4 DEF Answered
  <2>6. NextPlease(SentParts)' /\ NoneSent' /\ worker'.at = "send"
    BY <1>1, <1>q, <1>r, <2>1, <2>3, <2>4, <2>5 DEF NextPlease
  <2> QED
    BY <1>3, <2>6 DEF InTurn
<1>6. CASE WorkerSends
  <2>1. /\ worker.at = "send" /\ UNCHANGED out /\ worker.left # 0
        /\ Post("internal", "ota_data", <<worker.file, Parts - worker.left + 1>>)
        /\ worker'.left = worker.left - 1
        /\ worker'.at = IF worker.left = 1 THEN "finish" ELSE "reply"
    BY <1>1, <1>6 DEF WorkerSends, WorkerSet, QueueOK
  <2>2. NextPlease(SentParts) /\ NoneSent
    BY <1>2, <2>1 DEF InTurn
  <2>3. OneSent("ota_data")'
    <3> DEFINE p == <<worker.file, Parts - worker.left + 1>>
               e == [from |-> "internal", what |-> "ota_data", arg |-> p]
    <3>1. worker.file \in Images /\ Parts - worker.left + 1 \in 1..Parts
      BY <1>1, <2>1 DEF WorkerSet, QueueOK
    <3>2. p \in Packets
      BY <3>1 DEF Packets
    <3> HIDE DEF p
    <3>3. e \in Message
      BY <3>2 DEF Message, Chunks, Sources
    <3>4. inbox' = Append(inbox, e) /\ Mine(e) /\ e.what = "ota_data"
      BY <2>1 DEF Post, Mine, p
    <3> HIDE DEF e
    <3>5. PICK d \in Message : inbox' = Append(inbox, d) /\ Mine(d) /\ d.what = "ota_data"
      BY <3>3, <3>4
    <3> QED
      BY <1>1, <2>2, <3>5, WorkerPosts
  <2>4. SentParts' = SentParts + 1 /\ SentParts' \in Nat
    BY <1>3, <2>1 DEF SentParts
  <2>5. OnItsWay(SentParts)'
    BY <1>1, <2>1, <2>2, <2>4 DEF OnItsWay, NextPlease
  <2>6. Packet(SentParts)'
    BY <2>3, <2>5 DEF Packet
  <2>7. CASE worker.left = 1
    <3>1. worker'.at = "finish" /\ worker'.left = 0 /\ SentParts' = Parts
      BY <1>3, <2>1, <2>7 DEF SentParts
    <3>2. Packet(Parts)'
      BY <2>6, <3>1
    <3> QED
      BY <1>3, <3>1, <3>2 DEF InTurn
  <2>8. CASE worker.left # 1
    BY <1>3, <2>1, <2>6, <2>8 DEF InTurn
  <2> QED
    BY <2>7, <2>8
<1>7. CASE WorkerReadFails
  <2>1. /\ worker.at = "send" /\ worker'.at = "finish" /\ worker'.left = worker.left
        /\ UNCHANGED <<inbox, out>> /\ worker.left # 0
    BY <1>1, <1>7 DEF WorkerReadFails, WorkerGo, WorkerSet, QueueOK
  <2>2. NextPlease(SentParts) /\ NoneSent
    BY <1>2, <2>1 DEF InTurn
  <2>3. NextPlease(SentParts)' /\ NoneSent'
    BY <1>1, <1>q, <2>1, <2>2 DEF NextPlease, SentParts
  <2> QED
    BY <1>3, <2>1, <2>3 DEF InTurn
<1>8. CASE WorkerCompletes
  <2>1. /\ worker.at = "finish" /\ worker'.at = "last" /\ worker'.left = worker.left
        /\ UNCHANGED out /\ Post("internal", "ota_complete", None)
    BY <1>1, <1>8 DEF WorkerCompletes, WorkerGo, WorkerSet
  <2>2. PICK e \in Message : inbox' = Append(inbox, e) /\ Mine(e) /\ Closes(e)
    BY <2>1 DEF Post, Message, Others, Sources, Closes, Mine
  <2>3. NoneSent => OneSent("ota_complete")'
    BY <1>1, <2>2, WorkerPosts DEF Closes
  <2>4. OneSent("ota_data") => DataThenClose'
    BY <1>1, <2>2, WorkerPosts
  <2>5. SentParts' = SentParts
    BY <2>1 DEF SentParts
  <2>6. CASE worker.left = 0
    <3>1. Packet(Parts)
      BY <1>2, <2>1, <2>6 DEF InTurn
    <3>2. PacketThenClose(Parts)'
      BY <1>1, <2>1, <2>3, <2>4, <3>1
         DEF Packet, PacketThenClose, OnItsWay, Writing, Answered
    <3> QED
      BY <1>3, <2>1, <2>6, <3>2 DEF InTurn
  <2>7. CASE worker.left # 0
    <3>1. NextPlease(SentParts) /\ NoneSent
      BY <1>2, <2>1, <2>7 DEF InTurn
    <3>2. NextPlease(SentParts)' /\ OneSent("ota_complete")'
      BY <1>1, <2>1, <2>3, <2>5, <3>1 DEF NextPlease
    <3> QED
      BY <1>3, <2>1, <2>7, <3>2 DEF InTurn
  <2> QED
    BY <2>6, <2>7
<1>9. CASE WorkerReadsLast
  <2>1. /\ worker.at = "last" /\ worker'.at = "end" /\ out # <<>> /\ out' = Tail(out)
        /\ UNCHANGED inbox
    BY <1>1, <1>9 DEF WorkerReadsLast, WorkerGo, WorkerSet
  <2>2. worker.left = 0 /\ PacketThenClose(Parts)
    BY <1>2, <2>1 DEF InTurn, NextPlease
  <2>3. Answered(Parts) /\ OneSent("ota_complete")
    BY <2>1, <2>2 DEF PacketThenClose, OnItsWay, Writing
  <2>4. pc = "complete" /\ out' = <<>>
    BY <1>r, <2>1, <2>3 DEF Answered
  <2> QED
    BY <1>1, <1>3, <1>q, <2>1, <2>3, <2>4 DEF InTurn
<1>10. CASE WorkerEnds
  <2>1. worker.at = "end" /\ worker'.at = "gone" /\ UNCHANGED <<inbox, out>>
    BY <1>1, <1>10 DEF WorkerEnds, WorkerGo, WorkerSet
  <2> QED
    BY <1>1, <1>2, <1>3, <1>q, <2>1 DEF InTurn
<1> QED
  BY <1>4, <1>5, <1>6, <1>7, <1>8, <1>9, <1>10 DEF Worker

LEMMA InTurnStep == IInv /\ Announced /\ InTurn /\ [Next]_vars => InTurn'
<1> SUFFICES ASSUME IInv, Announced, InTurn, [Next]_vars, worker'.fresh, Ours' PROVE InTurn'
  BY DEF InTurn
<1> QueueOK /\ UploadOK /\ inbox \in Seq(Message) /\ Len(inbox) \in Nat /\ worker \in WorkerSet
  BY DEF IInv, QueueOK
<1>e. \A st : EndWith(st) => ~Ours'
  BY DEF EndWith, Ours, Uploading
<1>f. \A st : UploadFails(st) => ~Ours'
  BY <1>e DEF UploadFails
<1>k. UNCHANGED inbox => /\ NoneSent => NoneSent'
                         /\ \A w : OneSent(w) => OneSent(w)'
                         /\ DataThenClose => DataThenClose'
  BY DEF NoneSent, OneSent, OnlyAt, DataThenClose
<1>1. CASE Host \/ UNCHANGED vars
  <2>1. UNCHANGED <<pc, kind, source, offer, got, out, worker>>
    BY <1>1 DEF Host, Connect, Disconnect, HostRequests, HostSendsData, HostSends, vars,
                world, upload, joctx
  <2>2. CASE UNCHANGED inbox
    BY <1>k, <2>1, <2>2, InTurnKept
  <2>3. CASE ~UNCHANGED inbox
    <3>1. PICK e \in Message : inbox' = Append(inbox, e)
      BY <1>1, <2>3, OtherStep
    <3>2. ~Mine(e)
      <4>1. PICK h \in Hosts : \E what, arg : Post(h, what, arg)
        BY <1>1, <2>3 DEF Host, Connect, Disconnect, HostRequests, HostSendsData, HostSends, vars
      <4>2. inbox'[Len(inbox) + 1].from = h
        BY <4>1 DEF Post
      <4>3. inbox'[Len(inbox) + 1] = e
        BY <3>1
      <4> QED
        BY <4>2, <4>3 DEF Mine
    <3>3. /\ NoneSent => NoneSent'
          /\ \A w : OneSent(w) => OneSent(w)'
          /\ DataThenClose => DataThenClose'
      BY <3>1, <3>2, OthersPost
    <3> QED
      BY <2>1, <3>3, InTurnKept
  <2> QED
    BY <2>2, <2>3
<1>2. CASE StartUsbUpload \/ Leave \/ Restart
  BY <1>2, NotOurs
<1>3. CASE AcceptUpload
  <2>1. UNCHANGED worker
    BY <1>3 DEF AcceptUpload
  <2> QED
    BY <1>3, <2>1, InTurnOpens
<1>4. CASE AcceptData
  <2>1. UNCHANGED worker
    BY <1>4 DEF AcceptData, world
  <2> QED
    BY <1>4, <2>1, InTurnReads
<1>5. CASE WriteUnit \/ Confirm \/ Decline
  <2>1. UNCHANGED worker
    BY <1>5 DEF WriteUnit, Confirm, Decline, world
  <2> QED
    BY <1>5, <2>1, InTurnWrites
<1>6. CASE RefuseMessage
  BY <1>6 DEF RefuseMessage, Ours, Uploading
<1>7. CASE RejectData \/ PatchFails
  BY <1>7, <1>f DEF RejectData, PatchFails
<1>8. CASE LostAtData
  <2>1. UNCHANGED <<kind, source, offer, got, worker, inbox>> /\ pc = "data"
    BY <1>8 DEF LostAtData, joctx, world
  <2>2. Ours
    BY <2>1 DEF Ours, Uploading
  <2>3. kind = "full"
    BY <2>1, <2>2 DEF InTurn
  <2>4. UNCHANGED <<pc, out>>
    BY <1>8, <2>3 DEF LostAtData
  <2> QED
    BY <1>k, <2>1, <2>4, InTurnKept
<1>9. CASE Install \/ RejectComplete \/ NotComplete \/ LostAtComplete
  BY <1>e, <1>9 DEF Install, RejectComplete, NotComplete, LostAtComplete
<1>10. CASE Worker
  <2>1. worker'.fresh = worker.fresh
    <3>1. CASE WorkerSends
      <4> DEFINE next == IF worker.left = 1 THEN "finish" ELSE "reply"
      <4>1. worker' = [worker EXCEPT !.left = @ - 1, !.at = next]
        BY <3>1 DEF WorkerSends
      <4> HIDE DEF next
      <4> QED
        BY <4>1 DEF WorkerSet
    <3>2. CASE ~WorkerSends
      <4>1. PICK where : WorkerGo(where)
        BY <1>10, <3>2, Zenon DEF Worker, WorkerOpens, WorkerReadsReply, WorkerReadFails,
                                  WorkerCompletes, WorkerReadsLast, WorkerEnds
      <4> QED
        BY <4>1 DEF WorkerGo, WorkerSet
    <3> QED
      BY <3>1, <3>2
  <2> QED
    BY <1>10, <2>1, InTurnWorks
<1> QED
  BY <1>1, <1>2, <1>3, <1>4, <1>5, <1>6, <1>7, <1>8, <1>9, <1>10 DEF Next, User, Main

\* The main task has a message to read and a place for its reply, or a unit to write.
MainCan ==
    \/ pc = "data" /\ inbox # <<>> /\ Len(out) < OutSize
    \/ pc = "write" /\ Len(out) < OutSize
    \/ pc = "complete" /\ inbox # <<>> /\ (Len(out) < OutSize \/ ~Mine(Head(inbox)))

\* The worker has a reply to read, a place for its message, or is about to leave.
WorkerCan ==
    \/ worker.at \in {"reply", "last"} /\ out # <<>>
    \/ worker.at \in {"send", "finish"} /\ Room
    \/ worker.at = "end"

\* Neither waits for the other.
NoStandstill == FromStick => MainCan \/ WorkerCan

LEMMA SentIsThere ==
    ASSUME inbox \in Seq(Message), (\E w : OneSent(w)) \/ DataThenClose
    PROVE  inbox # <<>>
<1>1. 1..Len(inbox) # {}
  BY DEF OneSent, DataThenClose
<1>2. inbox = <<>> => Len(inbox) = 0
  OBVIOUS
<1> QED
  BY <1>1, <1>2

LEMMA SomebodyCan == IInv /\ InTurn => NoStandstill
<1> SUFFICES ASSUME QueueOK, InTurn, FromStick PROVE MainCan \/ WorkerCan
  BY DEF IInv, NoStandstill
<1>1. /\ inbox \in Seq(Message) /\ worker \in WorkerSet /\ worker.fresh /\ Ours
      /\ pc \in {"data", "write", "complete"} /\ worker.at \notin {"open", "failed"}
  BY DEF QueueOK, FromStick, Ours, Uploading
<1>2. out = <<>> => Len(out) < OutSize
  OBVIOUS
<1>3. Room \/ inbox # <<>>
  BY DEF Room
<1>4. NoneSent /\ inbox # <<>> => ~Mine(Head(inbox))
  <2> SUFFICES ASSUME NoneSent, inbox # <<>> PROVE ~Mine(Head(inbox))
    OBVIOUS
  <2>1. 1 \in 1..Len(inbox) /\ Head(inbox) = inbox[1]
    BY <1>1
  <2> QED
    BY <2>1 DEF NoneSent
<1>5. out = <<TRUE>> => out # <<>>
  OBVIOUS
<1>6. \A n : OnItsWay(n) /\ inbox # <<>> => MainCan
  BY <1>2 DEF OnItsWay, MainCan
<1>7. \A n : Writing(n) => MainCan
  BY <1>1, <1>2 DEF Writing, MainCan
<1>8. \A n : NextPlease(n) /\ inbox # <<>> => MainCan
  BY <1>2 DEF NextPlease, MainCan
<1>9. Answered(Parts) /\ NoneSent /\ inbox # <<>> => MainCan
  BY <1>4 DEF Answered, MainCan
<1>10. CASE worker.at = "reply"
  <2>1. Packet(SentParts)
    BY <1>1, <1>10 DEF InTurn
  <2>2. CASE OnItsWay(SentParts) /\ OneSent("ota_data")
    BY <1>1, <1>6, <2>2, SentIsThere
  <2>3. CASE Answered(SentParts)
    BY <1>5, <1>10, <2>3 DEF Answered, WorkerCan
  <2> QED
    BY <1>7, <2>1, <2>2, <2>3 DEF Packet
<1>11. CASE worker.at = "send"
  <2>1. NextPlease(SentParts)
    BY <1>1, <1>11 DEF InTurn
  <2> QED
    BY <1>3, <1>8, <1>11, <2>1 DEF WorkerCan
<1>12. CASE worker.at = "finish" /\ worker.left = 0
  <2>1. Packet(Parts)
    BY <1>1, <1>12 DEF InTurn
  <2>2. CASE OnItsWay(Parts) /\ OneSent("ota_data")
    BY <1>1, <1>6, <2>2, SentIsThere
  <2>3. CASE Answered(Parts) /\ NoneSent
    BY <1>3, <1>9, <1>12, <2>3 DEF WorkerCan
  <2> QED
    BY <1>7, <2>1, <2>2, <2>3 DEF Packet
<1>13. CASE worker.at = "finish" /\ worker.left # 0
  <2>1. NextPlease(SentParts)
    BY <1>1, <1>13 DEF InTurn
  <2> QED
    BY <1>3, <1>8, <1>13, <2>1 DEF WorkerCan
<1>14. CASE worker.at = "last" /\ worker.left = 0
  <2>1. PacketThenClose(Parts)
    BY <1>1, <1>14 DEF InTurn
  <2>2. CASE OnItsWay(Parts) /\ DataThenClose
    BY <1>1, <1>6, <2>2, SentIsThere
  <2>3. CASE Answered(Parts)
    BY <1>5, <1>14, <2>3 DEF Answered, WorkerCan
  <2> QED
    BY <1>7, <2>1, <2>2, <2>3 DEF PacketThenClose
<1>15. CASE worker.at = "last" /\ worker.left # 0
  <2>1. NextPlease(SentParts) /\ OneSent("ota_complete")
    BY <1>1, <1>15 DEF InTurn
  <2> QED
    BY <1>1, <1>8, <2>1, SentIsThere
<1>16. CASE worker.at = "end"
  BY <1>16 DEF WorkerCan
<1>17. CASE worker.at = "gone"
  <2>1. pc = "complete" /\ out = <<>> /\ OneSent("ota_complete")
    BY <1>1, <1>17 DEF InTurn
  <2> QED
    BY <1>1, <1>2, <2>1, SentIsThere DEF MainCan
<1> QED
  BY <1>1, <1>10, <1>11, <1>12, <1>13, <1>14, <1>15, <1>16, <1>17 DEF WorkerSet

\* While an upload from a stick waits for anything but the user, one of the two tasks
\* has something to do: a reply is never awaited that nobody will send, nor a place in a
\* queue that nobody will empty, whatever apps post in between and wherever the stick is
\* pulled out.
THEOREM NobodyStandsStill == Spec => []NoStandstill
<1>1. Init => Announced /\ InTurn
  BY DEF Init, NoWorker, Announced, InTurn
<1>2. IInv /\ Announced /\ InTurn /\ [Next]_vars => (Announced /\ InTurn)'
  BY AnnouncedStep, InTurnStep
<1>3. IInv /\ InTurn => NoStandstill
  BY SomebodyCan
<1> QED
  BY <1>1, <1>2, <1>3, Invariance, PTL DEF Spec

-----------------------------------------------------------------------------
(* Such an upload ends                                                       *)

\* How far the worker is from its end.
Stage ==
    CASE worker.at = "reply" -> 5 [] worker.at = "send" -> 4 [] worker.at = "finish" -> 3
      [] worker.at = "last" -> 2 [] worker.at = "end" -> 1 [] OTHER -> 0

\* The steps that the two tasks still have to take together.
ToGo == IF FromStick
        THEN 2 * (Parts - Len(got)) + (IF pc = "write" THEN 1 ELSE 0)
                 + 2 * worker.left + Stage
        ELSE 0

\* No more packets are taken than announced, and an upload from a stick hears of no link.
Heard ==
    /\ Uploading => Len(got) <= offer.parts
    /\ Ours => lastSource \in {"internal", None}

LEMMA HeardStep == IInv /\ Heard /\ [Next]_vars => Heard'
<1> SUFFICES ASSUME IInv, Heard, [Next]_vars PROVE Heard'
  OBVIOUS
<1>t. got \in Seq(Unit) /\ (Uploading => offer \in Offers)
  BY DEF IInv, UploadOK, DataOK
<1>1. CASE AcceptUpload
  <2>1. inbox # <<>> /\ Head(inbox).what \in {"ota", "ota_delta"}
    BY <1>1 DEF AcceptUpload, Take
  <2>2. Head(inbox) \in Message
    BY <2>1 DEF IInv, QueueOK
  <2>3. Head(inbox).arg \in Offers
    BY <2>1, <2>2 DEF Message, Requests, Chunks, Others
  <2>4. source' = lastSource' /\ got' = <<>> /\ offer' = Head(inbox).arg
    BY <1>1 DEF AcceptUpload
  <2>5. offer'.parts \in Nat /\ Len(got') = 0
    BY <2>3, <2>4
  <2> QED
    BY <2>4, <2>5 DEF Heard, Ours
<1>2. CASE Host \/ Worker \/ Confirm \/ Decline \/ WriteUnit \/ PatchFails \/ UNCHANGED vars
  <2>1. UNCHANGED <<source, offer, got, lastSource>> /\ (Uploading' => Uploading)
    <3>1. CASE Host
      BY <3>1 DEF Host, Connect, Disconnect, HostRequests, HostSendsData, HostSends, upload, joctx,
                  Uploading
    <3>2. CASE Worker
      BY <3>2 DEF Worker, WorkerOpens, WorkerReadsReply, WorkerSends, WorkerReadFails,
                  WorkerCompletes, WorkerReadsLast, WorkerEnds, upload, joctx, Uploading
    <3>3. CASE Confirm \/ Decline \/ WriteUnit \/ PatchFails
      BY <3>3 DEF Confirm, Decline, WriteUnit, PatchFails, joctx, Uploading
    <3>4. CASE UNCHANGED vars
      BY <3>4 DEF vars, upload, joctx, Uploading
    <3> QED
      BY <1>2, <3>1, <3>2, <3>3, <3>4
  <2> QED
    BY <2>1 DEF Heard, Ours
<1>3. CASE AcceptData
  <2>1. UNCHANGED <<source, offer, lastSource>>
    BY <1>3 DEF AcceptData
  <2>2. Uploading /\ Len(got) < offer.parts
    <3>1. ~(Len(got) >= offer.parts) /\ Uploading
      BY <1>3 DEF AcceptData, Refused, Uploading
    <3> QED
      BY <1>t, <3>1
  <2>3. Len(got') = Len(got) + 1 /\ Len(got) \in Nat /\ offer.parts \in Nat
    BY <1>3, <1>t, <2>2, Received DEF IInv
  <2> QED
    BY <2>1, <2>2, <2>3 DEF Heard, Ours
<1>4. CASE LostAtData
  <2>1. UNCHANGED <<source, offer, got>> /\ lastSource' = None /\ Uploading
    BY <1>4 DEF LostAtData, joctx, Uploading
  <2> QED
    BY <2>1 DEF Heard, Ours
<1>5. CASE \/ StartUsbUpload \/ Leave \/ Restart \/ RefuseMessage \/ RejectData
           \/ Install \/ RejectComplete \/ NotComplete \/ LostAtComplete
  <2>1. ~Uploading'
    <3>1. CASE StartUsbUpload \/ Leave \/ Restart \/ RefuseMessage
      BY <3>1 DEF StartUsbUpload, Leave, Restart, RefuseMessage, Uploading
    <3>2. CASE RejectData
      BY <3>2 DEF RejectData, UploadFails, EndWith, Uploading
    <3>3. CASE Install \/ RejectComplete \/ NotComplete \/ LostAtComplete
      BY <3>3 DEF Install, RejectComplete, NotComplete, LostAtComplete, EndWith, Uploading
    <3> QED
      BY <1>5, <3>1, <3>2, <3>3
  <2> QED
    BY <2>1 DEF Heard, Ours
<1> QED
  BY <1>1, <1>2, <1>3, <1>4, <1>5 DEF Next, User, Main

\* The upload waits for the user, or is over.
Over == ~(pc \in {"data", "write", "complete"})

UploadInv == IInv /\ InTurn /\ Heard

LEMMA FromStickFacts ==
    ASSUME UploadInv, FromStick
    PROVE  /\ Ours /\ worker.fresh /\ kind = "full" /\ offer.parts = Parts
           /\ Parts \in Nat /\ Len(got) \in 0..Parts /\ got \in Seq(Unit)
           /\ worker \in WorkerSet /\ worker.left \in 0..Parts
           /\ Stage \in 0..5
           /\ inbox \in Seq(Message)
           /\ lastSource \notin Hosts
<1>1. Ours /\ Uploading /\ worker.fresh
  BY DEF FromStick, Ours, Uploading
<1>2. kind = "full" /\ offer.parts = Parts
  BY <1>1 DEF UploadInv, InTurn
<1>3. got \in Seq(Unit) /\ worker \in WorkerSet /\ inbox \in Seq(Message)
  BY DEF UploadInv, IInv, QueueOK, UploadOK, DataOK
<1>4. Len(got) \in 0..Parts
  BY <1>1, <1>2, <1>3 DEF UploadInv, Heard
<1>5. lastSource \notin Hosts
  BY <1>1 DEF UploadInv, Heard
<1>6. worker.left \in 0..Parts
  BY <1>3 DEF WorkerSet
<1> QED
  BY <1>1, <1>2, <1>3, <1>4, <1>5, <1>6 DEF Stage

LEMMA ToGoType == ASSUME UploadInv PROVE ToGo \in Nat
<1>1. CASE FromStick
  BY <1>1, FromStickFacts DEF ToGo
<1>2. CASE ~FromStick
  BY <1>2 DEF ToGo
<1> QED
  BY <1>1, <1>2

\* A message of anybody else changes nothing for those who can go on.
LEMMA HostLeavesIt ==
    ASSUME UploadInv, FromStick, Host \/ UNCHANGED vars
    PROVE  /\ FromStick' /\ ToGo' = ToGo
           /\ MainCan => MainCan'
<1>1. UNCHANGED <<pc, source, got, out, worker>>
  BY DEF Host, Connect, Disconnect, HostRequests, HostSendsData, HostSends, vars, world,
         upload, joctx
<1>2. FromStick' /\ ToGo' = ToGo
  BY <1>1 DEF FromStick, ToGo, Stage
<1>3. inbox # <<>> => inbox' # <<>> /\ Head(inbox') = Head(inbox)
  <2>1. UNCHANGED inbox \/ \E e \in Message : inbox' = Append(inbox, e)
    BY OtherStep DEF UploadInv, IInv
  <2> QED
    BY <2>1, FromStickFacts
<1> QED
  BY <1>1, <1>2, <1>3 DEF MainCan, Mine

\* What a packet that arrives, and one that is written, do to the sum.
LEMMA LessToGo ==
    \A n \in Nat : \A g, l \in 0..n : \A k \in 0..5 :
        LET sum == 2 * (n - g) + 2 * l + k IN
        /\ 2 * (n - (g + 1)) + 1 + 2 * l + k \in Int
        /\ 2 * (n - (g + 1)) + 1 + 2 * l + k < sum
        /\ 2 * (n - g) + 0 + 2 * l + k = sum
        /\ sum \in Int /\ sum < 2 * (n - g) + 1 + 2 * l + k
OBVIOUS

LEMMA MainGetsOn ==
    ASSUME UploadInv, FromStick, Main
    PROVE  Over' \/ (FromStick' /\ ToGo' \in Int /\ ToGo' < ToGo)
<1>1. CASE AcceptData
  <2>1. pc = "data" /\ pc' = "write" /\ UNCHANGED <<source, worker>>
    BY <1>1 DEF AcceptData, world
  <2>2. Len(got') = Len(got) + 1
    BY <1>1, Received DEF UploadInv, IInv
  <2>3. FromStick'
    BY <2>1 DEF FromStick
  <2>4. Stage' = Stage /\ worker'.left = worker.left
    BY <2>1 DEF Stage
  <2>5. ToGo = 2 * (Parts - Len(got)) + 2 * worker.left + Stage
    BY <2>1, FromStickFacts DEF ToGo
  <2>6. ToGo' = 2 * (Parts - (Len(got) + 1)) + 1 + 2 * worker.left + Stage
    BY <2>1, <2>2, <2>3, <2>4 DEF ToGo
  <2>7. Parts \in Nat /\ Len(got) \in 0..Parts /\ worker.left \in 0..Parts /\ Stage \in 0..5
    BY FromStickFacts
  <2>8. ToGo' \in Int /\ ToGo' < ToGo
    BY <2>5, <2>6, <2>7, LessToGo
  <2> QED
    BY <2>3, <2>8
<1>2. CASE WriteUnit
  <2>1. pc = "write" /\ UNCHANGED <<source, got, worker>>
    BY <1>2 DEF WriteUnit, world
  <2>2. pc' # "write"
    BY <1>2, FromStickFacts DEF WriteUnit, Validate, Ask, UnitDone, Trouble, NextUnit, UploadFails,
                                EndWith
  <2>3. CASE ~Over'
    <3>1. FromStick'
      BY <2>1, <2>3 DEF FromStick, Over
    <3>2. Stage' = Stage /\ worker'.left = worker.left /\ Len(got') = Len(got)
      BY <2>1 DEF Stage
    <3>3. ToGo = 2 * (Parts - Len(got)) + 1 + 2 * worker.left + Stage
      BY <2>1 DEF ToGo
    <3>4. ToGo' = 2 * (Parts - Len(got)) + 2 * worker.left + Stage
      <4>1. ToGo' = 2 * (Parts - Len(got')) + 0 + 2 * worker'.left + Stage'
        BY <2>2, <3>1 DEF ToGo
      <4>2. ToGo' = 2 * (Parts - Len(got)) + 0 + 2 * worker.left + Stage
        BY <3>2, <4>1
      <4> QED
        BY <4>2, FromStickFacts, LessToGo
    <3>5. ToGo' \in Int /\ ToGo' < ToGo
      BY <3>3, <3>4, FromStickFacts, LessToGo
    <3> QED
      BY <3>1, <3>5
  <2> QED
    BY <2>3
<1>3. CASE AcceptUpload \/ RefuseMessage
  BY <1>3 DEF AcceptUpload, RefuseMessage, FromStick
<1>4. CASE RejectData
  BY <1>4 DEF RejectData, UploadFails, EndWith, Over
<1>5. CASE LostAtData \/ LostAtComplete
  BY <1>5, FromStickFacts DEF LostAtData, LostAtComplete, LinkLost
<1>6. CASE PatchFails
  BY <1>6, FromStickFacts DEF PatchFails
<1>7. CASE Install \/ RejectComplete \/ NotComplete
  BY <1>7 DEF Install, RejectComplete, NotComplete, EndWith, Over
<1> QED
  BY <1>1, <1>2, <1>3, <1>4, <1>5, <1>6, <1>7 DEF Main

LEMMA WorkerGetsOn ==
    ASSUME UploadInv, FromStick, Worker
    PROVE  /\ FromStick' /\ ToGo' \in Int /\ ToGo' < ToGo
           /\ MainCan => MainCan'
<1>1. UNCHANGED <<pc, source, got>>
  BY DEF Worker, WorkerOpens, WorkerReadsReply, WorkerSends, WorkerReadFails,
         WorkerCompletes, WorkerReadsLast, WorkerEnds, upload, joctx
<1>2. worker \in WorkerSet /\ worker.left \in 0..Parts /\ worker.at # "open"
  BY FromStickFacts DEF FromStick
<1>3. /\ worker'.fresh = worker.fresh
      /\ worker'.at \notin {"open", "failed"}
      /\ \/ worker'.left = worker.left /\ Stage' < Stage
         \/ worker'.left = worker.left - 1 /\ Stage' <= Stage + 1
  <2>1. CASE WorkerSends
    <3> DEFINE next == IF worker.left = 1 THEN "finish" ELSE "reply"
    <3>1. worker' = [worker EXCEPT !.left = @ - 1, !.at = next] /\ worker.at = "send"
      BY <2>1 DEF WorkerSends
    <3>2. next \in {"finish", "reply"}
      OBVIOUS
    <3> HIDE DEF next
    <3>3. worker'.left = worker.left - 1 /\ worker'.at = next /\ worker'.fresh = worker.fresh
      BY <1>2, <3>1 DEF WorkerSet
    <3> QED
      BY <3>1, <3>2, <3>3 DEF Stage
  <2>2. CASE ~WorkerSends
    <3>1. PICK where : /\ WorkerGo(where)
                       /\ \/ worker.at = "reply" /\ where \in {"send", "end"}
                          \/ worker.at = "send" /\ where = "finish"
                          \/ worker.at = "finish" /\ where = "last"
                          \/ worker.at = "last" /\ where = "end"
                          \/ worker.at = "end" /\ where = "gone"
      <4>1. CASE WorkerReadsReply
        BY <4>1 DEF WorkerReadsReply
      <4>2. CASE WorkerReadFails \/ WorkerCompletes \/ WorkerReadsLast \/ WorkerEnds
        BY <4>2 DEF WorkerReadFails, WorkerCompletes, WorkerReadsLast, WorkerEnds
      <4>3. ~WorkerOpens
        BY <1>2 DEF WorkerOpens
      <4> QED
        BY <2>2, <4>1, <4>2, <4>3 DEF Worker
    <3>2. worker'.left = worker.left /\ worker'.at = where /\ worker'.fresh = worker.fresh
      BY <1>2, <3>1 DEF WorkerGo, WorkerSet
    <3> QED
      BY <3>1, <3>2 DEF Stage
  <2> QED
    BY <2>1, <2>2
<1>4. FromStick'
  BY <1>1, <1>3 DEF FromStick
<1>5. Stage \in 0..5 /\ Stage' \in 0..5 /\ Len(got) \in 0..Parts /\ Len(got') = Len(got)
  BY <1>1, FromStickFacts DEF Stage
<1>6. ToGo' \in Int /\ ToGo' < ToGo
  <2> DEFINE rest == 2 * (Parts - Len(got)) + (IF pc = "write" THEN 1 ELSE 0)
  <2>1. rest' = rest /\ rest \in Nat
    BY <1>1, <1>5, FromStickFacts
  <2>2. ToGo = rest + 2 * worker.left + Stage /\ ToGo' = rest' + 2 * worker'.left + Stage'
    BY <1>4 DEF ToGo
  <2>3. PICK r \in Nat : /\ ToGo = r + 2 * worker.left + Stage
                        /\ ToGo' = r + 2 * worker'.left + Stage'
    BY <2>1, <2>2
  <2> HIDE DEF rest
  <2>4. PICK left \in Nat, from \in 0..5, to \in 0..5 :
          /\ left = worker.left /\ from = Stage /\ to = Stage'
    BY <1>2, <1>5, FromStickFacts
  <2>5. ToGo = r + 2 * left + from
    BY <2>3, <2>4
  <2>6. CASE worker'.left = worker.left /\ Stage' < Stage
    <3>1. ToGo' = r + 2 * left + to /\ to < from
      BY <2>3, <2>4, <2>6
    <3> QED
      BY <2>5, <3>1
  <2>7. CASE worker'.left = worker.left - 1 /\ Stage' <= Stage + 1
    <3>1. ToGo' = r + 2 * (left - 1) + to /\ to <= from + 1
      BY <2>3, <2>4, <2>7
    <3> QED
      BY <2>5, <3>1
  <2> QED
    BY <1>3, <2>6, <2>7
<1>7. ASSUME MainCan PROVE MainCan'
  <2>1. inbox # <<>> => inbox' # <<>> /\ Head(inbox') = Head(inbox)
    <3>1. UNCHANGED inbox \/ \E e \in Message : inbox' = Append(inbox, e)
      BY OtherStep DEF UploadInv, IInv
    <3> QED
      BY <3>1, FromStickFacts
  <2>2. out' = out \/ (out # <<>> /\ out' = Tail(out))
    BY DEF Worker, WorkerOpens, WorkerReadsReply, WorkerSends, WorkerReadFails,
           WorkerCompletes, WorkerReadsLast, WorkerEnds
  <2>3. Len(out) < OutSize => Len(out') < OutSize
    BY <2>2
  <2> QED
    BY <1>1, <1>7, <2>1, <2>3 DEF MainCan, Mine
<1> QED
  BY <1>4, <1>6, <1>7

LEMMA UserEnds == ASSUME FromStick, User \/ Restart PROVE Over'
BY DEF FromStick, User, StartUsbUpload, Confirm, Decline, Leave, Restart, Over

\* A natural number that only goes down settles.
ToGoSettles == <>[][ToGo' <= ToGo]_vars => <>[][ToGo' = ToGo]_vars

\* The two tasks can take a step when it is their turn.
MainTaskCanGo == FromStick /\ MainCan => ENABLED <<Main>>_vars
WorkerCanGo == FromStick /\ WorkerCan => ENABLED <<Worker>>_vars

LEMMA UploadInductive == Spec => [](UploadInv /\ Announced)
<1>1. Init => Announced /\ InTurn /\ Heard
  BY DEF Init, NoWorker, Announced, InTurn, Heard, Uploading, Ours
<1>2. IInv /\ Announced /\ InTurn /\ Heard /\ [Next]_vars => (Announced /\ InTurn /\ Heard)'
  BY AnnouncedStep, InTurnStep, HeardStep
<1> QED
  BY <1>1, <1>2, Invariance, PTL DEF Spec, UploadInv

\* The steps still to take are counted by a natural number.
THEOREM StepsAreCounted == Spec => [](ToGo \in Nat)
<1>1. UploadInv => ToGo \in Nat
  BY ToGoType
<1> QED
  BY <1>1, UploadInductive, PTL

\* An upload from a stick that starts with empty queues, and with a file that can be
\* opened, ends or comes to the user's question, for files of any length, queues of any
\* size and whatever apps send in between: if the two tasks get their turns.
THEOREM UploadEnds ==
    Spec /\ []MainTaskCanGo /\ []WorkerCanGo /\ ToGoSettles => StickUploadEnds
<1>0. ASSUME UploadInv, FromStick, Main, ~Over' PROVE vars' # vars
  <2>1. ToGo' < ToGo /\ ToGo \in Nat
    BY <1>0, MainGetsOn, ToGoType
  <2>2. vars' = vars => ToGo' = ToGo
    BY DEF vars, upload, joctx, world, ToGo, FromStick, Stage
  <2> QED
    BY <2>1, <2>2
<1>1. UploadInv /\ FromStick /\ [Next]_vars => FromStick' \/ Over'
  BY HostLeavesIt, MainGetsOn, WorkerGetsOn, UserEnds DEF Next
<1>2. UploadInv /\ FromStick /\ [Next]_vars => [ToGo' <= ToGo]_vars \/ Over'
  <2> SUFFICES ASSUME UploadInv, FromStick, [Next]_vars, ~Over'
               PROVE  [ToGo' <= ToGo]_vars
    OBVIOUS
  <2>1. ToGo \in Nat
    BY ToGoType
  <2>2. (ToGo' \in Int /\ ToGo' < ToGo) \/ ToGo' = ToGo
    BY HostLeavesIt, MainGetsOn, WorkerGetsOn, UserEnds DEF Next
  <2> QED
    BY <2>1, <2>2
<1>3. UploadInv /\ FromStick => MainCan \/ WorkerCan
  BY SomebodyCan DEF UploadInv, NoStandstill
<1>4. UploadInv /\ FromStick /\ MainCan /\ [Next]_vars => MainCan' \/ <<Main>>_vars \/ Over'
  <2> SUFFICES ASSUME UploadInv, FromStick, MainCan, [Next]_vars, ~Over', ~Main
               PROVE  MainCan'
    BY <1>0
  <2> QED
    BY HostLeavesIt, WorkerGetsOn, UserEnds DEF Next
<1>5. UploadInv /\ FromStick /\ <<Main>>_vars => ~[ToGo' = ToGo]_vars \/ Over'
  <2> SUFFICES ASSUME UploadInv, FromStick, Main, vars' # vars, ~Over'
               PROVE  ToGo' # ToGo
    OBVIOUS
  <2> QED
    BY MainGetsOn, ToGoType
<1>6. UploadInv /\ FromStick /\ <<Worker>>_vars => ~[ToGo' = ToGo]_vars
  <2> SUFFICES ASSUME UploadInv, FromStick, Worker, vars' # vars PROVE ToGo' # ToGo
    OBVIOUS
  <2> QED
    BY WorkerGetsOn, ToGoType
<1> QED
  BY <1>1, <1>2, <1>3, <1>4, <1>5, <1>6, UploadInductive, PTL
  DEF Spec, MainTaskCanGo, WorkerCanGo, ToGoSettles, StickUploadEnds, Over
=============================================================================

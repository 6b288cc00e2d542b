--------------------------------- MODULE Ota ---------------------------------
(***************************************************************************)
(* A firmware update: 'ota' or 'ota_delta', the 'ota_data' messages with   *)
(* the compressed image or patch, and 'ota_complete' (process/ota.c,       *)
(* ota_delta.c, ota_util.c).  They come from a companion app over serial   *)
(* or BLE, or from a task that reads a file from a USB stick and posts the *)
(* same messages (usbhmsc/usbmode.c).                                      *)
(*                                                                         *)
(* The compressed image is cut into Parts parts, part k of image i being   *)
(* <<i, k>>, and uncompresses to as many units of the same names.  A patch *)
(* likewise.  A patch applied to another firmware than it is for, and a    *)
(* packet that does not continue the stream, give Garbage.                 *)
(* A step ends where the main task waits: for a message, for the user, and *)
(* between decompressing and writing, where flash or patching may fail.    *)
(***************************************************************************)
EXTENDS Naturals, Sequences

CONSTANTS
    Fitting,        \* firmware images for this board
    Alien,          \* images for another board, or older than allowed
    Tiny,           \* data too short to have an image header
    Inside,         \* of each image, those whose header it has at another place than its start
    Files,          \* images of which somebody sends packets
    Parts,          \* ota_data messages in an upload
    Offers,         \* what an 'ota' request may announce
    Hosts,          \* interfaces with a companion app: serial, ble
    StickMayGo,     \* may the user pull out the USB stick?
    QueueSize,      \* messages that fit the inbound queue
    OutSize,        \* replies that fit internal_out
    None

Images == Fitting \cup Alien \cup Tiny
Packets == Images \X (1..Parts)
Garbage == <<None, 0>>
Whole(i) == [k \in 1..Parts |-> <<i, k>>]

ASSUME OtaAssumption ==
    /\ Parts \in Nat \ {0} /\ QueueSize \in Nat \ {0} /\ OutSize \in Nat \ {0}
    /\ None \notin Images \cup {"serial", "ble", "internal", "true"}
    /\ None \notin [version : Images, hash : Images]
    /\ Fitting \cap (Alien \cup Tiny) = {} /\ Fitting # {}
    /\ Inside \in [Images -> SUBSET Images]
    /\ Files \subseteq Images
    /\ Hosts \subseteq {"serial", "ble"}
    /\ StickMayGo \in BOOLEAN
    /\ \A o \in Offers : /\ o.image \in Images
                         /\ o.parts \in Nat /\ o.units \in Nat
                         /\ o.hash \in {"file", "firmware"}

VARIABLES
    boot,           \* contents of the partition that is booted next
    pc,             \* what the main task is doing
    kind,           \* ota_process() or ota_delta_process()
    source,         \* ota_source
    offer,          \* announced: image behind the hash, cmpsize, fwsize, hash type
    status,         \* ota_return_status: ok, declined, or bad
    id,             \* joctx.id: who sent the message not replied to yet
    got,            \* packets accepted; cmpsize less these is remaining_compressed
    slot,           \* units in the update partition; its length is fwwritten
    confirmed,      \* validated_confirmed
    shown,          \* history: version and hash on the screen the user is or was asked to confirm
    told,           \* history: the answer to 'ota_complete'
    lastSource,     \* last_message_source
    links,          \* connections to companion apps
    inbox,          \* shared_in
    out,            \* internal_out: replies for the task with the USB stick
    serialOff,      \* serial has been stopped for the USB stick
    worker          \* usbmode_ota_worker()

joctx == <<kind, source, offer, got, slot, confirmed, shown>>
upload == <<joctx, status, id, told>>
world == <<links, serialOff, worker>>
vars == <<boot, pc, upload, lastSource, world, inbox, out>>

Sources == Hosts \cup {"internal"}
NoWorker == [at |-> "gone", left |-> 0, file |-> None, fresh |-> FALSE]

Init ==
    /\ \E i \in Fitting : boot = Whole(i)
    /\ pc = "home" /\ kind = "full" /\ source = None /\ offer = None
    /\ status = "ok" /\ id = None /\ got = <<>> /\ slot = <<>>
    /\ confirmed = FALSE /\ shown = None /\ told = None /\ lastSource = None
    /\ links = {} /\ inbox = <<>> /\ out = <<>> /\ serialOff = FALSE
    /\ worker = NoWorker

Room == Len(inbox) < QueueSize
Post(from, what, arg) ==
    Room /\ inbox' = Append(inbox, [from |-> from, what |-> what, arg |-> arg])
Take == inbox # <<>> /\ inbox' = Tail(inbox)

\* Only the replies to the task with the stick are kept.
Reply(to, ok) ==
    IF to = "internal" THEN Len(out) < OutSize /\ out' = Append(out, ok)
    ELSE UNCHANGED out

-----------------------------------------------------------------------------
(* Companion apps and the cable                                              *)

\* From the start of an upload over another interface, BLE is off until the
\* main loop is back; serial is off while a stick is in use.
MayConnect(h) ==
    IF h = "serial" THEN ~serialOff ELSE pc = "home" \/ source = "ble"

Connect(h) ==
    /\ h \notin links /\ MayConnect(h) /\ links' = links \cup {h}
    /\ UNCHANGED <<boot, pc, upload, lastSource, serialOff, worker, inbox, out>>

Disconnect(h) ==
    /\ h \in links /\ links' = links \ {h}
    /\ UNCHANGED <<boot, pc, upload, lastSource, serialOff, worker, inbox, out>>

HostRequests(h) ==
    /\ h \in links
    /\ \E what \in {"ota", "ota_delta"}, o \in Offers : Post(h, what, o)
    /\ UNCHANGED <<boot, pc, upload, lastSource, world, out>>

HostSendsData(h) ==
    /\ h \in links
    /\ \E p \in Files \X (1..Parts) : Post(h, "ota_data", p)
    /\ UNCHANGED <<boot, pc, upload, lastSource, world, out>>

HostSends(h) ==
    /\ h \in links
    /\ \E what \in {"ota_complete", "other"} : Post(h, what, None)
    /\ UNCHANGED <<boot, pc, upload, lastSource, world, out>>

-----------------------------------------------------------------------------
(* The main loop between uploads                                             *)

\* The request is sound, the wallet allows it, the partition is ready.
\* esp_ota_begin() has erased the partition.
AcceptUpload ==
    LET m == Head(inbox) IN
    /\ pc = "home" /\ Take /\ m.what \in {"ota", "ota_delta"}
    /\ pc' = "data"
    /\ kind' = IF m.what = "ota" THEN "full" ELSE "delta"
    /\ source' = m.from /\ lastSource' = m.from /\ offer' = m.arg
    /\ status' = "ok" /\ id' = None /\ got' = <<>> /\ slot' = <<>>
    /\ confirmed' = FALSE /\ shown' = None /\ told' = None
    /\ links' = IF m.from = "ble" THEN links ELSE links \ {"ble"}
    /\ Reply(m.from, TRUE)
    /\ UNCHANGED <<boot, serialOff, worker>>

\* Locked, bad parameters, or no partition; messages of an upload that is not
\* in progress.  BLE may have been switched off before the error.
RefuseMessage ==
    LET m == Head(inbox) IN
    /\ pc = "home" /\ Take
    /\ lastSource' = m.from
    /\ IF m.what = "other" THEN UNCHANGED out ELSE Reply(m.from, FALSE)
    /\ \/ UNCHANGED links
       \/ /\ m.what \in {"ota", "ota_delta"} /\ m.from # "ble"
          /\ links' = links \ {"ble"}
    /\ UNCHANGED <<boot, pc, upload, serialOff, worker>>

\* usbstorage_firmware_ota(), from a menu and without a USB cable.  The main
\* task posts the request itself: if the queue is full it waits for ever, since
\* nobody else takes messages from it.
StartUsbUpload ==
    /\ pc = "home" /\ worker.at \in {"gone", "failed"} /\ "serial" \notin links
    /\ serialOff' = TRUE
    /\ \E o \in Offers, f \in Files :
         /\ o.parts = Parts /\ o.hash = "firmware"
         /\ \/ /\ Post("internal", "ota", o) /\ UNCHANGED pc
               /\ worker' = [at |-> "open", left |-> Parts, file |-> f,
                             fresh |-> inbox = <<>> /\ out = <<>>]
            \/ ~Room /\ pc' = "dead" /\ UNCHANGED <<inbox, worker>>
    /\ UNCHANGED <<boot, upload, lastSource, links, out>>

-----------------------------------------------------------------------------
(* ota_data                                                                  *)

\* How an upload ends: with a good status in a restart, else back at the dashboard, with
\* an error screen unless it was the user who declined.
EndWith(st) ==
    pc' = IF st = "ok" THEN "success" ELSE IF st = "declined" THEN "declined" ELSE "error"

\* The error goes to the source of the upload, whoever sent the message.
UploadFails(st) == status' = st /\ EndWith(st) /\ Reply(source, FALSE)

Refused(m) == m.what # "ota_data" \/ m.from # source \/ Len(got) >= offer.parts

\* Does the packet continue the compressed stream?
Continues(p) == p[2] = Len(got) + 1 /\ \A k \in DOMAIN got : got[k][1] = p[1]

\* Mutant: a message that does not belong to the upload is skipped.
SkipStray ==
    LET m == Head(inbox) IN
    /\ pc = "data" /\ Take /\ Refused(m)
    /\ UNCHANGED <<boot, pc, upload, lastSource, world, out>>

\* handle_in_bin_data() up to write_compressed().  An error while patching that
\* had no message to be reported to is reported now.
RejectData ==
    LET m == Head(inbox) IN
    /\ pc = "data" /\ Take /\ id' = m.from
    /\ IF status # "ok" THEN UploadFails(status)
       ELSE /\ ~(~Refused(m) /\ Continues(m.arg))
            /\ UploadFails("bad")
    /\ UNCHANGED <<boot, joctx, told, lastSource, world>>

\* The packet is decompressed.  For a full image the writer is called from inside,
\* and the acknowledgement comes after it; for a patch the decompressor keeps the
\* packet, which is acknowledged before it is applied.
AcceptData ==
    LET m == Head(inbox) IN
    /\ pc = "data" /\ Take /\ status = "ok" /\ ~Refused(m)
    /\ got' = Append(got, IF Continues(m.arg) THEN m.arg ELSE Garbage)
    /\ IF kind = "full" THEN id' = m.from /\ UNCHANGED out
       ELSE id' = None /\ Reply(source, TRUE)
    /\ pc' = "write"
    /\ UNCHANGED <<boot, kind, source, offer, slot, confirmed, shown, status, told,
                   lastSource, world>>

LinkLost == lastSource \in Hosts \ links

\* "Lost connection, returning from blocking wait without fetching message".  A full
\* upload waits on, and from now on whatever happens to the connection.  The
\* decompressor of a patch may ask again, or fail without a message to reply to:
\* then bspatch() goes on with what it has, and may ask again, finish, or fail.
LostAtData ==
    /\ pc = "data" /\ inbox = <<>> /\ LinkLost
    /\ lastSource' = None
    /\ \/ UNCHANGED <<pc, status, out>>
       \/ kind = "delta" /\ status' = "bad" /\ pc' \in {"data", "complete"} /\ UNCHANGED out
       \/ kind = "delta" /\ UploadFails("bad")
    /\ UNCHANGED <<boot, joctx, id, told, world, inbox>>

-----------------------------------------------------------------------------
(* Writing a unit, and the user                                              *)

Units == IF kind = "full" THEN {got[Len(got)]} ELSE {got[Len(got)], Garbage}

\* uncompressed_stream_writer() runs until all is received, bspatch() until the
\* announced size has been put out.
Finished == Len(got) = IF kind = "full" THEN offer.parts ELSE offer.units

\* On to the next packet, or to the end, where the size written is compared.  A full
\* image that was too short for a header fails the assertion on validated_confirmed.
NextUnit(st, written) ==
    IF ~Finished THEN pc' = "data" /\ status' = st
    ELSE /\ status' = IF Len(written) = offer.units THEN st ELSE "bad"
         /\ pc' = IF kind = "full" /\ ~confirmed THEN "dead" ELSE "complete"

\* A unit is in flash; for a full image, the packet is acknowledged.
UnitDone(u) ==
    /\ slot' = Append(slot, u)
    /\ NextUnit(status, slot')
    /\ IF kind = "full" THEN id' = None /\ Reply(source, TRUE) ELSE UNCHANGED <<id, out>>

\* An error in the middle of a unit.  In a patch it is kept for the next message,
\* and the rest of the packet is read but not written (HANDLE_NEW_ERROR).
Trouble(st) ==
    /\ IF kind = "full" THEN UploadFails(st) ELSE NextUnit(st, slot) /\ UNCHANGED out
    /\ UNCHANGED <<slot, id>>

\* All that has been written may be shorter than a header (CUSTOM_HEADER_MIN_WRITE), but
\* not as many units as a whole image has.
Short(u) == u[1] \in Tiny \/ Len(slot) + 1 < Parts

\* A unit comes in writes, and the first that is long enough is taken to begin with the
\* header, wherever it lies in the image.
Reads(u) ==
    {h \in Images \ Tiny : u[1] \in Images \ Tiny /\ (u = <<h, 1>> \/ h \in Inside[u[1]])}

Ask(h) ==
    /\ pc' = "confirm" /\ shown' = [version |-> h, hash |-> offer.image]
    /\ UNCHANGED <<status, slot, id, out>>

\* Mutant: the header is not looked at.
ValidateAnything(u) == \E h \in Reads(u) : Ask(h)

\* ota_user_validation() up to the question to the user.  It may also find no header
\* at all, which is an error as any other.
Validate(u) == \E h \in Reads(u) :
    IF h \in Fitting THEN Ask(h) ELSE Trouble("bad") /\ UNCHANGED shown

WriteUnit ==
    /\ pc = "write"
    /\ \/ \E u \in Units : \/ (confirmed \/ Short(u)) /\ UnitDone(u) /\ UNCHANGED shown
                           \/ ~confirmed /\ Validate(u)
       \/ Trouble("bad") /\ UNCHANGED shown
    /\ UNCHANGED <<boot, kind, source, offer, got, confirmed, told, lastSource, world, inbox>>

\* The patch does not suit the firmware it is applied to: bspatch() fails, and the
\* error is sent with the id "00".
PatchFails ==
    /\ pc = "write" /\ kind = "delta" /\ UploadFails("bad")
    /\ UNCHANGED <<boot, joctx, id, told, lastSource, world, inbox>>

\* The user has seen the version from the header and the announced hash.  A unit of a
\* patch is in flash by then; one of a full image is written next.
Confirm ==
    /\ pc = "confirm"
    /\ confirmed' = TRUE
    /\ IF kind = "full" THEN pc' = "write" /\ UNCHANGED <<slot, id, out, status>>
       ELSE UnitDone(got[Len(got)])
    /\ UNCHANGED <<boot, kind, source, offer, got, shown, told, lastSource, world, inbox>>

Decline ==
    /\ pc = "confirm" /\ Trouble("declined")
    /\ UNCHANGED <<boot, kind, source, offer, got, confirmed, shown, told, lastSource,
                   world, inbox>>

-----------------------------------------------------------------------------
(* ota_complete                                                              *)

\* Mutant: the hash is not compared.
HashOfAnything == TRUE

HashMatches == (IF offer.hash = "file" THEN got ELSE slot) = Whole(offer.image)

\* post_ota_check(): sizes and hash, then esp_ota_end() accepts only an image, and
\* esp_ota_set_boot_partition() may fail.
MayInstall ==
    /\ status = "ok" /\ Len(got) = offer.parts /\ HashMatches
    /\ \E i \in Images \ Tiny : slot = Whole(i)

\* Mutant: the outcome of esp_ota_set_boot_partition() is ignored.
InstallUnchecked ==
    LET m == Head(inbox) IN
    /\ pc = "complete" /\ Take /\ m.what = "ota_complete"
    /\ MayInstall
    /\ boot' \in {boot, slot} /\ told' = "true" /\ Reply(m.from, TRUE) /\ EndWith("ok")
    /\ lastSource' = m.from
    /\ UNCHANGED <<joctx, status, id, world>>

\* 'ota_complete' may come from any source, and the answer goes there.
Install ==
    LET m == Head(inbox) IN
    /\ pc = "complete" /\ Take /\ m.what = "ota_complete"
    /\ MayInstall
    /\ boot' = slot /\ told' = "true" /\ Reply(m.from, TRUE) /\ EndWith("ok")
    /\ lastSource' = m.from
    /\ UNCHANGED <<joctx, status, id, world>>

\* Any of the checks may fail, those of the flash at any time.
RejectComplete ==
    LET m == Head(inbox) IN
    /\ pc = "complete" /\ Take /\ m.what = "ota_complete"
    /\ status' = IF status = "ok" THEN "bad" ELSE status
    /\ told' = "error" /\ Reply(m.from, FALSE) /\ EndWith(status')
    /\ lastSource' = m.from
    /\ UNCHANGED <<boot, joctx, id, world>>

\* Another message is refused; the status is not touched.
NotComplete ==
    LET m == Head(inbox) IN
    /\ pc = "complete" /\ Take /\ m.what # "ota_complete"
    /\ Reply(m.from, FALSE) /\ EndWith(status)
    /\ lastSource' = m.from
    /\ UNCHANGED <<boot, upload, world>>

LostAtComplete ==
    /\ pc = "complete" /\ inbox = <<>> /\ LinkLost
    /\ lastSource' = None /\ EndWith(status)
    /\ UNCHANGED <<boot, upload, world, inbox, out>>

Forget ==
    /\ kind' = "full" /\ source' = None /\ offer' = None
    /\ status' = "ok" /\ id' = None /\ got' = <<>> /\ slot' = <<>>
    /\ confirmed' = FALSE /\ shown' = None /\ told' = None

\* The user has seen the error (await_error_activity()), the process returns.
Leave ==
    /\ pc \in {"error", "declined"} /\ pc' = "home" /\ Forget
    /\ UNCHANGED <<boot, lastSource, world, inbox, out>>

\* esp_restart(), after an update or a failed assertion, or the power switch.
Restart ==
    /\ pc' = "home" /\ Forget /\ lastSource' = None
    /\ links' = {} /\ inbox' = <<>> /\ out' = <<>> /\ serialOff' = FALSE
    /\ worker' = NoWorker
    /\ UNCHANGED boot

-----------------------------------------------------------------------------
(* usbmode_ota_worker()                                                      *)

WorkerGo(where) == worker' = [worker EXCEPT !.at = where]

\* With the stick gone already the task ends, and serial stays off.
WorkerOpens ==
    /\ worker.at = "open"
    /\ WorkerGo("reply") \/ (StickMayGo /\ WorkerGo("failed"))
    /\ UNCHANGED <<boot, pc, upload, lastSource, links, serialOff, inbox, out>>

WorkerReadsReply ==
    /\ worker.at = "reply" /\ out # <<>> /\ out' = Tail(out)
    /\ WorkerGo(IF Head(out) THEN "send" ELSE "end")
    /\ UNCHANGED <<boot, pc, upload, lastSource, links, serialOff, inbox>>

\* The next part; after the last one, 'ota_complete' follows at once.
WorkerSends ==
    /\ worker.at = "send"
    /\ Post("internal", "ota_data", <<worker.file, Parts - worker.left + 1>>)
    /\ worker' = [worker EXCEPT !.left = @ - 1, !.at = IF worker.left = 1 THEN "finish" ELSE "reply"]
    /\ UNCHANGED <<boot, pc, upload, lastSource, links, serialOff, out>>

\* Mutant: without the stick the task just ends.
WorkerGivesUp ==
    /\ worker.at = "send" /\ StickMayGo /\ WorkerGo("end")
    /\ UNCHANGED <<boot, pc, upload, lastSource, links, serialOff, inbox, out>>

\* The stick is gone: 'ota_complete' is to "get things unstuck".
WorkerReadFails ==
    /\ worker.at = "send" /\ StickMayGo /\ WorkerGo("finish")
    /\ UNCHANGED <<boot, pc, upload, lastSource, links, serialOff, inbox, out>>

WorkerCompletes ==
    /\ worker.at = "finish" /\ Post("internal", "ota_complete", None)
    /\ WorkerGo("last")
    /\ UNCHANGED <<boot, pc, upload, lastSource, links, serialOff, out>>

WorkerReadsLast ==
    /\ worker.at = "last" /\ out # <<>> /\ out' = Tail(out) /\ WorkerGo("end")
    /\ UNCHANGED <<boot, pc, upload, lastSource, links, serialOff, inbox>>

\* usbstorage_stop(), serial_start()
WorkerEnds ==
    /\ worker.at = "end" /\ WorkerGo("gone") /\ serialOff' = FALSE
    /\ UNCHANGED <<boot, pc, upload, lastSource, links, inbox, out>>

-----------------------------------------------------------------------------
Host == \E h \in Hosts : \/ Connect(h) \/ Disconnect(h) \/ HostRequests(h)
                         \/ HostSendsData(h) \/ HostSends(h)
User == StartUsbUpload \/ Confirm \/ Decline \/ Leave
Main == \/ AcceptUpload \/ RefuseMessage \/ RejectData \/ AcceptData \/ LostAtData
        \/ WriteUnit \/ PatchFails
        \/ Install \/ RejectComplete \/ NotComplete \/ LostAtComplete
Worker == \/ WorkerOpens \/ WorkerReadsReply \/ WorkerSends \/ WorkerReadFails
          \/ WorkerCompletes \/ WorkerReadsLast \/ WorkerEnds

Next == Host \/ User \/ Main \/ Worker \/ Restart

\* The main task and the worker run when they can; nothing is asked of users, hosts
\* or the power switch.
Spec == Init /\ [][Next]_vars /\ WF_vars(Main) /\ WF_vars(Worker)

-----------------------------------------------------------------------------
(* Properties                                                                *)

Uploading == pc \in {"data", "write", "confirm", "complete"}

Messages(m) ==
    /\ m.from \in Sources
    /\ \/ m.what \in {"ota", "ota_delta"} /\ m.arg \in Offers
       \/ m.what = "ota_data" /\ m.arg \in Packets
       \/ m.what \in {"ota_complete", "other"} /\ m.arg = None

TypeOK ==
    /\ boot \in [1..Parts -> Packets]
    /\ pc \in {"home", "data", "write", "confirm", "complete", "error", "declined",
               "success", "dead"}
    /\ kind \in {"full", "delta"} /\ status \in {"ok", "declined", "bad"}
    /\ source \in Sources \cup {None} /\ offer \in Offers \cup {None}
    /\ id \in Sources \cup {None} /\ lastSource \in Sources \cup {None}
    /\ got \in Seq(Packets \cup {Garbage}) /\ slot \in Seq(Packets \cup {Garbage})
    /\ confirmed \in BOOLEAN /\ told \in {None, "true", "error"}
    /\ shown \in [version : Images, hash : Images] \cup {None}
    /\ links \subseteq Hosts /\ serialOff \in BOOLEAN
    /\ Len(inbox) <= QueueSize /\ \A k \in DOMAIN inbox : Messages(inbox[k])
    /\ Len(out) <= OutSize /\ out \in Seq(BOOLEAN)
    /\ worker.at \in {"gone", "open", "reply", "send", "finish", "last", "end", "failed"}
    /\ worker.left \in 0..Parts /\ worker.file \in Images \cup {None}
    /\ worker.fresh \in BOOLEAN

\* The unit boots another firmware only if the user has confirmed the version in its
\* header, and then the whole of the firmware whose hash was on that screen: whoever
\* sent which packet, however the patch was applied and wherever power was lost.  Only
\* the version may be another's: if that firmware also has such a header elsewhere, and
\* what was written before it was too short to be looked at.
Installed ==
    [][boot' # boot => /\ confirmed /\ boot' = Whole(shown.hash)
                       /\ shown.version \in {shown.hash} \cup Inside[shown.hash]]_vars

\* What is booted is a whole image for this board, not older than allowed; or has, not at
\* its start, the header of one.
FitsBoard ==
    \E i \in Images : boot = Whole(i) /\ (i \in Fitting \/ Inside[i] \cap Fitting # {})

\* "A 'true' response implies the firmware upload completed successfully, and the next
\* restart will attempt to boot the new firmware" (docs/index.rst, ota_complete): a
\* host that is told so may rely on it until it starts another upload.
CompleteMeansInstalled == told = "true" => boot = Whole(offer.image)

\* An upload from a stick waits for a chunk that nobody will send only if a reply lies
\* unread in the queue between the two tasks: as long as the worker reads every answer,
\* it does not leave before the main task has ended the upload.
OnlyUnreadReplyStrands ==
    pc = "data" /\ source = "internal" /\ worker.at \in {"gone", "failed"} /\ inbox = <<>>
        => out # <<>>

\* An upload from a stick that starts with empty queues, and with a file that can be
\* opened, ends or comes to the user's question; also when the stick is pulled out.
FromStick ==
    /\ pc \in {"data", "write", "complete"} /\ source = "internal"
    /\ worker.fresh /\ worker.at \notin {"open", "failed"}
StickUploadEnds == FromStick ~> ~(pc \in {"data", "write", "complete"})
=============================================================================

------------------------------- MODULE BleTasks -------------------------------
(***************************************************************************)
(* Bluetooth (ble/ble.c): the NimBLE host task, the writer task, and the   *)
(* main task that starts and stops both, with the two queues of process.c  *)
(* between them.  Requests go from the host task to shared_in, replies     *)
(* from the main task, and for some requests from the host task itself,    *)
(* to ble_out, and from there as indications of a few bytes each to the    *)
(* client.                                                                 *)
(*                                                                         *)
(* NimBLE is not part of the repository.  It is taken to report every      *)
(* indication it accepted once, from the host task and while that task is  *)
(* not waiting in a callback, at the latest when the link ends; it may     *)
(* report the attempt as well.  nimble_port_stop() waits for the host task *)
(* to come back from its callback, and succeeds: ble_stop() only logs when *)
(* it does not, and then deletes the writer while the host task runs on.   *)
(* How the bytes of a request are put together is in Wire.                 *)
(***************************************************************************)
EXTENDS Naturals, Sequences

CONSTANTS
    InSize,         \* requests that fit shared_in
    BleOutSize,     \* replies that fit ble_out
    MaxChunks,      \* indications a reply may need
    MaxTries        \* attempts at one indication

ASSUME BleAssumption == {InSize, BleOutSize, MaxChunks, MaxTries} \subseteq Nat \ {0}

VARIABLES
    ble_enabled,    \* ble_is_enabled
    connected,      \* ble_is_connected
    link,           \* is a client connected?
    main,           \* what the main task does
    host,           \* what the NimBLE host task does
    writer,         \* what the writer task does
    left,           \* indications left of the reply being written
    try,            \* failed attempts at the next one
    notified,       \* a notification of the writer task is pending
    shutdown,       \* ble_writer_shutdown_done
    owed,           \* an indication has been accepted and not reported
    shared_in,      \* who sent each request
    ble_out         \* the indications each reply needs

client == <<connected, link>>
writing == <<writer, left, try>>
bleQueues == <<shared_in, ble_out>>
bleVars == <<ble_enabled, client, main, host, writing, notified, shutdown, owed, bleQueues>>

Chunks == 1..MaxChunks

BleInit ==
    /\ ble_enabled = FALSE /\ connected = FALSE /\ link = FALSE
    /\ main = "home" /\ host = "down"
    /\ writer = "none" /\ left = 0 /\ try = 0
    /\ notified = FALSE /\ shutdown = 0 /\ owed = FALSE
    /\ shared_in = <<>> /\ ble_out = <<>>

-----------------------------------------------------------------------------
(* Queues *)

SharedInFull == Len(shared_in) = InSize
OutFull == Len(ble_out) = BleOutSize

\* jade_process_push_out_message() for a writer that runs: waits for room and notifies.
PushOut ==
    /\ ~OutFull
    /\ \E n \in Chunks : ble_out' = Append(ble_out, n)
    /\ notified' = TRUE

\* And when there is none: the oldest reply makes room.
PushOutUnheard ==
    \E n \in Chunks :
        ble_out' = Append(IF OutFull THEN Tail(ble_out) ELSE ble_out, n)

-----------------------------------------------------------------------------
(* The writer task *)

WriterGoes(where) == writer' = where

\* The reply stays in the ring until it has been written.
Get ==
    /\ writer = "get"
    /\ IF ble_out = <<>> THEN WriterGoes("rest") /\ UNCHANGED <<left, try>>
       ELSE WriterGoes("send") /\ left' = Head(ble_out) /\ try' = 0
    /\ UNCHANGED <<ble_enabled, client, main, host, notified, shutdown, owed, bleQueues>>

\* ble_gatts_indicate_custom() accepts the next bytes.
Indicate ==
    /\ writer = "send" /\ link
    /\ WriterGoes("sent") /\ left' = left - 1 /\ try' = 0
    /\ owed' = TRUE /\ notified' \in {notified, TRUE}
    /\ UNCHANGED <<ble_enabled, client, main, host, shutdown, bleQueues>>

\* Or does not; after the last attempt the reply is dropped.
IndicateFails ==
    /\ writer = "send" /\ host # "down"
    /\ IF try + 1 < MaxTries
       THEN try' = try + 1 /\ UNCHANGED <<writer, left, ble_out>>
       ELSE try' = 0 /\ left' = 0 /\ WriterGoes("rest") /\ ble_out' = Tail(ble_out)
    /\ UNCHANGED <<ble_enabled, client, main, host, notified, shutdown, owed, shared_in>>

\* xTaskNotifyWait() without limit.  Any notification will do, also that of a new reply.
Sent ==
    /\ writer = "sent" /\ notified
    /\ notified' = FALSE
    /\ IF left > 0 THEN WriterGoes("send") /\ UNCHANGED ble_out
       ELSE WriterGoes("get") /\ ble_out' = Tail(ble_out)
    /\ UNCHANGED <<ble_enabled, client, main, host, left, try, shutdown, owed, shared_in>>

Rest(limit) ==
    /\ writer = "rest"
    /\ notified' = FALSE
    /\ IF ble_enabled THEN WriterGoes("get") /\ UNCHANGED shutdown
       ELSE WriterGoes("parked") /\ shutdown' = limit
    /\ UNCHANGED <<ble_enabled, client, main, host, left, try, owed, bleQueues>>

\* Mutant: the writer parks and says nothing.
RestSilently == Rest(shutdown)

\* xTaskNotifyWait() with a limit, then a look at ble_is_enabled: go on, or post
\* the 'exit' event and wait to be killed.
RestOrExit == Rest(1)

Writer == Get \/ Indicate \/ IndicateFails \/ Sent \/ RestOrExit

-----------------------------------------------------------------------------
(* The NimBLE host task, with the client *)

HostIdle == host = "idle"

Connect ==
    /\ HostIdle /\ ~link /\ link' = TRUE
    /\ UNCHANGED <<ble_enabled, connected, main, host, writing, notified, shutdown, owed, bleQueues>>

Subscribe ==
    /\ HostIdle /\ link /\ ~connected /\ connected' = TRUE
    /\ UNCHANGED <<ble_enabled, link, main, host, writing, notified, shutdown, owed, bleQueues>>

\* BLE_GAP_EVENT_NOTIFY_TX
Report(note) ==
    /\ HostIdle /\ owed
    /\ owed' = FALSE /\ notified' = note
    /\ UNCHANGED <<ble_enabled, client, main, host, writing, shutdown, bleQueues>>

\* Mutant: the writer is not notified.
ReportUnheard == Report(notified)

NotifyTx == Report(TRUE)

\* BLE_GAP_EVENT_DISCONNECT, after what is owed has been reported as failed.
Disconnect ==
    /\ HostIdle /\ link
    /\ link' = FALSE /\ connected' = FALSE
    /\ owed' = FALSE /\ notified' = (notified \/ owed)
    /\ UNCHANGED <<ble_enabled, main, host, writing, shutdown, bleQueues>>

\* BLE_GAP_EVENT_PASSKEY_ACTION: the callback waits for the user, up to 30 seconds.
Pair ==
    /\ HostIdle /\ link /\ host' = "pairing"
    /\ UNCHANGED <<ble_enabled, client, main, writing, notified, shutdown, owed, bleQueues>>

Paired ==
    /\ host = "pairing" /\ host' = "idle"
    /\ UNCHANGED <<ble_enabled, client, main, writing, notified, shutdown, owed, bleQueues>>

\* gatt_chr_event(): a request for the main task, or one that is answered or rejected
\* at once.  While ble_start() has not created the writer, no answer has to wait.
ClientWrites ==
    /\ HostIdle /\ link
    /\ \/ host' = "push" /\ UNCHANGED ble_out
       \/ writer # "none" /\ host' = "reply" /\ UNCHANGED ble_out
       \/ writer = "none" /\ PushOutUnheard /\ UNCHANGED host
    /\ UNCHANGED <<ble_enabled, client, main, writing, notified, shutdown, owed, shared_in>>

HostPushes ==
    /\ host = "push" /\ ~SharedInFull
    /\ shared_in' = Append(shared_in, "ble") /\ host' = "idle"
    /\ UNCHANGED <<ble_enabled, client, main, writing, notified, shutdown, owed, ble_out>>

HostReplies ==
    /\ host = "reply" /\ PushOut /\ host' = "idle"
    /\ UNCHANGED <<ble_enabled, client, main, writing, shutdown, owed, shared_in>>

-----------------------------------------------------------------------------
(* The main task *)

\* Serial and the internal tasks send requests too.
OtherRequest ==
    /\ ~SharedInFull /\ shared_in' = Append(shared_in, "other")
    /\ UNCHANGED <<ble_enabled, client, main, host, writing, notified, shutdown, owed, ble_out>>

\* A reply to a request by BLE when BLE has been stopped does not wait.
Take ==
    /\ main = "home" /\ shared_in # <<>>
    /\ shared_in' = Tail(shared_in)
    /\ \/ Head(shared_in) = "other" /\ UNCHANGED <<main, ble_out>>
       \/ Head(shared_in) = "ble" /\ writer = "none" /\ PushOutUnheard /\ UNCHANGED main
       \/ Head(shared_in) = "ble" /\ writer # "none" /\ main' = "reply" /\ UNCHANGED ble_out
    /\ UNCHANGED <<ble_enabled, client, host, writing, notified, shutdown, owed>>

MainReplies ==
    /\ main = "reply" /\ PushOut /\ main' = "home"
    /\ UNCHANGED <<ble_enabled, client, host, writing, shutdown, owed, shared_in>>

\* ble_start(): the host task runs before the writer has been created.
BleStart ==
    /\ main = "home" /\ ~ble_enabled
    /\ ble_enabled' = TRUE /\ host' = "idle" /\ main' = "starting"
    /\ UNCHANGED <<client, writing, notified, shutdown, owed, bleQueues>>

CreateWriter ==
    /\ main = "starting"
    /\ writer' = "get" /\ main' = "home"
    /\ UNCHANGED <<ble_enabled, client, host, left, try, notified, shutdown, owed, bleQueues>>

BleStop ==
    /\ main = "home" /\ ble_enabled
    /\ ble_enabled' = FALSE /\ main' = "stop_host"
    /\ UNCHANGED <<client, host, writing, notified, shutdown, owed, bleQueues>>

\* nimble_port_stop(), which ends the link, and nimble_port_deinit()
StopHost ==
    /\ main = "stop_host" /\ HostIdle
    /\ host' = "down" /\ main' = "stop_writer"
    /\ link' = FALSE /\ connected' = FALSE
    /\ owed' = FALSE /\ notified' = (notified \/ owed)
    /\ UNCHANGED <<ble_enabled, writing, shutdown, bleQueues>>

StopWriterWhen(ready, rest) ==
    /\ main = "stop_writer" /\ ready
    /\ shutdown' = rest
    /\ writer' = "none" /\ left' = 0 /\ try' = 0 /\ notified' = FALSE
    /\ main' = "home"
    /\ UNCHANGED <<ble_enabled, client, host, owed, bleQueues>>

\* Mutants: the semaphore is looked at and not taken; is not waited for.
StopWriterPeek == StopWriterWhen(shutdown = 1, shutdown)
StopWriterAtOnce == StopWriterWhen(TRUE, 0)

StopBleWriter == StopWriterWhen(shutdown = 1, 0)

\* The writer is in the middle of a reply when NimBLE is gone: each attempt fails, or
\* there is no buffer for the next bytes, which is an assertion (BleRestart).
WriterGivesUp ==
    /\ writer = "send" /\ host = "down"
    /\ WriterGoes("rest") /\ left' = 0 /\ try' = 0 /\ ble_out' = Tail(ble_out)
    /\ UNCHANGED <<ble_enabled, client, main, host, notified, shutdown, owed, shared_in>>

\* The power button, the idle timer, or an assertion.
BleRestart ==
    /\ ble_enabled' = FALSE /\ connected' = FALSE /\ link' = FALSE
    /\ main' = "home" /\ host' = "down" /\ writer' = "none" /\ left' = 0 /\ try' = 0
    /\ notified' = FALSE /\ shutdown' = 0 /\ owed' = FALSE
    /\ shared_in' = <<>> /\ ble_out' = <<>>

-----------------------------------------------------------------------------
Host == NotifyTx \/ Paired \/ HostPushes \/ HostReplies
Main == MainReplies \/ CreateWriter \/ StopHost \/ StopBleWriter
BleWorld ==
    \/ Connect \/ Subscribe \/ Disconnect \/ Pair \/ ClientWrites \/ OtherRequest
    \/ Take \/ BleStart \/ BleStop \/ BleRestart

BleNext == Writer \/ WriterGivesUp \/ Host \/ Main \/ BleWorld

BleSpec == BleInit /\ [][BleNext]_bleVars

\* The three tasks run when they can.  Events for the host task are served in order, so
\* a stop or a report is not overtaken for ever; nor is one who waits for room.
FairBleSpec ==
    /\ BleSpec
    /\ WF_bleVars(Writer \/ WriterGivesUp)
    /\ WF_bleVars(CreateWriter \/ StopBleWriter) /\ SF_bleVars(StopHost) /\ SF_bleVars(MainReplies)
    /\ SF_bleVars(NotifyTx) /\ WF_bleVars(Paired) /\ WF_bleVars(HostPushes) /\ WF_bleVars(HostReplies)

-----------------------------------------------------------------------------
(* Properties *)

TypeOK ==
    /\ {ble_enabled, connected, link, notified, owed} \subseteq BOOLEAN
    /\ main \in {"home", "reply", "starting", "stop_host", "stop_writer"}
    /\ host \in {"down", "idle", "push", "reply", "pairing"}
    /\ writer \in {"none", "get", "send", "sent", "rest", "parked"}
    /\ left \in 0..MaxChunks /\ try \in 0..MaxTries - 1 /\ shutdown \in 0..1
    /\ Len(shared_in) <= InSize /\ shared_in \in Seq({"ble", "other"})
    /\ Len(ble_out) <= BleOutSize /\ ble_out \in Seq(Chunks)

\* The writer waits for a report, which has to come from the host task.
AwaitsReport == writer = "sent" /\ ~notified

\* Each of these lasts for ever.
HostStuck ==
    \/ host = "push" /\ SharedInFull
       /\ (main = "stop_host" \/ (main = "reply" /\ OutFull /\ AwaitsReport))
    \/ host = "reply" /\ OutFull /\ (writer = "parked" \/ AwaitsReport)

\* A reply finds room, and a start or stop comes to its end, unless the host task is held
\* up in a callback: by a request for which the main task, waiting itself, makes no room,
\* or by an answer of its own for which the writer makes none, having ended, or
\* waiting for a report of the host task's.
MainGoesOn == main # "home" ~> main = "home" \/ HostStuck

\* ble_stop() deletes the writer only where it waits to be killed, and never in the
\* middle of a reply: the event it waits for is that of this writer, not an earlier one's.
WriterParked == [][StopBleWriter => writer = "parked"]_bleVars

\* When BLE is off, everything is: no task is left, no event is kept for the next stop, no
\* report can come for a writer that is gone, and ble_connected() says so.
OffMeansOff ==
    main = "home" /\ ~ble_enabled =>
        /\ host = "down" /\ writer = "none" /\ shutdown = 0
        /\ ~owed /\ ~connected
=============================================================================

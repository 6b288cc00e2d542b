----------------------------- MODULE UsbStorage -----------------------------
(* The one USB port is either a serial line to the companion app (serial.c) or a
   host for a storage stick (usbhmsc/usbhmsc.c).  From a menu the main task stops the
   one and starts the other, runs an action on the files of the stick, and changes
   back (handle_usbstorage_action() in usbhmsc/usbmode.c); an update of the firmware
   is left to a worker, which changes back when it is done.

   Tasks: the main task, the worker, the storage task, the serial reader and writer.
   The drivers, of the stick's class (msc) and of the port as a host, are modelled from
   how they are used.  What is in the messages and files is not; of the update, see Ota. *)
EXTENDS Naturals

CONSTANTS
    QueueSize,   \* messages in shared_in
    OutSize      \* replies in serial_out

ASSUME UsbStorageAssumption == QueueSize \in Nat \ {0} /\ OutSize \in Nat \ {0}

VARIABLES
    pc,          \* where the main task and the worker are
    action,      \* what is run on the stick: "sync" or "async"
    port,        \* what is plugged in: a "host", a "stick" or nothing
    serial,      \* [on |-> serial_is_enabled, reader, writer |-> where they are]
    inbox,       \* messages in shared_in: [serial |-> Nat, ota |-> 'ota' is behind them]
    replies,     \* replies in serial_out
    stor,        \* where the storage task is
    enabled,     \* usbstorage_is_enabled
    handle,      \* main_task # NULL
    given,       \* main_task_semaphore
    bits,        \* the event group usb_flags
    driver,      \* [host, msc |-> installed, devices |-> how many are, vfs |-> mounted]
    device,      \* msc_device # NULL
    installed,   \* usb_device_installed
    callback,    \* registered_callback: "none", "live", or "stale", with a dead context
    state,       \* usbstorage_state of the action that is run
    overlap,     \* an action was begun before the worker of an update had changed back
    fault        \* an assertion that failed, or a use of something freed

queues == <<inbox, replies>>
flags == <<enabled, handle, given, installed, device>>
storage == <<stor, flags, bits, driver>>
shared == <<callback, state>>
ghost == <<overlap, fault>>
vars == <<pc, action, port, serial, queues, storage, shared, ghost>>

Tasks == {"main", "worker"}
MaxDevices == 2   \* devices the class driver is taken to hold at a time

Init ==
    /\ pc = [main |-> "dash", worker |-> "none"]
    /\ action = "sync"
    /\ port \in {"none", "host", "stick"}
    /\ serial = [on |-> TRUE, reader |-> "read", writer |-> "idle"]
    /\ inbox = [serial |-> 0, ota |-> FALSE] /\ replies = 0
    /\ stor = "none"
    /\ enabled = FALSE /\ handle = FALSE /\ given = FALSE
    /\ installed = FALSE /\ device = FALSE
    /\ bits = {}
    /\ driver = [host |-> FALSE, msc |-> FALSE, devices |-> 0, vfs |-> FALSE]
    /\ callback = "none" /\ state = "none"
    /\ overlap = FALSE /\ fault = "none"

At(t, where) == pc[t] = where
Go(t, where) == pc' = [pc EXCEPT ![t] = where]
Fails(what) == fault' = what

\* interface_semaphore and callback_semaphore, as far as they are held between steps.
\* JADE_SEMAPHORE_TAKE counts its attempts in an argument of JADE_LOGW, which is not
\* evaluated where CONFIG_LOG_DEFAULT_LEVEL_NONE is set, as it is for all units with a
\* USB host: it waits for ever.
Holds(t) == pc[t] \in {"create", "starting", "stopping"}
InterfaceFree == \A t \in Tasks : ~Holds(t)
CallbackFree == stor # "mount"

-----------------------------------------------------------------------------
(* The serial tasks *)

Serve(which, where) == serial' = [serial EXCEPT ![which] = where]
InboxFull == inbox.serial + (IF inbox.ota THEN 1 ELSE 0) = QueueSize

\* The reader looks at serial_is_enabled between two reads, and at nothing else.  What it
\* has read is a message, or something to be rejected.
ReaderReads ==
    /\ serial.reader = "read"
    /\ serial.on /\ port = "host"
    /\ Serve("reader", "push") \/ Serve("reader", "reject")
    /\ UNCHANGED <<pc, action, port, queues, storage, shared, ghost>>

ReaderPushes ==
    /\ serial.reader = "push"
    /\ ~InboxFull
    /\ inbox' = [inbox EXCEPT !.serial = @ + 1]
    /\ Serve("reader", "read")
    /\ UNCHANGED <<pc, action, port, replies, storage, shared, ghost>>

ReaderRejects ==
    /\ serial.reader = "reject"
    /\ replies < OutSize
    /\ replies' = replies + 1
    /\ Serve("reader", "read")
    /\ UNCHANGED <<pc, action, port, inbox, storage, shared, ghost>>

ReaderExits ==
    /\ serial.reader = "read" /\ ~serial.on
    /\ Serve("reader", "exited")
    /\ UNCHANGED <<pc, action, port, queues, storage, shared, ghost>>

\* A reply goes to the driver, whole or in part.
WriterTakes ==
    /\ serial.writer = "idle"
    /\ replies > 0
    /\ replies' = replies - 1
    /\ Serve("writer", "write") \/ UNCHANGED serial
    /\ UNCHANGED <<pc, action, port, inbox, storage, shared, ghost>>

\* The rest of it, when a host has made room: write_serial() tries until all is written.
WriterWrites ==
    /\ serial.writer = "write"
    /\ port = "host"
    /\ Serve("writer", "idle")
    /\ UNCHANGED <<pc, action, port, queues, storage, shared, ghost>>

WriterExits ==
    /\ serial.writer = "idle" /\ ~serial.on
    /\ Serve("writer", "exited")
    /\ UNCHANGED <<pc, action, port, queues, storage, shared, ghost>>

-----------------------------------------------------------------------------
(* The main task and its messages *)

\* It takes a message from the app, and answers it.
Dispatch ==
    /\ At("main", "dash")
    /\ inbox.serial > 0
    /\ inbox' = [inbox EXCEPT !.serial = @ - 1]
    /\ Go("main", "reply")
    /\ UNCHANGED <<action, port, serial, replies, storage, shared, ghost>>

\* jade_process_push_out_message(): it waits for room, and notifies the writer by a
\* handle that stays when the task has been deleted.
Reply ==
    /\ At("main", "reply")
    /\ replies < OutSize
    /\ replies' = replies + 1
    /\ Go("main", "dash")
    /\ UNCHANGED fault \/ (serial.writer = "deleted" /\ Fails("notified_deleted"))
    /\ UNCHANGED <<action, port, serial, inbox, storage, shared, overlap>>

\* The 'ota' of the worker; then the main task is with it until the upload is over.
DispatchOta ==
    /\ At("main", "dash")
    /\ inbox.serial = 0 /\ inbox.ota
    /\ inbox' = [inbox EXCEPT !.ota = FALSE]
    /\ Go("main", "ota")
    /\ UNCHANGED <<action, port, serial, replies, storage, shared, ghost>>

\* However the upload ends, the worker has its answer.
OtaEnds ==
    /\ At("main", "ota") /\ At("worker", "feed")
    /\ pc' = [main |-> "dash", worker |-> "unmount"]
    /\ UNCHANGED <<action, port, serial, queues, storage, shared, ghost>>

-----------------------------------------------------------------------------
(* handle_usbstorage_action(): from serial to the stick *)

Begin ==
    /\ At("main", "dash")
    /\ action' \in {"sync", "async"}
    /\ overlap' = (overlap \/ ~At("worker", "none"))
    /\ Go("main", "cable")
    /\ UNCHANGED <<port, serial, queues, storage, shared, fault>>

\* While a cable is in, the user is asked to take it out, or goes back.
CheckCable ==
    /\ At("main", "cable")
    /\ IF port = "host" THEN Go("main", "dash") /\ UNCHANGED serial
       ELSE IF serial.on THEN Go("main", "stop_reader") /\ serial' = [serial EXCEPT !.on = FALSE]
       ELSE Go("main", "register") /\ UNCHANGED serial
    /\ UNCHANGED <<action, port, queues, storage, shared, ghost>>

\* serial_stop(): it waits for each of the two to say that it is done, and deletes it.
StopReader ==
    /\ At("main", "stop_reader")
    /\ serial.reader = "exited"
    /\ Serve("reader", "deleted")
    /\ Go("main", "stop_writer")
    /\ UNCHANGED <<action, port, queues, storage, shared, ghost>>

StopWriter ==
    /\ At("main", "stop_writer")
    /\ serial.writer = "exited"
    /\ Serve("writer", "deleted")
    /\ Go("main", "register")
    /\ UNCHANGED <<action, port, queues, storage, shared, ghost>>

Register ==
    /\ At("main", "register")
    /\ CallbackFree
    /\ state' = "none" /\ callback' = "live"
    /\ Go("main", "start")
    /\ UNCHANGED <<action, port, serial, queues, storage, ghost>>

\* usbstorage_start(): three assertions, and the task is made.
Start ==
    /\ At("main", "start")
    /\ InterfaceFree
    /\ IF enabled THEN Fails("still_enabled") /\ UNCHANGED <<pc, storage>>
       ELSE IF handle THEN Fails("task_left") /\ UNCHANGED <<pc, storage>>
       ELSE IF port = "host" THEN Fails("cable_in") /\ UNCHANGED <<pc, storage>>
       ELSE /\ enabled' = TRUE /\ handle' = TRUE /\ stor' = "install"
            /\ Go("main", "create")
            /\ UNCHANGED <<given, installed, device, bits, driver, fault>>
    /\ UNCHANGED <<action, port, serial, queues, shared, overlap>>

\* That there is a task is asserted, when it may be gone again.
Created ==
    /\ At("main", "create")
    /\ IF handle THEN Go("main", "starting") /\ UNCHANGED fault
       ELSE Fails("task_gone") /\ UNCHANGED pc
    /\ UNCHANGED <<action, port, serial, queues, storage, shared, overlap>>

\* If the task could not start, the user is told, and the callback is left with the
\* context of a function that returns.
Started ==
    /\ At("main", "starting")
    /\ given /\ given' = FALSE
    /\ IF enabled THEN Go("main", "wait") /\ UNCHANGED callback
       ELSE Go("main", "dash") /\ callback' = "stale"
    /\ UNCHANGED <<action, port, serial, queues, stor, enabled, handle, installed, device, bits, driver, state, ghost>>

-----------------------------------------------------------------------------
(* The action *)

\* The loop that looks at the state.
Mounted ==
    /\ At("main", "wait") /\ state = "mounted"
    /\ Go("main", "act")
    /\ UNCHANGED <<action, port, serial, queues, storage, shared, ghost>>

MountFailed ==
    /\ At("main", "wait") /\ state = "error"
    /\ Go("main", "finish")
    /\ UNCHANGED <<action, port, serial, queues, storage, shared, ghost>>

\* 'Back' on the prompt, which first takes the callback away.
Back ==
    /\ At("main", "wait")
    /\ CallbackFree
    /\ callback' = "none"
    /\ Go("main", "finish")
    /\ UNCHANGED <<action, port, serial, queues, storage, state, ghost>>

\* Signing a file, or giving up.  Without its stick, the file that is read is shorter
\* than asserted, and reading or writing goes round for ever; so does writing to a full
\* stick.
Sign ==
    /\ At("main", "act") /\ action = "sync"
    /\ \/ Go("main", "finish") /\ UNCHANGED fault
       \/ port # "stick" /\ UNCHANGED pc /\ Fails("short_read")
       \/ Go("main", "spin") /\ UNCHANGED fault
    /\ UNCHANGED <<action, port, serial, queues, storage, shared, overlap>>

\* The file of an update is chosen, or not; the one with its hash is read.
ChooseUpdate ==
    /\ At("main", "act") /\ action = "async"
    /\ Go("main", "finish") \/ Go("main", "post") \/ (port # "stick" /\ Go("main", "spin"))
    /\ UNCHANGED <<action, port, serial, queues, storage, shared, ghost>>

\* 'ota' is put into the queue that only the main task empties.
PostOta ==
    /\ At("main", "post")
    /\ ~InboxFull
    /\ inbox' = [inbox EXCEPT !.ota = TRUE]
    /\ pc' = [main |-> "leave", worker |-> "open"]
    /\ UNCHANGED <<action, port, serial, replies, storage, shared, ghost>>

\* If the file cannot be opened any more, the worker just ends.
WorkerOpens ==
    /\ At("worker", "open")
    /\ Go("worker", "feed") \/ (port # "stick" /\ Go("worker", "lost"))
    /\ UNCHANGED <<action, port, serial, queues, storage, shared, ghost>>

-----------------------------------------------------------------------------
(* And back again, by the main task or the worker *)

\* If there is a stick it is unmounted first.
Finish ==
    /\ At("main", "finish")
    /\ Go("main", IF state # "none" THEN "unmount" ELSE "stop")
    /\ UNCHANGED <<action, port, serial, queues, storage, shared, ghost>>

\* Mutant: serial is started, and the storage task left running.
AfterUnmountSerial == "serial"

AfterUnmount == "stop"

Unmount(t) ==
    /\ At(t, "unmount")
    /\ InterfaceFree
    /\ driver' = [driver EXCEPT !.vfs = FALSE, !.devices = IF device THEN @ - 1 ELSE @]
    /\ device' = FALSE /\ installed' = FALSE
    /\ Go(t, AfterUnmount)
    /\ UNCHANGED <<action, port, serial, queues, stor, enabled, handle, given, bits, shared, ghost>>

\* usbstorage_stop(): it holds interface_semaphore until the task has ended.
Stop(t) ==
    /\ At(t, "stop")
    /\ ~handle \/ InterfaceFree
    /\ IF ~handle THEN Fails("no_task") /\ UNCHANGED <<pc, enabled>>
       ELSE IF ~enabled THEN Fails("not_enabled") /\ UNCHANGED <<pc, enabled>>
       ELSE enabled' = FALSE /\ Go(t, "stopping") /\ UNCHANGED fault
    /\ UNCHANGED <<action, port, serial, queues, stor, handle, given, installed, device, bits, driver, shared, overlap>>

Stopped(t) ==
    /\ At(t, "stopping")
    /\ given /\ given' = FALSE
    /\ stor' = "none" /\ handle' = FALSE
    /\ Go(t, "serial")
    /\ UNCHANGED <<action, port, serial, queues, enabled, installed, device, bits, driver, shared, ghost>>

\* serial_start(), whose result is not looked at: a port that is still a host's may
\* not be had.
SerialStart(t) ==
    /\ At(t, "serial")
    /\ \/ serial' = [on |-> TRUE, reader |-> "read", writer |-> "idle"] /\ ~serial.on
       \/ UNCHANGED serial /\ (serial.on \/ driver.host)
    /\ Go(t, IF t = "main" THEN "leave" ELSE "none")
    /\ UNCHANGED <<action, port, queues, storage, shared, ghost>>

\* Mutant: the callback stays, and with it a context that is gone.
CallbackLeft == "stale"

CallbackTaken == "none"

Leave ==
    /\ At("main", "leave")
    /\ CallbackFree
    /\ callback' = CallbackTaken
    /\ Go("main", "dash")
    /\ UNCHANGED <<action, port, serial, queues, storage, state, ghost>>

-----------------------------------------------------------------------------
(* usbstorage_task() *)

\* Mutant: the task that made it is not told.
RefusedSilently == enabled' = FALSE /\ UNCHANGED given

Refused == enabled' = FALSE /\ given' = TRUE

\* The host driver, and the class driver with it, unless it is still installed or
\* there is an error.  A stick that is plugged in already is found.
Install ==
    /\ stor = "install"
    /\ \/ /\ ~driver.host
          /\ driver' = [driver EXCEPT !.host = TRUE, !.msc = TRUE]
          /\ bits' = IF port = "stick" THEN {"connected"} ELSE {}
          /\ given' = TRUE /\ stor' = "outer" /\ UNCHANGED enabled
       \/ Refused /\ stor' = "refused" /\ UNCHANGED <<bits, driver>>
    /\ UNCHANGED <<pc, action, port, serial, queues, handle, installed, device, shared, ghost>>

Vanish ==
    /\ stor = "refused"
    /\ handle' = FALSE /\ stor' = "none"
    /\ UNCHANGED <<pc, action, port, serial, queues, enabled, given, installed, device, bits, driver, shared, ghost>>

\* A stick; without a callback nobody is told.
Detect ==
    /\ stor = "outer" /\ enabled
    /\ "connected" \in bits
    /\ bits' = bits \ {"connected"}
    /\ IF callback = "none" THEN stor' = "inner" /\ UNCHANGED fault
       ELSE IF callback = "live" THEN stor' = "mount" /\ UNCHANGED fault
       ELSE Fails("stale_context") /\ UNCHANGED stor
    /\ UNCHANGED <<pc, action, port, serial, queues, flags, driver, shared, overlap>>

\* handle_usbstorage_event() and usbstorage_mount(): the device is installed, if it is
\* there, and mounted, unless another is.
Mount ==
    /\ stor = "mount"
    /\ InterfaceFree
    /\ \/ /\ UNCHANGED <<driver, installed, device>> /\ state' = "error"
       \/ /\ port = "stick" /\ driver.devices < MaxDevices
          /\ installed' = TRUE /\ device' = TRUE
          /\ \/ /\ ~driver.vfs
                /\ driver' = [driver EXCEPT !.devices = @ + 1, !.vfs = TRUE]
                /\ state' = "mounted"
             \/ driver' = [driver EXCEPT !.devices = @ + 1] /\ state' = "error"
    /\ stor' = "inner"
    /\ UNCHANGED <<pc, action, port, serial, queues, enabled, handle, given, bits, callback, ghost>>

\* Until the stick is heard of again nothing else is looked at, enabled or not.
Ejected ==
    /\ stor = "inner"
    /\ bits # {}
    /\ bits' = {}
    /\ state' = IF callback = "live" THEN "none" ELSE state
    /\ fault' = IF callback = "stale" THEN "stale_context" ELSE fault
    /\ stor' = IF enabled THEN "outer" ELSE "end"
    /\ UNCHANGED <<pc, action, port, serial, queues, flags, driver, callback, overlap>>

\* When no device is installed any more, the class driver goes, and with it the stick.
UninstallMsc ==
    /\ stor = "inner"
    /\ bits = {}
    /\ driver.msc /\ ~installed /\ driver.devices = 0
    /\ driver' = [driver EXCEPT !.msc = FALSE]
    /\ bits' = IF port = "stick" THEN {"free"} ELSE {}
    /\ UNCHANGED <<pc, action, port, serial, queues, stor, flags, shared, ghost>>

StopsWaiting ==
    /\ stor = "outer" /\ ~enabled
    /\ stor' = "end"
    /\ UNCHANGED <<pc, action, port, serial, queues, flags, bits, driver, shared, ghost>>

\* What is still installed goes, in order; with a device left, none of it does.
End ==
    /\ stor = "end"
    /\ callback' = "none"
    /\ driver' = IF driver.devices = 0 THEN [driver EXCEPT !.msc = FALSE, !.host = FALSE] ELSE driver
    /\ bits' = {}
    /\ given' = TRUE /\ stor' = "parked"
    /\ UNCHANGED <<pc, action, port, serial, queues, enabled, handle, installed, device, state, ghost>>

-----------------------------------------------------------------------------
(* The user *)

\* There is somebody to hear of a stick.
Listening == stor \in {"outer", "mount", "inner"}

PlugHost ==
    /\ port = "none" /\ port' = "host"
    /\ UNCHANGED <<pc, action, serial, queues, storage, shared, ghost>>

UnplugHost ==
    /\ port = "host" /\ port' = "none"
    /\ UNCHANGED <<pc, action, serial, queues, storage, shared, ghost>>

PlugStick ==
    /\ port = "none" /\ port' = "stick"
    /\ bits' = IF Listening /\ driver.msc THEN bits \cup {"connected"} ELSE bits
    /\ UNCHANGED <<pc, action, serial, queues, stor, flags, driver, shared, ghost>>

\* A device that was installed is reported as gone, another as free.
PullStick ==
    /\ port = "stick" /\ port' = "none"
    /\ bits' = IF ~Listening THEN bits
               ELSE bits \cup {IF driver.devices > 0 THEN "gone" ELSE "free"}
    /\ UNCHANGED <<pc, action, serial, queues, stor, flags, driver, shared, ghost>>

\* The power button, an assertion, or the end of an update.
Restart ==
    /\ pc' = [main |-> "dash", worker |-> "none"]
    /\ action' = "sync"
    /\ serial' = [on |-> TRUE, reader |-> "read", writer |-> "idle"]
    /\ inbox' = [serial |-> 0, ota |-> FALSE] /\ replies' = 0
    /\ stor' = "none"
    /\ enabled' = FALSE /\ handle' = FALSE /\ given' = FALSE
    /\ installed' = FALSE /\ device' = FALSE
    /\ bits' = {}
    /\ driver' = [host |-> FALSE, msc |-> FALSE, devices |-> 0, vfs |-> FALSE]
    /\ callback' = "none" /\ state' = "none"
    /\ overlap' = FALSE /\ fault' = "none"
    /\ UNCHANGED port

Serial == ReaderPushes \/ ReaderRejects \/ ReaderExits \/ WriterTakes \/ WriterWrites \/ WriterExits

Changing ==
    \/ CheckCable \/ StopReader \/ StopWriter \/ Register \/ Start \/ Created \/ Started
    \/ Mounted \/ MountFailed \/ PostOta \/ Finish \/ Leave
    \/ \E t \in Tasks : Unmount(t) \/ Stop(t) \/ Stopped(t) \/ SerialStart(t)

Messages == Dispatch \/ Reply \/ DispatchOta \/ OtaEnds \/ WorkerOpens

Storage ==
    \/ Install \/ Vanish \/ Detect \/ Mount \/ Ejected
    \/ UninstallMsc \/ StopsWaiting \/ End

\* What the tasks do by themselves.
Firmware == fault = "none" /\ (Serial \/ Changing \/ Messages \/ Storage)

\* What the user and the app do.
World ==
    \/ fault = "none" /\ (Begin \/ Back \/ Sign \/ ChooseUpdate \/ ReaderReads)
    \/ PlugHost \/ UnplugHost \/ PlugStick \/ PullStick
    \/ Restart

Next == Firmware \/ World

Spec == Init /\ [][Next]_vars

-----------------------------------------------------------------------------
(* Properties *)

\* Types, and the sizes of the queues and of the class driver's list of devices.
UsbTypeOK ==
    /\ pc.main \in {"dash", "reply", "ota", "cable", "stop_reader", "stop_writer", "register", "start",
                   "create", "starting", "wait", "act", "spin", "finish", "post", "unmount", "stop",
                   "stopping", "serial", "leave"}
    /\ pc.worker \in {"none", "open", "feed", "lost", "unmount", "stop", "stopping", "serial"}
    /\ action \in {"sync", "async"} /\ port \in {"none", "host", "stick"}
    /\ serial \in [on : BOOLEAN, reader : {"read", "push", "reject", "exited", "deleted"},
                   writer : {"idle", "write", "exited", "deleted"}]
    /\ inbox \in [serial : 0..QueueSize, ota : BOOLEAN] /\ replies \in 0..OutSize
    /\ inbox.ota => inbox.serial < QueueSize
    /\ stor \in {"none", "install", "refused", "outer", "mount", "inner", "end", "parked"}
    /\ enabled \in BOOLEAN /\ handle \in BOOLEAN /\ given \in BOOLEAN
    /\ installed \in BOOLEAN /\ device \in BOOLEAN /\ overlap \in BOOLEAN
    /\ bits \subseteq {"connected", "gone", "free"}
    /\ driver \in [host : BOOLEAN, msc : BOOLEAN, devices : 0..MaxDevices, vfs : BOOLEAN]
    /\ callback \in {"none", "live", "stale"} /\ state \in {"none", "mounted", "error"}
    /\ fault \in {"none", "cable_in", "task_gone", "task_left", "short_read", "notified_deleted",
                  "still_enabled"}

\* Something other than the user is waited for.
Waiting ==
    \/ pc.main \notin {"dash", "cable", "wait", "act"}
    \/ pc.worker \notin {"none", "lost"}

\* Where the tasks are that can go on by themselves: the guards of Firmware.
SerialCan ==
    \/ serial.reader = "push" /\ ~InboxFull
    \/ serial.reader = "reject" /\ replies < OutSize
    \/ serial.writer = "idle" /\ replies > 0
    \/ serial.writer = "write" /\ port = "host"
    \/ ~serial.on /\ (serial.reader = "read" \/ serial.writer = "idle")

MainCan ==
    \/ pc.main \in {"cable", "create", "finish"}
    \/ At("main", "stop_reader") /\ serial.reader = "exited"
    \/ At("main", "stop_writer") /\ serial.writer = "exited"
    \/ pc.main \in {"register", "leave"} /\ CallbackFree
    \/ At("main", "start") /\ InterfaceFree
    \/ At("main", "starting") /\ given
    \/ At("main", "wait") /\ state # "none"
    \/ At("main", "post") /\ ~InboxFull
    \/ At("main", "dash") /\ (inbox.serial > 0 \/ inbox.ota)
    \/ At("main", "reply") /\ replies < OutSize
    \/ At("main", "ota") /\ At("worker", "feed")
    \/ At("worker", "open")

StopCan == \E t \in Tasks :
    \/ At(t, "unmount") /\ InterfaceFree
    \/ At(t, "stop") /\ (~handle \/ InterfaceFree)
    \/ At(t, "stopping") /\ given
    \/ At(t, "serial")

StorageCan ==
    \/ stor \in {"install", "refused", "end"}
    \/ stor = "outer" /\ (enabled => "connected" \in bits)
    \/ stor = "mount" /\ InterfaceFree
    \/ stor = "inner" /\ (bits # {} \/ (driver.msc /\ ~installed /\ driver.devices = 0))

CanMove == SerialCan \/ MainCan \/ StopCan \/ StorageCan

\* Serial cannot be stopped, as the reader has no room for its message
\* or its error, or the app no longer takes a reply, or the cable is out; serial has been stopped, and
\* there is a message left to reply to, and no room; the queue is full when 'ota'
\* is to be posted; the stop of the storage task is awaited, which waits for the stop to
\* give it the mutex, or for a stick to be pulled; a file that goes on for ever; or an
\* upload whose worker has ended.
Stalled ==
    \/ At("main", "stop_reader") /\ serial.reader = "push" /\ InboxFull
    \/ At("main", "stop_reader") /\ serial.reader = "reject" /\ replies = OutSize
    \/ pc.main \in {"stop_writer", "reply"} /\ serial.writer = "write" /\ port # "host"
    \/ At("main", "reply") /\ serial.writer = "deleted"
    \/ At("main", "post") /\ InboxFull
    \/ (\E t \in Tasks : At(t, "stopping")) /\ (stor = "mount" \/ (stor = "inner" /\ driver.devices > 0))
    \/ At("main", "spin")
    \/ At("main", "ota") /\ At("worker", "lost")

\* As long as no action is begun before the worker of an update has changed back: when
\* no task can go on, they are waiting for the user or the app, or it is one of the known stalls.
NoOtherStall == ~overlap /\ fault = "none" /\ Waiting => CanMove \/ Stalled

\* And nothing in the unit moves but what these guards let move.
KnownStalls == NoOtherStall /\ (fault = "none" => (CanMove <=> ENABLED Firmware))

\* The callback is never called with the context of an action that is over; and the
\* assertions on the storage task's state fail only if an action is begun before the
\* worker of an update has changed back, or an earlier task has not quite gone.
KnownAborts ==
    /\ fault \in {"none", "cable_in", "task_gone", "task_left", "short_read", "notified_deleted"} \/ overlap
    /\ fault # "stale_context"

\* The port is used for one thing at a time; and back on the home screen, with no
\* update under way, it is serial's, unless the storage task could not be started, or
\* the host driver could not be removed as it still had a device.
PortShared ==
    ~overlap =>
        /\ ~(serial.on /\ enabled)
        /\ At("main", "dash") /\ At("worker", "none") =>
            /\ ~enabled /\ callback # "live"
            /\ serial.on \/ callback = "stale" \/ driver.devices > 0
            /\ driver.host => driver.devices > 0
=============================================================================

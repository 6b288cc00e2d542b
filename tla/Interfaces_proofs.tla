-------------------------- MODULE Interfaces_proofs --------------------------
(***************************************************************************)
(* The two interfaces that the main task starts and stops while messages   *)
(* go on: proofs for queues of any size.                                   *)
(*                                                                         *)
(* First the USB port, in UsbStorage: who has the storage task, the port   *)
(* and the callback at each moment of the change from serial to a stick    *)
(* and back.  Then Bluetooth, in BleTasks: who is there, and who may wait  *)
(* for whom, and that waits end, if each task that can take its step does. *)
(* Neither needs an assumption on the drivers beyond what the actions say  *)
(* of them.                                                                *)
(***************************************************************************)
EXTENDS UsbStorage, BleTasks, TLAPS

-----------------------------------------------------------------------------
(* USB storage: the inductive invariant *)

\* Where the main task and the worker can be.
Spots == {"dash", "reply", "ota", "cable", "stop_reader", "stop_writer", "register", "start",
          "create", "starting", "wait", "act", "spin", "finish", "post", "unmount", "stop",
          "stopping", "serial", "leave", "none", "open", "feed", "lost"}

\* From the start of the storage task to its stop, the main task or the worker has it.
Going == {"wait", "act", "spin", "finish", "post", "unmount", "stop"}
MainHas == pc.main \in Going \cup {"create", "starting", "stopping"}
WorkerHas == pc.worker \in {"open", "feed", "lost", "unmount", "stop", "stopping"}

\* Which of the two is where.
Places ==
    /\ pc \in [Tasks -> Spots]
    /\ pc.main \in {"dash", "reply", "ota", "cable", "stop_reader", "stop_writer", "register",
                   "start", "create", "starting", "serial", "leave", "stopping"} \cup Going
    /\ pc.worker \in {"none", "open", "feed", "lost", "unmount", "stop", "stopping", "serial"}

\* The flags and what is counted.
Types ==
    /\ stor \in {"none", "install", "refused", "outer", "mount", "inner", "end", "parked"}
    /\ callback \in {"none", "live", "stale"} /\ state \in {"none", "mounted", "error"}
    /\ enabled \in BOOLEAN /\ handle \in BOOLEAN /\ given \in BOOLEAN /\ installed \in BOOLEAN
    /\ device \in BOOLEAN /\ overlap \in BOOLEAN
    /\ replies \in 0..OutSize

Records ==
    /\ driver \in [host : BOOLEAN, msc : BOOLEAN, devices : Nat, vfs : BOOLEAN]
    /\ serial \in [on : BOOLEAN, reader : {"read", "push", "reject", "exited", "deleted"},
                   writer : {"idle", "write", "exited", "deleted"}]
    /\ inbox \in [serial : Nat, ota : BOOLEAN]

\* The storage task is the main task's, or the worker's, or there is none but one that could
\* not start and is about to go; and how far it has come agrees with how far they have.
Owning ==
    /\ ~(MainHas /\ WorkerHas)
    /\ ~MainHas /\ ~WorkerHas =>
         /\ stor \in {"none", "refused"} /\ (handle <=> stor = "refused")
         /\ ~enabled /\ ~given
    /\ pc.main \in Going \/ pc.worker \in {"open", "feed", "lost", "unmount", "stop"} =>
         enabled /\ handle /\ ~given /\ stor \in {"outer", "mount", "inner"}
    /\ pc.main = "stopping" \/ pc.worker = "stopping" =>
         /\ ~enabled /\ handle /\ stor \in {"outer", "mount", "inner", "end", "parked"}
         /\ given <=> stor = "parked"
    /\ pc.main \in {"create", "starting"} =>
         \/ /\ enabled /\ handle
            /\ \/ stor = "install" /\ ~given
               \/ stor \in {"outer", "mount", "inner"} /\ given
         \/ /\ ~enabled /\ given
            /\ \/ stor = "refused" /\ handle
               \/ stor = "none" /\ ~handle

\* A callback that is stale is one that no storage task is there to call.
Calls ==
    /\ callback = "stale" =>
         /\ pc.main \in {"dash", "reply", "ota", "cable", "stop_reader", "stop_writer", "register"}
         /\ stor \in {"none", "refused"}
    /\ callback = "live" => MainHas \/ pc.main \in {"start", "serial", "leave"}

\* Unless an action was begun too early: serial is on, being stopped, or off, and then its
\* two tasks are gone; and an upload under way is one that the worker is still in.
Wiring == ~overlap =>
   /\ pc.main \in {"dash", "reply", "leave", "ota"} \/ pc.worker = "none"
   /\ serial.on => pc.worker = "none" /\ pc.main \in {"dash", "reply", "cable", "leave", "ota"}
   /\ pc.worker = "none" /\ pc.main \in {"dash", "reply", "ota", "cable"} =>
        serial.on \/ callback = "stale" \/ driver.devices > 0
   /\ pc.worker = "none" /\ pc.main = "leave" => serial.on \/ driver.devices > 0
   /\ serial.on => serial.reader \in {"read", "push", "reject"} /\ serial.writer \in {"idle", "write"}
   /\ pc.main = "stop_reader" =>
        /\ ~serial.on /\ serial.reader \in {"read", "push", "reject", "exited"}
        /\ serial.writer \in {"idle", "write", "exited"}
   /\ pc.main = "stop_writer" =>
        /\ ~serial.on /\ serial.reader = "deleted"
        /\ serial.writer \in {"idle", "write", "exited"}
   /\ ~serial.on /\ pc.main \notin {"stop_reader", "stop_writer"} =>
        serial.reader = "deleted" /\ serial.writer = "deleted"
   /\ pc.main = "ota" => ~inbox.ota
   /\ pc.main = "ota" \/ inbox.ota => pc.worker \in {"open", "feed", "lost"}
   /\ pc.worker \in {"open", "feed", "lost"} => inbox.ota \/ pc.main = "ota"

\* What is installed in the drivers, and that a stick which nobody has been told of is
\* a stick that is still plugged in.
Sticks ==
   /\ device => driver.devices > 0
   /\ driver.host /\ stor \in {"none", "refused", "parked", "install"} => driver.devices > 0
   /\ installed <=> device
   /\ Listening /\ "connected" \in bits => driver.msc
   /\ stor = "mount" => driver.msc
   /\ stor = "inner" /\ ~driver.msc => bits # {}
   /\ Listening /\ bits \subseteq {"connected"} => port = "stick" \/ (bits = {} /\ stor = "outer")

\* Which assertions can fail.
Faults ==
    \/ fault \in {"none", "cable_in", "task_gone", "task_left", "short_read", "notified_deleted"}
    \/ fault = "still_enabled" /\ overlap

Others == Owning /\ Calls /\ Wiring /\ Sticks /\ Faults
IInv == Places /\ Types /\ Records /\ Others

-----------------------------------------------------------------------------
(* Its proof *)

\* The two tasks, moved together.
LEMMA Both ==
    ASSUME NEW a \in Spots, NEW b \in Spots
    PROVE  /\ [main |-> a, worker |-> b] \in [Tasks -> Spots]
           /\ [main |-> a, worker |-> b].main = a
           /\ [main |-> a, worker |-> b].worker = b
BY DEF Tasks

\* As when power has come on.
Fresh ==
    /\ pc = [main |-> "dash", worker |-> "none"]
    /\ serial = [on |-> TRUE, reader |-> "read", writer |-> "idle"]
    /\ inbox = [serial |-> 0, ota |-> FALSE] /\ replies = 0
    /\ stor = "none"
    /\ enabled = FALSE /\ handle = FALSE /\ given = FALSE
    /\ installed = FALSE /\ device = FALSE
    /\ bits = {}
    /\ driver = [host |-> FALSE, msc |-> FALSE, devices |-> 0, vfs |-> FALSE]
    /\ callback = "none" /\ state = "none"
    /\ overlap = FALSE /\ fault = "none"

LEMMA FreshInv == Fresh => IInv
<1> SUFFICES ASSUME Fresh PROVE IInv
  OBVIOUS
<1>1. "dash" \in Spots /\ "none" \in Spots
  BY DEF Spots
<1>2. Places
  BY <1>1, Both DEF Fresh, Places, Going
<1>3. Types
  <2>1. replies \in 0..OutSize
    BY UsbStorageAssumption DEF Fresh
  <2>2. /\ enabled \in BOOLEAN /\ handle \in BOOLEAN /\ given \in BOOLEAN
        /\ installed \in BOOLEAN /\ device \in BOOLEAN /\ overlap \in BOOLEAN
    BY Zenon DEF Fresh
  <2> QED
    BY <2>1, <2>2 DEF Fresh, Types
<1>4. Records
  BY DEF Fresh, Records
<1>5. Others
  BY DEF Fresh, Others, Owning, Calls, Wiring, Sticks, Faults, MainHas, WorkerHas, Going, Listening
<1> QED
  BY <1>2, <1>3, <1>4, <1>5 DEF IInv

LEMMA InitInv == Init => IInv
<1>1. Init => Fresh
  BY Zenon DEF Init, Fresh, queues, flags, storage, shared, ghost
<1> QED
  BY <1>1, FreshInv

LEMMA RestartInv == Restart => IInv'
<1>1. Restart => Fresh'
  BY Zenon DEF Restart, Fresh
<1> QED
  BY <1>1, FreshInv, PTL

USE DEF Go, At, Fails, Serve, Tasks, Refused, AfterUnmount, CallbackTaken, queues, flags,
        storage, shared, ghost

\* The serial tasks: while serial is on they run, afterwards they exit.
LEMMA SerialTypes ==
    ASSUME IInv, ReaderReads \/ ReaderPushes \/ ReaderRejects \/ ReaderExits \/
           WriterTakes \/ WriterWrites \/ WriterExits
    PROVE  (Places /\ Types /\ Records)'
<1>1. Places'
  BY DEF ReaderReads, ReaderPushes, ReaderRejects, ReaderExits, WriterTakes, WriterWrites,
         WriterExits, IInv, Places, Spots, Going
<1>2. Types'
  BY UsbStorageAssumption DEF ReaderReads, ReaderPushes, ReaderRejects, ReaderExits,
                              WriterTakes, WriterWrites, WriterExits,
           IInv, Types
<1>3. Records'
  BY DEF ReaderReads, ReaderPushes, ReaderRejects, ReaderExits, WriterTakes, WriterWrites,
         WriterExits, IInv, Records
<1> QED
  BY <1>1, <1>2, <1>3

LEMMA SerialStep ==
    ASSUME IInv, ReaderReads \/ ReaderPushes \/ ReaderRejects \/ ReaderExits \/
           WriterTakes \/ WriterWrites \/ WriterExits
    PROVE  Others'
<1> USE DEF IInv, Places, Types, Records, Others, Owning, Calls, Wiring, Sticks, Faults, MainHas,
            WorkerHas, Going, Holds, InterfaceFree, CallbackFree, InboxFull, Listening
<1>1. CASE ReaderReads
  BY <1>1 DEF ReaderReads
<1>2. CASE ReaderPushes
  BY <1>2 DEF ReaderPushes
<1>3. CASE ReaderRejects
  BY <1>3 DEF ReaderRejects
<1>4. CASE ReaderExits
  BY <1>4 DEF ReaderExits
<1>5. CASE WriterTakes
  BY <1>5 DEF WriterTakes
<1>6. CASE WriterWrites
  BY <1>6 DEF WriterWrites
<1>7. CASE WriterExits
  BY <1>7 DEF WriterExits
<1> QED
  BY <1>1, <1>2, <1>3, <1>4, <1>5, <1>6, <1>7

\* The main task and its messages, and the update that the worker feeds.
LEMMA MessageTypes ==
    ASSUME IInv, Dispatch \/ Reply \/ DispatchOta \/ WorkerOpens
    PROVE  (Places /\ Types /\ Records)'
<1>1. Places'
  BY DEF Dispatch, Reply, DispatchOta, WorkerOpens, IInv, Places, Spots, Going
<1>2. Types'
  BY UsbStorageAssumption DEF Dispatch, Reply, DispatchOta, WorkerOpens, IInv, Types
<1>3. Records'
  <2>1. Dispatch => inbox.serial - 1 \in Nat
    BY DEF Dispatch, IInv, Records
  <2> QED
    BY <2>1 DEF Dispatch, Reply, DispatchOta, WorkerOpens, IInv, Records
<1> QED
  BY <1>1, <1>2, <1>3

LEMMA MessageStep ==
    ASSUME IInv, Dispatch \/ Reply \/ DispatchOta \/ WorkerOpens
    PROVE  Others'
<1> USE DEF IInv, Places, Types, Records, Others, Owning, Calls, Wiring, Sticks, Faults, MainHas,
            WorkerHas, Going, Holds, InterfaceFree, CallbackFree, InboxFull, Listening
<1>1. CASE Dispatch
  BY <1>1 DEF Dispatch
<1>2. CASE Reply
  BY <1>2 DEF Reply
<1>3. CASE DispatchOta
  BY <1>3 DEF DispatchOta
<1>4. CASE WorkerOpens
  BY <1>4 DEF WorkerOpens
<1> QED
  BY <1>1, <1>2, <1>3, <1>4

\* Where they take them.
LEMMA OtaWhere ==
    ASSUME IInv, OtaEnds \/ PostOta
    PROVE  /\ pc' \in [Tasks -> Spots]
           /\ OtaEnds => pc.main = "ota" /\ pc.worker = "feed" /\ pc'.main = "dash" /\ pc'.worker = "unmount"
           /\ PostOta => pc.main = "post" /\ pc'.main = "leave" /\ pc'.worker = "open"
<1>1. {"dash", "unmount", "leave", "open"} \subseteq Spots
  BY DEF Spots
<1>2. pc' \in [Tasks -> Spots]
  BY <1>1, Both DEF OtaEnds, PostOta
<1>3. OtaEnds => pc.main = "ota" /\ pc.worker = "feed" /\ pc'.main = "dash" /\ pc'.worker = "unmount"
  BY DEF OtaEnds
<1>4. PostOta => pc.main = "post" /\ pc'.main = "leave" /\ pc'.worker = "open"
  BY DEF PostOta
<1> QED
  BY <1>2, <1>3, <1>4

\* The two steps the main task and the worker take together.
LEMMA OtaTypes ==
    ASSUME IInv, OtaEnds \/ PostOta
    PROVE  (Places /\ Types /\ Records)'
<1>1. Places'
  BY OtaWhere DEF Places, Going
<1>2. Types'
  BY DEF OtaEnds, PostOta, IInv, Types
<1>3. Records'
  BY DEF OtaEnds, PostOta, IInv, Records
<1> QED
  BY <1>1, <1>2, <1>3

LEMMA OtaStep ==
    ASSUME IInv, OtaEnds \/ PostOta
    PROVE  Others'
<1> USE DEF IInv, Places, Types, Records, Others, Owning, Calls, Wiring, Sticks, Faults, MainHas,
            WorkerHas, Going, Holds, InterfaceFree, CallbackFree, InboxFull, Listening
<1>1. CASE OtaEnds
  <2>1. UNCHANGED <<port, serial, queues, storage, shared, ghost>>
    BY <1>1 DEF OtaEnds
  <2>2. pc.main = "ota" /\ pc.worker = "feed" /\ pc'.main = "dash" /\ pc'.worker = "unmount"
    BY <1>1, OtaWhere
  <2> QED
    BY <2>1, <2>2
<1>2. CASE PostOta
  BY <1>2, OtaWhere DEF PostOta
<1> QED
  BY <1>1, <1>2

\* From serial to the stick.
LEMMA BeginTypes ==
    ASSUME IInv, Begin \/ CheckCable \/ StopReader \/ StopWriter \/ Register \/ Start
           \/ Created \/ Started
    PROVE  (Places /\ Types /\ Records)'
<1>1. Places'
  BY DEF Begin, CheckCable, StopReader, StopWriter, Register, Start, Created, Started, IInv,
         Places, Spots, Going
<1>2. Types'
  <2>1. Begin => overlap' \in BOOLEAN
    BY Zenon DEF Begin
  <2> QED
    BY <2>1 DEF Begin, CheckCable, StopReader, StopWriter, Register, Start, Created, Started,
                IInv, Types
<1>3. Records'
  BY DEF Begin, CheckCable, StopReader, StopWriter, Register, Start, Created, Started, IInv,
         Records
<1> QED
  BY <1>1, <1>2, <1>3

LEMMA BeginStep ==
    ASSUME IInv, Begin \/ CheckCable \/ StopReader \/ StopWriter \/ Register \/ Start
           \/ Created \/ Started
    PROVE  Others'
<1> USE DEF IInv, Places, Types, Records, Others, Owning, Calls, Wiring, Sticks, Faults, MainHas,
            WorkerHas, Going, Holds, InterfaceFree, CallbackFree, InboxFull, Listening
<1>1. CASE Begin
  <2>1. overlap' \in BOOLEAN /\ (~overlap' => ~overlap /\ pc.worker = "none")
    BY <1>1, Zenon DEF Begin
  <2>2. /\ pc.main = "dash" /\ pc' = [pc EXCEPT !["main"] = "cable"]
        /\ UNCHANGED <<port, serial, queues, storage, shared, fault>>
    BY <1>1, Zenon DEF Begin
  <2> QED
    BY <2>1, <2>2
<1>2. CASE CheckCable
  BY <1>2 DEF CheckCable
<1>3. CASE StopReader
  BY <1>3 DEF StopReader
<1>4. CASE StopWriter
  BY <1>4 DEF StopWriter
<1>5. CASE Register
  BY <1>5 DEF Register
<1>6. CASE Start
  BY <1>6 DEF Start
<1>7. CASE Created
  BY <1>7 DEF Created
<1>8. CASE Started
  BY <1>8 DEF Started
<1> QED
  BY <1>1, <1>2, <1>3, <1>4, <1>5, <1>6, <1>7, <1>8

\* What is run on the stick.
LEMMA ActionTypes ==
    ASSUME IInv, Mounted \/ MountFailed \/ Back \/ Sign \/ ChooseUpdate \/ Finish \/ Leave
    PROVE  (Places /\ Types /\ Records)'
<1>1. Places'
  BY DEF Mounted, MountFailed, Back, Sign, ChooseUpdate, Finish, Leave, IInv, Places, Spots, Going
<1>2. Types'
  BY DEF Mounted, MountFailed, Back, Sign, ChooseUpdate, Finish, Leave, IInv, Types
<1>3. Records'
  BY DEF Mounted, MountFailed, Back, Sign, ChooseUpdate, Finish, Leave, IInv, Records
<1> QED
  BY <1>1, <1>2, <1>3

LEMMA ActionStep ==
    ASSUME IInv, Mounted \/ MountFailed \/ Back \/ Sign \/ ChooseUpdate \/ Finish \/ Leave
    PROVE  Others'
<1> USE DEF IInv, Places, Types, Records, Others, Owning, Calls, Wiring, Sticks, Faults, MainHas,
            WorkerHas, Going, Holds, InterfaceFree, CallbackFree, InboxFull, Listening
<1>1. CASE Mounted
  BY <1>1 DEF Mounted
<1>2. CASE MountFailed
  BY <1>2 DEF MountFailed
<1>3. CASE Back
  BY <1>3 DEF Back
<1>4. CASE Sign
  BY <1>4 DEF Sign
<1>5. CASE ChooseUpdate
  BY <1>5 DEF ChooseUpdate
<1>6. CASE Finish
  BY <1>6 DEF Finish
<1>7. CASE Leave
  BY <1>7 DEF Leave
<1> QED
  BY <1>1, <1>2, <1>3, <1>4, <1>5, <1>6, <1>7

\* And back again, by whichever task it is left to.
LEMMA ChangeTypes ==
    ASSUME IInv, NEW t \in Tasks, Unmount(t) \/ Stop(t) \/ Stopped(t) \/ SerialStart(t)
    PROVE  (Places /\ Types /\ Records)'
<1>1. Places'
  BY DEF Unmount, Stop, Stopped, SerialStart, IInv, Places, Spots, Going
<1>2. Types'
  BY DEF Unmount, Stop, Stopped, SerialStart, IInv, Types
<1>3. Records'
  <2>1. CASE Unmount(t)
    <3>1. device => driver.devices - 1 \in Nat
      BY DEF IInv, Others, Sticks, Records
    <3> QED
      BY <2>1, <3>1 DEF IInv, Records, Unmount
  <2>2. CASE Stop(t)
    BY <2>2 DEF IInv, Records, Stop
  <2>3. CASE Stopped(t)
    BY <2>3 DEF IInv, Records, Stopped
  <2>4. CASE SerialStart(t)
    <3>1. CASE UNCHANGED serial
      BY <2>4, <3>1 DEF IInv, Records, SerialStart
    <3>2. CASE serial' = [on |-> TRUE, reader |-> "read", writer |-> "idle"]
      <4>1. serial' \in [on : BOOLEAN, reader : {"read", "push", "reject", "exited", "deleted"},
                         writer : {"idle", "write", "exited", "deleted"}]
        BY <3>2
      <4> QED
        BY <2>4, <4>1 DEF IInv, Records, SerialStart
    <3> QED
      BY <2>4, <3>1, <3>2 DEF SerialStart
  <2> QED
    BY <2>1, <2>2, <2>3, <2>4
<1> QED
  BY <1>1, <1>2, <1>3

LEMMA ChangeStep ==
    ASSUME IInv, NEW t \in Tasks, Unmount(t) \/ Stop(t) \/ Stopped(t) \/ SerialStart(t)
    PROVE  Others'
<1> USE DEF IInv, Places, Types, Records, Others, Owning, Calls, Wiring, Sticks, Faults, MainHas,
            WorkerHas, Going, Holds, InterfaceFree, CallbackFree, InboxFull, Listening
<1>1. CASE Unmount(t)
  BY <1>1 DEF Unmount
<1>2. CASE Stop(t)
  BY <1>2 DEF Stop
<1>3. CASE Stopped(t)
  BY <1>3 DEF Stopped
<1>4. CASE SerialStart(t)
  BY <1>4 DEF SerialStart
<1> QED
  BY <1>1, <1>2, <1>3, <1>4

\* A stick that could not be mounted may be installed: then it is one that is heard of.
LEMMA MountSticks == ASSUME IInv, Mount PROVE Sticks'
<1>1. UNCHANGED <<bits, port>> /\ stor' = "inner" /\ stor = "mount"
  BY DEF Mount
<1>2. driver \in [host : BOOLEAN, msc : BOOLEAN, devices : Nat, vfs : BOOLEAN]
  BY DEF IInv, Records
<1>3. CASE UNCHANGED <<driver, installed, device>>
  BY <1>1, <1>3 DEF IInv, Others, Sticks, Listening
<1>4. CASE /\ installed' = TRUE /\ device' = TRUE /\ port = "stick"
           /\ driver'.devices = driver.devices + 1 /\ driver'.host = driver.host /\ driver'.msc = driver.msc
  BY <1>1, <1>2, <1>4 DEF IInv, Others, Sticks, Listening
<1> QED
  BY <1>2, <1>3, <1>4 DEF Mount

\* The storage task.
LEMMA StorageTypes ==
    ASSUME IInv, Install \/ Vanish \/ Detect \/ Mount \/ Ejected \/ UninstallMsc \/
           StopsWaiting \/ End
    PROVE  (Places /\ Types /\ Records)'
<1>1. Places'
  BY DEF Install, Vanish, Detect, Mount, Ejected, UninstallMsc, StopsWaiting, End, IInv, Places,
         Spots, Going
<1>2. Types'
  BY DEF Install, Vanish, Detect, Mount, Ejected, UninstallMsc, StopsWaiting, End, IInv, Types
<1>3. Records'
  <2>1. CASE Install \/ UninstallMsc
    BY <2>1 DEF IInv, Records, Install, UninstallMsc
  <2>2. CASE Vanish \/ Detect \/ Ejected \/ StopsWaiting
    BY <2>2 DEF IInv, Records, Vanish, Detect, Ejected, StopsWaiting
  <2>3. CASE Mount
    <3>1. driver.devices + 1 \in Nat
      BY DEF IInv, Records
    <3> QED
      BY <2>3, <3>1 DEF IInv, Records, Mount
  <2>4. CASE End
    BY <2>4 DEF IInv, Records, End
  <2> QED
    BY <2>1, <2>2, <2>3, <2>4
<1> QED
  BY <1>1, <1>2, <1>3

LEMMA StorageStep ==
    ASSUME IInv, Install \/ Vanish \/ Detect \/ Mount \/ Ejected \/ UninstallMsc \/
           StopsWaiting \/ End
    PROVE  Others'
<1> USE DEF IInv, Places, Types, Records, Others, Owning, Calls, Wiring, Sticks, Faults, MainHas,
            WorkerHas, Going, Holds, InterfaceFree, CallbackFree, InboxFull, Listening
<1>1. CASE Install
  BY <1>1 DEF Install
<1>2. CASE Vanish
  BY <1>2 DEF Vanish
<1>3. CASE Detect
  BY <1>3 DEF Detect
<1>4. CASE Mount
  <2>1. Owning' /\ Calls'
    BY <1>4 DEF Mount
  <2>2. Wiring' /\ Faults'
    BY <1>4 DEF Mount
  <2>3. Sticks'
    BY <1>4, MountSticks
  <2> QED
    BY <2>1, <2>2, <2>3
<1>5. CASE Ejected
  BY <1>5 DEF Ejected
<1>6. CASE UninstallMsc
  BY <1>6 DEF UninstallMsc
<1>7. CASE StopsWaiting
  BY <1>7 DEF StopsWaiting
<1>8. CASE End
  BY <1>8 DEF End
<1> QED
  BY <1>1, <1>2, <1>3, <1>4, <1>5, <1>6, <1>7, <1>8

\* The user at the port.
LEMMA PlugTypes ==
    ASSUME IInv, PlugHost \/ UnplugHost \/ PlugStick \/ PullStick
    PROVE  (Places /\ Types /\ Records)'
<1>1. Places'
  BY DEF PlugHost, UnplugHost, PlugStick, PullStick, IInv, Places, Spots, Going
<1>2. Types'
  BY DEF PlugHost, UnplugHost, PlugStick, PullStick, IInv, Types
<1>3. Records'
  BY DEF PlugHost, UnplugHost, PlugStick, PullStick, IInv, Records
<1> QED
  BY <1>1, <1>2, <1>3

LEMMA PlugStep ==
    ASSUME IInv, PlugHost \/ UnplugHost \/ PlugStick \/ PullStick
    PROVE  Others'
<1> USE DEF IInv, Places, Types, Records, Others, Owning, Calls, Wiring, Sticks, Faults, MainHas,
            WorkerHas, Going, Holds, InterfaceFree, CallbackFree, InboxFull, Listening
<1>1. CASE PlugHost
  BY <1>1 DEF PlugHost
<1>2. CASE UnplugHost
  BY <1>2 DEF UnplugHost
<1>3. CASE PlugStick
  BY <1>3 DEF PlugStick
<1>4. CASE PullStick
  BY <1>4 DEF PullStick
<1> QED
  BY <1>1, <1>2, <1>3, <1>4

LEMMA NextInv == IInv /\ [Next]_vars => IInv'
<1> SUFFICES ASSUME IInv, [Next]_vars PROVE IInv'
  OBVIOUS
<1>1. CASE Serial \/ ReaderReads
  BY <1>1, SerialTypes, SerialStep DEF Serial, IInv
<1>2. CASE Messages
  BY <1>2, MessageTypes, MessageStep, OtaTypes, OtaStep DEF Messages, IInv
<1>3. CASE Changing
  <2>1. CASE CheckCable \/ StopReader \/ StopWriter \/ Register \/ Start \/ Created \/ Started
    BY <2>1, BeginTypes, BeginStep DEF IInv
  <2>2. CASE Mounted \/ MountFailed \/ Finish \/ Leave
    BY <2>2, ActionTypes, ActionStep DEF IInv
  <2>3. CASE PostOta
    BY <2>3, OtaTypes, OtaStep DEF IInv
  <2>4. CASE \E t \in Tasks : Unmount(t) \/ Stop(t) \/ Stopped(t) \/ SerialStart(t)
    <3>1. PICK t \in Tasks : Unmount(t) \/ Stop(t) \/ Stopped(t) \/ SerialStart(t)
      BY <2>4
    <3> QED
      BY <3>1, ChangeTypes, ChangeStep DEF IInv
  <2> QED
    BY <1>3, <2>1, <2>2, <2>3, <2>4 DEF Changing
<1>4. CASE Storage
  BY <1>4, StorageTypes, StorageStep DEF Storage, IInv
<1>5. CASE Begin
  BY <1>5, BeginTypes, BeginStep DEF IInv
<1>6. CASE Back \/ Sign \/ ChooseUpdate
  BY <1>6, ActionTypes, ActionStep DEF IInv
<1>7. CASE PlugHost \/ UnplugHost \/ PlugStick \/ PullStick
  BY <1>7, PlugTypes, PlugStep DEF IInv
<1>8. CASE Restart
  BY <1>8, RestartInv
<1>9. CASE UNCHANGED vars
  <2>1. (Places /\ Types /\ Records)'
    BY <1>9 DEF vars, IInv, Places, Types, Records
  <2>2. Others'
    BY <1>9 DEF vars, IInv, Others, Owning, Calls, Wiring, Sticks, Faults, MainHas, WorkerHas,
                Listening
  <2> QED
    BY <2>1, <2>2 DEF IInv
<1> QED
  BY <1>1, <1>2, <1>3, <1>4, <1>5, <1>6, <1>7, <1>8, <1>9 DEF Next, Firmware, World

LEMMA Inductive == Spec => []IInv
BY InitInv, NextInv, PTL DEF Spec

-----------------------------------------------------------------------------
(* What follows for USB storage *)

\* usbhmsc.c never calls usbmode.c's callback with the context of a function that has
\* returned; and of the assertions on its state, those of usbstorage_stop() never fail,
\* while that usbstorage_start() finds it enabled needs an action begun too early.
THEOREM StaleNeverCalled == Spec => []KnownAborts
<1>1. IInv => KnownAborts
  BY DEF IInv, Others, Faults, KnownAborts
<1> QED
  BY <1>1, Inductive, PTL

\* Serial and the storage task never have the port together, and what is left when the
\* main task is back on the home screen, unless an action was begun too early.
THEOREM OneAtATime == Spec => []PortShared
<1>1. IInv => PortShared
  BY DEF IInv, Others, Places, Types, Records, Owning, Wiring, Sticks, Calls, PortShared, MainHas,
         WorkerHas, Going
<1> QED
  BY <1>1, Inductive, PTL

\* Where no guard of the unit's tasks holds and something other than the user is waited
\* for, it is one of the waits that are listed in Stalled: for queues of any size there is
\* no other way for these five tasks to come to a stop.
THEOREM StallsAreListed == Spec => []NoOtherStall
<1>1. IInv => NoOtherStall
  <2> SUFFICES ASSUME IInv, ~overlap, fault = "none", Waiting, ~CanMove, ~Stalled
               PROVE  FALSE
    BY DEF NoOtherStall
  <2>1. Places /\ Types /\ Records /\ Owning /\ Wiring /\ Sticks /\ Calls
    BY DEF IInv, Others
  <2> USE DEF Places, Types, Records, Owning, Wiring, Sticks, Calls, CanMove, SerialCan, MainCan,
              StopCan, StorageCan, Stalled, MainHas, WorkerHas, Going, CallbackFree,
              InterfaceFree, Holds, InboxFull, Waiting
  <2>2. CASE WorkerHas
    BY <2>1, <2>2
  <2>3. CASE MainHas
    BY <2>1, <2>3
  <2>4. CASE ~MainHas /\ ~WorkerHas
    <3>1. CASE pc.main \in {"stop_reader", "stop_writer"}
      BY <2>1, <2>4, <3>1, UsbStorageAssumption
    <3>2. CASE pc.main = "reply"
      BY <2>1, <2>4, <3>2, UsbStorageAssumption
    <3>3. CASE pc.main \notin {"stop_reader", "stop_writer", "reply"}
      BY <2>1, <2>4, <3>3
    <3> QED
      BY <3>1, <3>2, <3>3
  <2> QED
    BY <2>2, <2>3, <2>4
<1> QED
  BY <1>1, Inductive, PTL

\* Of KnownStalls' last conjunct the half that says what a step may do: none is taken by
\* the unit's tasks but where the guards of CanMove let one of them go on.
THEOREM OnlyThenMove == Spec => [][Firmware => CanMove]_vars
<1>1. Firmware => CanMove
  <2> SUFFICES ASSUME Firmware PROVE CanMove
    OBVIOUS
  <2>1. CASE Serial
    BY <2>1 DEF Serial, ReaderPushes, ReaderRejects, ReaderExits, WriterTakes, WriterWrites,
                WriterExits, CanMove, SerialCan
  <2>2. CASE CheckCable \/ StopReader \/ StopWriter \/ Register \/ Start \/ Created \/ Started
             \/ Mounted \/ MountFailed \/ PostOta \/ Finish \/ Leave
    BY <2>2 DEF CheckCable, StopReader, StopWriter, Register, Start, Created, Started, Mounted,
                MountFailed, PostOta, Finish, Leave, At, CanMove, MainCan
  <2>3. CASE \E t \in Tasks : Unmount(t) \/ Stop(t) \/ Stopped(t) \/ SerialStart(t)
    <3>1. PICK t \in Tasks : Unmount(t) \/ Stop(t) \/ Stopped(t) \/ SerialStart(t)
      BY <2>3
    <3> QED
      BY <3>1 DEF Unmount, Stop, Stopped, SerialStart, CanMove, StopCan
  <2>4. CASE Messages
    BY <2>4 DEF Messages, Dispatch, Reply, DispatchOta, OtaEnds, WorkerOpens, At, CanMove, MainCan
  <2>5. CASE Storage
    BY <2>5 DEF Storage, Install, Vanish, Detect, Mount, Ejected, UninstallMsc, StopsWaiting, End,
                CanMove, StorageCan
  <2> QED
    BY <2>1, <2>2, <2>3, <2>4, <2>5 DEF Firmware, Changing
<1> QED
  BY <1>1, PTL DEF Spec

-----------------------------------------------------------------------------
(* USB storage: types of what the invariant does not speak of *)

Plugged ==
    /\ action \in {"sync", "async"} /\ port \in {"none", "host", "stick"}
    /\ bits \subseteq {"connected", "gone", "free"}

InboxFits ==
    /\ inbox.serial <= QueueSize
    /\ inbox.ota => inbox.serial < QueueSize

DevicesFit == driver.devices <= MaxDevices

SerialSteps == Serial \/ ReaderReads
ActionSteps == Begin \/ Back \/ Sign \/ ChooseUpdate
PlugSteps == PlugHost \/ UnplugHost \/ PlugStick \/ PullStick

LEMMA StepIsOne ==
    [Next]_vars => \/ SerialSteps \/ Changing \/ Messages \/ Storage \/ ActionSteps \/ PlugSteps
                   \/ Restart \/ UNCHANGED vars
BY DEF Next, Firmware, World, SerialSteps, ActionSteps, PlugSteps

USE DEF SerialSteps, Serial, Changing, Messages, Storage, ActionSteps, PlugSteps

LEMMA PluggedStep == Plugged /\ [Next]_vars => Plugged'
<1> SUFFICES ASSUME Plugged, [Next]_vars PROVE Plugged'
  OBVIOUS
<1> USE DEF Plugged
<1>1. CASE SerialSteps
  BY <1>1 DEF ReaderReads, ReaderPushes, ReaderRejects, ReaderExits, WriterTakes, WriterWrites,
              WriterExits
<1>2. CASE Messages
  BY <1>2 DEF Dispatch, Reply, DispatchOta, OtaEnds, WorkerOpens
<1>3. CASE Changing
  BY <1>3 DEF CheckCable, StopReader, StopWriter, Register, Start, Created, Started, Mounted,
              MountFailed, PostOta, Finish, Leave, Unmount, Stop, Stopped, SerialStart
<1>4. CASE Storage
  BY <1>4 DEF Install, Vanish, Detect, Mount, Ejected, UninstallMsc, StopsWaiting, End
<1>5. CASE ActionSteps
  BY <1>5 DEF Begin, Back, Sign, ChooseUpdate
<1>6. CASE PlugSteps
  BY <1>6 DEF PlugHost, UnplugHost, PlugStick, PullStick
<1>7. CASE Restart \/ UNCHANGED vars
  BY <1>7 DEF Restart, vars
<1> QED
  BY <1>1, <1>2, <1>3, <1>4, <1>5, <1>6, <1>7, StepIsOne

\* Whoever puts a message into shared_in finds it not full.
LEMMA InboxStep == IInv /\ InboxFits /\ [Next]_vars => InboxFits'
<1> SUFFICES ASSUME IInv, InboxFits, [Next]_vars PROVE InboxFits'
  OBVIOUS
<1>t. inbox \in [serial : Nat, ota : BOOLEAN] /\ QueueSize \in Nat
  BY UsbStorageAssumption DEF IInv, Records
<1>1. CASE UNCHANGED inbox
  BY <1>1 DEF InboxFits
<1>2. CASE ReaderPushes
  <2>1. ~InboxFull /\ inbox' = [inbox EXCEPT !.serial = @ + 1]
    BY <1>2 DEF ReaderPushes
  <2>2. inbox'.serial = inbox.serial + 1 /\ inbox'.ota = inbox.ota
    BY <1>t, <2>1
  <2>3. CASE inbox.ota
    BY <1>t, <2>1, <2>2, <2>3 DEF InboxFull, InboxFits
  <2>4. CASE ~inbox.ota
    BY <1>t, <2>1, <2>2, <2>4 DEF InboxFull, InboxFits
  <2> QED
    BY <2>3, <2>4
<1>3. CASE Dispatch
  <2>1. inbox'.serial = inbox.serial - 1 /\ inbox'.ota = inbox.ota
    BY <1>t, <1>3 DEF Dispatch
  <2> QED
    BY <1>t, <2>1 DEF InboxFits
<1>4. CASE DispatchOta
  <2>1. inbox'.serial = inbox.serial /\ ~inbox'.ota
    BY <1>t, <1>4 DEF DispatchOta
  <2> QED
    BY <2>1 DEF InboxFits
<1>5. CASE PostOta
  <2>1. ~InboxFull /\ inbox'.serial = inbox.serial
    BY <1>t, <1>5 DEF PostOta
  <2>2. inbox.serial < QueueSize
    BY <1>t, <2>1 DEF InboxFull, InboxFits
  <2> QED
    BY <1>t, <2>1, <2>2 DEF InboxFits
<1>6. CASE Restart
  BY <1>t, <1>6 DEF Restart, InboxFits
<1>7. CASE SerialSteps /\ ~ReaderPushes
  BY <1>1, <1>7 DEF ReaderReads, ReaderRejects, ReaderExits, WriterTakes, WriterWrites, WriterExits
<1>8. CASE Messages /\ ~Dispatch /\ ~DispatchOta
  BY <1>1, <1>8 DEF Reply, OtaEnds, WorkerOpens
<1>9. CASE Changing /\ ~PostOta
  BY <1>1, <1>9 DEF CheckCable, StopReader, StopWriter, Register, Start, Created, Started, Mounted,
                    MountFailed, Finish, Leave, Unmount, Stop, Stopped, SerialStart
<1>10. CASE Storage
  BY <1>1, <1>10 DEF Install, Vanish, Detect, Mount, Ejected, UninstallMsc, StopsWaiting, End
<1>11. CASE ActionSteps \/ PlugSteps \/ UNCHANGED vars
  BY <1>1, <1>11 DEF Begin, Back, Sign, ChooseUpdate, PlugHost, UnplugHost, PlugStick, PullStick, vars
<1> QED
  BY <1>2, <1>3, <1>4, <1>5, <1>6, <1>7, <1>8, <1>9, <1>10, <1>11, StepIsOne

LEMMA DevicesStep == IInv /\ DevicesFit /\ [Next]_vars => DevicesFit'
<1> SUFFICES ASSUME IInv, DevicesFit, [Next]_vars PROVE DevicesFit'
  OBVIOUS
<1>t. driver \in [host : BOOLEAN, msc : BOOLEAN, devices : Nat, vfs : BOOLEAN] /\ MaxDevices \in Nat
  BY DEF IInv, Records, MaxDevices
<1>1. CASE driver'.devices \in {0, driver.devices}
  BY <1>t, <1>1 DEF DevicesFit
<1>2. CASE Mount
  <2>1. \/ driver' = driver
        \/ driver.devices < MaxDevices /\ driver'.devices = driver.devices + 1
    BY <1>t, <1>2 DEF Mount
  <2> QED
    BY <1>t, <2>1 DEF DevicesFit
<1>3. ASSUME NEW t \in Tasks, Unmount(t) PROVE DevicesFit'
  <2>1. driver'.devices = driver.devices \/ (device /\ driver'.devices = driver.devices - 1)
    BY <1>t, <1>3 DEF Unmount
  <2> QED
    BY <1>t, <2>1 DEF DevicesFit
<1>4. CASE Storage /\ ~Mount
  BY <1>1, <1>t, <1>4 DEF Install, Vanish, Detect, Ejected, UninstallMsc, StopsWaiting, End
<1>5. CASE Changing /\ ~\E t \in Tasks : Unmount(t)
  BY <1>1, <1>5 DEF CheckCable, StopReader, StopWriter, Register, Start, Created, Started, Mounted,
                    MountFailed, PostOta, Finish, Leave, Stop, Stopped, SerialStart
<1>6. CASE SerialSteps \/ Messages
  BY <1>1, <1>6 DEF ReaderReads, ReaderPushes, ReaderRejects, ReaderExits, WriterTakes, WriterWrites,
                    WriterExits, Dispatch, Reply, DispatchOta, OtaEnds, WorkerOpens
<1>7. CASE ActionSteps \/ PlugSteps \/ Restart \/ UNCHANGED vars
  BY <1>1, <1>7 DEF Begin, Back, Sign, ChooseUpdate, PlugHost, UnplugHost, PlugStick, PullStick,
                    Restart, vars
<1> QED
  BY <1>2, <1>3, <1>4, <1>5, <1>6, <1>7, StepIsOne

\* The tasks, drivers and queues of the USB port have their types: shared_in and serial_out
\* never hold more than fits, and there are never fewer devices than none.
THEOREM UsbTypeCorrect == Spec => []UsbTypeOK
<1>1. Init => Plugged /\ InboxFits /\ DevicesFit
  BY UsbStorageAssumption DEF Init, Plugged, InboxFits, DevicesFit, MaxDevices
<1>2. IInv /\ Plugged /\ InboxFits /\ DevicesFit => UsbTypeOK
  <2> SUFFICES ASSUME IInv, Plugged, InboxFits, DevicesFit PROVE UsbTypeOK
    OBVIOUS
  <2>1. inbox \in [serial : 0..QueueSize, ota : BOOLEAN] /\ (inbox.ota => inbox.serial < QueueSize)
    <3>1. inbox \in [serial : Nat, ota : BOOLEAN]
      BY DEF IInv, Records
    <3> QED
      BY <3>1, UsbStorageAssumption DEF InboxFits
  <2>2. driver \in [host : BOOLEAN, msc : BOOLEAN, devices : 0..MaxDevices, vfs : BOOLEAN]
    <3>1. driver \in [host : BOOLEAN, msc : BOOLEAN, devices : Nat, vfs : BOOLEAN]
      BY DEF IInv, Records
    <3> QED
      BY <3>1 DEF DevicesFit, MaxDevices
  <2>3. serial \in [on : BOOLEAN, reader : {"read", "push", "reject", "exited", "deleted"},
                    writer : {"idle", "write", "exited", "deleted"}]
    BY DEF IInv, Records
  <2>4. /\ pc.main \in {"dash", "reply", "ota", "cable", "stop_reader", "stop_writer", "register",
                        "start", "create", "starting", "wait", "act", "spin", "finish", "post",
                        "unmount", "stop", "stopping", "serial", "leave"}
        /\ pc.worker \in {"none", "open", "feed", "lost", "unmount", "stop", "stopping", "serial"}
    BY DEF IInv, Places, Going
  <2>5. fault \in {"none", "cable_in", "task_gone", "task_left", "short_read", "notified_deleted",
                   "still_enabled"}
    BY DEF IInv, Others, Faults
  <2>6. Types /\ Plugged
    BY DEF IInv
  <2> HIDE DEF Plugged
  <2> QED
    BY <2>1, <2>2, <2>3, <2>4, <2>5, <2>6 DEF Types, Plugged, UsbTypeOK
<1> QED
  BY <1>1, <1>2, InitInv, NextInv, PluggedStep, InboxStep, DevicesStep, PTL DEF Spec

-----------------------------------------------------------------------------
(* Bluetooth *)

\* Where each task can be.
BlePlaces ==
    /\ ble_enabled \in BOOLEAN /\ connected \in BOOLEAN /\ link \in BOOLEAN /\ owed \in BOOLEAN
    /\ main \in {"home", "reply", "starting", "stop_host", "stop_writer"}
    /\ host \in {"down", "idle", "push", "reply", "pairing"}
    /\ writer \in {"none", "get", "send", "sent", "rest", "parked"}
    /\ shutdown \in 0..1

\* The host task is there while BLE is ble_enabled, and goes before the writer.
HostUp ==
    /\ ble_enabled => host # "down"
    /\ main \in {"reply", "starting"} => ble_enabled
    /\ main \in {"stop_host", "stop_writer"} => ~ble_enabled
    /\ main = "stop_host" => host # "down"
    /\ main = "stop_writer" => host = "down"

\* Without it there is no link, and nothing to be reported.
HostDown == host = "down" => ~owed /\ ~link /\ ~connected

\* The writer is there from the end of ble_start() to the end of ble_stop(), and the event
\* is the word of a writer that has parked itself in between.
WriterUp ==
    /\ writer = "none" <=> main = "starting" \/ (main = "home" /\ ~ble_enabled)
    /\ shutdown = 1 <=> writer = "parked"
    /\ writer = "parked" => ~ble_enabled

\* With BLE off the host task has gone as well.
HostGone == main = "home" /\ ~ble_enabled => host = "down"

\* A writer that waits has been notified, or will be.
ReportDue == writer = "sent" => notified \/ owed

BleInv == BlePlaces /\ HostUp /\ HostDown /\ WriterUp /\ HostGone /\ ReportDue

-----------------------------------------------------------------------------
\* As when power has come on.
BleOff ==
    /\ ble_enabled = FALSE /\ connected = FALSE /\ link = FALSE /\ owed = FALSE
    /\ notified = FALSE /\ main = "home" /\ host = "down" /\ writer = "none" /\ shutdown = 0

LEMMA BleOffInv == BleOff => BleInv
<1> SUFFICES ASSUME BleOff PROVE BleInv
  OBVIOUS
<1>1. BlePlaces
  <2>1. ble_enabled \in BOOLEAN /\ connected \in BOOLEAN /\ link \in BOOLEAN /\ owed \in BOOLEAN
    BY Zenon DEF BleOff
  <2>2. shutdown \in 0..1
    BY DEF BleOff
  <2> QED
    BY <2>1, <2>2 DEF BleOff, BlePlaces
<1>2. HostUp /\ HostDown /\ HostGone
  BY DEF BleOff, HostUp, HostDown, HostGone
<1>3. WriterUp /\ ReportDue
  BY DEF BleOff, WriterUp, ReportDue
<1> QED
  BY <1>1, <1>2, <1>3 DEF BleInv

LEMMA BleInitInv == BleInit => BleInv
<1>1. BleInit => BleOff
  BY Zenon DEF BleInit, BleOff
<1> QED
  BY <1>1, BleOffInv

LEMMA BleRestartInv == BleRestart => BleInv'
<1>1. BleRestart => BleOff'
  BY Zenon DEF BleRestart, BleOff
<1> QED
  BY <1>1, BleOffInv, PTL

\* The writer task: it parks itself only when told to, and says so.
LEMMA BleWriterStep == ASSUME BleInv, Writer \/ WriterGivesUp PROVE BleInv'
<1> USE DEF BleInv, BlePlaces, HostUp, HostDown, WriterUp, HostGone, ReportDue, WriterGoes, client,
            bleQueues
<1>1. CASE Get
  BY <1>1 DEF Get
<1>2. CASE Indicate
  BY <1>2 DEF Indicate
<1>3. CASE IndicateFails
  BY <1>3 DEF IndicateFails
<1>4. CASE Sent
  BY <1>4 DEF Sent
<1>5. CASE RestOrExit
  BY <1>5 DEF RestOrExit, Rest
<1>6. CASE WriterGivesUp
  BY <1>6 DEF WriterGivesUp
<1> QED
  BY <1>1, <1>2, <1>3, <1>4, <1>5, <1>6 DEF Writer

\* The host task and its client: they leave the flags and the writer alone.
LEMMA BleHostStep ==
    ASSUME BleInv, Host \/ Connect \/ Subscribe \/ Disconnect \/ Pair
           \/ ClientWrites
    PROVE  BleInv'
<1> USE DEF BleInv, BlePlaces, HostUp, HostDown, WriterUp, HostGone, ReportDue, HostIdle, client,
            writing, bleQueues
<1>1. CASE NotifyTx
  BY <1>1 DEF NotifyTx, Report
<1>2. CASE Paired
  BY <1>2 DEF Paired
<1>3. CASE HostPushes
  BY <1>3 DEF HostPushes
<1>4. CASE HostReplies
  BY <1>4 DEF HostReplies, PushOut
<1>5. CASE Connect
  BY <1>5 DEF Connect
<1>6. CASE Subscribe
  BY <1>6 DEF Subscribe
<1>7. CASE Disconnect
  BY <1>7 DEF Disconnect
<1>8. CASE Pair
  BY <1>8 DEF Pair
<1>9. CASE ClientWrites
  BY <1>9 DEF ClientWrites
<1> QED
  BY <1>1, <1>2, <1>3, <1>4, <1>5, <1>6, <1>7, <1>8, <1>9 DEF Host

\* The main task, which starts and stops the others.
LEMMA BleMainStep ==
    ASSUME BleInv, Main \/ OtherRequest \/ Take \/ BleStart \/ BleStop
    PROVE  BleInv'
<1> USE DEF BleInv, BlePlaces, HostUp, HostDown, WriterUp, HostGone, ReportDue, HostIdle, client,
            writing, bleQueues
<1>1. CASE MainReplies
  BY <1>1 DEF MainReplies, PushOut
<1>2. CASE CreateWriter
  BY <1>2 DEF CreateWriter
<1>3. CASE StopHost
  BY <1>3 DEF StopHost
<1>4. CASE StopBleWriter
  BY <1>4 DEF StopBleWriter, StopWriterWhen
<1>5. CASE OtherRequest
  BY <1>5 DEF OtherRequest
<1>6. CASE Take
  BY <1>6 DEF Take
<1>7. CASE BleStart
  BY <1>7 DEF BleStart
<1>8. CASE BleStop
  BY <1>8 DEF BleStop
<1> QED
  BY <1>1, <1>2, <1>3, <1>4, <1>5, <1>6, <1>7, <1>8 DEF Main

LEMMA BleNextInv == BleInv /\ [BleNext]_bleVars => BleInv'
<1> SUFFICES ASSUME BleInv, [BleNext]_bleVars PROVE BleInv'
  OBVIOUS
<1>1. CASE Writer \/ WriterGivesUp
  BY <1>1, BleWriterStep
<1>2. CASE Host \/ Connect \/ Subscribe \/ Disconnect \/ Pair \/ ClientWrites
  BY <1>2, BleHostStep
<1>3. CASE Main \/ OtherRequest \/ Take \/ BleStart \/ BleStop
  BY <1>3, BleMainStep
<1>4. CASE BleRestart
  BY <1>4, BleRestartInv
<1>5. CASE UNCHANGED bleVars
  BY <1>5 DEF bleVars, client, writing, bleQueues, BleInv, BlePlaces, HostUp,
              HostDown, WriterUp, HostGone, ReportDue
<1> QED
  BY <1>1, <1>2, <1>3, <1>4, <1>5 DEF BleNext, BleWorld

LEMMA BleInductive == BleSpec => []BleInv
BY BleInitInv, BleNextInv, PTL DEF BleSpec

-----------------------------------------------------------------------------
\* When Bluetooth is off, no task of it is left, and nothing that would be taken for an
\* event, a report or a connection later.
THEOREM OffIsOff == BleSpec => []OffMeansOff
<1>1. BleInv => OffMeansOff
  BY DEF BleInv, BlePlaces, HostUp, HostDown, WriterUp, HostGone, OffMeansOff
<1> QED
  BY <1>1, BleInductive, PTL

\* ble_stop() deletes a writer only where it has parked itself: the event it has waited
\* for cannot be that of an earlier one.
THEOREM DeletedWhenParked == BleSpec => WriterParked
<1>1. BleInv /\ [BleNext]_bleVars => [StopBleWriter => writer = "parked"]_bleVars
  BY DEF BleInv, WriterUp, StopBleWriter, StopWriterWhen
<1> QED
  BY <1>1, BleInductive, PTL DEF BleSpec, WriterParked

-----------------------------------------------------------------------------
(* Who may wait for whom *)

\* A task can go on by itself: the writer, the host task, the main task.
TasksCanMove ==
    \/ writer \in {"get", "send", "rest"} \/ (writer = "sent" /\ notified)
    \/ (host = "idle" /\ owed) \/ host = "pairing"
    \/ (host = "push" /\ ~SharedInFull) \/ (host = "reply" /\ ~OutFull)
    \/ main = "starting" \/ (main = "reply" /\ ~OutFull)
    \/ (main = "stop_host" /\ HostIdle) \/ (main = "stop_writer" /\ shutdown = 1)

\* While the main task waits, in ble_start(), ble_stop() or for room in ble_out, one of the
\* three tasks can go on, or the host task is held up in one of its two callbacks: for
\* queues of any size and replies of any length there is no other way to wait for ever.
THEOREM OnlyTheseHalt == BleSpec => [](main # "home" => TasksCanMove \/ HostStuck)
<1>1. BleInv => (main # "home" => TasksCanMove \/ HostStuck)
  <2> SUFFICES ASSUME BleInv, main # "home", ~TasksCanMove PROVE HostStuck
    OBVIOUS
  <2> USE DEF BleInv, BlePlaces, HostUp, HostDown, WriterUp, ReportDue, TasksCanMove, HostIdle,
              AwaitsReport
  <2>1. writer \in {"none", "parked"} \/ AwaitsReport
    OBVIOUS
  <2>2. CASE main = "reply"
    <3>1. AwaitsReport /\ OutFull
      BY <2>1, <2>2
    <3> QED
      BY <2>2, <3>1 DEF HostStuck
  <2>3. CASE main = "stop_host"
    <3>1. writer = "parked" \/ AwaitsReport
      BY <2>1, <2>3
    <3> QED
      BY <2>3, <3>1 DEF HostStuck
  <2>4. CASE main = "stop_writer"
    BY <2>1, <2>4
  <2> QED
    BY <2>2, <2>3, <2>4
<1> QED
  BY <1>1, BleInductive, PTL

\* And each of those ways is for ever: nothing but a restart ends it, not even a client that
\* leaves, since NimBLE reports that from the same task.
THEOREM HaltsForGood == BleSpec => [][HostStuck => HostStuck' \/ BleRestart]_bleVars
<1>1. BleInv /\ [BleNext]_bleVars => [HostStuck => HostStuck' \/ BleRestart]_bleVars
  <2> SUFFICES ASSUME BleInv, BleNext, HostStuck, ~BleRestart PROVE HostStuck'
    BY DEF bleVars
  <2> USE DEF BleInv, BlePlaces, HostUp, HostDown, WriterUp, HostStuck, HostIdle, AwaitsReport,
              OutFull, SharedInFull, client, writing, bleQueues
  <2>1. CASE Writer \/ WriterGivesUp
    BY <2>1 DEF Writer, Get, Indicate, IndicateFails, Sent, RestOrExit, WriterGivesUp,
                WriterGoes, BlePlaces, Rest
  <2>2. CASE Host
    BY <2>2 DEF Host, NotifyTx, Report, Paired, HostPushes, HostReplies, PushOut
  <2>3. CASE Main
    BY <2>3 DEF Main, MainReplies, PushOut, CreateWriter, StopHost, StopBleWriter,
                StopWriterWhen
  <2>4. CASE Connect \/ Subscribe \/ Disconnect \/ Pair \/ ClientWrites
    BY <2>4 DEF Connect, Subscribe, Disconnect, Pair, ClientWrites
  <2>5. CASE OtherRequest \/ Take \/ BleStart \/ BleStop
    BY <2>5 DEF OtherRequest, Take, BleStart, BleStop
  <2> QED
    BY <2>1, <2>2, <2>3, <2>4, <2>5 DEF BleNext, BleWorld
<1> QED
  BY <1>1, BleInductive, PTL DEF BleSpec

-----------------------------------------------------------------------------
(* What is counted *)

Requests == {"ble", "other"}

\* A reply stays in ble_out until the writer has written all of it.
Lengths ==
    /\ shared_in \in Seq(Requests) /\ Len(shared_in) <= InSize
    /\ ble_out \in Seq(Chunks) /\ Len(ble_out) <= BleOutSize
    /\ left \in 0..MaxChunks /\ try \in 0..MaxTries - 1 /\ notified \in BOOLEAN
    /\ writer \in {"send", "sent"} => ble_out # <<>>
    /\ writer = "send" => left > 0

\* What the functions of process.c do to a queue.
LEMMA QueueFacts ==
    ASSUME NEW S, NEW q \in Seq(S), NEW x \in S, NEW k \in Nat \ {0}, Len(q) <= k
    PROVE  /\ Append(q, x) \in Seq(S) /\ Append(q, x) # <<>>
           /\ Len(q) # k => Len(Append(q, x)) <= k
           /\ q # <<>> => Tail(q) \in Seq(S) /\ Len(Tail(q)) <= k /\ Head(q) \in S
           /\ LET r == Append(IF Len(q) = k THEN Tail(q) ELSE q, x) IN
              r \in Seq(S) /\ Len(r) <= k /\ r # <<>>
<1>1. Len(q) \in Nat /\ Len(Append(q, x)) = Len(q) + 1 /\ Append(q, x) \in Seq(S)
  OBVIOUS
<1>2. q # <<>> => Tail(q) \in Seq(S) /\ Len(Tail(q)) = Len(q) - 1 /\ Head(q) \in S
  OBVIOUS
<1>3. Append(q, x) # <<>>
  <2>1. Len(Append(q, x)) # 0
    BY <1>1
  <2> QED
    BY <2>1
<1>4. CASE Len(q) = k
  <2>1. q # <<>>
    BY <1>4
  <2>2. Tail(q) \in Seq(S) /\ Len(Tail(q)) = k - 1
    BY <1>2, <1>4, <2>1
  <2>3. /\ Append(Tail(q), x) \in Seq(S) /\ Len(Append(Tail(q), x)) = k
        /\ Append(Tail(q), x) # <<>>
    BY <2>2
  <2> QED
    BY <1>1, <1>2, <1>3, <1>4, <2>3
<1>5. CASE Len(q) # k
  BY <1>1, <1>2, <1>3, <1>5
<1> QED
  BY <1>4, <1>5

LEMMA SizesAre ==
    /\ InSize \in Nat \ {0} /\ BleOutSize \in Nat \ {0} /\ MaxChunks \in Nat \ {0}
    /\ MaxTries \in Nat \ {0} /\ Chunks = 1..MaxChunks
BY BleAssumption DEF Chunks

LEMMA Counts ==
    /\ 0 \in 0..MaxChunks /\ 0 \in 0..MaxTries - 1
    /\ \A k \in 0..MaxChunks : k > 0 => k - 1 \in 0..MaxChunks
    /\ \A k \in 0..MaxTries - 1 : k + 1 < MaxTries => k + 1 \in 0..MaxTries - 1
<1>1. MaxChunks \in Nat \ {0} /\ MaxTries \in Nat \ {0}
  BY SizesAre
<1> QED
  BY <1>1

\* Pushing and taking.
LEMMA PushOutLengths ==
    ASSUME Lengths, PushOut \/ PushOutUnheard
    PROVE  ble_out' \in Seq(Chunks) /\ Len(ble_out') <= BleOutSize /\ ble_out' # <<>>
<1>1. CASE PushOut
  <2>1. PICK n \in Chunks : ble_out' = Append(ble_out, n) /\ Len(ble_out) # BleOutSize
    BY <1>1 DEF PushOut, OutFull
  <2> QED
    BY <2>1, SizesAre, QueueFacts DEF Lengths
<1>2. CASE PushOutUnheard
  <2>1. PICK n \in Chunks :
            ble_out' = Append(IF Len(ble_out) = BleOutSize THEN Tail(ble_out) ELSE ble_out, n)
    BY <1>2 DEF PushOutUnheard, OutFull
  <2> QED
    BY <2>1, SizesAre, QueueFacts DEF Lengths
<1> QED
  BY <1>1, <1>2

LEMMA TailLengths ==
    ASSUME Lengths
    PROVE  /\ ble_out # <<>> => Tail(ble_out) \in Seq(Chunks) /\ Len(Tail(ble_out)) <= BleOutSize
                                /\ Head(ble_out) \in 1..MaxChunks
           /\ shared_in # <<>> => Tail(shared_in) \in Seq(Requests) /\ Len(Tail(shared_in)) <= InSize
<1>1. 1 \in Chunks /\ "ble" \in Requests
  BY SizesAre DEF Requests
<1>2. ble_out # <<>> => Tail(ble_out) \in Seq(Chunks) /\ Len(Tail(ble_out)) <= BleOutSize
                        /\ Head(ble_out) \in Chunks
  BY <1>1, SizesAre, QueueFacts DEF Lengths
<1>3. shared_in # <<>> => Tail(shared_in) \in Seq(Requests) /\ Len(Tail(shared_in)) <= InSize
  BY <1>1, SizesAre, QueueFacts DEF Lengths
<1> QED
  BY <1>2, <1>3, SizesAre

LEMMA MoreRequests ==
    ASSUME Lengths, NEW r \in Requests, ~SharedInFull, shared_in' = Append(shared_in, r)
    PROVE  shared_in' \in Seq(Requests) /\ Len(shared_in') <= InSize
BY SizesAre, QueueFacts DEF Lengths, SharedInFull

LEMMA NoneLengths ==
    ASSUME shared_in = <<>>, ble_out = <<>>, left = 0, try = 0, notified = FALSE, writer = "none"
    PROVE  Lengths
<1>1. <<>> \in Seq(Requests) /\ <<>> \in Seq(Chunks) /\ Len(<<>>) = 0
  OBVIOUS
<1>2. Len(<<>>) <= InSize /\ Len(<<>>) <= BleOutSize
  BY <1>1, SizesAre
<1> QED
  BY <1>1, <1>2, Counts DEF Lengths

LEMMA WriterLengths == ASSUME BleInv, Lengths, Writer \/ WriterGivesUp PROVE Lengths'
<1> USE DEF Lengths, WriterGoes, bleQueues, client
<1>1. CASE Get
  BY <1>1, TailLengths, SizesAre, Counts DEF Get
<1>2. CASE Indicate
  BY <1>2, Counts DEF Indicate
<1>3. CASE IndicateFails
  <2>1. CASE try + 1 < MaxTries
    BY <1>3, <2>1, Counts DEF IndicateFails
  <2>2. CASE ~(try + 1 < MaxTries)
    BY <1>3, <2>2, TailLengths, Counts DEF IndicateFails
  <2> QED
    BY <2>1, <2>2
<1>4. CASE Sent
  BY <1>4, TailLengths DEF Sent
<1>5. CASE RestOrExit
  BY <1>5 DEF RestOrExit, Rest
<1>6. CASE WriterGivesUp
  BY <1>6, TailLengths, Counts DEF WriterGivesUp
<1> QED
  BY <1>1, <1>2, <1>3, <1>4, <1>5, <1>6 DEF Writer

LEMMA HostLengths ==
    ASSUME BleInv, Lengths, Host \/ Connect \/ Subscribe \/ Disconnect \/ Pair \/ ClientWrites
    PROVE  Lengths'
<1> USE DEF client, writing, bleQueues
<1>1. CASE NotifyTx
  BY <1>1 DEF NotifyTx, Report, Lengths
<1>2. CASE Paired \/ Pair
  BY <1>2 DEF Paired, Pair, Lengths
<1>3. CASE HostPushes
  BY <1>3, MoreRequests DEF HostPushes, Lengths, Requests
<1>4. CASE HostReplies
  BY <1>4, PushOutLengths DEF HostReplies, PushOut, Lengths
<1>5. CASE Connect \/ Subscribe
  BY <1>5 DEF Connect, Subscribe, Lengths
<1>6. CASE Disconnect
  BY <1>6 DEF Disconnect, Lengths, BleInv, BlePlaces
<1>7. CASE ClientWrites
  BY <1>7, PushOutLengths DEF ClientWrites, Lengths
<1> QED
  BY <1>1, <1>2, <1>3, <1>4, <1>5, <1>6, <1>7 DEF Host

LEMMA MainLengths ==
    ASSUME BleInv, Lengths, Main \/ OtherRequest \/ Take \/ BleStart \/ BleStop
    PROVE  Lengths'
<1> USE DEF client, writing, bleQueues
<1>1. CASE MainReplies
  BY <1>1, PushOutLengths DEF MainReplies, PushOut, Lengths
<1>2. CASE CreateWriter
  BY <1>2 DEF CreateWriter, Lengths
<1>3. CASE StopHost
  BY <1>3 DEF StopHost, Lengths, BleInv, BlePlaces
<1>4. CASE StopBleWriter
  BY <1>4, Counts DEF StopBleWriter, StopWriterWhen, Lengths
<1>5. CASE OtherRequest
  BY <1>5, MoreRequests DEF OtherRequest, Lengths, Requests
<1>6. CASE Take
  BY <1>6, TailLengths, PushOutLengths DEF Take, Lengths
<1>7. CASE BleStart \/ BleStop
  BY <1>7 DEF BleStart, BleStop, Lengths
<1> QED
  BY <1>1, <1>2, <1>3, <1>4, <1>5, <1>6, <1>7 DEF Main

LEMMA LengthsInductive == BleSpec => []Lengths
<1>1. BleInit => Lengths
  BY NoneLengths DEF BleInit
<1>2. BleInv /\ Lengths /\ [BleNext]_bleVars => Lengths'
  <2> SUFFICES ASSUME BleInv, Lengths, [BleNext]_bleVars PROVE Lengths'
    OBVIOUS
  <2>1. CASE BleRestart
    <3>1. (shared_in = <<>> /\ ble_out = <<>> /\ left = 0 /\ try = 0 /\ notified = FALSE
           /\ writer = "none")'
      BY <2>1 DEF BleRestart
    <3> QED
      BY <3>1, NoneLengths, PTL
  <2>2. CASE UNCHANGED bleVars
    BY <2>2 DEF bleVars, Lengths, client, writing, bleQueues
  <2> QED
    BY <2>1, <2>2, WriterLengths, HostLengths, MainLengths DEF BleNext, BleWorld
<1> QED
  BY <1>1, <1>2, BleInductive, PTL DEF BleSpec

\* The tasks, queues and counters of ble.c have their types: no queue holds more than fits,
\* and the writer never takes an indication from a reply that is not there.
THEOREM TypeCorrect == BleSpec => []TypeOK
<1>1. BleInv /\ Lengths => TypeOK
  <2> SUFFICES ASSUME BleInv, Lengths PROVE TypeOK
    OBVIOUS
  <2>1. {ble_enabled, connected, link, notified, owed} \subseteq BOOLEAN
    BY Zenon DEF BleInv, BlePlaces, Lengths
  <2> QED
    BY <2>1 DEF BleInv, BlePlaces, Lengths, TypeOK, Requests
<1> QED
  BY <1>1, BleInductive, LengthsInductive, PTL

-----------------------------------------------------------------------------
(* Waits that end *)

\* A step of the task is possible when it is its turn.
WriterTurn == writer \in {"get", "send", "rest"} \/ (writer = "sent" /\ notified)
MainTurn == main = "starting" \/ (main = "stop_writer" /\ shutdown = 1)

BleTurns ==
    /\ WriterTurn => ENABLED <<Writer \/ WriterGivesUp>>_bleVars
    /\ MainTurn => ENABLED <<CreateWriter \/ StopBleWriter>>_bleVars
    /\ main = "stop_host" /\ HostIdle => ENABLED <<StopHost>>_bleVars
    /\ main = "reply" /\ ~OutFull => ENABLED <<MainReplies>>_bleVars
    /\ HostIdle /\ owed => ENABLED <<NotifyTx>>_bleVars
    /\ host = "pairing" => ENABLED <<Paired>>_bleVars
    /\ host = "push" /\ ~SharedInFull => ENABLED <<HostPushes>>_bleVars
    /\ host = "reply" /\ ~OutFull => ENABLED <<HostReplies>>_bleVars

\* Without NimBLE each step of the writer brings it closer to where it parks itself.
LEMMA WriterWinds ==
    ASSUME BleInv, main = "stop_writer", Writer \/ WriterGivesUp
    PROVE  /\ writer = "sent" => writer' \in {"send", "get"}
           /\ writer = "get" => writer' \in {"send", "rest"}
           /\ writer = "send" => writer' = "rest"
           /\ writer = "rest" => writer' = "parked"
           /\ writer # "parked"
           /\ main' = main
<1> USE DEF WriterGoes, bleQueues, client, BleInv, HostUp, HostDown
<1>1. CASE Get
  BY <1>1 DEF Get
<1>2. ~Indicate /\ ~IndicateFails
  BY DEF Indicate, IndicateFails
<1>3. CASE Sent
  BY <1>3 DEF Sent
<1>4. CASE RestOrExit
  BY <1>4 DEF RestOrExit, Rest
<1>5. CASE WriterGivesUp
  BY <1>5 DEF WriterGivesUp
<1> QED
  BY <1>1, <1>2, <1>3, <1>4, <1>5 DEF Writer

\* Until the main task is back, nobody else moves the writer.
LEMMA MainWaits ==
    ASSUME BleInv, main # "home", [BleNext]_bleVars, main' # "home"
    PROVE  /\ Writer \/ WriterGivesUp \/ UNCHANGED <<writer, left, try>>
           /\ main' = main \/ (main = "stop_host" /\ main' = "stop_writer")
<1> USE DEF client, writing, bleQueues
<1>1. CASE Host
  BY <1>1 DEF Host, NotifyTx, Report, Paired, HostPushes, HostReplies
<1>2. CASE Main
  BY <1>2 DEF Main, MainReplies, CreateWriter, StopHost, StopBleWriter, StopWriterWhen
<1>3. CASE Connect \/ Subscribe \/ Disconnect \/ Pair \/ ClientWrites \/ OtherRequest
  BY <1>3 DEF Connect, Subscribe, Disconnect, Pair, ClientWrites, OtherRequest
<1>4. CASE Take \/ BleStart \/ BleStop \/ BleRestart
  BY <1>4 DEF Take, BleStart, BleStop, BleRestart
<1>5. CASE UNCHANGED bleVars
  BY <1>5 DEF bleVars
<1>6. CASE Writer \/ WriterGivesUp
  BY <1>6 DEF Writer, Get, Indicate, IndicateFails, Sent, RestOrExit, Rest, WriterGivesUp
<1> QED
  BY <1>1, <1>2, <1>3, <1>4, <1>5, <1>6 DEF BleNext, BleWorld

\* The waits of ble_start() and of the end of ble_stop() come to their end, wherever in a
\* reply the writer was: if it and the main task get their turns.
THEOREM WriterIsStopped ==
    FairBleSpec /\ []BleTurns => (main \in {"starting", "stop_writer"} ~> main = "home")
<1> DEFINE home == main = "home"
<1> DEFINE starting == main = "starting"
<1> DEFINE stopping == main = "stop_writer"
<1> DEFINE at(where) == stopping /\ writer = where
<1> DEFINE sent == at("sent")
<1> DEFINE get == at("get")
<1> DEFINE send == at("send")
<1> DEFINE rest == at("rest")
<1> DEFINE parked == at("parked")
<1>1. BleInv /\ starting /\ [BleNext]_bleVars => starting' \/ home'
  BY MainWaits
<1>2. BleInv /\ starting /\ <<CreateWriter \/ StopBleWriter>>_bleVars => home'
  BY DEF CreateWriter, StopBleWriter, StopWriterWhen
<1>3. BleInv /\ stopping /\ [BleNext]_bleVars => stopping' \/ home'
  BY MainWaits
<1>4. BleInv /\ stopping => sent \/ get \/ send \/ rest \/ parked
  BY DEF BleInv, BlePlaces, WriterUp
<1>5. /\ BleInv /\ sent /\ [BleNext]_bleVars => sent' \/ send' \/ get' \/ home'
      /\ BleInv /\ get /\ [BleNext]_bleVars => get' \/ send' \/ rest' \/ home'
      /\ BleInv /\ send /\ [BleNext]_bleVars => send' \/ rest' \/ home'
      /\ BleInv /\ rest /\ [BleNext]_bleVars => rest' \/ parked' \/ home'
      /\ BleInv /\ parked /\ [BleNext]_bleVars => parked' \/ home'
  BY MainWaits, WriterWinds
<1>6. /\ BleInv /\ sent /\ <<Writer \/ WriterGivesUp>>_bleVars => send' \/ get'
      /\ BleInv /\ get /\ <<Writer \/ WriterGivesUp>>_bleVars => send' \/ rest'
      /\ BleInv /\ send /\ <<Writer \/ WriterGivesUp>>_bleVars => rest'
      /\ BleInv /\ rest /\ <<Writer \/ WriterGivesUp>>_bleVars => parked'
  BY WriterWinds
<1>7. BleInv /\ parked /\ <<CreateWriter \/ StopBleWriter>>_bleVars => home'
  BY DEF CreateWriter, StopBleWriter, StopWriterWhen
<1>8. BleInv => /\ sent \/ get \/ send \/ rest => WriterTurn
                /\ starting \/ parked => MainTurn
  BY DEF BleInv, HostUp, HostDown, WriterUp, ReportDue, WriterTurn, MainTurn
<1>9. main \in {"starting", "stop_writer"} <=> starting \/ stopping
  OBVIOUS
<1> HIDE DEF home, starting, stopping, at
<1> QED
  BY <1>1, <1>2, <1>3, <1>4, <1>5, <1>6, <1>7, <1>8, <1>9, BleInductive, PTL
  DEF FairBleSpec, BleSpec, BleTurns, home

\* While there is no room for a reply, and the main task waits for it or for the host task.
NoRoomYet == OutFull /\ main \in {"reply", "stop_host"} /\ ~HostStuck

\* Attempts left at the next indication.
TriesLeft == MaxTries - try

\* Then each step of the writer brings it closer to the end of the reply it is writing.
LEMMA WriterGetsOn ==
    ASSUME BleInv, Lengths, NoRoomYet, Writer \/ WriterGivesUp, NoRoomYet'
    PROVE  \/ writer = "rest" /\ writer' \in {"get", "parked"}
           \/ writer = "get" /\ writer' = "send"
           \/ writer = "sent" /\ writer' = "send" /\ left' = left
           \/ writer = "send" /\ writer' = "sent" /\ left' <= left /\ left' # left
           \/ writer = "send" /\ writer' = "send" /\ left' = left
              /\ TriesLeft' <= TriesLeft /\ TriesLeft' # TriesLeft
<1> USE DEF WriterGoes, bleQueues, client
<1>0. /\ ble_out # <<>> /\ ble_out \in Seq(Chunks) /\ Len(ble_out) = BleOutSize
      /\ Len(ble_out') = BleOutSize
  <2>1. Len(ble_out) = BleOutSize /\ Len(ble_out') = BleOutSize /\ BleOutSize # 0
    BY SizesAre DEF NoRoomYet, OutFull
  <2> QED
    BY <2>1 DEF Lengths
<1>a. ble_out' # Tail(ble_out)
  BY <1>0
<1>1. CASE Get
  BY <1>0, <1>1 DEF Get
<1>2. CASE Indicate
  BY <1>2 DEF Indicate, Lengths
<1>3. CASE IndicateFails
  BY <1>3, <1>a, SizesAre DEF IndicateFails, TriesLeft, Lengths
<1>4. CASE Sent
  BY <1>4, <1>a DEF Sent
<1>5. CASE RestOrExit
  BY <1>5 DEF RestOrExit, Rest
<1>6. ~WriterGivesUp
  BY DEF WriterGivesUp, NoRoomYet, BleInv, HostUp
<1> QED
  BY <1>1, <1>2, <1>3, <1>4, <1>5, <1>6 DEF Writer

\* Natural numbers that only go down settle.
LeftSettles == <>[][left' <= left]_bleVars => <>[][left' = left]_bleVars
TriesSettle ==
    <>[][TriesLeft' <= TriesLeft]_bleVars => <>[][TriesLeft' = TriesLeft]_bleVars

\* Which these two are: the indications left, and the attempts.
LEMMA StepsAreCounted == BleSpec => [](left \in Nat /\ TriesLeft \in Nat)
<1>1. Lengths => left \in Nat /\ TriesLeft \in Nat
  BY SizesAre DEF Lengths, TriesLeft
<1> QED
  BY <1>1, LengthsInductive, PTL

\* So that there are only finitely many before there is room.
LEMMA WriterMakesRoom ==
    BleSpec /\ LeftSettles /\ TriesSettle
        => ~(<>[]NoRoomYet /\ []<><<Writer \/ WriterGivesUp>>_bleVars)
<1> DEFINE at(where) == writer = where
<1> DEFINE sent == at("sent")
<1> DEFINE get == at("get")
<1> DEFINE send == at("send")
<1> DEFINE rest == at("rest")
<1> DEFINE parked == at("parked")
<1> DEFINE Inv == BleInv /\ Lengths /\ NoRoomYet
<1> DEFINE Step == Writer \/ WriterGivesUp
<1>0. ASSUME Inv, Inv', [BleNext]_bleVars, ~Step
      PROVE  UNCHANGED <<writer, left, TriesLeft>>
  <2>1. main # "home" /\ main' # "home"
    BY <1>0 DEF NoRoomYet
  <2> QED
    BY <1>0, <2>1, MainWaits DEF TriesLeft
<1>n. ASSUME Inv PROVE left \in Nat /\ TriesLeft \in Nat
  BY <1>n, SizesAre DEF Lengths, TriesLeft
<1>w. ASSUME Inv, Inv', Step
      PROVE  \/ rest /\ (get' \/ parked')
             \/ get /\ send'
             \/ sent /\ send' /\ left' = left
             \/ send /\ sent' /\ left' <= left /\ left' # left
             \/ send /\ send' /\ left' = left
                  /\ TriesLeft' <= TriesLeft /\ TriesLeft' # TriesLeft
  BY <1>w, WriterGetsOn
<1>1. Inv => sent \/ get \/ send \/ rest \/ parked
  BY DEF NoRoomYet, BleInv, BlePlaces, WriterUp
<1>2. Inv /\ Inv' /\ [BleNext]_bleVars
        => /\ rest => rest' \/ get' \/ parked'
           /\ get => get' \/ send'
           /\ sent \/ send => (sent' \/ send') /\ [left' <= left]_bleVars
           /\ parked => parked'
  <2> SUFFICES ASSUME Inv, Inv', [BleNext]_bleVars
               PROVE  /\ rest => rest' \/ get' \/ parked'
                      /\ get => get' \/ send'
                      /\ sent \/ send => (sent' \/ send') /\ left' <= left
                      /\ parked => parked'
    OBVIOUS
  <2>1. CASE Step
    BY <1>n, <1>w, <2>1
  <2>2. CASE ~Step
    BY <1>0, <1>n, <2>2
  <2> QED
    BY <2>1, <2>2
<1>3. Inv /\ Inv' /\ [BleNext]_bleVars /\ [left' = left]_bleVars
        => /\ sent => sent' \/ send'
           /\ send => send' /\ [TriesLeft' <= TriesLeft]_bleVars
  <2> SUFFICES ASSUME Inv, Inv', [BleNext]_bleVars, left' = left
               PROVE  /\ sent => sent' \/ send'
                      /\ send => send' /\ TriesLeft' <= TriesLeft
    BY DEF bleVars, writing
  <2>1. CASE Step
    BY <1>n, <1>w, <2>1
  <2>2. CASE ~Step
    BY <1>0, <1>n, <2>2
  <2> QED
    BY <2>1, <2>2
<1>4. Inv /\ Inv' /\ <<Writer \/ WriterGivesUp>>_bleVars
        => /\ ~parked
           /\ rest => get' \/ parked'
           /\ get => send'
           /\ sent => send'
           /\ send /\ [left' = left]_bleVars => ~[TriesLeft' = TriesLeft]_bleVars
  <2> SUFFICES ASSUME Inv, Inv', Step, bleVars' # bleVars
               PROVE  /\ ~parked
                      /\ rest => get' \/ parked'
                      /\ get => send'
                      /\ sent => send'
                      /\ send /\ left' = left => TriesLeft' # TriesLeft
    OBVIOUS
  <2> QED
    BY <1>w
<1> HIDE DEF at
<1> QED
  BY <1>1, <1>2, <1>3, <1>4, BleInductive, LengthsInductive, PTL
  DEF LeftSettles, TriesSettle, BleSpec

\* A callback of the host task ends, or goes on; what it waits for does not go away.
LEMMA HostWaits ==
    ASSUME BleInv, Lengths, main # "home", [BleNext]_bleVars, main' # "home"
    PROVE  /\ host \in {"pairing", "push", "reply"} => host' \in {host, "idle"}
           /\ host = "reply" /\ host' = "reply" /\ main = "stop_host" /\ ~OutFull => ~OutFull'
<1> USE DEF client, writing, bleQueues
<1>1. CASE Host
  BY <1>1 DEF Host, NotifyTx, Report, Paired, HostPushes, HostReplies, HostIdle, OutFull
<1>2. CASE Main
  BY <1>2 DEF Main, MainReplies, CreateWriter, StopHost, StopBleWriter, StopWriterWhen,
              HostIdle, OutFull
<1>3. CASE Connect \/ Subscribe \/ Disconnect \/ Pair \/ ClientWrites \/ OtherRequest
  BY <1>3 DEF Connect, Subscribe, Disconnect, Pair, ClientWrites, OtherRequest, HostIdle, OutFull
<1>4. CASE Take \/ BleStart \/ BleStop \/ BleRestart
  BY <1>4 DEF Take, BleStart, BleStop, BleRestart
<1>5. CASE UNCHANGED bleVars
  BY <1>5 DEF bleVars, OutFull
<1>6. CASE Writer \/ WriterGivesUp
  <2>1. host' = host /\ (ble_out' = ble_out \/ (ble_out # <<>> /\ ble_out' = Tail(ble_out)))
    BY <1>6 DEF Writer, Get, Indicate, IndicateFails, Sent, RestOrExit, Rest, WriterGivesUp, Lengths
  <2>2. Len(ble_out) # BleOutSize => Len(ble_out') # BleOutSize
    BY <2>1, SizesAre DEF Lengths
  <2> QED
    BY <2>1, <2>2 DEF OutFull
<1> QED
  BY <1>1, <1>2, <1>3, <1>4, <1>5, <1>6 DEF BleNext, BleWorld

\* Nor does the turn of the writer, or the report it waits for, before it has come.
LEMMA WriterWaits ==
    ASSUME BleInv, NoRoomYet, [BleNext]_bleVars, NoRoomYet'
    PROVE  /\ WriterTurn => WriterTurn' \/ Writer \/ WriterGivesUp
           /\ AwaitsReport => AwaitsReport' \/ WriterTurn'
           /\ AwaitsReport /\ NotifyTx => WriterTurn'
<1>0. main # "home" /\ main' # "home" /\ main \in {"reply", "stop_host"} /\ main' # "stop_writer"
  BY DEF NoRoomYet
<1> USE DEF client, writing, bleQueues
<1>1. CASE Host
  BY <1>1 DEF Host, NotifyTx, Report, Paired, HostPushes, HostReplies, PushOut,
              WriterTurn, AwaitsReport
<1>2. ASSUME ~(Writer \/ WriterGivesUp), ~Host
      PROVE  writer' = writer /\ (notified => notified')
  <2>1. CASE Main
    <3>1. MainReplies
      BY <1>0, <2>1 DEF Main, CreateWriter, StopHost, StopBleWriter, StopWriterWhen
    <3> QED
      BY <3>1 DEF MainReplies, PushOut
  <2>2. CASE Disconnect
    <3>1. writer' = writer
      BY <2>2 DEF Disconnect
    <3>2. notified' = (notified \/ owed)
      BY <2>2, Zenon DEF Disconnect
    <3> QED
      BY <3>1, <3>2, Zenon
  <2>3. CASE Connect \/ Subscribe \/ Pair \/ ClientWrites \/ OtherRequest
    BY <2>3 DEF Connect, Subscribe, Pair, ClientWrites, OtherRequest
  <2>4. ~(Take \/ BleStart \/ BleStop \/ BleRestart)
    BY <1>0 DEF Take, BleStart, BleStop, BleRestart
  <2>5. CASE UNCHANGED bleVars
    BY <2>5 DEF bleVars
  <2> QED
    BY <1>2, <2>1, <2>2, <2>3, <2>4, <2>5 DEF BleNext, BleWorld
<1>3. CASE ~(Writer \/ WriterGivesUp) /\ ~Host
  <2>1. writer' = writer /\ (notified => notified')
    BY <1>2, <1>3
  <2>2. ~NotifyTx
    BY <1>3 DEF Host
  <2> QED
    BY <2>1, <2>2, Zenon DEF WriterTurn, AwaitsReport
<1>4. CASE Writer \/ WriterGivesUp
  <2>1. ~AwaitsReport
    BY <1>0, <1>4 DEF Writer, Get, Indicate, IndicateFails, Sent, RestOrExit, Rest, WriterGivesUp,
                      AwaitsReport
  <2> QED
    BY <1>4, <2>1
<1> QED
  BY <1>1, <1>3, <1>4

\* The main task does not wait for room for its reply for ever: the writer makes some, or
\* waits for a report, which comes, as the host task comes back from any callback.
LEMMA ReplyFindsRoom ==
    FairBleSpec /\ []BleTurns /\ LeftSettles /\ TriesSettle
        => ~<>[](main = "reply" /\ ~HostStuck)
<1> DEFINE replying == main = "reply" /\ ~HostStuck
<1> DEFINE at(where) == host = where
<1> DEFINE pairing == at("pairing")
<1> DEFINE push == at("push")
<1> DEFINE R == BleInv /\ Lengths /\ replying /\ OutFull
<1>1. replying /\ OutFull => NoRoomYet
  BY DEF NoRoomYet
<1>2. <<MainReplies>>_bleVars => ~replying'
  BY DEF MainReplies
<1>3. replying /\ ~OutFull => (main = "reply" /\ ~OutFull)
  OBVIOUS
<1>4. R => WriterTurn \/ AwaitsReport
  BY DEF BleInv, BlePlaces, HostUp, WriterUp, WriterTurn, AwaitsReport
<1>5. R /\ AwaitsReport => owed /\ (HostIdle \/ pairing \/ (push /\ ~SharedInFull))
  BY DEF BleInv, BlePlaces, HostUp, ReportDue, AwaitsReport, HostStuck, HostIdle
<1>6. R /\ R' /\ [BleNext]_bleVars
        => /\ WriterTurn => WriterTurn' \/ <<Writer \/ WriterGivesUp>>_bleVars
           /\ AwaitsReport => AwaitsReport' \/ WriterTurn'
           /\ pairing => pairing' \/ HostIdle'
           /\ push => push' \/ HostIdle'
  <2> SUFFICES ASSUME R, R', [BleNext]_bleVars
               PROVE  /\ WriterTurn => WriterTurn' \/ <<Writer \/ WriterGivesUp>>_bleVars
                      /\ AwaitsReport => AwaitsReport' \/ WriterTurn'
                      /\ pairing => pairing' \/ HostIdle'
                      /\ push => push' \/ HostIdle'
    OBVIOUS
  <2>1. NoRoomYet /\ NoRoomYet' /\ main # "home" /\ main' # "home"
    BY DEF NoRoomYet
  <2>2. WriterTurn /\ bleVars' = bleVars => WriterTurn'
    BY DEF WriterTurn, bleVars, writing
  <2> QED
    BY <2>1, <2>2, WriterWaits, HostWaits DEF HostIdle
<1>7. /\ R /\ R' /\ AwaitsReport /\ <<NotifyTx>>_bleVars => WriterTurn'
      /\ <<Paired>>_bleVars => HostIdle'
      /\ <<HostPushes>>_bleVars => HostIdle'
  BY DEF NotifyTx, Report, Paired, HostPushes, HostIdle, WriterTurn, AwaitsReport, writing
<1>8. WriterTurn => ~AwaitsReport
  BY DEF WriterTurn, AwaitsReport
<1>9. /\ R <=> BleInv /\ Lengths /\ replying /\ OutFull
      /\ pairing <=> host = "pairing"
      /\ push <=> host = "push"
  OBVIOUS
<1> HIDE DEF replying, at, R
<1> QED
  BY <1>1, <1>2, <1>3, <1>4, <1>5, <1>6, <1>7, <1>8, <1>9, WriterMakesRoom,
     BleInductive, LengthsInductive, PTL
  DEF FairBleSpec, BleSpec, BleTurns, replying

\* Nor for the host task to stop: each of its callbacks ends.
LEMMA HostIsStopped ==
    FairBleSpec /\ []BleTurns /\ LeftSettles /\ TriesSettle
        => ~<>[](main = "stop_host" /\ ~HostStuck)
<1> DEFINE stopping == main = "stop_host" /\ ~HostStuck
<1> DEFINE at(where) == host = where
<1> DEFINE pairing == at("pairing")
<1> DEFINE push == at("push")
<1> DEFINE reply == at("reply")
<1> DEFINE S == BleInv /\ Lengths /\ stopping
<1>1. <<StopHost>>_bleVars => ~stopping'
  BY DEF StopHost
<1>2. S => HostIdle \/ pairing \/ (push /\ ~SharedInFull) \/ reply
  BY DEF BleInv, BlePlaces, HostUp, HostStuck, HostIdle
<1>3. S /\ S' /\ [BleNext]_bleVars
        => /\ pairing => pairing' \/ HostIdle'
           /\ push => push' \/ HostIdle'
           /\ reply => reply' \/ HostIdle'
           /\ reply /\ ~OutFull => (reply' /\ ~OutFull') \/ HostIdle'
  BY HostWaits DEF HostIdle
<1>4. /\ <<Paired>>_bleVars => HostIdle'
      /\ <<HostPushes>>_bleVars => HostIdle'
      /\ <<HostReplies>>_bleVars => HostIdle'
  BY DEF Paired, HostPushes, HostReplies, HostIdle
<1>5. S /\ reply /\ OutFull => NoRoomYet /\ WriterTurn
  BY DEF NoRoomYet, BleInv, BlePlaces, WriterUp, WriterTurn, HostStuck, AwaitsReport
<1>6. /\ S <=> BleInv /\ Lengths /\ stopping
      /\ pairing <=> host = "pairing"
      /\ push <=> host = "push"
      /\ reply <=> host = "reply"
  OBVIOUS
<1>7. stopping => main = "stop_host"
  OBVIOUS
<1> HIDE DEF stopping, at, S
<1> QED
  BY <1>1, <1>2, <1>3, <1>4, <1>5, <1>6, <1>7, WriterMakesRoom,
     BleInductive, LengthsInductive, PTL
  DEF FairBleSpec, BleSpec, BleTurns, stopping

\* A reply finds room, and a start or stop of BLE comes to its end, or the host task is
\* held up in a callback in one of the two ways there are: with queues and replies of any
\* length, if each task that can take its step does.
THEOREM BleComesHome ==
    FairBleSpec /\ []BleTurns /\ LeftSettles /\ TriesSettle => MainGoesOn
<1> DEFINE home == main = "home"
<1> DEFINE at(where) == main = where
<1> DEFINE replying == at("reply")
<1> DEFINE stopping == at("stop_host")
<1> DEFINE rest == main \in {"starting", "stop_writer"}
<1>1. BleInv => home \/ replying \/ stopping \/ rest
  BY DEF BleInv, BlePlaces
<1>2. BleInv /\ [BleNext]_bleVars
        => /\ replying => replying' \/ home'
           /\ stopping => stopping' \/ rest' \/ home'
  BY MainWaits
<1>3. FairBleSpec /\ []BleTurns => (rest ~> home)
  BY WriterIsStopped
<1>4. FairBleSpec /\ []BleTurns /\ LeftSettles /\ TriesSettle
        => ~<>[](replying /\ ~HostStuck) /\ ~<>[](stopping /\ ~HostStuck)
  BY ReplyFindsRoom, HostIsStopped
<1>5. main # "home" <=> ~home
  OBVIOUS
<1> HIDE DEF home, at, rest
<1> QED
  BY <1>1, <1>2, <1>3, <1>4, <1>5, BleInductive, PTL DEF FairBleSpec, BleSpec, MainGoesOn, home
=============================================================================

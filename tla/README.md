# Jade firmware: TLA+ models

Specifications of the core of the Jade hardware wallet firmware (`src/main`),
checked with TLC and, for the properties that matter most, proved with TLAPS.

1. [The system](#1-the-system): components, state, interaction, what is hard
2. [The models](#2-the-models): modules, and how they correspond to the code
3. [The runs](#3-the-runs): what TLC checks, bounds, fairness
4. [The proofs](#4-the-proofs)
5. [Where the code and its own words differ](#5-where-the-code-and-its-own-words-differ)
6. [Not modelled, and the plan](#6-not-modelled-and-the-plan)

## 1. The system

Jade is a FreeRTOS program. The **main task** (`process/dashboard.c`) runs a
loop that takes one message from a companion app, or else one button event, and
runs the handler for it to its end; handlers wait inside for the user or for the
next message. Around it run the serial reader and writer, the NimBLE host task
with the BLE writer, the GUI task, the idle timer and, now and then, a task that
plays the companion app for QR codes or for a USB stick. They share ring buffers
(`process.c`), the keychain (`keychain.c`), a one-place event slot per screen
(`utils/event.c`) and flash (`storage.c`, one NVS commit per record).

| Component | State it keeps | Operations | Hard part |
|---|---|---|---|
| Wallet: `process/auth_user.c`, `keychain.c` | keys in RAM, the source they answer to, temporary or not, cached "wallet stored", network restriction | unlock, save, change PIN, erase, log out | power lost between two commits; errors in the middle; a second source |
| Flash: `storage.c` | blob, PIN counter, network type, erase PIN; registrations, preferences, replay counter | one commit per record; decrement before decrypt | each access may fail, before or after its effect |
| PIN oracle client: `process/pinclient.c` | none of its own; the oracle keeps a key per unit | get_pin, set_pin through the host | late, lost and repeated answers; the oracle acts though the reply is lost |
| Main loop: `process/dashboard.c`, `ui/dashboard.c` | screen, menu type, source of a log-in in progress, source to hand a session back to | dispatch, menus, interfaces on and off, lock on a lost connection | buttons that come late, tasks of its own, connections that come and go |
| QR client: `qrmode.c` | what it waits for | auth_user, pin, cancel over the internal queues | outlives the log-in it was started for |
| Framing: `wire.c`, `serial.c`, `ble/ble.c` | up to one message of unparsed bytes, time of the last call | read, parse, time out, reject, reset | no frame markers: where a message ends is where its CBOR item ends |
| Queues: `process.c` | inbound ring, one outbound ring per source | push (waits for space), take | a full queue holds up its producer |
| Serial and BLE tasks: `serial.c`, `ble/ble.c` | enabled flags, connection, task handles, events | start, stop, connect, pair, write | stop waits for tasks that wait for the stopper |
| USB storage: `usbhmsc/*` | mount state, four semaphores, three tasks | start, mount, unmount, stop, upload from a file | callbacks against the main task |
| Firmware update: `process/ota*.c` | bytes outstanding, hash, status, user's consent | ota, ota_data, ota_complete | errors after a packet has been acknowledged |
| Signing: `process/sign_*.c` | the transaction, inputs so far, signatures | tx_input, get_signature | a protocol of many messages; anti-exfil order |
| Registrations: `multisig.c`, `descriptor.c`, `otpauth.c` | records in flash | register, list, delete; HOTP counter | limits, counters against crashes |
| Idle timer: `idletimer.c` | last activity, timeouts | dim, warn, switch off | clears keys, and puts up a screen, from its own task |
| GUI: `gui.c`, `utils/event.c`, `ui/*` | the activity shown, all that exist, a queue of jobs, handlers | make, show, free, wait for a button, repaint | the switch is asynchronous; one task frees what others use |

What makes these parts correct, in the order of importance the plan follows:

* **Wallet.** A wrong PIN costs an attempt whatever happens next; three wrong
  PINs destroy the wallet; a temporary wallet is never written; an erased wallet
  stays shut; keys stay with the source that gave the PIN; a change of PIN ends
  with a wallet that opens.
* **Framing.** The messages handled are those that were sent, whole, once and in
  order, after any amount of noise; no assertion can be reached from the wire;
  the reader never gets stuck.
* **Main loop.** The screen and the open interfaces fit the state of the wallet;
  the user always has a way out of a screen; a lost connection locks the wallet;
  no late button runs an operation in a state it is not meant for.
* **Tasks.** Starting and stopping terminates, and nobody waits for a task that
  waits for them.
* **Upload, signing, registrations.** The protocol's order is enforced, the
  outcome reported is the outcome, what is signed is what the user has agreed to,
  limits and counters hold.
* **Screens.** Nothing is used after it has been freed; who waits for a button of
  the screen that is shown hears it; the screen of the main task comes back, whoever else
  has one shown.

## 2. The models

| Module | Models | Extends |
|---|---|---|
| `WalletAuth` | `auth_user`, the keychain, the wallet's flash records, the oracle client; oracle and host as external | |
| `PinVault` | what a PIN-protected wallet promises, abstractly | |
| `MCWalletAuth` | symmetry for TLC | `WalletAuth` |
| `WalletAuth_proofs` | invariant and theorems | `WalletAuth` |
| `Wire` | `handle_data()`, the serial and BLE readers, the inbound queue; host as external | |
| `MCWire` | messages, sizes and misleading contents for TLC | `Wire` |
| `Wire_proofs` | invariant and theorems | `Wire` |
| `Dashboard` | main loop, dispatch, menus, interfaces, event slot, QR client tasks; companion apps and cable as external | |
| `Dashboard_proofs` | invariant and theorems | `Dashboard` |
| `Ota` | `ota`, `ota_delta`, the queues both ways, the task that reads an update from a USB stick; companion app as external | |
| `MCOta` | announcements for TLC | `Ota` |
| `Ota_proofs` | invariant and theorems | `Ota` |
| `SignTx` | `sign_tx` and `sign_liquid_tx`: inputs, amounts, summary, fee, anti-exfil | |
| `SignTxClaims` | a comment of the code that it does not keep | `SignTx` |
| `SignTx_proofs` | invariant and theorems | `SignTx` |
| `SignPsbt` | `sign_psbt`: whose inputs and outputs, change, what is shown, the result in pieces | |
| `SignPsbt_proofs` | invariant and theorems | `SignPsbt` |
| `UsbStorage` | the port between serial and a stick: five tasks, start and stop, mounting, the actions of the menu; drivers as external | |
| `BleTasks` | NimBLE's host task, the BLE writer, start and stop, pairing, the queues; the stack as external | |
| `Interfaces_proofs` | invariants and theorems of both | `UsbStorage`, `BleTasks` |
| `Gui` | activities, the GUI task, its queue and mutex, events, screens of other tasks, wheel and buttons | |
| `Gui_proofs` | invariant and theorems | `Gui` |

Every definition that stands for code is listed in `PROJECT.json` with its file and
lines. Definitions preceded by "Mutant" are plausible bugs: put in the place of the right definition
they make the property they are paired with fail, which shows that the property
depends on the code.

### WalletAuth

The main task runs one handler at a time, so a handler is a sequence of steps
named by `pc`. A step ends where something else can happen: where the handler
waits, and at each commit to flash, since power can be lost between two commits
and a commit can fail. `get_pin` ... `get_wait` is `get_pin_get_aeskey()` with the
oracle's answer; `decrement`, `decrypt`, `restore` and the `erase_` steps are
`keychain_load_and_decrypt_blob()` with `storage_decrement_counter()` and
`storage_erase_encrypted_blob()`; `new_pin` ... `set_wait` is
`set_pin_get_aeskey()`; `save_counter`, `save_blob`, `save_network` is
`keychain_store()` or `keychain_reencrypt()`; `reply_ok` is the end of
`get_pin_load_keys()` and `set_pin_save_keys()`. RAM variables have the names of
the code's statics and are lost by `Restart`.

Abstractions: a wallet is a value, the final AES key a pair of oracle key and PIN,
the blob a wallet with the key that opens it; decryption succeeds exactly with
that key. An access to flash that fails leaves the old or the new value, a read that
fails gives the default the code falls back to (`Commit`, `Read`). The host may deliver
an answer once, late, twice, to another source's turn, or never; the oracle may act on
`set_pin` though its answer is lost. The menus are actions enabled while no
handler runs. `spent` and `condemned` are history variables.

### PinVault

Seven variables and nine actions: a wallet sealed behind a budget of guesses. A guess
is spent before its outcome is known; only a good guess or a new seal refills the
budget; an open wallet answers to one source. `WalletAuth!ImplementsVault` maps it:
`sealed` is the stored wallet while some PIN entry can still open it, `trying` holds
between the decrement and the outcome, `lender` is `internal_relogin_source`.

### Wire

A byte is `<<m, i>>`, the i-th byte of message m, and `Item` says how long an item
starting with that byte claims to be. It is a constant, so that for bytes that do not
start a message *any* content is allowed: the theorems hold whatever the middle of
a message looks like. `ReadSerial` takes a chunk of any length that fits;
`ReadBle` a write of one message. `HandleData` chooses between the stale path and
the direct one, `NoMessage` and `GotMessage` are the turns of `handle_data_impl()`.
Time is abstracted to "over two seconds", which is all `wire.c` asks of it. The host
breaks off, sends noise and oversized messages, but then waits two
seconds (or reconnects, on BLE) before it goes on: without frame markers no
receiver can do better. That a host does so is an assumption.

### Dashboard

`top`, `poll`, `check` are the phases of the two loops of `dashboard.c`: choosing the
screen (`dashboard_process()`), one message or one event, and the check of the
connection (`do_dashboard()`). Menus and the waits inside `auth_user` are further
values of `pc`; their screens replace the dashboard's when the GUI task gets to it
(`GuiSwitch`), and until then a press still lands in `event`. What `auth_user` does
with PIN, flash and oracle is abstracted to its outcomes (`Outcomes`); `WalletAuth`
has the rest. An assertion that fails leads to `pc = "dead"` with its name in `fault`.

Abstractions: which entry of the wheel is selected is left open; polling for a
message and, if there is none, taking the event is one step; companion apps send
`auth_user`, `pin` and `logout`; BLE is switched on in the settings and the unit has a
camera. Replies matter only where a QR client task reads them.

### Ota

Two tasks and two queues. The main task takes messages from `inbox` (`shared_in`) and
works through an upload: `data` waits for `ota_data`, `write` has a packet
decompressed, `confirm` waits for the user, `complete` for `ota_complete`; `error` and
`declined` are the ends that return to the dashboard, `success` the one that
restarts, `dead` an assertion that failed or a task that waits for ever. The
`Worker` actions are `usbmode_ota_worker()`, which posts the same messages
and reads the answers from `out` (`internal_out`). `joctx` groups the variables that
are fields of `jade_ota_ctx_t`; `agreed` and `told` are history variables, and so is the
worker's `fresh`.

A full image and a patch share their actions and differ where the code does: the
writer of a full image is called from inside the decompressor, so the
acknowledgement (`UnitDone`) comes after the write and an error has a message to be
reported to; a patch's packet is acknowledged when the decompressor has it
(`AcceptData`), so an error is kept for the next message (`Trouble`, then
`RejectData`). A full
image shows the header to the user before the first write, a patch after it.

Abstractions: a compressed image is `Parts` packets `<<image, k>>`, and each gives one
unit of firmware of the same name; packets of different images mixed, repeated or
out of order are garbage to the decompressor (`Continues`). The header is looked for in the first
write that is long enough (`CUSTOM_HEADER_MIN_WRITE`), wherever that lies: `Reads` are the headers that
may be found in a unit, its own at the start of the image or one that the image has elsewhere (`Inside`),
and `Short` units may go by unread. A patch applied to another
firmware than its own gives `Garbage` or fails. Hashes are equal when the contents
are. `esp_ota_end()` accepts whole images only. Whether the wallet allows an upload
(`ota_allowed()`), and whether a check of flash fails, is left open. Replies to serial
and BLE are not kept. A second update from a stick starts only when the worker
of the first is gone; what happens to the storage task otherwise is in `UsbStorage`.

### SignTx

One handler that waits for messages: `pc` is the message or the answer of the user it
waits for. `TxInput` is a whole turn of the loop of `sign_tx.c`: the checks of the
input, the amount, the sum, and, with anti-exfil, the answer to the commitment.
`ConfirmFee` and `SendSignatures` are the end without anti-exfil, `GetSignature` one round of
the end with it. `ins` is `signing_data->inputs`, `paid` and `sum` are the
code's two accumulators, modulo `Word`. `real` and `net` are history: what the
inputs and the swap in truth amount to.

The app may state any type and amount, order and flags. That an amount is wrong shows, or
does not, in the same way as for the code: from a full transaction the real one is
read, and a signature over a wrong segwit amount is worth nothing (`Valid`).
Scripts, paths, hashes and blinding factors are verdicts. An output worth nothing reaches
`JADE_ASSERT(output_amount)` (`fault = "nothing_paid"`). A request that is
rejected at once is not modelled. Only the first message's source is checked by the
code, later ones are answered wherever they come from; since only the app that
unlocked the keys is on line (`Dashboard!InterfacesFit`), there is one app.

### SignPsbt

The search for a registered wallet that all inputs belong to (`ScanInput`, with `LookAt`,
`MatchHeld` and `FindRecord`), the outputs taken for change (`ValidateOutputs`),
the screens (`AgreeOutput`, `ShowFee`, `AgreeFee`), signing, and the result in messages of `Chunk` bytes. An input
or output says in its fields which wallets its script could be made by, which is what the code
finds out by making it. A Green wallet is a subaccount and a recovery key, if any; input and output state their own. The same `sign_psbt()` is also called for a PSBT from QR codes
and from a stick, where the result is one file.

### UsbStorage

The variables are the code's flags (`usbstorage_is_enabled`, `main_task`,
`usb_device_installed`, the event group) and the places of the main task, the worker and the
storage task; `serial` has the flag and both tasks of `serial.c`. Each step
ends at a wait or where another task can see the difference. `port`, what is plugged in,
changes at any moment. The drivers' part is taken from how they are used: the host driver
cannot be removed with a device in it, an event per device that comes or goes.
Only units with a USB host (S3 chips) have this code. What `serial_start()` returns is ignored, as in the code.

### BleTasks

Requests, indications and replies are counted, not read. `host` is the callback NimBLE's host task
is in; while it is in one it reports nothing. The writer takes a reply (`Get`), sends
an indication and waits for its report (`Indicate`, `Sent`), until the reply is out
(`Rest`) or it is told to end and parks itself to be deleted. As in the code, a new reply's notification also counts as
a report (`PushOut`). `WriterGivesUp` and `BleRestart` stand for what `write_ble()` meets
after `nimble_port_deinit()`: an error, or an assertion. That NimBLE reports each
accepted indication once, and that `nimble_port_stop()` succeeds, having waited for the callback and
ended the link, are assumptions. Names it would share with `UsbStorage` begin with `Ble` (`BleSpec`, `BleNext`,
`BleRestart`), since the proofs extend both.

### Gui

An activity is `New` memory, then in `existing`; freeing is a job for the GUI task
that goes with a switch. `current`, `existing`, `queue`, `mutex` are the code's; `links` are the
handlers kept with an activity, `registered` those the event loop knows. The GUI task
takes the mutex and empties the queue; everyone else takes it for one step, except
`gui_activity_set_active_selection()`, which posts with it held. `fault` is set by a use of what has been
freed, with who did it. Besides the main task, three others have screens shown:

* *Popups* (`Open` to `Restore`), the same in `ble.c` and `idletimer.c`: remember
  what is shown, show one's own, wait 10 or 30 seconds, restore if still shown; that the GUI task has
  shown it by then is an assumption (`Answered`).
* *The QR client* (`ClientMakes` to `ClientEnds`): screens with codes, the camera and messages, shown
  and waited on one after the other while the main task goes on. It restores nothing.
  `guest` is the state of these tasks.
* *The event loop*: pages that `gui_chain_activities()` links have buttons whose handler,
  `switch_activity_callback()`, has another page shown (`FollowLink`, `PostLinked`; `link` is the page in
  between). `Make` makes the pages of a chain and their links in one step, and from a page all
  others are reached in one: the code goes along the chain.

`crossed` remembers that since the main task asked for a screen somebody's switch came between. The camera and
the other short-lived tasks the main task waits for count as the main task. The event loop's own lock, which is
ESP-IDF's, is left out.

## 3. The runs

Runs that pass:

| Run | Configuration | Distinct states | Shows |
|---|---|---|---|
| `wallet_crash` | `WalletAuth_crash.cfg` | 1.1 million | with power lost at any step: `AssertionsHold`, `SameOwner`, `LiveWalletKept`, and the refinement `ImplementsVault` |
| `wallet_nvs` | `WalletAuth_nvs.cfg` | 1.0 million | with every access to flash failing at will as well: `GuessBudget`, `TemporaryNeverStored`, `CondemnedStaysShut` |
| `wallet_live` | `WalletAuth_live.cfg` | 125 thousand | without crash or error: `PinChangeCompletes`, `EraseCompletes` |
| `wire_reader` | `Wire_reader.cfg` | 89 thousand | with noise, broken-off and oversized messages: `AssertionsHold`, `Delivered`, `AllHandled`, `TimeoutMeansSilence` |
| `dashboard_loop` | `Dashboard_loop.cfg` | 1.6 million | with late presses and links that come and go: `ScreenFits`, `InterfacesFit`, `UnlockToCome`, `StoredWalletKnown`, `LockedOnLoss` |
| `ota_upload` | `Ota_upload.cfg` | 3.9 million | with packets of several images and sources, errors, power lost and the stick pulled anywhere: `Installed`, `FitsBoard`, `CompleteMeansInstalled`, `OnlyUnreadReplyStrands`, `StickUploadEnds` |
| `sign_tx` | `SignTx_exchange.cfg` | 4.4 million | whatever the app says of its inputs: `FeeIsTrue`, `SummaryTrue`, `AntiExfil`, `AnswersMatch` |
| `sign_psbt` | `SignPsbt_change.cfg` | 7.8 million | for every mix of inputs and outputs: `HiddenIsChange`, `Agreed`, `Whole` |
| `usb_menu` | `UsbStorage_menu.cfg` | 746 thousand | with cable and stick plugged and pulled at any moment: `KnownStalls`, `KnownAborts`, `PortShared` |
| `ble_tasks` | `BleTasks_stop.cfg` | 215 thousand | starting and stopping under way with replies, requests and pairing: `OffMeansOff`, `MainGoesOn`, `WriterParked` |
| `gui_screens` | `Gui_screens.cfg` | 1.0 million | with a popup, a QR client and linked pages over and among the main task's screens: `FreedInUse`, `Heard`, `MainScreenBack`, `JobsGoThrough` |

`KnownStalls`, `KnownAborts`, `MainGoesOn`, `FreedInUse`, `OnlyUnreadReplyStrands` and `JobsGoThrough` have
exceptions. Each exception is something the code can really do, and is listed in section 5;
the property says that there is no other.

The run `claim_outputs` ends in a counterexample; section 5 is about it.

**Bounds.** *Wallet*: two PINs (the right one and a wrong one), one or two wallets
to keep and one temporary, three sources, two networks, four oracle keys. Keys in
use at any moment are the oracle's, the blob's and the two the handler holds, so a
fourth gives a fresh one in almost every state, and where none is free only a
`set_pin` has to wait; keys are interchangeable, hence the symmetry (safety runs
only). Three wrong guesses fit, with crashes between any two steps, and so do a
change of PIN, an erasure and a second set-up behind each other: nothing bounds
the number of operations. `wallet_nvs` drops the second wallet, network and BLE:
its properties do not distinguish them, and the proofs of section 4 do not need
the bound. *Wire*: buffer of four bytes, messages of one, two, four and
six (too long), three kinds of noise, three messages sent (`MaxSent`): enough
for a broken-off message, noise or an oversized one between two good ones. *Dashboard*: one
QR client, one place in the inbound queue, two in the queue for QR clients;
with a queue of one place, a source that sends early and a source that has to wait
both occur. Two QR clients at once (started one after the other through the menu)
would be possible in the code and do not fit the time of a run; the proofs are for any number. *Ota*: two packets to
an image, so that there is a first with a header and another without question to the
user; BLE and a stick; announcements that are right, or one part short in either number;
one place in each queue. The unit starts with an image `old` that nobody has a file of; there
are files of one image for this board and one for another, so the version on the screen,
the hash on it and the packets can all differ; and the one for this board has the header of `old` in it as well, which is read if what came
before was written in short pieces. `Tiny`, images too short for a header, is empty in the run and, like `Inside`, arbitrary
in the proofs. The number of uploads is not bounded. *SignTx*: two inputs of one
or two units, an output sum that may be right, nothing or too much, and a word of four, so that the running
sum of a swap wraps around; one request. *SignPsbt*: two inputs, two outputs, two
records: a record may fit one input only, both may fit, and the order in which inputs come matters; two Green
wallets, so that inputs and an output can be of different ones;
pieces of two bytes and results of one, two and five, below, at and above the
boundary. *UsbStorage*: two requests fit the inbound queue, one reply the outbound
one, so each can be full while the other is not; any number of actions. *BleTasks*: replies of up to
three indications, two attempts at each, two requests and three replies in the queues. *Gui*:
two managed screens beside the dashboard's, so that two pages, or a popup's or the client's and one of the main task's,
exist at a time and the third is the one nobody can free; one popup and one QR client; one job in the queue,
while the main task, the popup, the client, the event loop and the wheel each may hold another that waits for its place. With room for two jobs
the safety properties were checked as well (5.8 million states), which does not fit the time of the run with
`JobsGoThrough`. A popup over one of two pages needs a third screen: the proofs cover it, for any number of each. The
code's queue has room for some twenty jobs.

**Fairness.** `WF(Device)` in `WalletAuth`: the main task keeps running when it has
something to do; nothing is assumed of user, host or oracle, so `PinChangeCompletes`
begins when the oracle's answer is in hand. `WF(Reader)` and `WF(TakeMessage)`
in `Wire`: the serial reader polls, NimBLE calls back, and the main task returns
to its queue; the host need not send anything. `WF(Loop)` in `Dashboard`: the loop
polls with a time-out and goes round whatever the others do; menus and waits are
left by users and hosts and get no fairness. `WF(Main)` and `WF(Worker)` in `Ota`: the
main task and the worker run when there is a message, a reply or a place in the
queue for them; the stick may go, the host need not send, the user need not decide, so
`StickUploadEnds` ends at the user's question. Each of these tasks polls with a time-out or is
notified, and FreeRTOS preempts them. In `BleTasks` the same holds for the three
tasks, each with its own conjunct; strong fairness for `StopHost`, `MainReplies` and `NotifyTx` says that NimBLE serves
its events in order, so that a report or a stop is not overtaken for ever, and that who waits for room in a
FreeRTOS buffer gets it when it comes about again and again. In `Gui`, `SF(Gui)`: the GUI task has a
higher priority than those that take the mutex in passing; `SF` of the
main task's posts: as for the BLE queue. Users, clients and NimBLE's decision to connect get none. `LockedOnLoss` speaks
only of states of the loop for that reason: while a menu is open, nothing is polled
and nothing is locked.

**Stopping.** No run disables the deadlock check: in each model some party (host,
user, power) can always act.

## 4. The proofs

| Theorem | States | Module |
|---|---|---|
| `TypeCorrect` | `Spec => []TypeOK` | `WalletAuth_proofs` |
| `ThreeGuesses` | `Spec => []GuessBudget` | `WalletAuth_proofs` |
| `TemporaryStaysInRam` | `Spec => []TemporaryNeverStored` | `WalletAuth_proofs` |
| `ErasedStaysShut` | `Spec => []CondemnedStaysShut` | `WalletAuth_proofs` |
| `NoAssertionFails` | `~NvsMayFail` gives `Spec => []AssertionsHold` | `WalletAuth_proofs` |
| `KeysStayWithOwner` | `~NvsMayFail` gives `Spec => SameOwner` | `WalletAuth_proofs` |
| `LostForAReason` | `~NvsMayFail` gives `Spec => LiveWalletKept` | `WalletAuth_proofs` |
| `KeepsThePromise` | `~NvsMayFail` gives `Spec => ImplementsVault` | `WalletAuth_proofs` |
| `RekeyingEnds` | `~NvsMayFail`, `~MayCrash` give `FairSpec => PinChangeCompletes` (1) | `WalletAuth_proofs` |
| `ErasureEnds` | `~NvsMayFail`, `~MayCrash` give `FairSpec => EraseCompletes` (1) | `WalletAuth_proofs` |
| `NoAbort` | `Spec => []AssertionsHold` | `Wire_proofs` |
| `AlwaysRoom` | `Spec => []RoomToRead` (the run shows it by not getting stuck) | `Wire_proofs` |
| `TypeCorrect` | `Spec => []TypeOK` | `Wire_proofs` |
| `EachOnceInOrder` | `~MayStall` gives `Spec => []Delivered` | `Wire_proofs` |
| `TimeoutIsSilence` | `~MayStall` gives `Spec => TimeoutMeansSilence` | `Wire_proofs` |
| `NoneIsLeft` | `~MayStall` gives `FairSpec => AllHandled` (1, 2) | `Wire_proofs` |
| `WorkIsCounted` | `~MayStall` gives `Spec => [](Work \in Nat /\ Unsent \in Nat)`, the ranks of `NoneIsLeft` | `Wire_proofs` |
| `OnlyConfirmed` | `Spec => Installed` | `Ota_proofs` |
| `BootsThisBoard` | `Spec => []FitsBoard` | `Ota_proofs` |
| `ToldTheTruth` | `Spec => []CompleteMeansInstalled` | `Ota_proofs` |
| `ReadsBeforeLeaving` | `Spec => []OnlyUnreadReplyStrands` | `Ota_proofs` |
| `NobodyStandsStill` | `Spec => []NoStandstill` (in `Ota_proofs`) | `Ota_proofs` |
| `UploadEnds` | `Spec => StickUploadEnds` (1, 2) | `Ota_proofs` |
| `StepsAreCounted` | `Spec => [](ToGo \in Nat)`, the rank of `UploadEnds` | `Ota_proofs` |
| `TypeCorrect` | `Spec => []TypeOK` | `Ota_proofs` |
| `TypeCorrect` | `Spec => []TypeOK` | `SignTx_proofs` |
| `FeeAgreed` | `Spec => []FeeIsTrue` | `SignTx_proofs` |
| `SwapAgreed` | `Spec => []SummaryTrue` | `SignTx_proofs` |
| `AntiExfilKept` | `Spec => []AntiExfil` | `SignTx_proofs` |
| `AnsweredInOrder` | `Spec => []AnswersMatch` | `SignTx_proofs` |
| `TypeCorrect` | `Spec => []TypeOK` | `SignPsbt_proofs` |
| `OnlyChangeHidden` | `Spec => []HiddenIsChange` | `SignPsbt_proofs` |
| `AgreedFirst` | `Spec => []Agreed` | `SignPsbt_proofs` |
| `SentWhole` | `Spec => []Whole` | `SignPsbt_proofs` |
| `UsbTypeCorrect` | `Spec => []UsbTypeOK` | `Interfaces_proofs` |
| `StaleNeverCalled` | `Spec => []KnownAborts` | `Interfaces_proofs` |
| `OneAtATime` | `Spec => []PortShared` | `Interfaces_proofs` |
| `StallsAreListed` | `Spec => []NoOtherStall`, the part of `KnownStalls` without ENABLED | `Interfaces_proofs` |
| `OnlyThenMove` | `Spec => [][Firmware => CanMove]_vars` | `Interfaces_proofs` |
| `TypeCorrect` | `BleSpec => []TypeOK` | `Interfaces_proofs` |
| `OffIsOff` | `BleSpec => []OffMeansOff` | `Interfaces_proofs` |
| `DeletedWhenParked` | `BleSpec => WriterParked` | `Interfaces_proofs` |
| `OnlyTheseHalt` | `BleSpec =>` always, if the main task waits, a task can go on or `HostStuck` | `Interfaces_proofs` |
| `HaltsForGood` | `BleSpec =>` only a restart ends `HostStuck` | `Interfaces_proofs` |
| `WriterIsStopped` | `FairBleSpec =>` the main task comes back from starting or stopping the writer (1) | `Interfaces_proofs` |
| `BleComesHome` | `FairBleSpec => MainGoesOn` (1, 2) | `Interfaces_proofs` |
| `TypeCorrect` | `Spec => []TypeOK` | `Gui_proofs` |
| `OnlyOthersUseFreed` | `Spec => []FreedInUse` | `Gui_proofs` |
| `WaiterHears` | `Spec => []Heard` | `Gui_proofs` |
| `BackToMain` | `Spec => []MainScreenBack` | `Gui_proofs` |
| `OnlySelectingHalts` | `Spec =>` always, if the main task is to post, there is room or the GUI task can make some, or `Halted` | `Gui_proofs` |
| `HaltsForGood` | `Spec =>` only a restart ends `Halted` | `Gui_proofs` |
| `JobsArrive` | `FairSpec => JobsGoThrough` (1) | `Gui_proofs` |
| `TypeCorrect` | `Spec => []TypeOK` | `Dashboard_proofs` |
| `ScreenIsRight` | `Spec => []ScreenFits` | `Dashboard_proofs` |
| `OneInterface` | `Spec => []InterfacesFit` | `Dashboard_proofs` |
| `SomeoneUnlocks` | `Spec => []UnlockToCome` | `Dashboard_proofs` |
| `WalletKnown` | `Spec => []StoredWalletKnown` | `Dashboard_proofs` |
| `LostIsLocked` | `Spec => LockedOnLoss` (1) | `Dashboard_proofs` |

**What must happen in the end.** A property `A ~> B` is proved from invariants, which say where the
tasks can be meanwhile; from fairness, as the specification states it; and from the fact that the task which is to take a step *can*. There are two
kinds of hypothesis in these theorems that the provers cannot discharge:

1. ENABLED is opaque to them. So the theorems marked (1) assume formulas like `[](turn => ENABLED <<Main>>_vars)`, where
   `turn` is written out as guards: `CanGoOn`, `ReaderCanGo`, `MainCanTake`, `MainTaskCanGo`, `WorkerCanGo`, `BleTurns`, `GuiCanServe`,
   `MainCanPost`, and the one in `LostIsLocked`. TLC has checked each as an invariant on the instance of the run
   that checks the property. They say only that a state with the guards has a successor: who gets in the way of whom, in which order and how often
   is in the proof.
2. Where the number of steps depends on the data (bytes on the line, parts of a file, indications of a reply, attempts), a rank takes
   the place of cases: `Work` and `Unsent`, `ToGo`, `left` and `TriesLeft`. Proved are that each step of the fair task lowers the rank, that
   no other step raises it (or what it costs if one does), and that it is a natural number in every state. The rest is induction over the
   natural numbers, which no installed prover does for temporal formulas. So the theorems marked (2) assume
   `<>[][f' <= f]_vars => <>[][f' = f]_vars` for their ranks (`WorkSettles`, `UnsentSettles`, `ToGoSettles`, `LeftSettles`, `TriesSettle`): a natural number that only goes down
   settles, which every behaviour satisfies.

**Wallet.** The only assumption is `ConstantsAssumption`: `None` is none of the
values, kept and temporary wallets are different, sources are among the three, the
two flags are Boolean. The first four theorems hold with crashes and flash failures
allowed, and follow from one inductive invariant, `IInv`:

* `BooleansOK`, `DataOK`: types, in two parts because the provers treat Booleans
  apart; `JobOK`: which of unlock, change and save a step belongs to; `LocalsOK`:
  what is there at the steps that use it.
* `KeysOK`: keys that are not temporary are those of a wallet to be kept. With it
  `TemporaryNeverStored` is inductive: the step that writes the blob writes such keys.
* `BudgetOK`: the counter is restored *ahead* of the new blob
  (`storage_set_encrypted_blob()`), so `GuessBudget` alone is not inductive. When a
  wallet is saved, the oracle has replaced its key by then, and the old blob
  cannot be opened; when the PIN is changed, no guess has been spent.
* `CondemnedOK`: a blob whose counter has been erased cannot be opened, because
  the counter is 0, or the key is gone, or the handler at `decrypt` holds the
  wrong key. It holds up `CondemnedStaysShut` when a crash leaves the blob and a later
  set-up restores the counter in front of it.

Each part has a lemma for the step, with one case per action of `Next`.

The other four hold with crashes at every step, while flash does not fail. That is needed: when
the blob cannot be read during a change of PIN, the wallet is noted as absent with its keys still
in use by a source, and saving them again gives them to whoever asks (`SameOwner` fails). They
follow from `IInv` and seven facts, together inductive, called `Steady`:

* `Attempts`: a wallet noted as stored has attempts left, but during a guess and an erasure; none
  is noted with a counter of 0, except before the last commit of saving.
* `Locked`: no keys while the PIN is asked for; keys that are not saved belong to no source.
* `Erasing`: why, and for which job, an erasure is under way, and that its counter goes first.
* `Guessing`: a guess is made with the oracle's key for the blob or with one that never was, so a
  right guess finds the blob still `Live`.
* `Saving`, `Changing`: from the oracle's answer for a new PIN until the blob is written, the old
  blob is dead, the key in hand is the oracle's, and no late request can replace it.
* `Agreeing`: a handler under way was accepted for a network that still fits the restriction.

`VaultStep` then names, for each action of `Next`, the step of `PinVault` it makes: counting an
attempt is `Guess` (of a live blob), `Restore` is `Open`, writing the blob is `Seal`, the last
commit of saving is `Claim`, a change of PIN by QR `Lend`, the return of a handler `HandBack` or
`Drop`.

`RekeyingEnds` and `ErasureEnds` go through the handler step by step. Where it waits for nobody (`OwnSteps`) `Steady` leaves one action
that can be taken: the attempt is there to be counted, the old key still opens the blob, and an erasure is not left half way.

**Wire.** `WireAssumption` says that messages have a length, that a request's
first byte announces that length, and that the buffer and the queue have room for something.
The contents of messages, and everything about noise, are unconstrained. `IInv`: bytes
at rest do not start a complete message and leave room (`AtRest`); bytes about to
be rejected do not either (`Doomed`); new bytes fit, and a full buffer is
parsed with `reject` set (`Fits`). Facts about `SubSeq` and `MessageLength` are
lemmas of their own.

`Delivered` needs to know where each request is until it is handled. `Pipe` is what the reader has yet to deal
with, from its buffer and from the line, without what is stale already. The second invariant, `DInv`, says (`InPipe`) that it begins
with the requests sent and not yet handled, whole and in order, each cut from the next at the place `Cuts` gives,
and that behind them comes only a `Fragment` in which nothing can be taken for a request (`Harmless`): the beginning of
what the host is sending, or what is left of noise, of an oversized or a broken-off message. A byte that arrives is added at one end;
`GotMessage` takes at the other end just the first of those requests, or bytes of the fragment. The other parts say that
what is rejected is in the fragment: with BLE short of room (`Forced`), with the buffer full (`Rejects`), or because it
is late, which means that the host has been silent and by its own rules begins anew (`Quiet`).
Both theorems are for any messages, lengths, contents, buffer and queue, and any number of messages sent, over serial and BLE. They assume `~MayStall`, as
the run does: time the reader spends waiting for room in the queue counts as inactivity (`wire.c:177`, 201), and then bytes of a good
message can be rejected (section 5). TLC has checked `DInv` on the instance of `wire_reader`. `NoAbort`, `AlwaysRoom` and `TypeCorrect` do not need the assumption.

`NoneIsLeft` needs one more part, `Course`: what is stale, half read and half sent at each place of the reader. `Work` is what there is to do with
the bytes the host has begun to send. Every step of the reader lowers it. The host raises it only by beginning something: a request, which lowers `Unsent`
when it is complete, or something after which it has to be silent. So until all is handled there is a last step of the reader, and behind it only a
full queue, which the main task empties, or nothing to read; and by `DInv` then no request is left.

**Dashboard.** `DashboardAssumption`: the queues have a place, `None` is no source and not what
`do_dashboard()` remembers. Any number of QR client tasks may run at once, of which TLC checks one.
`IInv` is `InterfacesFit`, types (`Types`, `Around`), and:

* `Chosen`: the screen is the one for what the loop remembers of its beginning (`entry`).
* `SameWallet`: while nothing that is compared has changed, the label is that of the wallet in
  memory. `ScreenFits` is not inductive: a handler may lock the wallet and unlock it again with the
  loop none the wiser, and the label is right then because a handler that ends with a wallet bound to a
  source ends with the stored one. That is why a stale screen needs the PIN part of the invariant.
* `MenuKnown`: the menu is that of the wallet stored, but between the moment that changes and the next choice,
  and then `entry` tells. With `SettingUp` (a wallet is set up where there is none, or for the session) it gives `StoredWalletKnown`, however old the press.
* `Awaited`: with "processing" wanted, or a session kept, an `auth_user` is to come or under way. It holds
  over the whole loop, where `UnlockToCome` is about polling only.

`LostIsLocked` follows a wallet that is `Exposed` through the loop: a check by a loop that does not know of it (`EarlyCheck`), the top,
the poll, and the check of one that does (`KnownCheck`), which clears the keys. A message or a button leads there too, or
ends the exposure. A second hypothesis is about the others: that no reply to a `pin` nobody waits for has to wait, with the wallet exposed, for QR client tasks that take none
(`~ReplyBlocked`). It holds on the instance of the run. With two places in the inbound queue and one in the outbound TLC finds a
behaviour where it does not: the main task then waits for room without limit, with the keys in memory.

**Ota.** `OtaAssumption` says that `None` is none of the values, that images for this
board are neither of another board nor too short for a header, and that an announcement
names an image, two numbers and a kind of hash: the numbers need not be right. Number of
parts, images, hosts and queues are arbitrary. `IInv`:

* `QueueOK`: what is in the queue is well-formed, whoever posted it.
* `DataOK`: types, and the hash the user saw is the one announced.
* `InStep`: without an error, a unit is written for every packet. This is why a partition
  that holds the right units in the right number came from the packets in the same places.
* `HeaderOK`: the version the user confirmed was read in one of the packets that came, and before
  he has, a partition is not full but with images too short for a header. `Installed` alone is not inductive: the user confirms at
  the first packet, and the hash is compared after the last.

At the check (`Checked`) the partition is the whole of one image, and the packets were of that
image: with a hash of the firmware it is the announced one directly, with a hash of the file
because the *packets* are, and by `HeaderOK` the units are theirs. A header read in a packet of it is its own or one it has elsewhere.
So a mix of images cannot pass under either hash, and only the version may be another's.

`OnlyUnreadReplyStrands` is about what the worker leaves behind, and rests on a second invariant,
`Stranding`. `Left`: when no worker is there to feed an upload of its kind, a reply is unread, a message of a worker is
still in the queue, or the main task owes one for the packet in hand. `NotAll`: a refusal that is read next, and that
sends the worker away, is not all there is. `ToClose`: while the worker waits for its last
reply, its `ota_complete` is behind whatever would start another upload from a stick.

`NobodyStandsStill` is the safety half of `StickUploadEnds`: as long as an upload that started with empty queues waits
for anything but the user, the main task has a message and a place for its reply, or a unit to write (`MainCan`), or the worker
has a reply to read, a place for its message, or is leaving (`WorkerCan`). These two are the guards of the actions written
out, since ENABLED is out of the prover's reach; that they imply ENABLED, TLC has checked on the instance of `ota_upload`,
with the invariants below. `InTurn` says what lies in the two
queues, and how many packets have arrived, for each place of the worker: at most one packet is under way, being
written or just answered, with `ota_complete` behind the last one. `Announced` is what holds before: the request of
such a worker is the first in the queue, and nobody has replied yet. Messages of apps may stand anywhere between; what a queue full
of them holds up is only the worker, and then the main task can read.

`UploadEnds` makes a whole of it: `ToGo` is the number of steps the two tasks have still to take together, for the packets that are to come
and for the worker's way to its end. Each step of theirs lowers it or ends the upload; apps, the host and the user do not raise it.

`TypeCorrect` adds the places of the main task (`Course`), who may be source or sender (`Parties`) and the lengths of
the queues (`Sizes`).

**SignTx.** `SignTxAssumption`: at least one input, amounts below a positive `Word`, sums of outputs any
natural number. `IInv` is `TypeOK` with four parts:

* `Progress`: how many inputs, messages and answers there are at each stage.
* `Amounts`: for a payment in bitcoin the app's amount is the real one, except for a single
  segwit v0 input, whose signature is worth nothing if it is not (BIP 143 signs the
  amount); so what was added up is real where it matters, and a swap's sum is its true one whenever its signatures are good.
* `Consent`: past the user's question nothing is left open, and the fee agreed to is the one computed.
* `Exchange`: the list of answers so far, each of one of five shapes that
  say which message and input it belongs to. `AntiExfil` and `AnswersMatch` are about pairs of answers; neither is
  inductive, and both follow from the shapes.

**SignPsbt.** `SignPsbtAssumption`: at least one input and output, positive lengths and pieces, and
`None`, records and Green wallets are different things. Transactions of any size and mix, any number of records. `IInv` is `TypeOK` with:

* `Kinds`: the flags say which kinds of inputs are signed, and only those.
* `OneRecord`: a record found, unless the search has been given up, is that of every input to sign whose path could be read.
* `Hiding`: what is hidden is decided once, when all inputs have been seen. `HiddenIsChange` is
  not inductive: it compares the outputs with *all* signed inputs, of which `ValidateOutputs` has only
  the flags; `Kinds` and `OneRecord` are what they stand for. Of Green inputs the flags say only that they are
  Green, hence the exception `FromGreenToGreen`.
* `Consent`: the outputs shown are agreed to before the fee, and the fee before there is a signature.
* `Pieces`: before the last message a full piece has been sent for each reply, and there are no more than fit.

**UsbStorage.** Queues of any positive size. The five tasks share flags without a lock over all of them, so `IInv`
is mostly about who is where when a flag has a value (TLC has checked it on the instance of `usb_menu`). `Places`, `Types`, `Records`: types. The others:

* `Owning`: the storage task belongs to the main task or to the worker or to nobody, never to both; and from where its owner is
  it follows how far it can have come, and whether its semaphore has been given.
* `Calls`: a callback whose context is gone is left only by a storage task that could not start, so there is none to call it. `KnownAborts` rests on this.
* `Wiring`: serial is on, being stopped, or off with both its tasks deleted; and an `ota` in the queue or in work has its worker.
  This holds until an action is begun too early (`overlap`), as does `PortShared`.
* `Sticks`: what the drivers have installed, and that a storage task which waits with nothing reported has the stick still in.
  Without it a wait for a stick would not be known from a wait for nothing.
* `Faults`: which assertions can fail.

`StallsAreListed` follows by cases on who owns the storage task: where no guard holds (`CanMove`), it is
one of `Stalled`. That `CanMove` are the guards of what the tasks do is the part with ENABLED, and TLC's; of it
`OnlyThenMove` proves that no step is taken elsewhere. `UsbTypeCorrect` adds what is plugged in, and that
queues and list of devices are never overfull.

**BleTasks.** `BleInv` ties the flags of `ble.c` to
the places of the three tasks (`BlePlaces`): the writer exists exactly from the end of `ble_start()` to the end
of `ble_stop()` (`WriterUp`), the exit event is set exactly when it has parked itself, and without a
host task nothing is connected and no report is owed (`HostUp`, `HostDown`, `HostGone`).
That is why an event cannot be left over from an earlier writer. A writer that waits for a report has been notified, or the host task
owes it one (`ReportDue`); so whoever waits, waits for the host task in the end, and `OnlyTheseHalt` leaves only the two callbacks in which
it can be held up itself. That, with `HaltsForGood`, is the safety half of `MainGoesOn`. None of these assumes anything of sizes or counts;
`TypeCorrect` needs that they are positive (`BleAssumption`), and the lengths of the queues (`Lengths`).

`BleComesHome` is all of `MainGoesOn`, from three parts. `WriterIsStopped`: with NimBLE gone the writer is at most four steps from where it parks itself, and nobody else moves it.
`ReplyFindsRoom`: the main task waits only with `ble_out` full; then the writer has its turn or waits for a report, which the host task owes
and gives when it is back from any callback. `HostIsStopped`: `ble_stop()` waits for the host task, whose callbacks end but for `HostStuck`. The
last two rest on `WriterMakesRoom`: the writer does not take steps for ever with `ble_out` staying full,
as it lowers `left`, or leaves that and lowers `TriesLeft`, or is on its way to doing so (`WriterGetsOn`).

**Gui.** `GuiAssumption`: `Home` is not a managed screen, the queue has a place, tasks are
different; `ReportAssumption`: `None` is no report. Numbers of screens, popups, QR clients and jobs are arbitrary. `IInv`:

* `Types`: a switch never frees the screen it shows.
* `Apart`: what is to be freed has left `existing_activities` and is to be freed once.
* `Keeps`: the screen the main task asked for is one it still uses.
* `Behind`: if what a job of the main task shows or repaints is to be freed at all, then by a job
  *behind* it, or by one not yet posted. `FreedInUse` rests on this; it is not inductive by
  itself, since whether a screen is freed too early is decided when the job is posted.
* `Together`: pages are linked both ways, are the main task's while they exist, and are freed together.
* `Registered`, `Listening`: the handlers the event loop knows are those attached to the
  current screen, and who waits has one, or its screen has been freed (a popup's or a QR client's can be).

`Types` gives `TypeOK` with a second, small invariant (`Rest`) for the sizes. `MainScreenBack` rests on
three more. `TheWay`: as long as nothing crossed, the switches that are queued lead to the screen the main task
asked for, or a page linked with it, when no popup is out (`ToMain`), else to that of the only popup, whose `prior` it is
(`ToPopup`). `TheirOwn`: the screen of a popup is never the main task's, nor a page. `TheLink`: a link that is
followed leads to such a page, since once the main task's last switch is done only those have links to follow.

What holds up the GUI task is one step: the mutex is held between steps only while a selection is posted (`HeldToSelect`). From this
`OnlySelectingHalts` and `HaltsForGood` follow, the safety half of `JobsGoThrough`. For `JobsArrive`, the whole of it: while the main task waits with its job, the GUI task
gets the mutex again and again and serves the queue, so there is room again and again, and `SF` of the post does the rest. That a full queue may also hold up the event
loop, whose handlers the GUI task changes, is an exception, as the loop's lock is not modelled.

**Only model-checked.** Every property of the passing runs is stated by a theorem, but for `KnownStalls`, which is in part. Left to TLC are the conjunct
of `KnownStalls` with ENABLED and the hypotheses (1); those of the second kind are checked by nobody, but the runs check the liveness properties without them. No module has a RECURSIVE operator,
and the sequences of `Wire` are reasoned about by their indices.

## 5. Where the code and its own words differ

One run checks a comment of the repository and finds an execution against it; it is the
`findings` entry of `PROJECT.json`, with the quotation.

| Run | What is said | What happens |
|---|---|---|
| `claim_outputs` | "Bitcoin: Confirm all non-change outputs" (`sign_tx.c:604`) | the condition below the comment asks for Liquid in the branch that is not Liquid: outputs of a bitcoin payment signed by `sign_tx` are not shown |

Seen while modelling, without a run of their own.

*Wallet and main loop*

* `auth_user.c:67` asserts that attempts remain when the PIN is asked for; after a failed write
  `has_encrypted_blob` stays TRUE, and the next `auth_user` aborts.
* When the PIN could not be set and the wallet is open all the same, the message is rejected and then answered
  with success (`auth_user.c:289`).
* A second press of 'Setup Jade' is kept until the wallet is set up, then starts the
  set-up again and fails the assertion at `mnemonic.c:1287` (`dashboard.c:2657`).
* After backing out of an update from a stick without a cable, the wallet stays unlocked (`dashboard.c:2369`;
  `tolerate` in `LockedOnLoss`).
* The choice to confirm exports of blinding keys is set before `derive_keychain()` reloads the flags
  (`mnemonic.c:1448`).
* If the connection is lost while the PIN is changed, `get_pin_load_keys()` replies to a
  message that is not there, against the assertions in `process.c`: the one exception of
  `WalletAuth!AssertionsHold`, named `LostInChange` there.
* A temporary login clears the network restriction in RAM only (`keychain.c:206`), so the
  next unlock of the stored wallet may pin the other network than the one in flash.
* Time the reader spends waiting for a place in the queue counts as inactivity
  (`wire.c:177`, 201), so a message that came without a pause can be rejected as stale.
  `Delivered`, `AllHandled` and `TimeoutMeansSilence` are about a reader that is not held up so
  long (`MayStall` is FALSE in the run).
* The comment at `dashboard.c:642` says that after a bad PIN during a change of PIN by QR
  the session to return to is retained, but it is wiped at 633 because no source owns
  the keychain then (`WalletAuth!Relogin`, `Dashboard!Obsolete` follow the code).
  `UnlockToCome` takes no side: it excepts, as `Retained`, a session kept while the stored
  wallet is locked, so that it holds of the code and would of what the comment describes.
* Two more assertions can fail in `Dashboard` after stale presses: unsaved keys on the
  home screen (`dashboard.c:2787`) and unlocking by QR with a temporary wallet loaded
  (754). `fault` distinguishes them.

*Firmware update*

* Another message than `ota_complete`, or a lost connection, after the last packet ends in "Upgrade
  successful!" and a restart, with nothing installed (`ota.c:201`, 226).
* The header is checked in the first write that is at least `CUSTOM_HEADER_MIN_WRITE` long (`ota_delta.c:103`,
  122, `ota.c:34`, 63), which need not be the first: the version on the screen, and the board and version that are checked, may then be those of a header
  elsewhere in the same image (`Inside` in `Installed` and `FitsBoard`).
* `JADE_ASSERT(validated_confirmed)` (`ota.c:181`) fails for an announced firmware that is
  too short to have a header (`Ota!NextUnit`).
* A reply left in `internal_out`, by a worker that could not open its file (`usbmode.c:593`)
  or because an upload over BLE was ahead in the queue, puts the next worker out of step
  with the main task, which may then wait for a packet for ever; and the main task posts
  `ota` itself (667), into a queue that only it empties. `OnlyUnreadReplyStrands` says that
  there is no other way, and `StickUploadEnds` excludes just these.

*Signing*

* An output of zero reaches `JADE_ASSERT(output_amount)` in `sign_tx`. Swap inputs without blinding
  data are signed and not counted; an asset that is not in the summary is ignored.
* When a signed PSBT is a whole number of pieces long, one message too many is announced, and
  `JADE_ASSERT(chunk < end)` restarts the unit when the app asks for it (`sign_psbt.c:993`, `Whole`).
* An input whose path is longer than `MAX_PATH_LEN` does not take part in the search for a
  record that fits all inputs (exception in `HiddenIsChange`).
* An output of a Green wallet is compared with a script made of the recovery key and the path in its own key map
  (`sign_psbt.c:92`, 550), never with those of the inputs: when only Green inputs are signed it is not shown, whichever
  Green wallet it is of (exception `FromGreenToGreen` in `HiddenIsChange`).
* The test on `recovery_key` in
  `verify_ga_script_matches()` is the reverse of its comment. Who asks for the next piece is not checked.

*USB storage* (exceptions of `KnownStalls`, `KnownAborts`, `PortShared`)

* `JADE_SEMAPHORE_TAKE` "eventually asserts" (`jade_assert.h:71`), but counts its attempts
  inside an argument of `JADE_LOGW`, which is not evaluated where logging is compiled out: on just the units with a USB host. So
  `usbstorage_stop()`, which holds `interface_semaphore` while it waits for the storage task, and that task, which wants it to mount a stick, wait for
  each other for ever.
* A stick that is pulled during an action sets the state to NONE, the unmount is skipped, the drivers stay, and the next start
  fails and leaves serial off until a restart.
* `serial_stop()` waits for a reader that waits for room. The writer's handle is not cleared when it is
  deleted. Posting `ota` into a full queue blocks the only one who empties it. Reading or writing a file
  that stops half way goes round for ever (`usbmode.c:99`, 120). A file that cannot be opened leaves the main task in `ota`.
* What was true of the cable and of `main_task` when it was looked at is asserted later (`usbhmsc.c:260`). After an update has
  failed, a menu can start an action before the worker has stopped the storage task (`overlap`).

*Bluetooth* (`HostStuck` in `MainGoesOn`)

* A host task that waits in a callback for room in `shared_in` while the main task stops BLE, or for room in `ble_out` for an answer of its
  own when the writer has ended or waits for a report, waits for ever, and the main task with it.
* `write_ble()` after `nimble_port_deinit()` may fail its assertion on memory. Replies left in `ble_out` go to the next client,
  possibly from the middle of one.
* `ble_stop()` only logs that `nimble_port_stop()` failed (`ble.c:563`), deletes the writer and counts BLE as off, while the
  host task runs on. What NimBLE does when it is started once more is its own, so this is not modelled.

*Screens* (exceptions of `FreedInUse`, `MainScreenBack`, `JobsGoThrough`)

* `gui_set_current_activity_ex(.., true)` in the main task frees the screen of a popup or of the QR client, whose task
  waits on its semaphore or draws on it, or the one that popup will restore.
* The QR client's screen stays over the main task's when it is the last shown; either may cover the other's.
* A page's button is acted on by the event loop after the main task has posted a switch: the page is then on top of the
  screen the main task waits on, or, if that switch frees the pages, is shown after it has been freed (`gui.c:770`).
* A handler that waits for room in the queue holds the event loop's lock, which the GUI task needs to change
  handlers: with the queue full they may wait for each other (not modelled; excepted in `JobsGoThrough`).
* Pages of a recovery phrase and the keyboard are waited on with a handler that is not tied to a screen
  (`process/mnemonic.c:297`, `ui/keyboard.c:198`), so it hears the buttons of a popup as well; `Heard` is about those that are.
* A popup reads `gui_current_activity()` without the mutex while another switch is under way, and may restore a
  screen that has been left: the main task then waits on one nobody sees.
* The wheel reads the current screen without the mutex, and its repaint can lie behind the switch that frees the screen.
* `gui_activity_set_active_selection()` posts with the mutex held: with the queue full, it and the GUI task wait for each other.
* Each `gui_activity_wait_event()` adds a handler that stays until the screen is freed.

## 6. Not modelled, and the plan

What is there: the wallet with its vault, the framing, the main loop, the update, both kinds of
signing, USB storage, Bluetooth, and the screens. In the order of what it would add:

1. Proofs: the hypotheses (1) for every value of the constants, with a prover that expands ENABLED.
2. `KeyFlags`: preferences kept with the keys, against set-up and restart (`mnemonic.c:1448`).
3. Registrations: limits of the namespaces, replacing a record, the HOTP counter against crashes.
4. The idle timer's deadlines, and the time between its clearing the keys and the restart.
5. Two QR client tasks at once (`qrmode.c:1785`) in a run: the code allows it, the state space does not fit;
   for now only the safety properties, which are proved for any number, cover it.

Composition: `WalletAuth` and `Dashboard` share `auth_user`, once in detail and
once by its outcomes, because their product is far too large for TLC. `Wire`,
`UsbStorage` and `BleTasks` meet in the queues of `process.c`: `Wire` has what is put into
the inbound one, the others who waits for whom when one is full. `Dashboard`, `Ota` and `UsbStorage` meet in
the `ota` message, `Dashboard` and `Gui` in the screen and the press of its buttons.

Left out for good:

* Cryptography and parsing (wally, mbedtls, tinycbor, BIP32, descriptors' scripts, addresses): pure
  functions of libraries or of one request. Message signing, identities and BIP85 are one request, one
  confirmation, one result; their anti-exfil is that of `SignTx`.
* Drawing, fonts, dialogs, text entry, the order of set-up screens: user interface;
  only their outcomes reach the models. Scanning QR codes is image processing.
* `components/` and `bootloader_components/`: vendored. `selfcheck.c`, `smoketest.c`,
  `jadepy/`, `test_*`: tests and clients.
* Attestation, randomness, power and display hardware: register and eFuse access.
* Bonds, advertising and MTU of BLE; `nimble_port_init()` or `nimble_port_stop()` failing.
* Tick counts that wrap around (after 49 days), flash wear, memory exhaustion.

The share of source lines behind these models is small because most of the tree is of these kinds.
`PROJECT.json` lists the hazards met while reading, at their lines, including those
of parts not modelled yet.

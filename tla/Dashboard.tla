------------------------------ MODULE Dashboard ------------------------------
(***************************************************************************)
(* The main task of Jade once it has started (process/dashboard.c): which  *)
(* screen is up, which message or button is handled next, which interfaces *)
(* are open, and when an unlocked wallet is locked again; with the task    *)
(* that plays the companion app when the PIN oracle is reached by QR codes *)
(* (qrmode.c).                                                             *)
(*                                                                         *)
(* Four parties run at once: the main task, the GUI task (Press,           *)
(* GuiSwitch), the QR client tasks and the outside world (cable, BLE and   *)
(* the messages of companion apps).  The main task polls: it takes one     *)
(* message, or if there is none one GUI event, and then looks whether the  *)
(* connection of the unlocked wallet is still there.  Menus and handlers   *)
(* run inside that loop, and nothing is polled meanwhile.                  *)
(*                                                                         *)
(* What auth_user does with PIN, flash and oracle is module WalletAuth;    *)
(* here only its outcome counts.  BLE is taken to be switched on in the    *)
(* settings, the unit to have a camera.                                    *)
(***************************************************************************)
EXTENDS Naturals, Sequences

CONSTANTS
    Clients,        \* QR client tasks that may exist at the same time
    QueueSize,      \* messages that fit the inbound queue
    OutSize,        \* messages that fit the outbound queue for QR clients
    None            \* SOURCE_NONE, no event, not entered yet

Sources == {"serial", "ble", "internal"}

\* What do_dashboard() remembers of the time it was entered.
Entries == [keys: BOOLEAN, hasPin: BOOLEAN, owner: Sources \cup {None},
            show: BOOLEAN, init: Sources \cup {None}]

ASSUME DashboardAssumption ==
    /\ QueueSize \in Nat \ {0}
    /\ OutSize \in Nat \ {0}
    /\ None \notin Sources \cup Entries

VARIABLES
    \* The keychain
    hasPin,         \* a wallet is stored in flash
    wallet,         \* what is in memory: none, unsaved, saved or temp
    owner,          \* userdata, the source the keys answer to
    \* The statics of dashboard.c
    show,           \* show_connect_screen
    initSource,     \* initialisation_source
    relogin,        \* internal_relogin_source
    tolerate,       \* tolerate_usb_disconnection
    homeType,       \* home_screen_type
    \* The main task
    pc,
    entry,          \* do_dashboard()'s initial_... values
    screen,         \* act_dashboard, and the wallet its label names
    src,            \* source of the auth_user in progress
    setup,          \* initialise_with_mnemonic() in progress: temporary? what follows?
    fault,          \* the assertion that failed
    \* The GUI and the rest of the world
    up,             \* is the dashboard screen (not yet a menu) on display?
    event,          \* event_data: the last event not yet handled
    cable,          \* is USB plugged in?
    ble,            \* off, on (advertising) or connected
    inbox,          \* shared_in
    out,            \* internal_out
    client          \* what each QR client task is doing

keychain == <<hasPin, wallet, owner>>
statics == <<show, initSource, relogin, tolerate, homeType>>
mainTask == <<pc, entry, screen, src, setup, fault>>
world == <<up, event, cable, ble, inbox, out, client>>
vars == <<keychain, statics, mainTask, world>>

Keys == wallet # "none"
Snapshot == [keys |-> Keys, hasPin |-> hasPin, owner |-> owner,
             show |-> show, init |-> initSource]
Room == Len(inbox) < QueueSize
Idle == [temporary |-> FALSE, next |-> "none"]

Init ==
    /\ hasPin \in BOOLEAN /\ wallet = "none" /\ owner = None
    /\ show = FALSE /\ initSource = None /\ relogin = None /\ tolerate = FALSE
    /\ homeType = "uninit"
    /\ pc = "top" /\ entry = None /\ screen = [is |-> "none", label |-> "none"]
    /\ src = None /\ setup = Idle /\ fault = "none"
    /\ up = FALSE /\ event = None /\ cable = FALSE /\ ble = "off"
    /\ inbox = <<>> /\ out = <<>> /\ client = [c \in Clients |-> "none"]

\* Where the main task waits for the user or, in "pin wait", for a message.
Menus == {"setup", "select", "qrmode", "session", "scanqr", "settings",
          "pin entry", "pin wait"}

\* Operators with parameters and Go say what becomes of the main task, its
\* statics and the keychain; the actions that use them add the world.
Go(where) == pc' = where

\* A failed JADE_ASSERT: nothing runs any more until the unit has rebooted.
Abort(what) ==
    /\ Go("dead") /\ fault' = what
    /\ UNCHANGED <<keychain, statics, entry, screen, src, setup>>

\* keychain_clear()
ClearKeys == wallet' = "none" /\ owner' = None

-----------------------------------------------------------------------------
(* The loop of dashboard_process() and do_dashboard()                        *)

\* Mutant: a session to be handed back does not count.
BleForOwner(source) ==
    IF source \in {"serial", "internal"} THEN "off"
    ELSE IF ble = "off" THEN "on" ELSE ble

\* enable_connection_interfaces(): one interface for a wallet that is bound
\* to a source, all of them otherwise.
BleFor(source) ==
    LET bound == IF source = None THEN relogin ELSE source
    IN  IF bound \in {"serial", "internal"} THEN "off"
        ELSE IF ble = "off" THEN "on" ELSE ble

ConnectScreen ==
    IF initSource = "internal" THEN "processing"
    ELSE IF Keys THEN "connect_to" ELSE "connect"

\* Mutant: goes by what was stored when the loop was entered.
MenuAtEntry ==
    IF Keys THEN "active" ELSE IF entry # None /\ entry.hasPin THEN "locked" ELSE "uninit"
MenuFor == IF Keys THEN "active" ELSE IF hasPin THEN "locked" ELSE "uninit"

\* Mutants: only the keys, or all but their owner, are compared.
UnchangedKeys == entry # None /\ entry.keys = Keys /\ entry.hasPin = hasPin
UnchangedButOwner == entry # None /\ [entry EXCEPT !.owner = owner] = Snapshot

\* Has nothing changed since this screen was chosen?
Unchanged == entry = Snapshot

\* The loop goes round again.
Again ==
    /\ pc = "top" /\ Unchanged
    /\ ble' = BleFor(owner) /\ up' = TRUE
    /\ Go("poll")
    /\ UNCHANGED <<keychain, statics, entry, screen, src, setup, fault,
                   event, cable, inbox, out, client>>

\* The loop ends: a new dashboard screen is chosen, and the loop entered anew.
ChooseHome ==
    /\ pc = "top" /\ ~Unchanged /\ ~show
    /\ IF Keys /\ owner = None
       THEN Abort("unbound keys on the home screen") /\ UNCHANGED world
       ELSE /\ initSource' = None
            /\ entry' = [Snapshot EXCEPT !.init = None]
            /\ homeType' = MenuFor
            /\ screen' = [is |-> "home", label |-> wallet]
            /\ ble' = BleFor(owner) /\ up' = TRUE
            /\ Go("poll")
            /\ UNCHANGED <<keychain, show, relogin, tolerate, src, setup,
                           fault, event, cable, inbox, out, client>>

ChooseConnect ==
    /\ pc = "top" /\ ~Unchanged /\ show
    /\ entry' = Snapshot
    /\ screen' = [is |-> ConnectScreen, label |-> "none"]
    /\ ble' = BleFor(owner) /\ up' = TRUE
    /\ Go("poll")
    /\ UNCHANGED <<keychain, statics, src, setup, fault, event, cable,
                   inbox, out, client>>

\* An unlocked wallet is locked when the connection it was unlocked over is
\* lost; but not a temporary one, and not while a USB stick is expected.
LinkLost ==
    \/ entry.owner = "serial" /\ ~tolerate /\ ~cable
    \/ entry.owner = "ble" /\ ble # "connected"

Check ==
    /\ pc = "check"
    /\ IF entry.hasPin /\ entry.keys /\ wallet # "temp" /\ LinkLost
       THEN ClearKeys ELSE UNCHANGED <<wallet, owner>>
    /\ Go("top")
    /\ UNCHANGED <<hasPin, statics, entry, screen, src, setup, fault, world>>

-----------------------------------------------------------------------------
(* Messages                                                                  *)

\* A reply goes to the queue of the source; only that for QR clients matters.
Reply(source, what) ==
    IF source = "internal"
    THEN Len(out) < OutSize /\ out' = Append(out, what)
    ELSE UNCHANGED out

\* Mutant: the session is kept while no wallet is loaded, and if it has been wiped too.
ObsoleteIfLoaded(p, w, o) == w = "temp" \/ (w # "none" /\ o # "internal")

\* Is there no session to hand back any more?
Obsolete(p, w, o) == w = "temp" \/ ~p \/ o # "internal"

\* dispatch_message() after auth_user_process() has returned with the keychain
\* <<p, w, o>>: an internal re-login hands the session back to the source that
\* had it, unless it no longer applies.
FinishAuthWith(p, w, o, init) ==
    LET handBack == relogin # None /\ ~Obsolete(p, w, o) /\ w # "none"
    IN  /\ hasPin' = p /\ wallet' = w
        /\ owner' = IF handBack THEN relogin ELSE o
        /\ show' = (w # "none" /\ o = None)
        /\ initSource' = init
        /\ relogin' = IF Obsolete(p, w, o) \/ handBack THEN None ELSE relogin
        /\ tolerate' = FALSE
        /\ src' = None /\ setup' = Idle
        /\ Go("check")
        /\ UNCHANGED <<homeType, entry, screen, fault>>

\* Mutant: initialisation_source is not reset.
FinishAuthOnly(p, w, o) == FinishAuthWith(p, w, o, initSource)

FinishAuth(p, w, o) == FinishAuthWith(p, w, o, None)

\* auth_user_process(), where the user is not needed: a temporary wallet, or
\* one already unlocked by this source.
AuthAtOnce(m) ==
    /\ wallet = "temp" \/ (hasPin /\ Keys /\ owner = m.source)
    /\ Reply(m.source, "result")
    /\ FinishAuth(hasPin, wallet, IF owner = None THEN m.source ELSE owner)

\* A wallet to unlock, or unsaved keys to store: the user enters the PIN.
\* With neither, the user sets up a wallet first, inside the handler.
AuthNeedsUser(m) ==
    /\ wallet # "temp"
    /\ ~(hasPin /\ Keys /\ owner = m.source)
    /\ src' = m.source
    /\ IF hasPin THEN ClearKeys ELSE UNCHANGED <<wallet, owner>>
    /\ IF hasPin \/ Keys
       THEN Go("pin entry") /\ UNCHANGED setup
       ELSE Go("setup") /\ setup' = [temporary |-> FALSE, next |-> "pin entry"]
    /\ UNCHANGED <<hasPin, statics, entry, screen, fault, out>>

Logout(m) ==
    /\ ClearKeys /\ tolerate' = FALSE
    /\ Go("check")
    /\ UNCHANGED <<hasPin, show, initSource, relogin, homeType,
                   entry, screen, src, setup, fault, out>>

OtaAllowed(source) ==
    ~hasPin \/ (Keys /\ wallet # "temp" /\ source \in {owner, "internal"})

\* Everything else has no effect here, if it is not refused: 'cancel' is
\* ignored, a 'pin' nobody waits for is an error.  An upload closes the other
\* interface while it lasts; replies to it go to a worker task of its own.
OtherMessage(m) ==
    /\ tolerate' = FALSE
    /\ IF m.method = "pin" THEN Reply(m.source, "result") ELSE UNCHANGED out
    /\ Go("check")
    /\ UNCHANGED <<keychain, show, initSource, relogin, homeType,
                   entry, screen, src, setup, fault>>

Dispatch(m) ==
    \/ m.method = "auth_user" /\ (AuthAtOnce(m) \/ AuthNeedsUser(m)) /\ UNCHANGED ble
    \/ m.method = "logout" /\ Logout(m) /\ UNCHANGED ble
    \/ m.method = "ota" /\ OtherMessage(m)
       /\ ble' = IF OtaAllowed(m.source) THEN BleFor(m.source) ELSE ble
    \/ m.method \in {"pin", "cancel"} /\ OtherMessage(m) /\ UNCHANGED ble

TakeMessage ==
    /\ pc = "poll" /\ inbox # <<>>
    /\ Dispatch(Head(inbox))
    /\ inbox' = Tail(inbox)
    /\ UNCHANGED <<up, event, cable, client>>

\* The PIN is entered and the oracle's answer asked for, or the user gives up.
EnterPin ==
    /\ pc = "pin entry" /\ ~up
    /\ \/ /\ Reply(src, "request") /\ Go("pin wait")
          /\ UNCHANGED <<keychain, statics, entry, screen, src, setup, fault>>
       \/ Reply(src, "result") /\ FinishAuth(hasPin, wallet, owner)
    /\ UNCHANGED <<up, event, cable, ble, inbox, client>>

\* What pinclient.c and the handler make of a 'pin' message from source s: the
\* wallet is unlocked, the PIN was wrong, or wrong once too often; a new wallet
\* is stored, or is not; the PIN of the wallet just unlocked is changed, or not.
\* Whoever sent the 'pin' gets the wallet.
Outcomes(s) ==
    IF wallet = "saved" THEN {<<TRUE, "saved", owner>>}
    ELSE IF hasPin THEN {<<TRUE, "saved", s>>, <<TRUE, "none", None>>, <<FALSE, "none", None>>}
    ELSE {<<TRUE, "saved", s>>, <<FALSE, wallet, owner>>}

PinAnswer ==
    LET m == Head(inbox) IN
    /\ pc = "pin wait" /\ inbox # <<>> /\ m.method = "pin"
    /\ inbox' = Tail(inbox)
    /\ \E o \in Outcomes(m.source) :
          Reply(m.source, "result") /\ FinishAuth(o[1], o[2], o[3])
    /\ UNCHANGED <<up, event, cable, ble, client>>

\* Another round: the oracle could not be reached and the user retries, or the
\* wallet is unlocked and a new PIN is asked for.
PinAgain ==
    LET m == Head(inbox) IN
    /\ pc = "pin wait" /\ inbox # <<>> /\ m.method = "pin"
    /\ inbox' = Tail(inbox) /\ src' = m.source
    /\ \/ UNCHANGED keychain
       \/ hasPin /\ wallet' = "saved" /\ owner' = m.source /\ UNCHANGED hasPin
    /\ Go("pin entry")
    /\ UNCHANGED <<statics, entry, screen, setup, fault, up, event, cable, ble,
                   out, client>>

\* Any other message ends the handler;
\* 'cancel' gets no answer, unless the wallet is already unlocked.
PinGivenUp ==
    LET m == Head(inbox) IN
    /\ pc = "pin wait" /\ inbox # <<>> /\ m.method # "pin"
    /\ inbox' = Tail(inbox)
    /\ IF m.method = "cancel" /\ wallet # "saved"
       THEN UNCHANGED out ELSE Reply(m.source, "result")
    /\ FinishAuth(hasPin, wallet, owner)
    /\ UNCHANGED <<up, event, cable, ble, client>>

\* The loss of the connection ends it too; but once the wallet is unlocked the
\* handler goes on to reply, to a message that is not there.
PinLinkLost ==
    /\ pc = "pin wait" /\ inbox = <<>>
    /\ (src = "serial" /\ ~cable) \/ (src = "ble" /\ ble # "connected")
    /\ IF wallet = "saved" THEN Abort("no message to reply to")
                           ELSE FinishAuth(hasPin, wallet, owner)
    /\ UNCHANGED world

-----------------------------------------------------------------------------
(* Buttons and menus                                                         *)

\* Which entry the wheel has stopped at is left open.
HomeMenu == [uninit |-> {"initialize", "seedqr", "settings"},
             locked |-> {"connect", "qrmode", "settings"},
             active |-> {"session", "scanqr", "settings"}]

\* initialise_with_mnemonic() expects no keys, and only a temporary wallet
\* beside a stored one.
StartSetup(temporary, next) ==
    IF Keys THEN Abort("keys in memory before setup")
    ELSE IF hasPin /\ ~temporary THEN Abort("wallet stored before setup")
    ELSE /\ setup' = [temporary |-> temporary, next |-> next]
         /\ Go("setup")
         /\ UNCHANGED <<keychain, statics, entry, screen, src, fault>>

\* select_initial_connection(): until the user has chosen there is no source.
\* A wallet read from a QR code may yet be made a temporary one ("offer").
SelectConnection(offer) ==
    /\ Go("select")
    /\ setup' = [temporary |-> FALSE, next |-> IF offer THEN "offer" ELSE "none"]
    /\ initSource' = None /\ show' = FALSE
    /\ UNCHANGED <<relogin, tolerate, homeType, entry, screen, src, fault>>

Show(connect) ==
    /\ show' = connect /\ Go("check")
    /\ UNCHANGED <<keychain, initSource, relogin, tolerate, homeType,
                   entry, screen, src, setup, fault>>

Enter(menu) ==
    /\ Go(menu)
    /\ UNCHANGED <<keychain, statics, entry, screen, src, setup, fault>>

\* handle_btn()
Handle(button) ==
    \/ button = "initialize" /\ StartSetup(FALSE, "select")
    \/ button = "seedqr" /\ StartSetup(TRUE, "qr")
    \/ button \in {"settings", "session", "scanqr", "qrmode"} /\ Enter(button)
    \/ button = "connect" /\ Show(TRUE)
    \/ button = "back" /\ Show(FALSE)
    \/ button = "to_back" /\ SelectConnection(FALSE) /\ UNCHANGED keychain

\* One GUI event, if no message was there.  Buttons of the connect screens
\* count while such a screen is wanted, clicks on the home screen always.
HandleEvent ==
    /\ pc = "poll" /\ inbox = <<>>
    /\ \/ event = "click" /\ \E button \in HomeMenu[homeType] : Handle(button)
       \/ event \in {"back", "to_back"} /\ show /\ Handle(event)
       \/ event \in {"back", "to_back"} /\ ~show /\ Enter("check")
       \/ event = None /\ Enter("check")
    /\ event' = None
    /\ UNCHANGED <<up, cable, ble, inbox, out, client>>

\* auth_qr_mode() with a temporary wallet: it is bound to QR codes at once.
BindToQr ==
    /\ wallet' = "temp" /\ owner' = "internal"
    /\ initSource' = "internal" /\ show' = FALSE /\ setup' = Idle
    /\ Go("check")
    /\ UNCHANGED <<hasPin, relogin, tolerate, homeType, entry, screen, src, fault>>

\* auth_qr_mode() otherwise: a task is started that will send auth_user.
AwaitQr ==
    /\ initSource' = "internal" /\ show' = TRUE /\ setup' = Idle
    /\ Go("check")
    /\ UNCHANGED <<hasPin, tolerate, homeType, entry, screen, src, fault>>

StartClient ==
    \E c \in Clients : client[c] = "none" /\ client' = [client EXCEPT ![c] = "drain"]

\* Menus are left by what the user does on their own screens.
InMenu(menu) == pc = menu /\ ~up

EndSetup ==
    /\ InMenu("setup")
    /\ \/ setup.next = "pin entry" /\ Reply(src, "result") /\ FinishAuth(hasPin, wallet, owner)
       \/ /\ setup.next # "pin entry" /\ setup' = Idle
          /\ Go(IF setup.next = "qr menu" THEN "qrmode" ELSE "check")
          /\ UNCHANGED <<keychain, statics, entry, screen, src, fault, out>>
    /\ UNCHANGED <<up, event, cable, ble, inbox, client>>

NewWallet ==
    /\ InMenu("setup")
    /\ \/ /\ setup.next \in {"qr", "qr menu"} /\ BindToQr
       \/ /\ setup.next \in {"select", "pin entry"}
          /\ wallet' = IF setup.temporary THEN "temp" ELSE "unsaved"
          /\ owner' = None /\ UNCHANGED hasPin
          /\ \/ setup.next = "select"
                /\ \E offer \in BOOLEAN : (offer => ~setup.temporary) /\ SelectConnection(offer)
             \/ setup.next = "pin entry" /\ Go("pin entry") /\ setup' = Idle
                /\ UNCHANGED <<statics, entry, screen, src, fault>>
    /\ UNCHANGED world

ConnectBy(source) ==
    /\ InMenu("select")
    /\ initSource' = source /\ show' = TRUE /\ setup' = Idle
    /\ ble' = IF source = "ble" /\ ble = "off" THEN "on" ELSE ble
    /\ Go("check")
    /\ UNCHANGED <<keychain, relogin, tolerate, homeType, entry, screen,
                   src, fault, up, event, cable, inbox, out, client>>

ConnectByQr ==
    /\ InMenu("select")
    /\ \/ (wallet = "temp" \/ setup.next = "offer") /\ BindToQr /\ UNCHANGED client
       \/ wallet # "temp" /\ AwaitQr /\ StartClient /\ UNCHANGED <<wallet, owner, relogin>>
    /\ UNCHANGED <<up, event, cable, ble, inbox, out>>

QrMode ==
    /\ InMenu("qrmode")
    /\ \/ ~hasPin /\ Abort("no wallet to unlock by QR") /\ UNCHANGED client
       \/ wallet = "temp" /\ Abort("temporary wallet to unlock by QR") /\ UNCHANGED client
       \/ hasPin /\ wallet # "temp" /\ AwaitQr /\ StartClient /\ UNCHANGED <<wallet, owner, relogin>>
       \/ StartSetup(TRUE, "qr menu") /\ UNCHANGED client
       \/ Enter("check") /\ UNCHANGED client
    /\ UNCHANGED <<up, event, cable, ble, inbox, out>>

Session ==
    /\ InMenu("session")
    /\ \/ ClearKeys /\ Go("check")
          /\ UNCHANGED <<hasPin, statics, entry, screen, src, setup, fault>>
       \/ Enter("check")
    /\ UNCHANGED world

\* handle_scan_qr(): a recovery phrase among the scanned codes replaces the
\* wallet; what other codes ask for changes nothing here.
ScanQr ==
    /\ InMenu("scanqr")
    /\ \/ owner = "internal" /\ BindToQr
       \/ owner # "internal" /\ SelectConnection(FALSE)
          /\ wallet' = "temp" /\ owner' = None /\ UNCHANGED hasPin
       \/ Enter("check")
    /\ UNCHANGED world

TemporaryLogin ==
    /\ InMenu("settings") /\ ~Keys
    /\ StartSetup(TRUE, "select")
    /\ UNCHANGED world

ChangePinByQr ==
    /\ InMenu("settings") /\ wallet = "saved"
    /\ AwaitQr /\ StartClient
    /\ relogin' = owner /\ ClearKeys
    /\ UNCHANGED <<up, event, cable, ble, inbox, out>>

\* Firmware from a USB stick: the cable has to go first.  The user may still
\* go back to the menu; otherwise an 'ota' message is posted.
UsbFirmware ==
    /\ InMenu("settings") /\ OtaAllowed("internal")
    /\ tolerate' = TRUE
    /\ \/ UNCHANGED <<pc, inbox>>
       \/ /\ Room /\ inbox' = Append(inbox, [source |-> "internal", method |-> "ota"])
          /\ Go("check")
    /\ UNCHANGED <<keychain, show, initSource, relogin, homeType, entry,
                   screen, src, setup, fault, up, event, cable, ble, out, client>>

LeaveSettings ==
    /\ InMenu("settings") /\ Enter("check")
    /\ UNCHANGED world

-----------------------------------------------------------------------------
(* The GUI task                                                              *)

\* What the user can press on the screen that is up.
ButtonsOn == [home |-> {"click"}, connect |-> {"back"},
              connect_to |-> {"to_back"}, processing |-> {}, none |-> {}]

\* The handler of the event only remembers it; a later one takes its place.
Press ==
    /\ up /\ pc # "dead"
    /\ event' \in ButtonsOn[screen.is]
    /\ UNCHANGED <<keychain, statics, mainTask, up, cable, ble, inbox, out, client>>

\* The GUI task shows the menu the main task has switched to.
GuiSwitch ==
    /\ up /\ pc \in Menus
    /\ up' = FALSE
    /\ UNCHANGED <<keychain, statics, mainTask, event, cable, ble, inbox, out, client>>

-----------------------------------------------------------------------------
(* auth_qr_client_task()                                                     *)

Client(c, from, to) ==
    /\ pc # "dead" /\ client[c] = from
    /\ client' = [client EXCEPT ![c] = to]
    /\ UNCHANGED <<keychain, statics, mainTask, up, event, cable, ble>>

Post(method) ==
    Room /\ inbox' = Append(inbox, [source |-> "internal", method |-> method])

\* Old replies are thrown away, then 'auth_user' is sent.
Drain(c) == Client(c, "drain", "post") /\ out' = <<>> /\ UNCHANGED inbox
PostAuth(c) == Client(c, "post", "wait") /\ Post("auth_user") /\ UNCHANGED out

\* A request for the oracle is shown and the answer scanned; any other reply,
\* and a user who gives up, ends the task.
TakeReply(c) ==
    /\ out # <<>> /\ out' = Tail(out)
    /\ Client(c, "wait", IF Head(out) = "request" THEN "scan" ELSE "cancel")
    /\ UNCHANGED inbox
PostPin(c) == Client(c, "scan", "wait") /\ Post("pin") /\ UNCHANGED out
GiveUp(c) == Client(c, "scan", "cancel") /\ UNCHANGED <<inbox, out>>
PostCancel(c) == Client(c, "cancel", "none") /\ Post("cancel") /\ UNCHANGED out

ClientStep(c) ==
    Drain(c) \/ PostAuth(c) \/ TakeReply(c) \/ PostPin(c) \/ GiveUp(c) \/ PostCancel(c)

-----------------------------------------------------------------------------
(* The world                                                                 *)

Plug ==
    /\ cable' = ~cable
    /\ UNCHANGED <<keychain, statics, mainTask, up, event, ble, inbox, out, client>>

BleLink ==
    /\ \/ ble = "on" /\ ble' = "connected"
       \/ ble = "connected" /\ ble' = "on"
    /\ UNCHANGED <<keychain, statics, mainTask, up, event, cable, inbox, out, client>>

\* A companion app sends what it likes, when it likes.
Send ==
    /\ Room /\ pc # "dead"
    /\ \E source \in {"serial", "ble"}, method \in {"auth_user", "pin", "logout"} :
          /\ IF source = "serial" THEN cable ELSE ble = "connected"
          /\ inbox' = Append(inbox, [source |-> source, method |-> method])
    /\ UNCHANGED <<keychain, statics, mainTask, up, event, cable, ble, out, client>>

\* The idle timer, the power button, a failed assertion, a finished upload; or
\* the factory reset in the settings menu, which erases the wallet as well.
Reboot ==
    /\ hasPin' = hasPin \/ (InMenu("settings") /\ hasPin' = FALSE)
    /\ wallet' = "none" /\ owner' = None
    /\ show' = FALSE /\ initSource' = None /\ relogin' = None /\ tolerate' = FALSE
    /\ homeType' = "uninit"
    /\ pc' = "top" /\ entry' = None /\ screen' = [is |-> "none", label |-> "none"]
    /\ src' = None /\ setup' = Idle /\ fault' = "none"
    /\ up' = FALSE /\ event' = None /\ ble' = "off" /\ UNCHANGED cable
    /\ inbox' = <<>> /\ out' = <<>> /\ client' = [c \in Clients |-> "none"]

-----------------------------------------------------------------------------
Loop == Again \/ ChooseHome \/ ChooseConnect \/ TakeMessage \/ HandleEvent \/ Check

Waiting == EnterPin \/ PinAnswer \/ PinAgain \/ PinGivenUp \/ PinLinkLost

Menu == EndSetup \/ NewWallet \/ ConnectByQr \/ QrMode \/ Session \/ ScanQr
            \/ TemporaryLogin \/ ChangePinByQr \/ UsbFirmware \/ LeaveSettings
            \/ \E source \in {"serial", "ble"} : ConnectBy(source)

Next == Loop \/ Waiting \/ Menu \/ Press \/ GuiSwitch
            \/ (\E c \in Clients : ClientStep(c))
            \/ Plug \/ BleLink \/ Send \/ Reboot

\* The main task keeps running its loop, whatever the others do.
Spec == Init /\ [][Next]_vars /\ WF_vars(Loop)

-----------------------------------------------------------------------------
(* Properties                                                                *)

\* The values the variables range over, the queues within their bounds, and no
\* more in memory than the flags allow: unsaved keys have no owner and there is
\* no stored wallet beside them; a saved one has both.
TypeOK ==
    /\ hasPin \in BOOLEAN
    /\ wallet \in {"none", "unsaved", "saved", "temp"}
    /\ owner \in Sources \cup {None}
    /\ wallet = "none" => owner = None
    /\ wallet = "unsaved" => ~hasPin /\ owner = None
    /\ wallet = "saved" => hasPin /\ owner # None
    /\ show \in BOOLEAN /\ tolerate \in BOOLEAN /\ up \in BOOLEAN /\ cable \in BOOLEAN
    /\ {initSource, relogin, src} \subseteq Sources \cup {None}
    /\ homeType \in DOMAIN HomeMenu
    /\ pc \in {"top", "poll", "check", "dead"} \cup Menus
    /\ entry \in Entries \cup {None}
    /\ screen.is \in DOMAIN ButtonsOn
    /\ event \in {None, "click", "back", "to_back"}
    /\ ble \in {"off", "on", "connected"}
    /\ Len(inbox) <= QueueSize /\ Len(out) <= OutSize
    /\ client \in [Clients -> {"none", "drain", "post", "wait", "scan", "cancel"}]

\* While the main task polls, the screen is the one for the state it is in: the
\* user is never offered the menu, or shown the fingerprint, of another.
ScreenFits ==
    pc = "poll" => IF show THEN screen = [is |-> ConnectScreen, label |-> "none"]
               ELSE screen = [is |-> "home", label |-> wallet] /\ homeType = MenuFor

\* While the main task polls, a wallet bound to a source, or about to be handed
\* back to one, leaves no other radio on; and an unbound one can be reached.
InterfacesFit ==
    pc = "poll" => LET bound == IF owner = None THEN relogin ELSE owner
               IN  IF bound \in {"serial", "internal"} THEN ble = "off" ELSE ble # "off"

AuthToCome ==
    \/ \E c \in Clients : client[c] \in {"drain", "post"}
    \/ \E i \in 1..Len(inbox) : inbox[i] = [source |-> "internal", method |-> "auth_user"]

\* The comment at dashboard.c:642: "bad-pin (no wallet loaded) but still have tries
\* remaining.  Retain re-login data until successful login or ultimate failure".
Retained == hasPin /\ wallet # "saved"

\* 'Processing...' has no button to leave it by, and a session kept for its source
\* keeps BLE closed.  While either is so, a QR client task has yet to send its
\* 'auth_user', whose handling takes the screen down and gives the session back: whatever
\* other messages, replies and cancels come in between.  The one exception, for a session,
\* is a stored wallet that is locked, where the comment wants it retained; the code wipes
\* it, at 633.
UnlockToCome ==
    pc = "poll" /\ (screen.is = "processing" \/ (relogin # None /\ ~Retained)) => AuthToCome

\* The wallet is locked if the connection it was unlocked over is gone and stays
\* so, however busy the other parties keep the loop: it is not for a wallet that
\* is temporary, or while a USB stick is being exchanged.
Exposed ==
    /\ wallet = "saved" /\ pc \in {"top", "poll", "check"}
    /\ (owner = "serial" /\ ~cable /\ ~tolerate) \/ (owner = "ble" /\ ble # "connected")
LockedOnLoss == Exposed ~> ~Exposed

\* However stale the button, a stored wallet is never set up again, nor is one
\* unlocked by QR that is not stored: these two assertions of the code hold.
StoredWalletKnown ==
    fault \notin {"wallet stored before setup", "no wallet to unlock by QR"}
=============================================================================

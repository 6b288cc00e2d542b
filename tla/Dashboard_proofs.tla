--------------------------- MODULE Dashboard_proofs ---------------------------
(***************************************************************************)
(* What the main loop shows and opens, however late the buttons and however*)
(* many QR client tasks, and that it locks the wallet when its session is  *)
(* lost: proofs for any number of them and any queues.                     *)
(***************************************************************************)
EXTENDS Dashboard, TLAPS

Methods == {"auth_user", "pin", "cancel", "logout", "ota"}

Maybe == Sources \cup {None}

\* Where nothing has changed yet since the screen was chosen.
Before == {"poll", "qrmode", "session", "scanqr", "settings", "setup"}

Pin == {"pin entry", "pin wait"}

\* The main task: types, and what is in memory.
Types ==
    /\ hasPin \in BOOLEAN /\ show \in BOOLEAN /\ tolerate \in BOOLEAN
    /\ wallet \in {"none", "unsaved", "saved", "temp"} /\ owner \in Maybe
    /\ wallet = "none" => owner = None
    /\ wallet = "unsaved" => ~hasPin /\ owner = None
    /\ wallet = "saved" => hasPin /\ owner # None
    /\ initSource \in Maybe /\ relogin \in Maybe /\ src \in Maybe
    /\ homeType \in {"uninit", "locked", "active"}
    /\ pc \in {"top", "poll", "check", "dead"} \cup Menus
    /\ entry \in Entries \cup {None} /\ (entry = None => pc \in {"top", "dead"})
    /\ screen.is \in {"none", "home", "connect", "connect_to", "processing"}

\* The others: types, and queues within their bounds.
Around ==
    /\ up \in BOOLEAN /\ cable \in BOOLEAN
    /\ event \in {None, "click", "back", "to_back"}
    /\ ble \in {"off", "on", "connected"}
    /\ inbox \in Seq([source: Sources, method: Methods]) /\ Len(inbox) <= QueueSize
    /\ out \in Seq({"request", "result"}) /\ Len(out) <= OutSize
    /\ client \in [Clients -> {"none", "drain", "post", "wait", "scan", "cancel"}]

\* The screen is the one for the state the loop was entered in.
Chosen ==
    entry # None =>
        IF entry.show
        THEN screen = [is |-> IF entry.init = "internal" THEN "processing"
                              ELSE IF entry.keys THEN "connect_to" ELSE "connect",
                       label |-> "none"]
        ELSE /\ screen = [is |-> "home", label |-> screen.label] /\ entry.init = None
             /\ homeType = IF entry.keys THEN "active" ELSE IF entry.hasPin THEN "locked" ELSE "uninit"
             /\ entry.keys => entry.owner # None
             /\ screen.label = "none" <=> ~entry.keys

\* If nothing has changed by the time it is chosen again, the wallet is the same.
SameWallet ==
    /\ pc \in Before => entry = Snapshot
    /\ pc \in Before \cup {"check", "top"} /\ entry = Snapshot /\ ~show => screen.label = wallet
    /\ pc \in Pin => wallet # "temp" /\ (entry.keys /\ ~entry.show => screen.label = "saved")

\* A wallet is only set up where there is none, or a temporary one.
SettingUp ==
    /\ pc = "setup" =>
        /\ wallet = "none"
        /\ ~setup.temporary => ~hasPin
        /\ setup.next = "pin entry" => ~setup.temporary
        /\ setup.next = "qr menu" => hasPin
    /\ pc = "qrmode" => hasPin

\* The menu is that of the wallet stored, but between the moment that changes and the
\* choice of the next screen.
MenuKnown ==
    /\ pc \notin {"top", "check", "dead"} => entry.hasPin = hasPin
    /\ (homeType = "uninit" /\ hasPin) \/ (homeType = "locked" /\ ~hasPin)
        => /\ pc \in {"top", "check", "dead"} /\ ~show
           /\ entry = None \/ entry.hasPin # hasPin

MainInv == Types /\ Chosen /\ SameWallet /\ SettingUp /\ MenuKnown /\ StoredWalletKnown

\* Where the handler of an auth_user is under way.
Authenticating == pc \in Pin \/ (pc = "setup" /\ setup.next = "pin entry")

\* A screen without buttons, or a session kept for its source, waits for an auth_user.
Awaited ==
    pc # "dead" /\ ~Authenticating /\ ((show /\ initSource = "internal") \/ relogin # None)
        => AuthToCome

-----------------------------------------------------------------------------
(* The main task *)

LEMMA SnapshotTyped == Types => Snapshot \in Entries /\ Snapshot # None
<1>1. Types => Snapshot \in Entries
  BY DEF Types, Snapshot, Entries, Keys, Maybe
<1> QED
  BY <1>1, DashboardAssumption

LEMMA SnapshotParts ==
    /\ Snapshot.keys = Keys /\ Snapshot.hasPin = hasPin /\ Snapshot.owner = owner
    /\ Snapshot.show = show /\ Snapshot.init = initSource
BY DEF Snapshot

LEMMA InitMain == Init => MainInv
<1> SUFFICES ASSUME Init PROVE MainInv
  OBVIOUS
<1>1. Types
  BY DEF Init, Types, Maybe
<1>2. entry # Snapshot
  BY <1>1, SnapshotTyped DEF Init
<1>3. Chosen /\ SameWallet /\ SettingUp /\ MenuKnown /\ StoredWalletKnown
  BY <1>2 DEF Init, Chosen, SameWallet, SettingUp, MenuKnown, Before, Pin, StoredWalletKnown
<1> QED
  BY <1>1, <1>3 DEF MainInv

\* The steps of the others.
LEMMA OthersMain == MainInv /\ UNCHANGED <<keychain, statics, mainTask>> => MainInv'
<1> SUFFICES ASSUME MainInv, UNCHANGED <<keychain, statics, mainTask>> PROVE MainInv'
  OBVIOUS
<1>1. UNCHANGED <<hasPin, wallet, owner, show, initSource, relogin, tolerate, homeType,
                  pc, entry, screen, src, setup, fault>>
  BY DEF keychain, statics, mainTask
<1>2. Types' /\ Chosen'
  BY <1>1 DEF MainInv, Types, Chosen
<1>3. SameWallet' /\ SettingUp'
  BY <1>1 DEF MainInv, SameWallet, SettingUp, Snapshot, Keys
<1>4. MenuKnown' /\ StoredWalletKnown'
  BY <1>1 DEF MainInv, MenuKnown, StoredWalletKnown
<1> QED
  BY <1>2, <1>3, <1>4 DEF MainInv

\* The loop: what is chosen fits, and nothing has changed until the next step.
LEMMA AgainMain == MainInv /\ Again => MainInv'
<1> SUFFICES ASSUME MainInv, Again PROVE MainInv'
  OBVIOUS
<1>1. UNCHANGED <<hasPin, wallet, owner, show, initSource, relogin, tolerate, homeType,
                  entry, screen, src, setup, fault>>
      /\ pc = "top" /\ pc' = "poll" /\ entry = Snapshot
  BY DEF Again, Go, Unchanged, keychain, statics
<1>2. entry # None
  BY <1>1, SnapshotTyped DEF MainInv
<1>3. Types' /\ Chosen'
  BY <1>1, <1>2 DEF MainInv, Types, Chosen
<1>4. SameWallet' /\ SettingUp'
  BY <1>1 DEF MainInv, SameWallet, SettingUp, Snapshot, Keys, Before, Pin
<1>5. MenuKnown' /\ StoredWalletKnown'
  BY <1>1, <1>2, SnapshotParts DEF MainInv, MenuKnown, StoredWalletKnown
<1> QED
  BY <1>3, <1>4, <1>5 DEF MainInv

LEMMA ChooseHomeMain == MainInv /\ ChooseHome => MainInv'
<1> SUFFICES ASSUME MainInv, ChooseHome PROVE MainInv'
  OBVIOUS
<1>1. CASE Keys /\ owner = None
  <2>1. UNCHANGED <<hasPin, wallet, owner, show, initSource, relogin, tolerate, homeType,
                    entry, screen, src, setup>>
        /\ pc = "top" /\ pc' = "dead" /\ fault' = "unbound keys on the home screen" /\ ~show
    BY <1>1 DEF ChooseHome, Abort, Go, keychain, statics
  <2>2. Types' /\ Chosen' /\ SameWallet' /\ SettingUp'
    BY <2>1 DEF MainInv, Types, Chosen, SameWallet, SettingUp, Before, Pin
  <2>3. MenuKnown' /\ StoredWalletKnown'
    BY <2>1 DEF MainInv, MenuKnown, StoredWalletKnown
  <2> QED
    BY <2>2, <2>3 DEF MainInv
<1>2. CASE ~(Keys /\ owner = None)
  <2>1. /\ UNCHANGED <<hasPin, wallet, owner, show, relogin, tolerate, src, setup, fault>>
        /\ initSource' = None /\ entry' = [Snapshot EXCEPT !.init = None] /\ homeType' = MenuFor
        /\ screen' = [is |-> "home", label |-> wallet] /\ pc' = "poll" /\ show = FALSE
    BY <1>2 DEF ChooseHome, Go, keychain, MainInv, Types
  <2>2. entry' = Snapshot'
    BY <2>1 DEF Snapshot, Keys
  <2>3. Types'
    <3>1. homeType' \in {"uninit", "locked", "active"}
      BY <2>1 DEF MenuFor
    <3>2. (Snapshot \in Entries)'
      BY <2>1 DEF MainInv, Types, Snapshot, Entries, Keys, Maybe
    <3>3. pc' \in {"top", "poll", "check", "dead"} \cup Menus /\ entry' # None
      BY <2>1, <2>2, <3>2, DashboardAssumption
    <3> QED
      BY <2>1, <2>2, <3>1, <3>2, <3>3 DEF MainInv, Types, Maybe
  <2>4. Chosen'
    BY <1>2, <2>1 DEF Chosen, MenuFor, Snapshot, Keys
  <2>5. SameWallet' /\ SettingUp'
    BY <2>1, <2>2 DEF SameWallet, SettingUp, Pin
  <2>6. MenuKnown'
    BY <1>2, <2>1 DEF MenuKnown, MenuFor, Snapshot
  <2> QED
    BY <2>1, <2>3, <2>4, <2>5, <2>6 DEF MainInv, StoredWalletKnown
<1> QED
  BY <1>1, <1>2

LEMMA ChooseConnectMain == MainInv /\ ChooseConnect => MainInv'
<1> SUFFICES ASSUME MainInv, ChooseConnect PROVE MainInv'
  OBVIOUS
<1>1. /\ UNCHANGED <<hasPin, wallet, owner, show, initSource, relogin, tolerate, homeType,
                     src, setup, fault>>
      /\ entry' = Snapshot /\ screen' = [is |-> ConnectScreen, label |-> "none"]
      /\ pc' = "poll" /\ show = TRUE
  BY DEF ChooseConnect, Go, keychain, statics, MainInv, Types
<1>2. entry' = Snapshot'
  BY <1>1 DEF Snapshot, Keys
<1>3. Snapshot \in Entries /\ Snapshot # None
  BY SnapshotTyped DEF MainInv
<1>4. Types'
  BY <1>1, <1>3 DEF MainInv, Types, ConnectScreen
<1>5. Chosen'
  BY <1>1, SnapshotParts DEF Chosen, ConnectScreen
<1>6. SameWallet'
  <2>1. pc' = "poll" /\ show' = TRUE
    BY <1>1
  <2> QED
    BY <2>1, <1>2, Zenon DEF SameWallet, Pin
<1>7. MenuKnown'
  BY <1>1, SnapshotParts DEF MainInv, MenuKnown
<1> QED
  BY <1>1, <1>4, <1>5, <1>6, <1>7 DEF MainInv, SettingUp, StoredWalletKnown

\* Locking the wallet shows: the screen was chosen with keys in memory.
LEMMA CheckMain == MainInv /\ Check => MainInv'
<1> SUFFICES ASSUME MainInv, Check PROVE MainInv'
  OBVIOUS
<1>1. /\ UNCHANGED <<hasPin, show, initSource, relogin, tolerate, homeType, entry, screen,
                     src, setup, fault>>
      /\ pc = "check" /\ pc' = "top"
      /\ \/ UNCHANGED <<wallet, owner>>
         \/ entry.keys /\ wallet' = "none" /\ owner' = None
  BY DEF Check, Go, ClearKeys, statics
<1>2. Types' /\ Chosen' /\ MenuKnown' /\ SettingUp' /\ StoredWalletKnown'
  <2>1. Types'
    BY <1>1 DEF MainInv, Types, Maybe
  <2>2. Chosen' /\ SettingUp' /\ StoredWalletKnown'
    BY <1>1 DEF MainInv, Chosen, SettingUp, StoredWalletKnown
  <2>3. MenuKnown'
    BY <1>1 DEF MainInv, MenuKnown
  <2> QED
    BY <2>1, <2>2, <2>3
<1>3. CASE UNCHANGED <<wallet, owner>>
  <2>1. SameWallet'
    BY <1>1, <1>3 DEF MainInv, SameWallet, Snapshot, Keys, Before, Pin
  <2> QED
    BY <1>2, <2>1 DEF MainInv
<1>4. CASE entry.keys /\ wallet' = "none"
  <2>1. entry' # Snapshot'
    <3>1. Snapshot'.keys = FALSE
      BY <1>4 DEF Snapshot, Keys
    <3> QED
      BY <1>1, <1>4, <3>1
  <2>2. SameWallet'
    BY <1>1, <2>1 DEF SameWallet, Before, Pin
  <2> QED
    BY <1>2, <2>2 DEF MainInv
<1> QED
  BY <1>1, <1>3, <1>4

\* In a handler or a menu, what has been shown stays as it is.
LEMMA HandlerParts ==
    ASSUME MainInv, pc \notin {"top", "check", "dead"}, UNCHANGED <<entry, screen, homeType>>,
           \/ UNCHANGED hasPin
           \/ hasPin' \in BOOLEAN /\ pc' = "check" /\ show' = FALSE
    PROVE  Chosen' /\ MenuKnown' /\ entry # None /\ entry.hasPin = hasPin
<1>1. entry # None /\ entry.hasPin = hasPin
  BY DEF MainInv, Types, MenuKnown
<1>2. Chosen'
  BY DEF MainInv, Chosen
<1>3. CASE UNCHANGED hasPin
  BY <1>1, <1>2, <1>3 DEF MainInv, MenuKnown
<1>4. CASE hasPin' # hasPin
  BY <1>1, <1>2, <1>4 DEF MenuKnown
<1> QED
  BY <1>3, <1>4

\* What auth_user_process() may come back with: the label is that of the wallet, if nothing
\* that is compared tells them apart.
Result(p, w, o) ==
    /\ p \in BOOLEAN /\ w \in {"none", "unsaved", "saved", "temp"} /\ o \in Maybe
    /\ w = "none" => o = None
    /\ w = "unsaved" => ~p /\ o = None
    /\ w = "saved" => p /\ o # None
    /\ p # hasPin => w = "none" \/ o # None
    /\ entry.keys /\ ~entry.show /\ w # "none" /\ o # None => screen.label = w

LEMMA FinishAuthMain ==
    ASSUME MainInv, pc \notin {"top", "check", "dead"}, NEW p, NEW w, NEW o,
           Result(p, w, o), FinishAuth(p, w, o)
    PROVE  MainInv'
<1> DEFINE handBack == relogin # None /\ ~Obsolete(p, w, o) /\ w # "none"
<1>1. /\ hasPin' = p /\ wallet' = w /\ owner' = (IF handBack THEN relogin ELSE o)
      /\ show' = (w # "none" /\ o = None) /\ initSource' = None
      /\ relogin' = IF Obsolete(p, w, o) \/ handBack THEN None ELSE relogin
      /\ tolerate' = FALSE /\ src' = None /\ pc' = "check"
      /\ UNCHANGED <<homeType, entry, screen, fault>>
  BY DEF FinishAuth, FinishAuthWith, Go
<1>2. p \in BOOLEAN /\ w \in {"none", "unsaved", "saved", "temp"} /\ o \in Maybe
  BY DEF Result
<1>3. owner' \in Maybe /\ relogin' \in Maybe /\ (owner' = None <=> o = None)
  <2>1. handBack => relogin \in Maybe /\ relogin # None /\ o # None
    BY DashboardAssumption DEF MainInv, Types, Obsolete, Sources
  <2> QED
    BY <1>1, <1>2, <2>1 DEF MainInv, Types, Maybe
<1>4. show' \in BOOLEAN /\ (p # hasPin => show' = FALSE)
  BY <1>1 DEF Result
<1>5. Types'
  BY <1>1, <1>2, <1>3, <1>4 DEF MainInv, Types, Result, Maybe
<1>6. Chosen' /\ MenuKnown' /\ entry # None
  BY <1>1, <1>2, <1>4, HandlerParts
<1>7. SameWallet'
  <2> SUFFICES ASSUME entry' = Snapshot', ~show' PROVE screen'.label = wallet'
    BY <1>1 DEF SameWallet, Before, Pin
  <2>1. entry.keys = (w # "none") /\ entry.show = show'
    BY <1>1 DEF Snapshot, Keys
  <2>2. ~entry.show /\ (w # "none" => o # None)
    BY <2>1, <1>1
  <2>3. CASE w = "none"
    BY <2>1, <2>2, <2>3, <1>1, <1>6 DEF MainInv, Chosen
  <2>4. CASE w # "none"
    BY <2>1, <2>2, <2>4, <1>1 DEF Result
  <2> QED
    BY <2>3, <2>4
<1> QED
  BY <1>1, <1>5, <1>6, <1>7 DEF MainInv, SettingUp, StoredWalletKnown

LEMMA Queues ==
    ASSUME NEW S, NEW q \in Seq(S)
    PROVE  /\ q # <<>> => Head(q) \in S /\ Tail(q) \in Seq(S) /\ Len(Tail(q)) = Len(q) - 1
           /\ \A x \in S : Append(q, x) \in Seq(S) /\ Len(Append(q, x)) = Len(q) + 1
OBVIOUS

LEMMA HeadTyped == Around /\ inbox # <<>> => Head(inbox).source \in Sources
<1> SUFFICES ASSUME Around, inbox # <<>> PROVE Head(inbox).source \in Sources
  OBVIOUS
<1>1. inbox \in Seq([source: Sources, method: Methods])
  BY DEF Around
<1>2. Head(inbox) \in [source: Sources, method: Methods]
  BY <1>1, Queues
<1> QED
  BY <1>2

\* While the loop polls, the screen is that of the state it is in.
LEMMA Polling ==
    ASSUME MainInv, pc = "poll"
    PROVE  /\ entry = Snapshot /\ entry # None
           /\ entry.keys = Keys /\ entry.hasPin = hasPin /\ entry.show = show
           /\ ~show => /\ initSource = None
                       /\ screen = [is |-> "home", label |-> wallet]
                       /\ homeType = MenuFor
                       /\ Keys => owner # None
           /\ show => screen = [is |-> ConnectScreen, label |-> "none"]
           /\ entry.keys /\ ~entry.show => screen.label = wallet /\ wallet # "none" /\ owner # None
<1>1. entry = Snapshot /\ (~show => screen.label = wallet)
  BY DEF MainInv, SameWallet, Before
<1>2. /\ entry # None /\ entry.keys = Keys /\ entry.hasPin = hasPin /\ entry.show = show
      /\ entry.init = initSource /\ entry.owner = owner
  BY <1>1, SnapshotTyped, SnapshotParts DEF MainInv
<1>3. CASE show
  BY <1>1, <1>2, <1>3 DEF MainInv, Chosen, ConnectScreen
<1>4. CASE ~show
  BY <1>1, <1>2, <1>4 DEF MainInv, Chosen, MenuFor
<1>5. entry.keys /\ ~entry.show => screen.label = wallet /\ wallet # "none" /\ owner # None
  <2> SUFFICES ASSUME entry.keys, ~entry.show PROVE screen.label = wallet /\ wallet # "none" /\ owner # None
    OBVIOUS
  <2>1. ~show /\ Keys
    BY <1>2
  <2>2. screen.label = wallet /\ owner # None
    BY <1>1, <1>2, <2>1 DEF MainInv, Chosen
  <2> QED
    BY <2>1, <2>2 DEF Keys
<1> QED
  BY <1>1, <1>2, <1>3, <1>4, <1>5

\* The keychain and what is compared stay, or all keys go: in a handler or menu where
\* nothing had changed before.
LEMMA KeptOrCleared ==
    ASSUME MainInv, pc \in Before, pc' \in Before \cup {"check"} \cup Pin,
           UNCHANGED <<hasPin, show, initSource, homeType, entry, screen>>,
           \/ UNCHANGED <<wallet, owner>>
           \/ wallet' = "none" /\ owner' = None /\ pc' = "check",
           pc' \in Pin => wallet # "temp" /\ (entry.keys /\ ~entry.show => wallet = "saved")
    PROVE  SameWallet'
<1>1. entry = Snapshot /\ (~show => screen.label = wallet)
  BY DEF MainInv, SameWallet
<1>2. CASE UNCHANGED <<wallet, owner>>
  <2>1. Snapshot' = Snapshot /\ (~entry.show => screen.label = wallet)
    BY <1>1, <1>2, SnapshotParts DEF Snapshot, Keys
  <2> QED
    BY <1>1, <1>2, <2>1 DEF SameWallet, Before, Pin
<1>3. CASE wallet' = "none" /\ pc' = "check"
  <2>1. entry' = Snapshot' /\ ~show' => wallet = "none"
    <3>1. Snapshot'.keys = FALSE
      BY <1>3 DEF Snapshot, Keys
    <3>2. Snapshot.keys = (wallet # "none")
      BY DEF Snapshot, Keys
    <3> QED
      BY <1>1, <3>1, <3>2
  <2> QED
    BY <1>1, <1>3, <2>1 DEF SameWallet, Before, Pin
<1> QED
  BY <1>2, <1>3

\* A message: it is answered at once, or the user is needed.
LEMMA TakeMessageMain == MainInv /\ Around /\ TakeMessage => MainInv'
<1> SUFFICES ASSUME MainInv, Around, TakeMessage PROVE MainInv'
  OBVIOUS
<1> DEFINE m == Head(inbox)
<1>1. pc = "poll" /\ inbox # <<>> /\ Dispatch(m)
  BY DEF TakeMessage
<1>2. m.source \in Sources /\ m.source # None
  BY <1>1, HeadTyped, DashboardAssumption
<1> HIDE DEF m
<1>3. CASE AuthAtOnce(m)
  <2> DEFINE o == IF owner = None THEN m.source ELSE owner
  <2>1. FinishAuth(hasPin, wallet, o) /\ (wallet = "temp" \/ (hasPin /\ Keys /\ owner = m.source))
    BY <1>3 DEF AuthAtOnce
  <2>2. o \in Maybe /\ o # None /\ wallet # "none" /\ wallet # "unsaved"
    BY <1>2, <2>1 DEF MainInv, Types, Maybe, Keys
  <2> HIDE DEF o
  <2>3. entry.keys /\ ~entry.show => screen.label = wallet
    BY <1>1, Polling
  <2>4. Result(hasPin, wallet, o)
    BY <2>2, <2>3 DEF Result, MainInv, Types
  <2> QED
    BY <1>1, <2>1, <2>4, FinishAuthMain
<1>4. CASE AuthNeedsUser(m)
  <2>1. /\ UNCHANGED <<hasPin, show, initSource, relogin, tolerate, homeType, entry, screen, fault>>
        /\ src' = m.source /\ wallet # "temp"
        /\ IF hasPin THEN wallet' = "none" /\ owner' = None ELSE UNCHANGED <<wallet, owner>>
        /\ \/ pc' = "pin entry" /\ UNCHANGED setup /\ (hasPin \/ Keys)
           \/ pc' = "setup" /\ setup' = [temporary |-> FALSE, next |-> "pin entry"] /\ ~hasPin /\ ~Keys
    BY <1>4 DEF AuthNeedsUser, Go, ClearKeys, statics
  <2>2. Types'
    BY <1>1, <1>2, <2>1 DEF MainInv, Types, Maybe, Menus
  <2>3. Chosen' /\ MenuKnown' /\ StoredWalletKnown'
    BY <1>1, <2>1, HandlerParts DEF MainInv, StoredWalletKnown
  <2>4. SettingUp'
    <3>1. CASE pc' = "pin entry"
      BY <3>1 DEF SettingUp
    <3>2. CASE pc' = "setup"
      <4>1. ~hasPin /\ wallet = "none" /\ setup' = [temporary |-> FALSE, next |-> "pin entry"]
        BY <2>1, <3>2 DEF Keys
      <4>2. ~hasPin' /\ wallet' = "none"
        BY <2>1, <4>1
      <4>3. setup'.next = "pin entry" /\ setup'.temporary = FALSE
        BY <4>1
      <4> QED
        BY <3>2, <4>2, <4>3 DEF SettingUp
    <3> QED
      BY <2>1, <3>1, <3>2
  <2>5. SameWallet'
    <3>1. CASE pc' = "pin entry"
      <4>1. entry.keys /\ ~entry.show => wallet = "saved" /\ screen.label = wallet
        <5>1. entry.keys /\ ~entry.show => screen.label = wallet /\ wallet # "none" /\ owner # None
          BY <1>1, Polling
        <5>2. wallet \in {"none", "unsaved", "saved", "temp"} /\ (wallet = "unsaved" => owner = None)
          BY DEF MainInv, Types
        <5> QED
          BY <2>1, <5>1, <5>2
      <4>2. wallet' # "temp"
        BY <2>1
      <4> QED
        BY <2>1, <3>1, <4>1, <4>2 DEF SameWallet, Before, Pin
    <3>2. CASE pc' = "setup"
      BY <1>1, <2>1, <3>2, KeptOrCleared DEF Before, Pin
    <3> QED
      BY <2>1, <3>1, <3>2
  <2> QED
    BY <2>2, <2>3, <2>4, <2>5 DEF MainInv
<1>5. CASE Logout(m) \/ OtherMessage(m)
  <2>1. /\ UNCHANGED <<hasPin, show, initSource, relogin, homeType, entry, screen, src, setup, fault>>
        /\ tolerate' = FALSE /\ pc' = "check"
        /\ \/ UNCHANGED <<wallet, owner>>
           \/ wallet' = "none" /\ owner' = None
    BY <1>5 DEF Logout, OtherMessage, Go, ClearKeys, keychain
  <2>2. Types'
    BY <1>1, <2>1, Polling DEF MainInv, Types, Maybe
  <2>3. Chosen' /\ MenuKnown' /\ StoredWalletKnown'
    BY <1>1, <2>1, HandlerParts DEF MainInv, StoredWalletKnown
  <2>4. SameWallet' /\ SettingUp'
    <3>1. pc \in Before /\ pc' = "check" /\ pc' \notin Pin
      BY <1>1, <2>1 DEF Before, Pin
    <3> QED
      BY <2>1, <3>1, KeptOrCleared DEF SettingUp
  <2> QED
    BY <2>2, <2>3, <2>4 DEF MainInv
<1> QED
  BY <1>1, <1>3, <1>4, <1>5 DEF Dispatch

LEMMA EnterPinMain == MainInv /\ EnterPin => MainInv'
<1> SUFFICES ASSUME MainInv, EnterPin PROVE MainInv'
  OBVIOUS
<1>1. pc = "pin entry"
  BY DEF EnterPin
<1>2. CASE FinishAuth(hasPin, wallet, owner)
  <2>1. Result(hasPin, wallet, owner)
    BY <1>1 DEF Result, MainInv, Types, SameWallet, Pin
  <2> QED
    BY <1>1, <1>2, <2>1, FinishAuthMain
<1>3. CASE UNCHANGED <<hasPin, wallet, owner, show, initSource, relogin, tolerate, homeType,
                       entry, screen, src, setup, fault>> /\ pc' = "pin wait"
  <2>1. Types'
    BY <1>1, <1>3 DEF MainInv, Types, Menus
  <2>2. Chosen' /\ MenuKnown'
    BY <1>1, <1>3, HandlerParts
  <2>3. SameWallet' /\ SettingUp' /\ StoredWalletKnown'
    BY <1>1, <1>3 DEF MainInv, SameWallet, SettingUp, StoredWalletKnown, Before, Pin
  <2> QED
    BY <2>1, <2>2, <2>3 DEF MainInv
<1> QED
  BY <1>2, <1>3 DEF EnterPin, Go, keychain, statics

LEMMA Waited ==
    ASSUME MainInv, pc = "pin wait"
    PROVE  /\ Result(hasPin, wallet, owner) /\ wallet # "temp"
           /\ entry.keys /\ ~entry.show => screen.label = "saved"
BY DEF Result, MainInv, Types, SameWallet, Pin

\* The answer: whatever comes of it, the label is right if nothing compared tells otherwise.
LEMMA PinAnswerMain == MainInv /\ Around /\ PinAnswer => MainInv'
<1> SUFFICES ASSUME MainInv, Around, PinAnswer PROVE MainInv'
  OBVIOUS
<1> DEFINE s == Head(inbox).source
<1>1. pc = "pin wait" /\ s \in Sources /\ s # None
  BY HeadTyped, DashboardAssumption DEF PinAnswer
<1>2. PICK o \in Outcomes(s) : FinishAuth(o[1], o[2], o[3])
  BY DEF PinAnswer
<1> HIDE DEF s
<1>3. \/ o = <<hasPin, wallet, owner>>
      \/ o = <<TRUE, "saved", s>> \/ o = <<TRUE, "none", None>> \/ o = <<FALSE, "none", None>>
      \/ wallet = "saved" /\ o = <<TRUE, "saved", owner>>
      \/ ~hasPin /\ o = <<FALSE, wallet, owner>>
  BY DEF Outcomes
<1>4. Result(hasPin, wallet, owner)
  BY <1>1, Waited
<1>5. Result(TRUE, "saved", s) /\ Result(TRUE, "none", None) /\ Result(FALSE, "none", None)
  BY <1>1, Waited DEF Result, Maybe
<1>6. wallet = "saved" => Result(TRUE, "saved", owner)
  BY <1>4 DEF Result, MainInv, Types
<1>7. ~hasPin => Result(FALSE, wallet, owner)
  BY <1>4 DEF Result, MainInv, Types
<1>8. Result(o[1], o[2], o[3])
  <2>1. CASE o = <<hasPin, wallet, owner>>
    BY <1>4, <2>1
  <2>2. CASE o = <<TRUE, "saved", s>>
    BY <1>5, <2>2
  <2>3. CASE o = <<TRUE, "none", None>>
    BY <1>5, <2>3
  <2>4. CASE o = <<FALSE, "none", None>>
    BY <1>5, <2>4
  <2>5. CASE wallet = "saved" /\ o = <<TRUE, "saved", owner>>
    BY <1>6, <2>5
  <2>6. CASE ~hasPin /\ o = <<FALSE, wallet, owner>>
    BY <1>7, <2>6
  <2> QED
    BY <1>3, <2>1, <2>2, <2>3, <2>4, <2>5, <2>6
<1> QED
  BY <1>1, <1>2, <1>8, FinishAuthMain

LEMMA PinAgainMain == MainInv /\ Around /\ PinAgain => MainInv'
<1> SUFFICES ASSUME MainInv, Around, PinAgain PROVE MainInv'
  OBVIOUS
<1> DEFINE s == Head(inbox).source
<1>1. s \in Sources /\ s # None
  BY HeadTyped, DashboardAssumption DEF PinAgain
<1>2. /\ UNCHANGED <<hasPin, show, initSource, relogin, tolerate, homeType, entry, screen,
                     setup, fault>>
      /\ pc = "pin wait" /\ pc' = "pin entry" /\ src' = s
      /\ \/ UNCHANGED <<wallet, owner>>
         \/ hasPin /\ wallet' = "saved" /\ owner' = s
  BY DEF PinAgain, Go, keychain, statics
<1> HIDE DEF s
<1>3. Types'
  BY <1>1, <1>2 DEF MainInv, Types, Maybe, Menus
<1>4. Chosen' /\ MenuKnown'
  BY <1>2, HandlerParts
<1>5. SameWallet'
  <2>1. wallet' # "temp" /\ (entry.keys /\ ~entry.show => screen.label = "saved")
    BY <1>2, Waited
  <2> QED
    BY <1>2, <2>1 DEF SameWallet, Before, Pin
<1>6. SettingUp' /\ StoredWalletKnown'
  BY <1>2 DEF MainInv, SettingUp, StoredWalletKnown
<1> QED
  BY <1>3, <1>4, <1>5, <1>6 DEF MainInv

LEMMA PinEndsMain == MainInv /\ (PinGivenUp \/ PinLinkLost) => MainInv'
<1> SUFFICES ASSUME MainInv, PinGivenUp \/ PinLinkLost PROVE MainInv'
  OBVIOUS
<1>1. pc = "pin wait"
  BY DEF PinGivenUp, PinLinkLost
<1>2. CASE FinishAuth(hasPin, wallet, owner)
  BY <1>1, <1>2, Waited, FinishAuthMain
<1>3. CASE Abort("no message to reply to")
  <2>1. /\ UNCHANGED <<hasPin, wallet, owner, show, initSource, relogin, tolerate, homeType,
                       entry, screen, src, setup>>
        /\ pc' = "dead" /\ fault' = "no message to reply to"
    BY <1>3 DEF Abort, Go, keychain, statics
  <2>2. Types'
    BY <2>1 DEF MainInv, Types
  <2>3. Chosen' /\ MenuKnown'
    BY <1>1, <2>1, HandlerParts
  <2>4. SameWallet' /\ SettingUp' /\ StoredWalletKnown'
    BY <2>1 DEF SameWallet, SettingUp, StoredWalletKnown, Before, Pin
  <2> QED
    BY <2>2, <2>3, <2>4 DEF MainInv
<1> QED
  BY <1>2, <1>3 DEF PinGivenUp, PinLinkLost

\* What the menus are built from.
Inside == pc \notin {"top", "check", "dead"}

LEMMA AbortMain ==
    ASSUME MainInv, Inside, NEW what, Abort(what),
           what \notin {"wallet stored before setup", "no wallet to unlock by QR"}
    PROVE  MainInv'
<1>1. /\ UNCHANGED <<hasPin, wallet, owner, show, initSource, relogin, tolerate, homeType,
                     entry, screen, src, setup>>
      /\ pc' = "dead" /\ fault' = what
  BY DEF Abort, Go, keychain, statics
<1>2. Types'
  BY <1>1 DEF MainInv, Types
<1>3. Chosen' /\ MenuKnown'
  BY <1>1, HandlerParts DEF Inside
<1>4. SameWallet' /\ SettingUp' /\ StoredWalletKnown'
  BY <1>1 DEF SameWallet, SettingUp, StoredWalletKnown, Before, Pin
<1> QED
  BY <1>2, <1>3, <1>4 DEF MainInv

LEMMA EnterMain ==
    ASSUME MainInv, pc \in Before, NEW menu \in {"check", "settings", "session", "scanqr", "qrmode"},
           menu = "qrmode" => hasPin, Enter(menu)
    PROVE  MainInv'
<1>1. /\ UNCHANGED <<hasPin, wallet, owner, show, initSource, relogin, tolerate, homeType,
                     entry, screen, src, setup, fault>>
      /\ pc' = menu
  BY DEF Enter, Go, keychain, statics
<1>2. entry # None
  BY DEF MainInv, Types, Before
<1>3. Types'
  BY <1>1, <1>2 DEF MainInv, Types, Menus
<1>4. Chosen' /\ MenuKnown'
  BY <1>1, HandlerParts DEF Before
<1>5. SameWallet'
  BY <1>1, KeptOrCleared DEF Before, Pin
<1>6. SettingUp' /\ StoredWalletKnown'
  BY <1>1 DEF MainInv, SettingUp, StoredWalletKnown
<1> QED
  BY <1>3, <1>4, <1>5, <1>6 DEF MainInv

LEMMA StartSetupMain ==
    ASSUME MainInv, pc \in Before, NEW temporary \in BOOLEAN, NEW next \in {"select", "qr", "qr menu"},
           ~temporary => ~hasPin, next = "qr menu" => hasPin, StartSetup(temporary, next)
    PROVE  MainInv'
<1>1. CASE Keys
  BY <1>1, AbortMain DEF StartSetup, Inside, Before
<1>2. CASE ~Keys
  <2>1. /\ UNCHANGED <<hasPin, wallet, owner, show, initSource, relogin, tolerate, homeType,
                       entry, screen, src, fault>>
        /\ setup' = [temporary |-> temporary, next |-> next] /\ pc' = "setup" /\ wallet = "none"
    BY <1>2 DEF StartSetup, Go, Keys, keychain, statics
  <2>2. entry # None
    BY DEF MainInv, Types, Before
  <2>3. Types'
    BY <2>1, <2>2 DEF MainInv, Types, Menus
  <2>4. Chosen' /\ MenuKnown'
    BY <2>1, HandlerParts DEF Before
  <2>5. SameWallet'
    BY <2>1, KeptOrCleared DEF Before, Pin
  <2>6. SettingUp' /\ StoredWalletKnown'
    <3>1. setup'.temporary = temporary /\ setup'.next = next
      BY <2>1
    <3> QED
      BY <2>1, <3>1 DEF MainInv, SettingUp, StoredWalletKnown
  <2> QED
    BY <2>3, <2>4, <2>5, <2>6 DEF MainInv
<1> QED
  BY <1>1, <1>2

\* A step of a menu that leads to the choice of a connection, or back to the loop with the
\* screen to be chosen anew.
LEMMA LeaveMain ==
    ASSUME MainInv, Inside,
           UNCHANGED <<hasPin, tolerate, homeType, entry, screen, src, fault>>,
           wallet' \in {"none", "unsaved", "saved", "temp"}, owner' \in Maybe,
           wallet' = "none" => owner' = None,
           wallet' = "unsaved" => ~hasPin /\ owner' = None,
           wallet' = "saved" => hasPin /\ owner' # None,
           show' \in BOOLEAN, initSource' \in Maybe, relogin' \in Maybe,
           pc' = "select" \/ (pc' = "check" /\ (show' = TRUE \/ initSource' # None))
    PROVE  MainInv'
<1>1. Chosen' /\ MenuKnown' /\ entry # None
  BY HandlerParts DEF Inside
<1>2. Types'
  BY <1>1 DEF MainInv, Types, Menus
<1>3. SameWallet'
  <2>1. CASE pc' = "select" \/ show' = TRUE
    BY <2>1 DEF SameWallet, Before, Pin
  <2>2. CASE pc' = "check" /\ initSource' # None /\ show' = FALSE
    <3>1. entry' # Snapshot'
      <4>1. Snapshot'.init # None /\ Snapshot'.show = FALSE
        BY <2>2 DEF Snapshot
      <4>2. entry'.show = FALSE => entry'.init = None
        BY <1>1 DEF Chosen
      <4> QED
        BY <4>1, <4>2
    <3> QED
      BY <2>2, <3>1 DEF SameWallet, Before, Pin
  <2> QED
    BY <2>1, <2>2
<1>4. SettingUp' /\ StoredWalletKnown'
  BY DEF MainInv, SettingUp, StoredWalletKnown
<1> QED
  BY <1>1, <1>2, <1>3, <1>4 DEF MainInv

\* A button, however old the event: the menu it was pressed on is one of the wallet stored.
LEMMA HandleMain ==
    ASSUME MainInv, pc = "poll", NEW button, Handle(button),
           button = "initialize" => homeType = "uninit", button = "qrmode" => homeType = "locked"
    PROVE  MainInv'
<1>1. Inside /\ pc \in Before
  BY DEF Inside, Before
<1>2. /\ hasPin \in BOOLEAN
      /\ homeType = "uninit" => ~hasPin
      /\ homeType = "locked" => hasPin
  BY DEF MainInv, Types, MenuKnown
<1>3. CASE StartSetup(FALSE, "select") /\ button = "initialize"
  BY <1>1, <1>2, <1>3, StartSetupMain
<1>4. CASE StartSetup(TRUE, "qr")
  BY <1>1, <1>4, StartSetupMain
<1>5. CASE button \in {"settings", "session", "scanqr", "qrmode"} /\ Enter(button)
  BY <1>1, <1>2, <1>5, EnterMain
<1>6. CASE \E connect \in BOOLEAN : Show(connect)
  <2>1. PICK connect \in BOOLEAN : Show(connect)
    BY <1>6
  <2>2. /\ UNCHANGED <<hasPin, wallet, owner, initSource, relogin, tolerate, homeType,
                       entry, screen, src, setup, fault>>
        /\ show' = connect /\ pc' = "check"
    BY <2>1 DEF Show, Go, keychain
  <2>3. entry # None /\ entry.show = show /\ (~show => screen.label = wallet)
    BY Polling
  <2>4. Types'
    BY <2>2, <2>3 DEF MainInv, Types
  <2>5. Chosen' /\ MenuKnown'
    BY <2>2, HandlerParts
  <2>6. SameWallet'
    <3>1. entry' = Snapshot' => entry.show = show'
      BY <2>2 DEF Snapshot
    <3> QED
      BY <2>2, <2>3, <3>1 DEF SameWallet, Before, Pin
  <2>7. SettingUp' /\ StoredWalletKnown'
    BY <2>2 DEF MainInv, SettingUp, StoredWalletKnown
  <2> QED
    BY <2>4, <2>5, <2>6, <2>7 DEF MainInv
<1>7. CASE SelectConnection(FALSE) /\ UNCHANGED keychain
  <2>1. /\ UNCHANGED <<hasPin, wallet, owner, relogin, tolerate, homeType, entry, screen, src, fault>>
        /\ show' = FALSE /\ initSource' = None /\ pc' = "select"
    BY <1>7 DEF SelectConnection, Go, keychain
  <2>2. /\ wallet' \in {"none", "unsaved", "saved", "temp"} /\ owner' \in Maybe /\ relogin' \in Maybe
        /\ wallet' = "none" => owner' = None
        /\ wallet' = "unsaved" => ~hasPin /\ owner' = None
        /\ wallet' = "saved" => hasPin /\ owner' # None
    BY <2>1 DEF MainInv, Types
  <2> QED
    BY <1>1, <2>1, <2>2, LeaveMain DEF Maybe
<1> QED
  BY <1>3, <1>4, <1>5, <1>6, <1>7 DEF Handle

LEMMA HandleEventMain == MainInv /\ HandleEvent => MainInv'
<1> SUFFICES ASSUME MainInv, HandleEvent PROVE MainInv'
  OBVIOUS
<1>1. pc = "poll"
  BY DEF HandleEvent
<1>2. CASE \E button \in HomeMenu[homeType] : Handle(button)
  <2>1. PICK button \in HomeMenu[homeType] : Handle(button)
    BY <1>2
  <2>2. homeType \in {"uninit", "locked", "active"}
    BY DEF MainInv, Types
  <2>3. /\ button = "initialize" => homeType = "uninit"
        /\ button = "qrmode" => homeType = "locked"
    BY <2>1, <2>2 DEF HomeMenu
  <2> QED
    BY <1>1, <2>1, <2>3, HandleMain
<1>3. CASE event \in {"back", "to_back"} /\ Handle(event)
  BY <1>1, <1>3, HandleMain
<1>4. CASE Enter("check")
  BY <1>1, <1>4, EnterMain DEF Before
<1> QED
  BY <1>2, <1>3, <1>4 DEF HandleEvent

-----------------------------------------------------------------------------
(* Menus *)

LEMMA BindToQrMain == MainInv /\ Inside /\ BindToQr => MainInv'
<1> SUFFICES ASSUME MainInv, Inside, BindToQr PROVE MainInv'
  OBVIOUS
<1>1. /\ UNCHANGED <<hasPin, relogin, tolerate, homeType, entry, screen, src, fault>>
      /\ wallet' = "temp" /\ owner' = "internal" /\ initSource' = "internal"
      /\ show' = FALSE /\ pc' = "check"
  BY DEF BindToQr, Go
<1>2. relogin' \in Maybe /\ "internal" \in Maybe /\ "internal" # None
  BY <1>1, DashboardAssumption DEF MainInv, Types, Maybe, Sources
<1> QED
  BY <1>1, <1>2, LeaveMain

LEMMA AwaitMain ==
    ASSUME MainInv, Inside, NEW source \in Sources, initSource' = source, show' = TRUE,
           pc' = "check", UNCHANGED <<hasPin, tolerate, homeType, entry, screen, src, fault>>,
           \/ UNCHANGED <<wallet, owner, relogin>>
           \/ wallet' = "none" /\ owner' = None /\ relogin' = owner
    PROVE  MainInv'
<1>1. /\ wallet' \in {"none", "unsaved", "saved", "temp"} /\ owner' \in Maybe /\ relogin' \in Maybe
      /\ wallet' = "none" => owner' = None
      /\ wallet' = "unsaved" => ~hasPin /\ owner' = None
      /\ wallet' = "saved" => hasPin /\ owner' # None
  BY DEF MainInv, Types, Maybe
<1> QED
  BY <1>1, LeaveMain DEF Maybe

LEMMA SetupMain == MainInv /\ (EndSetup \/ NewWallet) => MainInv'
<1> SUFFICES ASSUME MainInv, EndSetup \/ NewWallet PROVE MainInv'
  OBVIOUS
<1>1. pc = "setup" /\ pc \in Before /\ Inside /\ wallet = "none"
  BY DEF EndSetup, NewWallet, InMenu, Before, Inside, MainInv, SettingUp
<1>2. CASE FinishAuth(hasPin, wallet, owner)
  <2>1. Result(hasPin, wallet, owner)
    BY <1>1 DEF Result, MainInv, Types
  <2> QED
    BY <1>1, <1>2, <2>1, FinishAuthMain
<1>3. CASE BindToQr
  BY <1>1, <1>3, BindToQrMain
<1>4. ASSUME UNCHANGED <<hasPin, wallet, owner, show, initSource, relogin, tolerate, homeType,
                         entry, screen, src, fault>>,
             pc' = IF setup.next = "qr menu" THEN "qrmode" ELSE "check"
      PROVE  MainInv'
  <2>1. Types'
    BY <1>1, <1>4 DEF MainInv, Types, Menus
  <2>2. Chosen' /\ MenuKnown'
    BY <1>1, <1>4, HandlerParts
  <2>3. SameWallet'
    BY <1>1, <1>4, KeptOrCleared DEF Before, Pin
  <2>4. SettingUp' /\ StoredWalletKnown'
    BY <1>1, <1>4 DEF MainInv, SettingUp, StoredWalletKnown
  <2> QED
    BY <2>1, <2>2, <2>3, <2>4 DEF MainInv
<1>5. ASSUME wallet' = IF setup.temporary THEN "temp" ELSE "unsaved", owner' = None, UNCHANGED hasPin,
             \/ \E offer \in BOOLEAN : SelectConnection(offer)
             \/ /\ setup.next = "pin entry" /\ pc' = "pin entry"
                /\ UNCHANGED <<show, initSource, relogin, tolerate, homeType, entry, screen, src, fault>>
      PROVE  MainInv'
  <2>1. /\ wallet' \in {"unsaved", "temp"} /\ (wallet' = "unsaved" => ~hasPin)
        /\ setup.next = "pin entry" => wallet' = "unsaved"
    BY <1>1, <1>5 DEF MainInv, SettingUp
  <2>2. CASE \E offer \in BOOLEAN : SelectConnection(offer)
    <3>1. /\ UNCHANGED <<relogin, tolerate, homeType, entry, screen, src, fault>>
          /\ initSource' = None /\ show' = FALSE /\ pc' = "select"
      BY <2>2 DEF SelectConnection, Go
    <3>2. relogin' \in Maybe /\ None \in Maybe
      BY <3>1 DEF MainInv, Types, Maybe
    <3> QED
      BY <1>1, <1>5, <2>1, <3>1, <3>2, LeaveMain
  <2>3. CASE /\ setup.next = "pin entry" /\ pc' = "pin entry"
             /\ UNCHANGED <<show, initSource, relogin, tolerate, homeType, entry, screen, src, fault>>
    <3>1. Types'
      BY <1>1, <1>5, <2>1, <2>3 DEF MainInv, Types, Maybe, Menus
    <3>2. Chosen' /\ MenuKnown'
      BY <1>1, <1>5, <2>3, HandlerParts
    <3>3. SameWallet'
      <4>1. ~(entry.keys)
        <5>1. entry = Snapshot
          BY <1>1 DEF MainInv, SameWallet
        <5> QED
          BY <1>1, <5>1, SnapshotParts DEF Keys
      <4> QED
        BY <2>1, <2>3, <4>1 DEF SameWallet, Before, Pin
    <3> QED
      BY <2>3, <3>1, <3>2, <3>3 DEF MainInv, SettingUp, StoredWalletKnown
  <2> QED
    BY <1>5, <2>2, <2>3
<1>6. CASE EndSetup
  BY <1>2, <1>4, <1>6 DEF EndSetup, Go, keychain, statics
<1>7. CASE NewWallet
  BY <1>3, <1>5, <1>7 DEF NewWallet, Go, statics
<1> QED
  BY <1>6, <1>7

LEMMA ConnectMain ==
    MainInv /\ ((\E source \in {"serial", "ble"} : ConnectBy(source)) \/ ConnectByQr) => MainInv'
<1> SUFFICES ASSUME MainInv, (\E source \in {"serial", "ble"} : ConnectBy(source)) \/ ConnectByQr
             PROVE  MainInv'
  OBVIOUS
<1>1. Inside
  BY DEF ConnectBy, ConnectByQr, InMenu, Inside
<1>2. CASE \E source \in {"serial", "ble"} : ConnectBy(source)
  <2>1. PICK source \in {"serial", "ble"} : ConnectBy(source)
    BY <1>2
  <2>2. /\ initSource' = source /\ show' = TRUE /\ pc' = "check" /\ source \in Sources
        /\ UNCHANGED <<hasPin, wallet, owner, relogin, tolerate, homeType, entry, screen, src, fault>>
    BY <2>1 DEF ConnectBy, Go, keychain, Sources
  <2> QED
    BY <1>1, <2>2, AwaitMain
<1>3. CASE BindToQr
  BY <1>1, <1>3, BindToQrMain
<1>4. CASE AwaitQr /\ UNCHANGED <<wallet, owner, relogin>>
  BY <1>1, <1>4, AwaitMain DEF AwaitQr, Go, Sources
<1> QED
  BY <1>2, <1>3, <1>4 DEF ConnectByQr

LEMMA QrModeMain == MainInv /\ QrMode => MainInv'
<1> SUFFICES ASSUME MainInv, QrMode PROVE MainInv'
  OBVIOUS
<1>1. Inside /\ pc \in Before /\ hasPin
  BY DEF QrMode, InMenu, Inside, Before, MainInv, SettingUp
<1>2. CASE Abort("temporary wallet to unlock by QR")
  BY <1>1, <1>2, AbortMain
<1>3. CASE AwaitQr /\ UNCHANGED <<wallet, owner, relogin>>
  BY <1>1, <1>3, AwaitMain DEF AwaitQr, Go, Sources
<1>4. CASE StartSetup(TRUE, "qr menu")
  BY <1>1, <1>4, StartSetupMain
<1>5. CASE Enter("check")
  BY <1>1, <1>5, EnterMain
<1> QED
  BY <1>1, <1>2, <1>3, <1>4, <1>5 DEF QrMode

LEMMA SessionMain == MainInv /\ (Session \/ ScanQr) => MainInv'
<1> SUFFICES ASSUME MainInv, Session \/ ScanQr PROVE MainInv'
  OBVIOUS
<1>1. Inside /\ pc \in Before
  BY DEF Session, ScanQr, InMenu, Inside, Before
<1>2. CASE Enter("check")
  BY <1>1, <1>2, EnterMain
<1>3. CASE BindToQr
  BY <1>1, <1>3, BindToQrMain
<1>4. CASE /\ ClearKeys /\ pc' = "check"
           /\ UNCHANGED <<hasPin, statics, entry, screen, src, setup, fault>>
  <2>1. /\ UNCHANGED <<hasPin, show, initSource, relogin, tolerate, homeType, entry, screen,
                       src, setup, fault>>
        /\ wallet' = "none" /\ owner' = None /\ pc' = "check"
    BY <1>4 DEF ClearKeys, statics
  <2>2. entry # None
    BY <1>1 DEF MainInv, Types, Before
  <2>3. Types'
    BY <2>1, <2>2 DEF MainInv, Types, Maybe
  <2>4. Chosen' /\ MenuKnown'
    BY <1>1, <2>1, HandlerParts DEF Inside
  <2>5. SameWallet'
    BY <1>1, <2>1, KeptOrCleared DEF Before, Pin
  <2>6. SettingUp' /\ StoredWalletKnown'
    BY <2>1 DEF MainInv, SettingUp, StoredWalletKnown
  <2> QED
    BY <2>3, <2>4, <2>5, <2>6 DEF MainInv
<1>5. CASE SelectConnection(FALSE) /\ wallet' = "temp" /\ owner' = None /\ UNCHANGED hasPin
  <2>1. /\ UNCHANGED <<hasPin, relogin, tolerate, homeType, entry, screen, src, fault>>
        /\ initSource' = None /\ show' = FALSE /\ pc' = "select"
    BY <1>5 DEF SelectConnection, Go
  <2>2. relogin' \in Maybe /\ None \in Maybe
    BY <2>1 DEF MainInv, Types, Maybe
  <2> QED
    BY <1>1, <1>5, <2>1, <2>2, LeaveMain
<1> QED
  BY <1>2, <1>3, <1>4, <1>5 DEF Session, ScanQr, Go

LEMMA SettingsMain ==
    MainInv /\ (TemporaryLogin \/ ChangePinByQr \/ UsbFirmware \/ LeaveSettings) => MainInv'
<1> SUFFICES ASSUME MainInv, TemporaryLogin \/ ChangePinByQr \/ UsbFirmware \/ LeaveSettings
             PROVE  MainInv'
  OBVIOUS
<1>1. pc = "settings" /\ Inside /\ pc \in Before
  BY DEF TemporaryLogin, ChangePinByQr, UsbFirmware, LeaveSettings, InMenu, Inside, Before
<1>2. CASE StartSetup(TRUE, "select")
  BY <1>1, <1>2, StartSetupMain
<1>3. CASE AwaitQr /\ relogin' = owner /\ ClearKeys
  BY <1>1, <1>3, AwaitMain DEF AwaitQr, ClearKeys, Go, Sources
<1>4. CASE Enter("check")
  BY <1>1, <1>4, EnterMain
<1>5. CASE UsbFirmware
  <2>1. /\ UNCHANGED <<hasPin, wallet, owner, show, initSource, relogin, homeType, entry, screen,
                       src, setup, fault>>
        /\ tolerate' = TRUE /\ pc' \in {"settings", "check"}
    BY <1>1, <1>5 DEF UsbFirmware, Go, keychain
  <2>2. entry # None
    BY <1>1 DEF MainInv, Types
  <2>3. Types'
    BY <2>1, <2>2 DEF MainInv, Types, Menus
  <2>4. Chosen' /\ MenuKnown'
    BY <1>1, <2>1, HandlerParts
  <2>5. SameWallet'
    BY <1>1, <2>1, KeptOrCleared DEF Before, Pin
  <2>6. SettingUp' /\ StoredWalletKnown'
    BY <2>1 DEF MainInv, SettingUp, StoredWalletKnown
  <2> QED
    BY <2>3, <2>4, <2>5, <2>6 DEF MainInv
<1> QED
  BY <1>2, <1>3, <1>4, <1>5 DEF TemporaryLogin, ChangePinByQr, LeaveSettings

LEMMA RebootMain == MainInv /\ Reboot => MainInv'
<1> SUFFICES ASSUME MainInv, Reboot PROVE MainInv'
  OBVIOUS
<1>1. Types'
  BY DEF MainInv, Types, Reboot, Maybe
<1>2. entry' # Snapshot'
  <2>1. (Types => Snapshot \in Entries /\ Snapshot # None)'
    BY SnapshotTyped, PTL
  <2> QED
    BY <1>1, <2>1 DEF Reboot
<1>3. Chosen' /\ SameWallet' /\ SettingUp' /\ MenuKnown' /\ StoredWalletKnown'
  BY <1>2 DEF Reboot, Chosen, SameWallet, SettingUp, MenuKnown, Before, Pin, StoredWalletKnown
<1> QED
  BY <1>1, <1>3 DEF MainInv

-----------------------------------------------------------------------------
(* The others *)

\* Every step of the others leaves the main task alone.
LEMMA OthersLeave ==
    ASSUME Press \/ GuiSwitch \/ (\E c \in Clients : ClientStep(c)) \/ Plug \/ BleLink \/ Send
               \/ UNCHANGED vars
    PROVE  UNCHANGED <<keychain, statics, mainTask>>
BY DEF Press, GuiSwitch, ClientStep, Client, Drain, PostAuth, TakeReply, PostPin, GiveUp, PostCancel,
       Plug, BleLink, Send, vars

LEMMA ReplyTyped ==
    ASSUME Around, NEW source, NEW what \in {"request", "result"}, Reply(source, what)
    PROVE  out' \in Seq({"request", "result"}) /\ Len(out') <= OutSize
<1>1. out \in Seq({"request", "result"}) /\ Len(out) <= OutSize
  BY DEF Around
<1>2. CASE Len(out) < OutSize /\ out' = Append(out, what)
  <2>1. out' \in Seq({"request", "result"}) /\ Len(out') = Len(out) + 1
    BY <1>1, <1>2, Queues
  <2>2. Len(out) \in Nat /\ OutSize \in Nat
    BY <1>1, DashboardAssumption
  <2> QED
    BY <1>2, <2>1, <2>2
<1>3. CASE UNCHANGED out
  BY <1>1, <1>3
<1> QED
  BY <1>2, <1>3 DEF Reply

LEMMA PostTyped ==
    ASSUME Around, NEW s \in Sources, NEW method \in Methods, Room,
           inbox' = Append(inbox, [source |-> s, method |-> method])
    PROVE  inbox' \in Seq([source: Sources, method: Methods]) /\ Len(inbox') <= QueueSize
<1>1. inbox \in Seq([source: Sources, method: Methods])
  BY DEF Around
<1>2. inbox' \in Seq([source: Sources, method: Methods]) /\ Len(inbox') = Len(inbox) + 1
  BY <1>1, Queues
<1> QED
  BY <1>1, <1>2, DashboardAssumption DEF Room

LEMMA TakeTyped ==
    ASSUME Around, inbox # <<>>, inbox' = Tail(inbox)
    PROVE  inbox' \in Seq([source: Sources, method: Methods]) /\ Len(inbox') <= QueueSize
<1>1. inbox \in Seq([source: Sources, method: Methods]) /\ Len(inbox) <= QueueSize
  BY DEF Around
<1>2. inbox' \in Seq([source: Sources, method: Methods]) /\ Len(inbox') = Len(inbox) - 1
  BY <1>1, Queues
<1> QED
  BY <1>1, <1>2, DashboardAssumption

LEMMA LoopAround ==
    ASSUME Around, Again \/ ChooseHome \/ ChooseConnect \/ HandleEvent \/ Check
    PROVE  Around'
<1>1. CASE Again \/ ChooseConnect \/ (ChooseHome /\ ~(Keys /\ owner = None))
  <2>1. up' = TRUE /\ ble' = BleFor(owner) /\ UNCHANGED <<event, cable, inbox, out, client>>
    BY <1>1 DEF Again, ChooseHome, ChooseConnect
  <2>2. ble' \in {"off", "on", "connected"}
    BY <2>1 DEF Around, BleFor
  <2> QED
    BY <2>1, <2>2 DEF Around
<1>2. CASE HandleEvent
  BY <1>2 DEF HandleEvent, Around
<1>3. CASE UNCHANGED world
  BY <1>3 DEF world, Around
<1> QED
  BY <1>1, <1>2, <1>3 DEF Check, ChooseHome

LEMMA MessageAround ==
    ASSUME Around, TakeMessage \/ PinAnswer \/ PinAgain \/ PinGivenUp
    PROVE  Around'
<1>1. inbox # <<>> /\ inbox' = Tail(inbox) /\ UNCHANGED <<up, event, cable, client>>
  BY DEF TakeMessage, PinAnswer, PinAgain, PinGivenUp
<1>2. inbox' \in Seq([source: Sources, method: Methods]) /\ Len(inbox') <= QueueSize
  BY <1>1, TakeTyped
<1>3. UNCHANGED out \/ Reply(Head(inbox).source, "result")
  BY DEF TakeMessage, Dispatch, AuthAtOnce, AuthNeedsUser, Logout, OtherMessage, PinAnswer, PinAgain, PinGivenUp
<1>4. out' \in Seq({"request", "result"}) /\ Len(out') <= OutSize
  BY <1>3, ReplyTyped DEF Around
<1>5. ble' \in {"off", "on", "connected"}
  BY DEF TakeMessage, Dispatch, PinAnswer, PinAgain, PinGivenUp, BleFor, Around
<1> QED
  BY <1>1, <1>2, <1>4, <1>5 DEF Around

LEMMA ReplyAround ==
    ASSUME Around, EnterPin \/ EndSetup
    PROVE  Around'
<1>1. UNCHANGED <<up, event, cable, ble, inbox, client>>
  BY DEF EnterPin, EndSetup
<1>2. UNCHANGED out \/ Reply(src, "result") \/ Reply(src, "request")
  BY DEF EnterPin, EndSetup
<1>3. out' \in Seq({"request", "result"}) /\ Len(out') <= OutSize
  BY <1>2, ReplyTyped DEF Around
<1> QED
  BY <1>1, <1>3 DEF Around

LEMMA MenuAround ==
    ASSUME Around,
           \/ PinLinkLost \/ NewWallet \/ ConnectByQr \/ QrMode \/ Session \/ ScanQr \/ TemporaryLogin
           \/ ChangePinByQr \/ UsbFirmware \/ LeaveSettings
           \/ \E source \in {"serial", "ble"} : ConnectBy(source)
    PROVE  Around'
<1>1. CASE UNCHANGED world
  BY <1>1 DEF world, Around
<1>2. CASE UNCHANGED <<up, event, cable, ble, inbox, out>> /\ (UNCHANGED client \/ StartClient)
  <2>1. client' \in [Clients -> {"none", "drain", "post", "wait", "scan", "cancel"}]
    BY <1>2 DEF StartClient, Around
  <2> QED
    BY <1>2, <2>1 DEF Around
<1>3. CASE UsbFirmware
  <2>1. UNCHANGED <<up, event, cable, ble, out, client>>
    BY <1>3 DEF UsbFirmware
  <2>2. inbox' \in Seq([source: Sources, method: Methods]) /\ Len(inbox') <= QueueSize
    <3>1. CASE UNCHANGED inbox
      BY <3>1 DEF Around
    <3>2. CASE Room /\ inbox' = Append(inbox, [source |-> "internal", method |-> "ota"])
      BY <3>2, PostTyped DEF Sources, Methods
    <3> QED
      BY <1>3, <3>1, <3>2 DEF UsbFirmware
  <2> QED
    BY <2>1, <2>2 DEF Around
<1>4. CASE \E source \in {"serial", "ble"} : ConnectBy(source)
  <2>1. UNCHANGED <<up, event, cable, inbox, out, client>> /\ ble' \in {"off", "on", "connected"}
    BY <1>4 DEF ConnectBy, Around
  <2> QED
    BY <2>1 DEF Around
<1> QED
  BY <1>1, <1>2, <1>3, <1>4 DEF PinLinkLost, NewWallet, ConnectByQr, QrMode, Session, ScanQr, TemporaryLogin,
     ChangePinByQr, LeaveSettings

LEMMA OthersAround ==
    ASSUME MainInv, Around, Press \/ GuiSwitch \/ (\E c \in Clients : ClientStep(c)) \/ Plug \/ BleLink \/ Send \/ Reboot
    PROVE  Around'
<1>1. CASE Press
  <2>1. event' \in {None, "click", "back", "to_back"}
    BY <1>1 DEF Press, ButtonsOn, MainInv, Types
  <2> QED
    BY <1>1, <2>1 DEF Press, Around
<1>2. CASE GuiSwitch \/ Plug
  BY <1>2 DEF GuiSwitch, Plug, Around
<1>3. CASE BleLink
  BY <1>3 DEF BleLink, Around
<1>4. CASE Send
  <2>1. PICK source \in {"serial", "ble"}, method \in {"auth_user", "pin", "logout"} :
            inbox' = Append(inbox, [source |-> source, method |-> method])
    BY <1>4 DEF Send
  <2>2. source \in Sources /\ method \in Methods /\ Room
    BY <1>4 DEF Send, Sources, Methods
  <2>3. inbox' \in Seq([source: Sources, method: Methods]) /\ Len(inbox') <= QueueSize
    BY <2>1, <2>2, PostTyped
  <2> QED
    BY <1>4, <2>3 DEF Send, Around
<1>5. CASE Reboot
  <2>1. inbox' \in Seq([source: Sources, method: Methods]) /\ Len(inbox') <= QueueSize
    BY <1>5, DashboardAssumption DEF Reboot
  <2>2. out' \in Seq({"request", "result"}) /\ Len(out') <= OutSize
    BY <1>5, DashboardAssumption DEF Reboot
  <2>3. client' \in [Clients -> {"none", "drain", "post", "wait", "scan", "cancel"}]
    BY <1>5 DEF Reboot
  <2> QED
    BY <1>5, <2>1, <2>2, <2>3 DEF Reboot, Around
<1>6. ASSUME NEW c \in Clients, ClientStep(c) PROVE Around'
  <2>1. /\ UNCHANGED <<up, event, cable, ble>>
        /\ \E to \in {"none", "drain", "post", "wait", "scan", "cancel"} : client' = [client EXCEPT ![c] = to]
    BY <1>6 DEF ClientStep, Client, Drain, PostAuth, TakeReply, PostPin, GiveUp, PostCancel
  <2>2. client' \in [Clients -> {"none", "drain", "post", "wait", "scan", "cancel"}]
    BY <2>1 DEF Around
  <2>3. inbox' \in Seq([source: Sources, method: Methods]) /\ Len(inbox') <= QueueSize
    <3>1. CASE UNCHANGED inbox
      BY <3>1 DEF Around
    <3>2. CASE \E method \in Methods : Post(method)
      BY <3>2, PostTyped DEF Post, Sources
    <3> QED
      BY <1>6, <3>1, <3>2 DEF ClientStep, Drain, PostAuth, TakeReply, PostPin, GiveUp, PostCancel, Methods
  <2>4. out' \in Seq({"request", "result"}) /\ Len(out') <= OutSize
    <3>1. out \in Seq({"request", "result"}) /\ Len(out) <= OutSize
      BY DEF Around
    <3>2. CASE UNCHANGED out
      BY <3>1, <3>2
    <3>3. CASE out' = <<>>
      BY <3>3, DashboardAssumption
    <3>4. CASE out # <<>> /\ out' = Tail(out)
      BY <3>1, <3>4, Queues, DashboardAssumption
    <3> QED
      BY <1>6, <3>2, <3>3, <3>4 DEF ClientStep, Drain, PostAuth, TakeReply, PostPin, GiveUp, PostCancel
  <2> QED
    BY <2>1, <2>2, <2>3, <2>4 DEF Around
<1> QED
  BY <1>1, <1>2, <1>3, <1>4, <1>5, <1>6

-----------------------------------------------------------------------------
(* The auth_user to come *)

InternalAuth == [source |-> "internal", method |-> "auth_user"]

LEMMA AppendKeeps ==
    ASSUME NEW S, NEW q \in Seq(S), NEW x, NEW i \in 1..Len(q), q[i] = x, NEW m \in S
    PROVE  \E j \in 1..Len(Append(q, m)) : Append(q, m)[j] = x
<1>1. i \in 1..Len(Append(q, m)) /\ Append(q, m)[i] = q[i]
  OBVIOUS
<1> QED
  BY <1>1

LEMMA TailKeeps ==
    ASSUME NEW S, NEW q \in Seq(S), NEW x, NEW i \in 1..Len(q), q[i] = x, Head(q) # x
    PROVE  \E j \in 1..Len(Tail(q)) : Tail(q)[j] = x
<1>1. i # 1
  OBVIOUS
<1>2. i - 1 \in 1..Len(Tail(q)) /\ Tail(q)[i - 1] = q[i]
  BY <1>1
<1> QED
  BY <1>2

LEMMA StillInQueue ==
    ASSUME Around, NEW i \in 1..Len(inbox), inbox[i] = InternalAuth,
           \/ UNCHANGED inbox
           \/ \E m \in [source: Sources, method: Methods] : inbox' = Append(inbox, m)
           \/ inbox' = Tail(inbox) /\ Head(inbox) # InternalAuth
    PROVE  AuthToCome'
<1>1. inbox \in Seq([source: Sources, method: Methods])
  BY DEF Around
<1>2. \E j \in 1..Len(inbox') : inbox'[j] = InternalAuth
  <2>1. CASE UNCHANGED inbox
    BY <2>1
  <2>2. CASE \E m \in [source: Sources, method: Methods] : inbox' = Append(inbox, m)
    <3>1. PICK m \in [source: Sources, method: Methods] : inbox' = Append(inbox, m)
      BY <2>2
    <3> DEFINE S == [source: Sources, method: Methods]
    <3>2. inbox \in Seq(S) /\ m \in S
      BY <1>1, <3>1
    <3> HIDE DEF S
    <3>3. PICK j \in 1..Len(Append(inbox, m)) : Append(inbox, m)[j] = InternalAuth
      BY <3>2, AppendKeeps
    <3>4. j \in 1..Len(inbox') /\ inbox'[j] = InternalAuth
      BY <3>1, <3>3
    <3> QED
      BY <3>4
  <2>3. CASE inbox' = Tail(inbox) /\ Head(inbox) # InternalAuth
    <3> DEFINE S == [source: Sources, method: Methods]
    <3>1. inbox \in Seq(S)
      BY <1>1
    <3> HIDE DEF S
    <3>2. PICK j \in 1..Len(Tail(inbox)) : Tail(inbox)[j] = InternalAuth
      <4>1. Head(inbox) # InternalAuth /\ inbox[i] = InternalAuth
        BY <2>3
      <4>2. \E j \in 1..Len(Tail(inbox)) : Tail(inbox)[j] = InternalAuth
        BY <4>1, <3>1, TailKeeps
      <4> QED
        BY <4>2
    <3>3. j \in 1..Len(inbox') /\ inbox'[j] = InternalAuth
      BY <2>3, <3>2
    <3> QED
      BY <3>3
  <2> QED
    BY <2>1, <2>2, <2>3
<1> QED
  BY <1>2 DEF AuthToCome, InternalAuth

LEMMA StillToCome ==
    ASSUME Around, UNCHANGED client,
           \/ UNCHANGED inbox
           \/ \E m \in [source: Sources, method: Methods] : inbox' = Append(inbox, m)
           \/ inbox' = Tail(inbox) /\ Head(inbox) # InternalAuth
    PROVE  AuthToCome => AuthToCome'
<1> SUFFICES ASSUME AuthToCome PROVE AuthToCome'
  OBVIOUS
<1>1. CASE \E c \in Clients : client[c] \in {"drain", "post"}
  BY <1>1 DEF AuthToCome
<1>2. CASE \E i \in 1..Len(inbox) : inbox[i] = InternalAuth
  BY <1>2, StillInQueue
<1> QED
  BY <1>1, <1>2 DEF AuthToCome, InternalAuth

LEMMA ClientToCome ==
    ASSUME Around, NEW c \in Clients, ClientStep(c)
    PROVE  AuthToCome => AuthToCome'
<1> SUFFICES ASSUME AuthToCome PROVE AuthToCome'
  OBVIOUS
<1>0. client \in [Clients -> {"none", "drain", "post", "wait", "scan", "cancel"}]
  BY DEF Around
<1>1. CASE Drain(c)
  <2>1. client'[c] = "post"
    BY <1>0, <1>1 DEF Drain, Client
  <2> QED
    BY <2>1 DEF AuthToCome
<1>2. CASE PostAuth(c)
  <2>1. inbox \in Seq([source: Sources, method: Methods]) /\ inbox' = Append(inbox, InternalAuth)
    BY <1>2 DEF PostAuth, Post, InternalAuth, Around
  <2>2. InternalAuth \in [source: Sources, method: Methods]
    BY DEF InternalAuth, Sources, Methods
  <2>3. Len(inbox') \in 1..Len(inbox') /\ inbox'[Len(inbox')] = InternalAuth
    BY <2>1, <2>2
  <2> QED
    BY <2>3 DEF AuthToCome, InternalAuth
<1>3. CASE TakeReply(c) \/ PostPin(c) \/ GiveUp(c) \/ PostCancel(c)
  <2>1. /\ client[c] \in {"wait", "scan", "cancel"}
        /\ \E to \in {"none", "wait", "scan", "cancel"} : client' = [client EXCEPT ![c] = to]
        /\ UNCHANGED inbox \/ \E method \in Methods : Post(method)
    BY <1>3 DEF TakeReply, PostPin, GiveUp, PostCancel, Client, Methods
  <2>2. CASE \E d \in Clients : client[d] \in {"drain", "post"}
    <3>1. PICK d \in Clients : client[d] \in {"drain", "post"}
      BY <2>2
    <3>2. client'[d] = client[d]
      BY <1>0, <2>1, <3>1
    <3> QED
      BY <3>1, <3>2 DEF AuthToCome
  <2>3. CASE \E i \in 1..Len(inbox) : inbox[i] = InternalAuth
    <3>1. UNCHANGED inbox \/ \E m \in [source: Sources, method: Methods] : inbox' = Append(inbox, m)
      BY <2>1 DEF Post, Sources
    <3> QED
      BY <2>3, <3>1, StillInQueue
  <2> QED
    BY <2>2, <2>3 DEF AuthToCome, InternalAuth
<1> QED
  BY <1>1, <1>2, <1>3 DEF ClientStep

LEMMA StartToCome == Around /\ StartClient => AuthToCome'
<1> SUFFICES ASSUME Around, StartClient PROVE AuthToCome'
  OBVIOUS
<1>1. PICK c \in Clients : client' = [client EXCEPT ![c] = "drain"]
  BY DEF StartClient
<1>2. client'[c] = "drain"
  BY <1>1 DEF Around
<1> QED
  BY <1>2 DEF AuthToCome

\* An auth_user that has been handled leaves nothing waiting for one.
LEMMA FinishAwaited ==
    ASSUME NEW p, NEW w, NEW o, FinishAuth(p, w, o), o = "internal" => w # "none"
    PROVE  Awaited'
<1>1. initSource' = None /\ relogin' = None
  BY DEF FinishAuth, FinishAuthWith, Obsolete
<1> QED
  BY <1>1, DashboardAssumption DEF Awaited, Sources

LEMMA SameAwaited ==
    ASSUME Awaited, pc # "dead", ~Authenticating, AuthToCome => AuthToCome',
           show' /\ initSource' = "internal" => show /\ initSource = "internal",
           relogin' # None => relogin # None
    PROVE  Awaited'
BY DEF Awaited

LEMMA LoopAwaited ==
    ASSUME MainInv, Awaited, Again \/ ChooseHome \/ ChooseConnect \/ Check PROVE Awaited'
<1>1. /\ pc \in {"top", "check"} /\ UNCHANGED <<show, relogin, inbox, client>>
      /\ initSource' \in {initSource, None}
  BY DEF Again, ChooseHome, ChooseConnect, Check, Abort, Go, statics, world
<1>2. pc # "dead" /\ ~Authenticating /\ None # "internal"
  BY <1>1, DashboardAssumption DEF Authenticating, Pin, Sources
<1>3. AuthToCome => AuthToCome'
  BY <1>1 DEF AuthToCome
<1> QED
  BY <1>1, <1>2, <1>3, SameAwaited

LEMMA MessageAwaited == MainInv /\ Around /\ Awaited /\ TakeMessage => Awaited'
<1> SUFFICES ASSUME MainInv, Around, Awaited, TakeMessage PROVE Awaited'
  OBVIOUS
<1> DEFINE m == Head(inbox)
<1>1. /\ pc = "poll" /\ inbox # <<>> /\ Dispatch(m) /\ inbox' = Tail(inbox) /\ UNCHANGED client
      /\ pc # "dead" /\ ~Authenticating
  BY DEF TakeMessage, Authenticating, Pin
<1>2. CASE m.method = "auth_user"
  <2>1. CASE AuthAtOnce(m)
    <3>1. /\ wallet = "temp" \/ (hasPin /\ Keys /\ owner = m.source)
          /\ FinishAuth(hasPin, wallet, IF owner = None THEN m.source ELSE owner)
      BY <2>1 DEF AuthAtOnce
    <3>2. wallet # "none"
      BY <3>1 DEF Keys
    <3> QED
      BY <3>1, <3>2, FinishAwaited
  <2>2. CASE AuthNeedsUser(m)
    <3>1. Authenticating'
      <4>1. \/ pc' = "pin entry"
            \/ pc' = "setup" /\ setup' = [temporary |-> FALSE, next |-> "pin entry"]
        BY <2>2 DEF AuthNeedsUser, Go
      <4>2. CASE pc' = "pin entry"
        BY <4>2 DEF Authenticating, Pin
      <4>3. CASE pc' = "setup" /\ setup' = [temporary |-> FALSE, next |-> "pin entry"]
        <5>1. setup'.next = "pin entry"
          BY <4>3
        <5> QED
          BY <4>3, <5>1 DEF Authenticating
      <4> QED
        BY <4>1, <4>2, <4>3
    <3> QED
      BY <3>1 DEF Awaited
  <2> QED
    BY <1>1, <1>2, <2>1, <2>2 DEF Dispatch
<1>3. CASE m.method # "auth_user"
  <2>1. UNCHANGED <<show, initSource, relogin>>
    BY <1>1, <1>3 DEF Dispatch, Logout, OtherMessage
  <2>2. m # InternalAuth
    BY <1>3 DEF InternalAuth
  <2>3. AuthToCome => AuthToCome'
    BY <1>1, <2>2, StillToCome
  <2> QED
    BY <1>1, <2>1, <2>3, SameAwaited
<1> QED
  BY <1>2, <1>3

LEMMA EventAwaited == MainInv /\ Awaited /\ HandleEvent => Awaited'
<1> SUFFICES ASSUME MainInv, Awaited, HandleEvent PROVE Awaited'
  OBVIOUS
<1>1. pc = "poll" /\ UNCHANGED <<inbox, client>> /\ pc # "dead" /\ ~Authenticating
  BY DEF HandleEvent, Authenticating, Pin
<1>2. AuthToCome => AuthToCome'
  BY <1>1 DEF AuthToCome
<1>3. UNCHANGED relogin
  BY DEF HandleEvent, Handle, StartSetup, Abort, Enter, Show, SelectConnection, statics
<1>4. show' /\ initSource' = "internal" => show /\ initSource = "internal"
  <2>1. CASE UNCHANGED <<show, initSource>>
    BY <2>1
  <2>2. CASE initSource' = None \/ show' = FALSE
    BY <2>2, DashboardAssumption DEF Sources
  <2>3. CASE Show(TRUE)
    BY <1>1, <2>3, Polling, DashboardAssumption DEF Show, Sources
  <2> QED
    BY <2>1, <2>2, <2>3 DEF HandleEvent, Handle, StartSetup, Abort, Enter, Show, SelectConnection, statics
<1> QED
  BY <1>1, <1>2, <1>3, <1>4, SameAwaited

LEMMA WaitingAwaited == MainInv /\ Around /\ Awaited /\ Waiting => Awaited'
<1> SUFFICES ASSUME MainInv, Around, Awaited, Waiting PROVE Awaited'
  OBVIOUS
<1>1. owner = "internal" => wallet # "none"
  BY DashboardAssumption DEF MainInv, Types, Sources
<1>2. CASE FinishAuth(hasPin, wallet, owner)
  BY <1>1, <1>2, FinishAwaited
<1>3. CASE pc' \in Pin \cup {"dead"}
  BY <1>3 DEF Awaited, Authenticating
<1>4. CASE PinAnswer
  <2>1. PICK o \in Outcomes(Head(inbox).source) : FinishAuth(o[1], o[2], o[3])
    BY <1>4 DEF PinAnswer
  <2> DEFINE s == Head(inbox).source
  <2>2. \/ o = <<TRUE, "saved", owner>> \/ o = <<TRUE, "saved", s>>
        \/ o = <<TRUE, "none", None>> \/ o = <<FALSE, "none", None>>
        \/ o = <<FALSE, wallet, owner>>
    BY <2>1 DEF Outcomes
  <2> HIDE DEF s
  <2>3. o[3] = "internal" => o[2] # "none"
    <3>1. CASE o = <<TRUE, "saved", owner>>
      BY <3>1
    <3>2. CASE o = <<TRUE, "saved", s>>
      BY <3>2
    <3>3. CASE o = <<FALSE, wallet, owner>>
      BY <1>1, <3>3
    <3>4. CASE o = <<TRUE, "none", None>>
      BY <3>4, DashboardAssumption DEF Sources
    <3>5. CASE o = <<FALSE, "none", None>>
      BY <3>5, DashboardAssumption DEF Sources
    <3> QED
      BY <2>2, <3>1, <3>2, <3>3, <3>4, <3>5
  <2> QED
    BY <2>1, <2>3, FinishAwaited
<1> QED
  BY <1>2, <1>3, <1>4 DEF Waiting, EnterPin, PinAgain, PinGivenUp, PinLinkLost, Abort, Go, Pin

LEMMA SetupAwaited == MainInv /\ Awaited /\ (EndSetup \/ NewWallet) => Awaited'
<1> SUFFICES ASSUME MainInv, Awaited, EndSetup \/ NewWallet PROVE Awaited'
  OBVIOUS
<1>1. pc = "setup" /\ UNCHANGED <<inbox, client>>
  BY DEF EndSetup, NewWallet, InMenu, world
<1>2. CASE FinishAuth(hasPin, wallet, owner)
  <2>1. owner = "internal" => wallet # "none"
    BY DashboardAssumption DEF MainInv, Types, Sources
  <2> QED
    BY <1>2, <2>1, FinishAwaited
<1>3. CASE pc' = "pin entry"
  BY <1>3 DEF Awaited, Authenticating, Pin
<1>4. CASE /\ setup.next # "pin entry"
           /\ relogin' = relogin
           /\ UNCHANGED <<show, initSource>> \/ initSource' = None \/ show' = FALSE
  <2>1. pc # "dead" /\ ~Authenticating /\ None # "internal"
    BY <1>1, <1>4, DashboardAssumption DEF Authenticating, Pin, Sources
  <2>2. AuthToCome => AuthToCome'
    BY <1>1 DEF AuthToCome
  <2>3. show' /\ initSource' = "internal" => show /\ initSource = "internal"
    BY <1>4, <2>1
  <2> QED
    BY <1>4, <2>1, <2>2, <2>3, SameAwaited
<1> QED
  BY <1>2, <1>3, <1>4 DEF EndSetup, NewWallet, BindToQr, SelectConnection, Go, statics

LEMMA MenuAwaited ==
    ASSUME MainInv, Around, Awaited,
           \/ ConnectByQr \/ QrMode \/ Session \/ ScanQr \/ TemporaryLogin
           \/ ChangePinByQr \/ UsbFirmware \/ LeaveSettings
           \/ \E source \in {"serial", "ble"} : ConnectBy(source)
    PROVE  Awaited'
<1>1. CASE StartClient
  BY <1>1, StartToCome DEF Awaited
<1>2. pc \in {"select", "qrmode", "session", "scanqr", "settings"}
  BY DEF ConnectByQr, QrMode, Session, ScanQr, TemporaryLogin, ChangePinByQr, UsbFirmware,
         LeaveSettings, ConnectBy, InMenu
<1>3. pc # "dead" /\ ~Authenticating /\ None # "internal"
  BY <1>2, DashboardAssumption DEF Authenticating, Pin, Sources
<1>4. CASE /\ UNCHANGED client
           /\ UNCHANGED inbox \/ inbox' = Append(inbox, [source |-> "internal", method |-> "ota"])
           /\ UNCHANGED relogin
           /\ UNCHANGED <<show, initSource>> \/ initSource' \in {None, "serial", "ble"} \/ show' = FALSE
  <2>1. AuthToCome => AuthToCome'
    BY <1>4, StillToCome DEF Sources, Methods
  <2> QED
    BY <1>3, <1>4, <2>1, SameAwaited
<1>5. CASE ConnectByQr \/ QrMode
  BY <1>1, <1>4, <1>5 DEF ConnectByQr, QrMode, BindToQr, StartSetup, Abort, Enter, statics
<1>6. CASE Session \/ ScanQr \/ TemporaryLogin \/ LeaveSettings
  BY <1>4, <1>6 DEF Session, ScanQr, TemporaryLogin, LeaveSettings, BindToQr, SelectConnection, StartSetup,
                    Abort, Enter, statics, world
<1>7. CASE UsbFirmware \/ \E source \in {"serial", "ble"} : ConnectBy(source)
  BY <1>4, <1>7 DEF UsbFirmware, ConnectBy
<1>8. CASE ChangePinByQr
  BY <1>1, <1>8 DEF ChangePinByQr
<1> QED
  BY <1>5, <1>6, <1>7, <1>8

LEMMA OthersAwaited ==
    ASSUME MainInv, Around, Awaited,
           Press \/ GuiSwitch \/ (\E c \in Clients : ClientStep(c)) \/ Plug \/ BleLink \/ Send \/ UNCHANGED vars
    PROVE  Awaited'
<1>1. UNCHANGED <<show, initSource, relogin, pc, setup>>
  BY OthersLeave DEF statics, mainTask
<1>2. AuthToCome => AuthToCome'
  <2>1. CASE \E c \in Clients : ClientStep(c)
    BY <2>1, ClientToCome
  <2>2. CASE UNCHANGED <<inbox, client>>
    BY <2>2 DEF AuthToCome
  <2>3. CASE Send
    <3>1. UNCHANGED client /\ \E m \in [source: Sources, method: Methods] : inbox' = Append(inbox, m)
      BY <2>3 DEF Send, Sources, Methods
    <3> QED
      BY <3>1, StillToCome
  <2> QED
    BY <2>1, <2>2, <2>3 DEF Press, GuiSwitch, Plug, BleLink, vars, world
<1> QED
  BY <1>1, <1>2 DEF Awaited, Authenticating

-----------------------------------------------------------------------------
(* Together *)

IInv == MainInv /\ Around /\ Awaited /\ InterfacesFit

LEMMA MainNext == MainInv /\ Around /\ [Next]_vars => MainInv'
<1> SUFFICES ASSUME MainInv, Around, [Next]_vars PROVE MainInv'
  OBVIOUS
<1>1. CASE Loop
  BY <1>1, AgainMain, ChooseHomeMain, ChooseConnectMain, TakeMessageMain, HandleEventMain, CheckMain DEF Loop
<1>2. CASE Waiting
  BY <1>2, EnterPinMain, PinAnswerMain, PinAgainMain, PinEndsMain DEF Waiting
<1>3. CASE Menu
  BY <1>3, SetupMain, ConnectMain, QrModeMain, SessionMain, SettingsMain DEF Menu
<1>4. CASE Press \/ GuiSwitch \/ (\E c \in Clients : ClientStep(c)) \/ Plug \/ BleLink \/ Send \/ UNCHANGED vars
  BY <1>4, OthersLeave, OthersMain
<1>5. CASE Reboot
  BY <1>5, RebootMain
<1> QED
  BY <1>1, <1>2, <1>3, <1>4, <1>5 DEF Next

LEMMA AroundNext == MainInv /\ Around /\ [Next]_vars => Around'
<1> SUFFICES ASSUME MainInv, Around, [Next]_vars PROVE Around'
  OBVIOUS
<1>1. CASE UNCHANGED vars
  BY <1>1 DEF vars, world, Around
<1>2. CASE Loop
  BY <1>2, LoopAround, MessageAround DEF Loop
<1>3. CASE Waiting
  BY <1>3, ReplyAround, MessageAround, MenuAround DEF Waiting
<1>4. CASE Menu
  BY <1>4, ReplyAround, MenuAround DEF Menu
<1> QED
  BY <1>1, <1>2, <1>3, <1>4, OthersAround DEF Next

LEMMA AwaitedNext == MainInv /\ Around /\ Awaited /\ [Next]_vars => Awaited'
<1> SUFFICES ASSUME MainInv, Around, Awaited, [Next]_vars PROVE Awaited'
  OBVIOUS
<1>1. CASE Loop
  BY <1>1, LoopAwaited, MessageAwaited, EventAwaited DEF Loop
<1>2. CASE Waiting
  BY <1>2, WaitingAwaited
<1>3. CASE Menu
  BY <1>3, SetupAwaited, MenuAwaited DEF Menu
<1>4. CASE Reboot
  BY <1>4, DashboardAssumption DEF Reboot, Awaited
<1> QED
  BY <1>1, <1>2, <1>3, <1>4, OthersAwaited DEF Next

\* The loop polls only after it has set the interfaces, for what it then polls with.
LEMMA InterfacesNext == MainInv /\ InterfacesFit /\ [Next]_vars => InterfacesFit'
<1> SUFFICES ASSUME MainInv, InterfacesFit, [Next]_vars PROVE InterfacesFit'
  OBVIOUS
<1>1. CASE Again \/ ChooseHome \/ ChooseConnect
  <2>1. CASE ble' = BleFor(owner) /\ UNCHANGED <<owner, relogin>>
    BY <2>1 DEF BleFor, InterfacesFit
  <2>2. CASE Abort("unbound keys on the home screen")
    BY <2>2 DEF Abort, Go, InterfacesFit
  <2> QED
    BY <1>1, <2>1, <2>2 DEF Again, ChooseHome, ChooseConnect, keychain, statics
<1>2. CASE TakeMessage \/ Check \/ Waiting \/ Reboot
  <2>1. pc' # "poll"
    BY <1>2 DEF TakeMessage, Dispatch, AuthAtOnce, AuthNeedsUser, Logout, OtherMessage, Check, Waiting, EnterPin,
       PinAnswer, PinAgain, PinGivenUp, PinLinkLost, Reboot, FinishAuth, FinishAuthWith, Abort, Go
  <2> QED
    BY <2>1 DEF InterfacesFit
<1>3. CASE HandleEvent
  <2>1. pc' # "poll"
    <3>1. CASE \E button \in HomeMenu[homeType] \cup {"back", "to_back"} : Handle(button)
      BY <3>1 DEF Handle, StartSetup, Abort, Enter, Show, SelectConnection, Go
    <3>2. CASE Enter("check")
      BY <3>2 DEF Enter, Go
    <3> QED
      BY <1>3, <3>1, <3>2 DEF HandleEvent
  <2> QED
    BY <2>1 DEF InterfacesFit
<1>4. CASE Menu
  <2>1. pc' # "poll"
    BY <1>4 DEF Menu, EndSetup, NewWallet, ConnectByQr, QrMode, Session, ScanQr, TemporaryLogin, ChangePinByQr,
       UsbFirmware, LeaveSettings, ConnectBy, InMenu, BindToQr, AwaitQr, StartSetup, SelectConnection, Abort,
       Enter, FinishAuth, FinishAuthWith, Go
  <2> QED
    BY <2>1 DEF InterfacesFit
<1>5. CASE Press \/ GuiSwitch \/ (\E c \in Clients : ClientStep(c)) \/ Plug \/ BleLink \/ Send \/ UNCHANGED vars
  <2>1. UNCHANGED <<pc, owner, relogin>>
    BY <1>5, OthersLeave DEF keychain, statics, mainTask
  <2>2. ble' = ble \/ (ble # "off" /\ ble' # "off")
    BY <1>5 DEF Press, GuiSwitch, ClientStep, Client, Drain, PostAuth, TakeReply, PostPin, GiveUp, PostCancel,
       Plug, BleLink, Send, vars, world
  <2> QED
    BY <2>1, <2>2 DEF InterfacesFit
<1> QED
  BY <1>1, <1>2, <1>3, <1>4, <1>5 DEF Next, Loop

LEMMA Inductive == Spec => []IInv
<1>1. Init => IInv
  <2> SUFFICES ASSUME Init PROVE IInv
    OBVIOUS
  <2>1. Around
    <3>1. inbox \in Seq([source: Sources, method: Methods]) /\ Len(inbox) <= QueueSize
      BY DashboardAssumption DEF Init
    <3>2. out \in Seq({"request", "result"}) /\ Len(out) <= OutSize
      BY DashboardAssumption DEF Init
    <3> QED
      BY <3>1, <3>2 DEF Init, Around
  <2>2. Awaited /\ InterfacesFit
    BY DashboardAssumption DEF Init, Awaited, InterfacesFit
  <2> QED
    BY <2>1, <2>2, InitMain DEF IInv
<1>2. IInv /\ [Next]_vars => IInv'
  BY MainNext, AroundNext, AwaitedNext, InterfacesNext DEF IInv
<1> QED
  BY <1>1, <1>2, PTL DEF Spec

-----------------------------------------------------------------------------
\* Every variable keeps its type, the queues stay within their bounds, and the flags of
\* the keychain agree with each other.
THEOREM TypeCorrect == Spec => []TypeOK
<1>1. IInv => TypeOK
  <2> SUFFICES ASSUME IInv PROVE TypeOK
    OBVIOUS
  <2>1. Types /\ Around
    BY DEF IInv, MainInv
  <2>2. homeType \in DOMAIN HomeMenu /\ screen.is \in DOMAIN ButtonsOn
    BY <2>1 DEF Types, HomeMenu, ButtonsOn
  <2> QED
    BY <2>1, <2>2 DEF Types, Around, Maybe, TypeOK
<1> QED
  BY <1>1, Inductive, PTL

\* While the main task polls, the screen is the one for the state it is in, whoever else
\* presses buttons, sends messages or pulls cables: the user never sees the menu, or the
\* fingerprint, of another wallet.
THEOREM ScreenIsRight == Spec => []ScreenFits
<1>1. IInv => ScreenFits
  <2> SUFFICES ASSUME IInv, pc = "poll"
               PROVE  IF show THEN screen = [is |-> ConnectScreen, label |-> "none"]
                      ELSE screen = [is |-> "home", label |-> wallet] /\ homeType = MenuFor
    BY DEF ScreenFits
  <2> QED
    BY Polling DEF IInv
<1> QED
  BY <1>1, Inductive, PTL

\* While it polls, no other radio is on than that of the session's owner, or of the one it
\* is to be handed back to; and without either, one is.
THEOREM OneInterface == Spec => []InterfacesFit
<1>1. IInv => InterfacesFit
  BY DEF IInv
<1> QED
  BY <1>1, Inductive, PTL

\* A screen without buttons, or a session kept for its source though the stored wallet is
\* unlocked or wiped, has an auth_user to come: for any number of QR client tasks, queues of any
\* size, and whatever comes in between.
THEOREM SomeoneUnlocks == Spec => []UnlockToCome
<1>1. IInv => UnlockToCome
  <2> SUFFICES ASSUME IInv, pc = "poll", screen.is = "processing" \/ relogin # None
               PROVE  AuthToCome
    BY DEF UnlockToCome
  <2>1. screen.is = "processing" => show /\ initSource = "internal"
    <3> SUFFICES ASSUME screen.is = "processing" PROVE show /\ initSource = "internal"
      OBVIOUS
    <3>1. show
      BY Polling DEF IInv
    <3>2. screen.is = ConnectScreen
      BY <3>1, Polling DEF IInv
    <3> QED
      BY <3>1, <3>2 DEF ConnectScreen
  <2>2. pc # "dead" /\ ~Authenticating
    BY DEF Authenticating, Pin
  <2> QED
    BY <2>1, <2>2 DEF IInv, Awaited
<1> QED
  BY <1>1, Inductive, PTL

\* However old the button that was pressed: a stored wallet is never set up again, nor one
\* unlocked by QR that is not there.
THEOREM WalletKnown == Spec => []StoredWalletKnown
<1>1. IInv => StoredWalletKnown
  BY DEF IInv, MainInv
<1> QED
  BY <1>1, Inductive, PTL

-----------------------------------------------------------------------------
(* The wallet is locked when its connection is lost *)

\* A 'pin' nobody waits for is to be answered to QR client tasks that take no replies.
ReplyBlocked ==
    /\ pc = "poll" /\ inbox # <<>>
    /\ Head(inbox) = [source |-> "internal", method |-> "pin"] /\ Len(out) >= OutSize

\* Was this wallet there, with this owner, when the loop was entered?
KnownAtEntry == entry # None /\ entry.keys /\ entry.hasPin /\ entry.owner = owner

\* The way to the lock: the check may come too early, for a loop entered before the wallet
\* was unlocked; the loop is entered anew, and the check after that knows the wallet.
EarlyCheck == Exposed /\ pc = "check" /\ ~KnownAtEntry
AtTop == Exposed /\ pc = "top"
Polls == Exposed /\ pc = "poll"
KnownCheck == Exposed /\ pc = "check" /\ KnownAtEntry

LEMMA ExposedIs ==
    Exposed => wallet = "saved" /\ Keys /\ owner \in {"serial", "ble"} /\ pc \in {"top", "poll", "check"}
BY DEF Exposed, Keys

\* While the wallet is exposed, only the loop touches it and the main task.
LEMMA ExposedStep ==
    ASSUME Exposed, [Next]_vars
    PROVE  Loop \/ UNCHANGED <<keychain, statics, mainTask>> \/ ~Exposed'
<1>1. CASE Waiting \/ Menu
  BY <1>1, ExposedIs DEF Waiting, EnterPin, PinAnswer, PinAgain, PinGivenUp, PinLinkLost, Menu, EndSetup, NewWallet,
     ConnectByQr, QrMode, Session, ScanQr, TemporaryLogin, ChangePinByQr, UsbFirmware, LeaveSettings, ConnectBy, InMenu
<1>2. CASE Press \/ GuiSwitch \/ (\E c \in Clients : ClientStep(c)) \/ Plug \/ BleLink \/ Send \/ UNCHANGED vars
  BY <1>2, OthersLeave
<1>3. CASE Reboot
  BY <1>3 DEF Reboot, Exposed
<1> QED
  BY <1>1, <1>2, <1>3 DEF Next

\* Where the others leave it, it is no further and no less far on its way.
LEMMA OthersStay ==
    ASSUME UNCHANGED <<keychain, statics, mainTask>>
    PROVE  /\ EarlyCheck => EarlyCheck' \/ ~Exposed'
           /\ AtTop => AtTop' \/ ~Exposed'
           /\ Polls => Polls' \/ ~Exposed'
           /\ KnownCheck => KnownCheck' \/ ~Exposed'
<1>1. UNCHANGED <<owner, pc, entry>>
  BY DEF keychain, mainTask
<1>2. KnownAtEntry' <=> KnownAtEntry
  BY <1>1 DEF KnownAtEntry
<1> QED
  BY <1>1, <1>2 DEF EarlyCheck, AtTop, Polls, KnownCheck

LEMMA FromCheck ==
    /\ Exposed /\ pc = "check" /\ Loop => AtTop' \/ ~Exposed'
    /\ KnownCheck /\ Loop => ~Exposed'
<1>1. ASSUME Exposed, pc = "check", Loop PROVE Check /\ pc' = "top"
  BY <1>1 DEF Loop, Again, ChooseHome, ChooseConnect, TakeMessage, HandleEvent, Check, Go
<1>2. ASSUME KnownCheck, Loop PROVE ~Exposed'
  <2>1. Check
    BY <1>1, <1>2 DEF KnownCheck
  <2>2. entry.hasPin /\ entry.keys /\ wallet # "temp" /\ LinkLost
    BY <1>2 DEF KnownCheck, KnownAtEntry, Exposed, LinkLost
  <2>3. wallet' = "none"
    BY <2>1, <2>2 DEF Check, ClearKeys
  <2> QED
    BY <2>3 DEF Exposed
<1> QED
  BY <1>1, <1>2 DEF AtTop

LEMMA FromTop == AtTop /\ Loop => Polls' \/ ~Exposed'
<1> SUFFICES ASSUME AtTop, Loop PROVE Polls' \/ ~Exposed'
  OBVIOUS
<1>1. owner # None /\ pc = "top"
  BY ExposedIs, DashboardAssumption DEF AtTop, Sources
<1>2. Again \/ ChooseHome \/ ChooseConnect
  BY <1>1 DEF Loop, TakeMessage, HandleEvent, Check
<1>3. pc' = "poll"
  BY <1>1, <1>2 DEF Again, ChooseHome, ChooseConnect, Go
<1> QED
  BY <1>3 DEF Polls

\* What a message or a button may do to an exposed wallet: it leaves it to the check of a
\* loop that knows it, or it is no longer exposed.
LEMMA FromPoll == IInv /\ Polls /\ Loop => KnownCheck' \/ ~Exposed'
<1> SUFFICES ASSUME IInv, Polls, Loop, Exposed' PROVE KnownCheck'
  OBVIOUS
<1>1. pc = "poll" /\ MainInv /\ Exposed /\ wallet = "saved" /\ Keys /\ owner \in {"serial", "ble"} /\ hasPin
  BY ExposedIs DEF Polls, IInv, MainInv, Types
<1>2. KnownAtEntry
  BY <1>1, Polling, SnapshotParts DEF KnownAtEntry
<1>3. wallet' = "saved" /\ pc' \in {"top", "poll", "check"}
  BY DEF Exposed
<1>4. CASE TakeMessage
  <2> DEFINE m == Head(inbox)
  <2>1. pc' = "check" /\ UNCHANGED entry
    BY <1>3, <1>4 DEF TakeMessage, Dispatch, AuthAtOnce, AuthNeedsUser, Logout, OtherMessage, FinishAuth,
       FinishAuthWith, ClearKeys, Go
  <2>2. owner' = owner
    <3>1. CASE AuthAtOnce(m)
      <4>1. FinishAuth(hasPin, wallet, owner)
        BY <1>1, <3>1, DashboardAssumption DEF AuthAtOnce, Sources
      <4> QED
        BY <1>1, <4>1 DEF FinishAuth, FinishAuthWith, Obsolete
    <3>2. CASE AuthNeedsUser(m) \/ Logout(m)
      BY <1>1, <1>3, <3>2 DEF AuthNeedsUser, Logout, ClearKeys
    <3>3. CASE OtherMessage(m)
      BY <3>3 DEF OtherMessage, keychain
    <3> QED
      BY <1>4, <3>1, <3>2, <3>3 DEF TakeMessage, Dispatch
  <2> QED
    BY <1>2, <2>1, <2>2 DEF KnownCheck, KnownAtEntry
<1>5. CASE HandleEvent
  <2>1. pc' = "check" /\ UNCHANGED <<entry, owner>>
    <3>1. CASE \E button \in HomeMenu[homeType] \cup {"back", "to_back"} : Handle(button)
      <4>1. PICK button \in HomeMenu[homeType] \cup {"back", "to_back"} : Handle(button)
        BY <3>1
      <4>2. CASE \E connect \in BOOLEAN : Show(connect)
        BY <4>2 DEF Show, keychain, Go
      <4>3. CASE (\E t \in BOOLEAN : StartSetup(t, "select") \/ StartSetup(t, "qr")) \/ SelectConnection(FALSE)
        BY <1>3, <4>3 DEF StartSetup, Abort, SelectConnection, Go
      <4>4. CASE button \in {"settings", "session", "scanqr", "qrmode"} /\ Enter(button)
        BY <1>3, <4>4 DEF Enter, Go
      <4> QED
        BY <4>1, <4>2, <4>3, <4>4 DEF Handle
    <3>2. CASE Enter("check")
      BY <3>2 DEF Enter, keychain, Go
    <3> QED
      BY <1>5, <3>1, <3>2 DEF HandleEvent
  <2> QED
    BY <1>2, <2>1 DEF KnownCheck, KnownAtEntry
<1> QED
  BY <1>1, <1>4, <1>5 DEF Loop, Again, ChooseHome, ChooseConnect, Check

\* A wallet whose connection is gone and stays so is locked, whatever is pressed, sent or
\* replied meanwhile: after at most one check that came too early.  Fairness of the loop
\* does the rest; that the loop can go on is stated as a hypothesis, and so is that no
\* reply is held up by QR client tasks that do not take them.
THEOREM LostIsLocked ==
    Spec /\ [](Exposed => ~ReplyBlocked) /\ [](Exposed /\ ~ReplyBlocked => ENABLED <<Loop>>_vars)
        => LockedOnLoss
<1>1. EarlyCheck /\ [Next]_vars => EarlyCheck' \/ AtTop' \/ ~Exposed'
  BY ExposedStep, OthersStay, FromCheck DEF EarlyCheck
<1>2. EarlyCheck /\ <<Loop>>_vars => AtTop' \/ ~Exposed'
  BY FromCheck DEF EarlyCheck
<1>3. AtTop /\ [Next]_vars => AtTop' \/ Polls' \/ ~Exposed'
  BY ExposedStep, OthersStay, FromTop DEF AtTop
<1>4. AtTop /\ <<Loop>>_vars => Polls' \/ ~Exposed'
  BY FromTop
<1>5. IInv /\ Polls /\ [Next]_vars => Polls' \/ KnownCheck' \/ ~Exposed'
  BY ExposedStep, OthersStay, FromPoll DEF Polls
<1>6. IInv /\ Polls /\ <<Loop>>_vars => KnownCheck' \/ ~Exposed'
  BY FromPoll
<1>7. KnownCheck /\ [Next]_vars => KnownCheck' \/ ~Exposed'
  BY ExposedStep, OthersStay, FromCheck DEF KnownCheck
<1>8. KnownCheck /\ <<Loop>>_vars => ~Exposed'
  BY FromCheck
<1>9. /\ Exposed => EarlyCheck \/ AtTop \/ Polls \/ KnownCheck
      /\ EarlyCheck \/ AtTop \/ Polls \/ KnownCheck => Exposed
  BY DEF Exposed, EarlyCheck, AtTop, Polls, KnownCheck
<1> QED
  BY <1>1, <1>2, <1>3, <1>4, <1>5, <1>6, <1>7, <1>8, <1>9, Inductive, PTL DEF Spec, LockedOnLoss
=============================================================================

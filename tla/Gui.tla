---------------------------------- MODULE Gui ----------------------------------
(***************************************************************************)
(* Screens (gui.c, utils/event.c).  A screen is an 'activity': what to draw *)
(* and which event handlers to register while it is shown.  The GUI task    *)
(* shows activities and frees them; the main task makes its activities,     *)
(* has them shown and waits for their buttons.  Others have screens shown   *)
(* too: NimBLE's host task to confirm a pairing (ble/ble.c) and the idle    *)
(* timer to warn before the unit goes to sleep (idletimer.c) put one over   *)
(* that of the main task and take it down again; the QR client (qrmode.c)   *)
(* shows codes, the camera and messages while the main task goes on; and a  *)
(* button that links pages, of a recovery phrase or a keyboard, has the     *)
(* event loop's task show the other page.  The task that reads wheel and    *)
(* buttons acts on whatever is shown.                                       *)
(*                                                                         *)
(* What is drawn is left out, and so is the event loop's own lock.  Memory  *)
(* that has been freed is not handed out again while somebody points to it. *)
(***************************************************************************)
EXTENDS Naturals, Sequences, FiniteSets

CONSTANTS
    Home,           \* the dashboard's activity, made once and never freed
    Screens,        \* the 'managed' activities there can be at a time
    Popups,         \* tasks that put a screen over another, and take it down
    Clients,        \* QR clients: tasks that show screens, and take none down
    QueueSize,      \* jobs that fit gui_input_queue
    None

ASSUME GuiAssumption ==
    /\ Home \notin Screens /\ None \notin Screens \cup {Home}
    /\ {"main", "input", "events"} \cap (Popups \cup Clients) = {}
    /\ Popups \cap Clients = {} /\ Screens \cap (Popups \cup Clients \cup {"main"}) = {}
    /\ QueueSize \in Nat \ {0}

\* None is not one of the reports 'fault' is for.
ASSUME ReportAssumption ==
    \A by \in Popups \cup Clients \cup {"main", "input", "events"},
       how \in {"wait", "switch", "move", "update", "repaint"} : <<by, how>> # None

VARIABLES
    current,        \* current_activity
    existing,       \* existing_activities
    queue,          \* gui_input_queue
    mutex,          \* who holds gui_mutex between two steps
    links,          \* handlers attached to activities: <<activity, task that waits>>, <<page, other page>>
    registered,     \* those registered with the event loop
    main,           \* what the main task does, and the switch it posts
    asked,          \* the screen the main task last asked for
    own,            \* the managed screens the main task still uses
    guest,          \* of each other task: what it does, its screen, the one it covers
    input,          \* the screen the input task is about to act on
    link,           \* the page a handler in the event loop is about to have shown
    crossed,        \* somebody else's switch came between since the main task asked for a screen
    fault           \* something freed has been used, and by whom

screen == <<current, existing, queue, mutex>>
events == <<links, registered>>
mains == <<main, asked, own>>
vars == <<screen, events, mains, guest, input, link, crossed, fault>>

Guests == Popups \cup Clients
Waiters == Guests \cup {"main"}
NoGuest == [at |-> "none", mine |-> None, prior |-> None]

\* Jobs for the GUI task.  An empty list of activities to free is the usual case.
Switch(a, freed, by) == [is |-> "switch", to |-> a, free |-> freed, by |-> by]
Repaint(a, by) == [is |-> "repaint", to |-> a, free |-> {}, by |-> by]

NoJob == Repaint(None, "main")

Init ==
    /\ current \in Screens /\ existing = {current}
    /\ queue = <<>> /\ mutex = "none"
    /\ links = {} /\ registered = {}
    /\ main = [at |-> "run", job |-> NoJob]
    /\ asked = current /\ own = {current}
    /\ guest = [t \in Guests |-> NoGuest]
    /\ input = None /\ link = None /\ crossed = FALSE /\ fault = None

-----------------------------------------------------------------------------
(* Activities *)

Jobs == {queue[k] : k \in DOMAIN queue} \cup {main.job}

Freed(a) == a \in Screens \ existing /\ \A j \in Jobs : a \notin j.free

\* Somebody has a pointer to it.
Known(a) ==
    \/ a \in {current, asked, input, link} \/ (\E j \in Jobs : a = j.to)
    \/ \E t \in Guests : a \in {guest[t].mine, guest[t].prior}

New(a) == Freed(a) /\ ~Known(a)

\* Pages are linked by buttons: from each of them all the others are reached.
IsPage(a) == \E b \in Screens : <<a, b>> \in links
PagesOf(a) == {a} \cup {b \in Screens : <<a, b>> \in links}

Unlocked == mutex = "none"
Room == Len(queue) < QueueSize

\* What has been freed must not be used.
Use(a, by) == IF Freed(a) THEN fault' = by ELSE UNCHANGED fault

\* gui_activity_wait_event() gives the activity a handler, which is registered at once
\* if the activity is the one that is shown.
ListenIf(t, a, shown) ==
    /\ links' = links \cup {<<a, t>>}
    /\ registered' = IF shown THEN registered \cup {<<a, t>>} ELSE registered

\* Mutant: it is registered when the activity is next switched to.
ListenLater(t, a) == ListenIf(t, a, FALSE)

Listen(t, a) == ListenIf(t, a, a = current)

-----------------------------------------------------------------------------
(* The GUI task *)

\* Each frame the queue is emptied, with the mutex held.
GuiTakes ==
    /\ Unlocked /\ queue # <<>> /\ mutex' = "gui"
    /\ UNCHANGED <<current, existing, queue, events, mains, guest, input, link, crossed, fault>>

\* The handlers of the old activity go, what is to be freed is, those of the new one come.
GuiSwitches ==
    /\ mutex = "gui" /\ queue # <<>> /\ Head(queue).is = "switch"
    /\ queue' = Tail(queue)
    /\ LET j == Head(queue) IN
        /\ Use(j.to, <<j.by, "switch">>)
        /\ links' = {l \in links : l[1] \notin j.free}
        /\ current' = j.to
        /\ registered' = IF j.to = current THEN registered ELSE {l \in links : l[1] = j.to}
    /\ UNCHANGED <<existing, mutex, mains, guest, input, link, crossed>>

\* A node is only drawn if it is on the activity shown, which is looked up in the node.
GuiRepaints ==
    /\ mutex = "gui" /\ queue # <<>> /\ Head(queue).is = "repaint"
    /\ queue' = Tail(queue)
    /\ Use(Head(queue).to, <<Head(queue).by, "repaint">>)
    /\ UNCHANGED <<current, existing, mutex, events, mains, guest, input, link, crossed>>

GuiGives ==
    /\ mutex = "gui" /\ queue = <<>> /\ mutex' = "none"
    /\ UNCHANGED <<current, existing, queue, events, mains, guest, input, link, crossed, fault>>

-----------------------------------------------------------------------------
(* The main task *)

MainAt(where) == main.at = where
MainGoes(where) == main' = [main EXCEPT !.at = where]

\* gui_make_activity_ex(): one activity, or several that gui_chain_activities() links.
Make ==
    /\ MainAt("run") /\ Unlocked
    /\ \E C \in SUBSET {a \in Screens : New(a)} \ {{}} :
        /\ existing' = existing \cup C /\ own' = own \cup C
        /\ links' = links \cup {l \in C \X C : l[1] # l[2]}
    /\ UNCHANGED <<current, queue, mutex, registered, main, asked, guest, input, link, crossed, fault>>

Ask(a, freed) == main' = [at |-> "post", job |-> Switch(a, freed, "main")]

\* Mutant: the activities are freed here.
ShowAloneAtOnce ==
    /\ MainAt("run") /\ Unlocked
    /\ \E a \in own \cup {Home} :
        /\ ~IsPage(a) /\ Ask(a, {})
        /\ existing' = existing \cap {a} /\ own' = own \cap {a}
    /\ UNCHANGED <<current, queue, mutex, events, asked, guest, input, link, crossed, fault>>

\* gui_set_current_activity_ex(): all activities but this one are to be freed, those of
\* the other tasks included; when it is shown, and not before.  No page is shown this way.
ShowAlone ==
    /\ MainAt("run") /\ Unlocked
    /\ \E a \in own \cup {Home} :
        /\ ~IsPage(a) /\ Ask(a, existing \ {a})
        /\ existing' = existing \cap {a} /\ own' = own \cap {a}
    /\ UNCHANGED <<current, queue, mutex, events, asked, guest, input, link, crossed, fault>>

\* Popups that have yet to post what they decided on the screen they saw.
Deciding == {t \in Popups : guest[t].at \in {"open", "restore"}}

PostSwitch(job) ==
    /\ Room /\ queue' = Append(queue, job)
    /\ asked' = job.to
    /\ main' = [at |-> "run", job |-> NoJob]
    /\ crossed' = (Deciding # {} \/ link # None)
    /\ UNCHANGED <<current, existing, mutex, events, own, guest, input, link, fault>>

Post == MainAt("post") /\ PostSwitch(main.job)

\* gui_set_current_activity(), which does nothing before it posts.
Show == MainAt("run") /\ \E a \in own \cup {Home} : PostSwitch(Switch(a, {}, "main"))

\* gui_activity_wait_event()
Wait ==
    /\ MainAt("run") /\ Unlocked
    /\ Use(asked, <<"main", "wait">>) /\ Listen("main", asked) /\ MainGoes("wait")
    /\ UNCHANGED <<screen, asked, own, guest, input, link, crossed>>

\* The button has been pressed, or the wait was limited.
Waited ==
    /\ MainAt("wait") /\ MainGoes("run")
    /\ Use(asked, <<"main", "wait">>)
    /\ UNCHANGED <<screen, events, asked, own, guest, input, link, crossed>>

\* gui_update_text() and the like: repaint if the activity is shown.
UpdateWith(held) ==
    /\ MainAt("run") /\ Unlocked
    /\ current \in PagesOf(asked)
    /\ main' = [at |-> "update", job |-> Repaint(current, "main")] /\ mutex' = held
    /\ UNCHANGED <<current, existing, queue, events, asked, own, guest, input, link, crossed, fault>>

\* Mutant: the mutex is kept until the repaint has been posted.
UpdateHolding == UpdateWith("main")

Update == UpdateWith(mutex)

PostRepaint ==
    /\ MainAt("update") /\ Room
    /\ queue' = Append(queue, main.job) /\ main' = [at |-> "run", job |-> NoJob]
    /\ mutex' = IF mutex = "main" THEN "none" ELSE mutex
    /\ UNCHANGED <<current, existing, events, asked, own, guest, input, link, crossed, fault>>

\* gui_activity_set_active_selection(): what was selected and what is now are to be
\* repainted, and those jobs (one here) are posted with the mutex held; then the whole screen.
Select ==
    /\ MainAt("run") /\ Unlocked
    /\ mutex' = "main" /\ MainGoes("select")
    /\ UNCHANGED <<current, existing, queue, events, asked, own, guest, input, link, crossed, fault>>

PostSelection ==
    /\ MainAt("select") /\ Room
    /\ queue' = Append(queue, Repaint(asked, "main"))
    /\ mutex' = "none" /\ main' = [at |-> "update", job |-> Repaint(asked, "main")]
    /\ UNCHANGED <<current, existing, events, asked, own, guest, input, link, crossed, fault>>

-----------------------------------------------------------------------------
(* Popups: a pairing to be confirmed, a warning before the unit goes to sleep *)

GuestAt(t, where) == guest[t].at = where
GuestGoes(t, where) == guest' = [guest EXCEPT ![t].at = where]

\* Another screen is on its way.
Pending == MainAt("post") \/ \E k \in DOMAIN queue : queue[k].is = "switch"

\* A screen of its own, to be shown over 'prior'.
MakeOwn(t, prior) ==
    /\ Unlocked
    /\ \E a \in Screens :
        /\ New(a) /\ existing' = existing \cup {a}
        /\ guest' = [guest EXCEPT ![t] = [at |-> "open", mine |-> a, prior |-> prior]]
    /\ UNCHANGED <<current, queue, mutex, events, mains, input, link, fault>>

\* gui_current_activity(), without the mutex.
Open(t) ==
    /\ t \in Popups /\ GuestAt(t, "none") /\ MakeOwn(t, current)
    /\ crossed' = (crossed \/ Pending \/ \E o \in Popups \ {t} : ~GuestAt(o, "none"))

\* A client's screen is not taken down again.
PutUp(t) ==
    /\ GuestAt(t, "open") /\ Room
    /\ queue' = Append(queue, Switch(guest[t].mine, {}, t)) /\ GuestGoes(t, "up")
    /\ crossed' = (crossed \/ t \in Clients)
    /\ UNCHANGED <<current, existing, mutex, events, mains, input, link, fault>>

Await(t) ==
    /\ GuestAt(t, "up") /\ Unlocked
    /\ Use(guest[t].mine, <<t, "wait">>) /\ Listen(t, guest[t].mine) /\ GuestGoes(t, "wait")
    /\ UNCHANGED <<screen, mains, input, link, crossed>>

\* Confirmed, declined or timed out: after 10 or 30 seconds, so the GUI task has shown
\* the screen by then.  A client may go on sooner.
Answered(t) ==
    /\ GuestAt(t, "wait")
    /\ \/ t \in Clients /\ GuestGoes(t, "rest")
       \/ t \in Popups /\ (\A k \in DOMAIN queue : queue[k].by # t) /\ GuestGoes(t, "check")
    /\ Use(guest[t].mine, <<t, "wait">>)
    /\ UNCHANGED <<screen, events, mains, input, link, crossed>>

TakeDownIf(t, shown) ==
    /\ GuestAt(t, "check")
    /\ IF shown THEN GuestGoes(t, "restore") /\ crossed' = (crossed \/ Pending)
       ELSE guest' = [guest EXCEPT ![t] = NoGuest] /\ UNCHANGED crossed
    /\ UNCHANGED <<screen, events, mains, input, link, fault>>

\* Mutant: what was shown before is always shown again.
TakeDownAlways(t) == TakeDownIf(t, TRUE)

\* "Replace prior activity if we're still current"
TakeDown(t) == TakeDownIf(t, current = guest[t].mine)

Restore(t) ==
    /\ GuestAt(t, "restore") /\ Room
    /\ queue' = Append(queue, Switch(guest[t].prior, {}, t))
    /\ guest' = [guest EXCEPT ![t] = NoGuest]
    /\ UNCHANGED <<current, existing, mutex, events, mains, input, link, crossed, fault>>

-----------------------------------------------------------------------------
(* QR clients: started by the main task, which then goes on *)

\* Its first screen or another: the one before stays until the main task has it freed.
ClientMakes(t) ==
    /\ t \in Clients /\ (GuestAt(t, "rest") \/ (GuestAt(t, "none") /\ MainAt("run")))
    /\ MakeOwn(t, None) /\ UNCHANGED crossed

\* The same again, after a help screen or because another is shown.
ShowAgain(t) ==
    /\ GuestAt(t, "rest") /\ GuestGoes(t, "open")
    /\ UNCHANGED <<screen, events, mains, input, link, crossed, fault>>

\* The camera's picture or a label: repaint if its screen is shown.
Draw(t) ==
    /\ GuestAt(t, "rest") /\ Unlocked
    /\ Use(guest[t].mine, <<t, "update">>)
    /\ IF guest[t].mine = current THEN GuestGoes(t, "draw") ELSE UNCHANGED guest
    /\ UNCHANGED <<screen, events, mains, input, link, crossed>>

PostDrawn(t) ==
    /\ GuestAt(t, "draw") /\ Room
    /\ queue' = Append(queue, Repaint(guest[t].mine, t)) /\ GuestGoes(t, "rest")
    /\ UNCHANGED <<current, existing, mutex, events, mains, input, link, crossed, fault>>

ClientEnds(t) ==
    /\ GuestAt(t, "rest") /\ guest' = [guest EXCEPT ![t] = NoGuest]
    /\ UNCHANGED <<screen, events, mains, input, link, crossed, fault>>

-----------------------------------------------------------------------------
(* Wheel and buttons *)

\* current_activity is read without the mutex.
Turn ==
    /\ input = None /\ input' = current
    /\ UNCHANGED <<screen, events, mains, guest, link, crossed, fault>>

\* The selection moves on, and what was selected and what is now are to be repainted: the
\* two jobs are one here.
MoveSelection ==
    /\ input # None /\ Room
    /\ Use(input, <<"input", "move">>)
    /\ queue' = Append(queue, Repaint(input, "input")) /\ input' = None
    /\ UNCHANGED <<current, existing, mutex, events, mains, guest, link, crossed>>

\* The event loop calls the handlers that are registered, with their data.  The task
\* that waits on one wakes, sooner or later (Waited, Answered).
Click ==
    /\ IF \E l \in registered : Freed(l[1]) THEN fault' = <<"input", "handler">>
       ELSE UNCHANGED fault
    /\ UNCHANGED <<screen, events, mains, guest, input, link, crossed>>

\* switch_activity_callback(): the handler of a page's button has another page shown.
FollowLink ==
    /\ link = None
    /\ \E b \in Screens : <<current, b>> \in registered /\ link' = b
    /\ crossed' = (crossed \/ \E k \in DOMAIN queue : queue[k].is = "switch" /\ queue[k].by = "main")
    /\ UNCHANGED <<screen, events, mains, guest, input, fault>>

PostLinked ==
    /\ link # None /\ Room
    /\ queue' = Append(queue, Switch(link, {}, "events")) /\ link' = None
    /\ UNCHANGED <<current, existing, mutex, events, mains, guest, input, crossed, fault>>

\* Power, an assertion, or the end of the idle timer's patience.
Restart ==
    /\ current' \in Screens /\ existing' = {current'}
    /\ queue' = <<>> /\ mutex' = "none"
    /\ links' = {} /\ registered' = {}
    /\ main' = [at |-> "run", job |-> NoJob]
    /\ asked' = current' /\ own' = {current'}
    /\ guest' = [t \in Guests |-> NoGuest]
    /\ input' = None /\ link' = None /\ crossed' = FALSE /\ fault' = None

-----------------------------------------------------------------------------
Gui == GuiTakes \/ GuiSwitches \/ GuiRepaints \/ GuiGives
Main ==
    \/ Make \/ Show \/ ShowAlone \/ Post \/ Wait \/ Waited
    \/ Update \/ PostRepaint \/ Select \/ PostSelection
Guest(t) ==
    \/ Open(t) \/ PutUp(t) \/ Await(t) \/ Answered(t) \/ TakeDown(t) \/ Restore(t)
    \/ ClientMakes(t) \/ ShowAgain(t) \/ Draw(t) \/ PostDrawn(t) \/ ClientEnds(t)
Input == Turn \/ MoveSelection \/ Click \/ FollowLink \/ PostLinked

Running == fault = None

Next == (Running /\ (Gui \/ Main \/ (\E t \in Guests : Guest(t)) \/ Input)) \/ Restart

Spec == Init /\ [][Next]_vars

\* The GUI task has the highest priority of those that take the mutex; one who waits for
\* room in the queue is not passed over for ever.
FairSpec ==
    /\ Spec
    /\ SF_vars(Running /\ Gui)
    /\ SF_vars(Running /\ (Post \/ PostRepaint \/ PostSelection))

-----------------------------------------------------------------------------
(* Properties *)

TypeOK ==
    /\ current \in Screens \cup {Home} /\ existing \subseteq Screens
    /\ Len(queue) <= QueueSize /\ mutex \in {"none", "gui", "main"}
    /\ links \subseteq (Screens \cup {Home}) \X (Waiters \cup Screens) /\ registered \subseteq links
    /\ main.at \in {"run", "post", "wait", "update", "select"}
    /\ asked \in Screens \cup {Home} /\ own \subseteq existing
    /\ guest \in [Guests -> [at : {"none", "open", "up", "wait", "check", "restore", "rest", "draw"},
                             mine : Screens \cup {None}, prior : Screens \cup {Home, None}]]
    /\ input \in Screens \cup {Home, None} /\ link \in Screens \cup {None} /\ crossed \in BOOLEAN

\* Screens are freed by one task while others use them.  All the same the main task
\* never uses, or has shown or repainted, one that has been freed; and no handler is
\* called with data that has.  It can happen to a popup or a QR client, whose screen or the
\* one it covers the main task has freed; to the input task, which reads the screen without
\* the mutex; and to the event loop, which has a page shown behind a switch that frees it.
FreedInUse ==
    fault # None =>
        \/ fault[1] \in Guests /\ fault[2] \in {"wait", "switch"}
        \/ fault[1] \in Clients /\ fault[2] \in {"update", "repaint"}
        \/ fault \in {<<"input", "move">>, <<"input", "repaint">>, <<"events", "switch">>}

\* A task that waits for the buttons of the screen that is shown will hear them.
Heard ==
    /\ MainAt("wait") /\ asked = current => <<current, "main">> \in registered
    /\ \A t \in Guests : GuestAt(t, "wait") /\ guest[t].mine = current /\ fault = None
        => <<current, t>> \in registered

\* With nothing left to do for the GUI task and no popup about, the screen is the one
\* the main task asked for last, and may be waiting on, or another page of it: unless,
\* since then, a switch was under way while a popup was being put up or taken down, two
\* popups met, a link was followed from the screen before, or a QR client has put up its own.
MainScreenBack ==
    queue = <<>> /\ ~MainAt("post") /\ ~crossed /\ (\A t \in Popups : GuestAt(t, "none"))
        => current \in PagesOf(asked)

\* The main task gets its jobs through to the GUI task, however many others post: unless
\* it posts with the mutex held, and the queue, which the GUI task then cannot empty, is full;
\* or the event loop waits for room as well, whose handlers the GUI task has to change.
Posts == MainAt("post") \/ MainAt("update") \/ MainAt("select")
JobsGoThrough ==
    Posts ~> ~Posts \/ (MainAt("select") /\ ~Room) \/ (link # None /\ ~Room) \/ fault # None
=============================================================================

------------------------------ MODULE Gui_proofs ------------------------------
(***************************************************************************)
(* Who may use which screen, and that what is posted arrives: proofs for   *)
(* any number of screens, of tasks that put up screens of their own, and   *)
(* of jobs that fit the queue.                                             *)
(***************************************************************************)
EXTENDS Gui, TLAPS

USE GuiAssumption

Activities == Screens \cup {Home}

\* Repaints free nothing; all switch but the wheel.
JobSet ==
    {j \in [is: {"switch", "repaint"}, to: Activities \cup {None}, free: SUBSET Screens,
            by: Waiters \cup {"input", "events"}] :
        IF j.is = "repaint" THEN j.free = {} /\ j.by \in Clients \cup {"main", "input"}
                            ELSE j.by # "input" /\ j.to \in Activities \ j.free}

GuestType == [at: {"none", "open", "up", "wait", "check", "restore", "rest", "draw"},
              mine: Screens \cup {None}, prior: Activities \cup {None}]

Types ==
    /\ current \in Activities /\ existing \subseteq Screens
    /\ queue \in Seq(JobSet)
    /\ main \in [at: {"run", "post", "wait", "update", "select"}, job: JobSet]
    /\ asked \in Activities /\ own \subseteq existing
    /\ guest \in [Guests -> GuestType]
    /\ \A t \in Guests :
        /\ guest[t].at # "none" => guest[t].mine \in Screens
        /\ guest[t].at # "none" /\ t \in Popups => guest[t].prior \in Activities
        /\ guest[t].at \in {"check", "restore"} => t \in Popups
        /\ guest[t].at \in {"rest", "draw"} => t \in Clients
    /\ input \in Activities \cup {None} /\ link \in Screens \cup {None}

\* What is to be freed exists no more, and is to be freed once.
Apart ==
    /\ main.job.free \cap existing = {}
    /\ \A k \in 1..Len(queue) :
        /\ queue[k].free \cap existing = {}
        /\ queue[k].free \cap main.job.free = {}
        /\ \A m \in 1..Len(queue) : m # k => queue[k].free \cap queue[m].free = {}

\* The main task asks for screens of its own, and waits on the one it asked for.
Keeps ==
    /\ main.at \notin {"post", "update"} => main.job = NoJob
    /\ main.at # "post" => asked \in own \cup {Home}
    /\ main.at = "update" => main.job.is = "repaint"
    /\ main.at = "post" => main.job.is = "switch" /\ asked \in own \cup {Home} \cup main.job.free
    /\ main.at \in {"post", "update"} => main.job.by = "main" /\ main.job.to \in own \cup {Home}

\* What the main task has asked for is freed, if at all, by a job behind.
Behind ==
    \A k \in 1..Len(queue) : queue[k].by = "main" =>
        \/ queue[k].to \in existing \cup {Home}
        \/ queue[k].to \in main.job.free
        \/ \E m \in 1..Len(queue) : m > k /\ queue[k].to \in queue[m].free

\* Pages are made by the main task, and freed together.
Linked(a, b) == b \in Screens /\ <<a, b>> \in links
Together ==
    \A a, b : Linked(a, b) =>
        /\ a \in Screens /\ a # b /\ Linked(b, a)
        /\ \A c : Linked(b, c) /\ c # a => Linked(a, c)
        /\ ~Freed(a) /\ (a \in existing => a \in own) /\ (a \in existing => b \in existing)
        /\ \A j \in Jobs : a \in j.free => b \in j.free

\* The handlers of the screen that is shown are those that are called.
Registered ==
    /\ registered = {l \in links : l[1] = current}
    /\ fault = None => ~Freed(current)

\* Who waits has a handler: that of a guest may have been freed with its screen.
Listening ==
    /\ main.at = "wait" => <<asked, "main">> \in links
    /\ \A t \in Guests : guest[t].at = "wait" /\ fault = None
        => <<guest[t].mine, t>> \in links \/ Freed(guest[t].mine)

IInv == Types /\ Apart /\ Keeps /\ Behind /\ Together /\ Registered /\ Listening /\ FreedInUse

-----------------------------------------------------------------------------
(* Jobs *)

\* A screen has been freed if it exists no more and nobody is still to free it.
LEMMA FreedMeans ==
    ASSUME Types, NEW a
    PROVE  Freed(a) <=> /\ a \in Screens \ existing /\ a \notin main.job.free
                        /\ \A k \in 1..Len(queue) : a \notin queue[k].free
BY DEF Types, Freed, Jobs

LEMMA NoJobType == NoJob \in JobSet /\ NoJob.free = {}
BY DEF NoJob, Repaint, JobSet, Waiters

LEMMA SwitchType ==
    ASSUME NEW a \in Activities, NEW F \in SUBSET Screens, a \notin F, NEW t \in Waiters \cup {"events"}
    PROVE  /\ Switch(a, F, t) \in JobSet /\ Switch(a, F, t).free = F
           /\ Switch(a, F, t).to = a /\ Switch(a, F, t).by = t /\ Switch(a, F, t).is = "switch"
BY DEF Switch, JobSet, Waiters, Guests

LEMMA PlainType ==
    ASSUME NEW a \in Activities, NEW t \in Waiters \cup {"events"}
    PROVE  /\ Switch(a, {}, t) \in JobSet /\ Switch(a, {}, t).free = {}
           /\ Switch(a, {}, t).to = a /\ Switch(a, {}, t).by = t /\ Switch(a, {}, t).is = "switch"
BY SwitchType

LEMMA RepaintType ==
    ASSUME NEW a \in Activities, NEW t \in Clients \cup {"main", "input"}
    PROVE  /\ Repaint(a, t) \in JobSet /\ Repaint(a, t).free = {}
           /\ Repaint(a, t).to = a /\ Repaint(a, t).by = t /\ Repaint(a, t).is = "repaint"
BY DEF Repaint, JobSet, Waiters, Guests

\* The same after a step.
LEMMA FreedMeansNext ==
    ASSUME Types', NEW a
    PROVE  Freed(a)' <=> /\ a \in Screens \ existing' /\ a \notin main'.job.free
                         /\ \A k \in 1..Len(queue') : a \notin queue'[k].free
BY DEF Types, Freed, Jobs

\* Where no handlers change but those of tasks that wait, pages stay linked as they were.
SameLinks == links' = links \/ \E a, t : t \in Waiters /\ links' = links \cup {<<a, t>>}

LEMMA LinkedAsBefore == ASSUME SameLinks PROVE \A a, b : Linked(a, b)' <=> Linked(a, b)
BY DEF SameLinks, Linked, Waiters, Guests

\* Pages stay together if none of them is made or discarded, and no job frees one anew.
LEMMA PagesKept ==
    ASSUME IInv, own \subseteq own',
           \A a, b : Linked(a, b)' => Linked(a, b),
           \A a, b : Linked(a, b)' => Linked(b, a)' /\ \A c : Linked(b, c) => Linked(b, c)',
           \A a, b : Linked(a, b) => (a \in existing' <=> a \in existing),
           \A a, b : Linked(a, b)' => ~Freed(a)',
           \A j \in Jobs' : j \in Jobs \/ j.free = {}
    PROVE  Together'
<1> SUFFICES ASSUME NEW a, NEW b, Linked(a, b)'
             PROVE  /\ a \in Screens /\ a # b /\ Linked(b, a)'
                    /\ \A c : Linked(b, c)' /\ c # a => Linked(a, c)'
                    /\ ~Freed(a)' /\ (a \in existing' => a \in own') /\ (a \in existing' => b \in existing')
                    /\ \A j \in Jobs' : a \in j.free => b \in j.free
  BY DEF Together
<1>1. Linked(a, b) /\ Linked(b, a) /\ Linked(b, a)'
  OBVIOUS
<1>2. a \in Screens /\ a # b /\ (a \in existing' => a \in own') /\ (a \in existing' => b \in existing')
  BY <1>1 DEF IInv, Together
<1>3. \A c : Linked(b, c)' /\ c # a => Linked(a, c)'
  <2>1. \A c : Linked(b, c) /\ c # a => Linked(a, c)
    BY <1>1 DEF IInv, Together
  <2>2. \A c : Linked(a, c) => Linked(a, c)'
    BY <1>1
  <2> QED
    BY <2>1, <2>2
<1>4. \A j \in Jobs' : a \in j.free => b \in j.free
  BY <1>1 DEF IInv, Together
<1> QED
  BY <1>1, <1>2, <1>3, <1>4

\* A step that neither makes nor frees an activity, nor frees more by a job.
LEMMA TogetherStill ==
    ASSUME IInv, own' = own, SameLinks, existing' = existing, \A a : Freed(a)' <=> Freed(a),
           \A j \in Jobs' : j \in Jobs \/ j.free = {}
    PROVE  Together'
<1>1. \A a, b : Linked(a, b)' <=> Linked(a, b)
  BY LinkedAsBefore
<1>2. \A a, b : Linked(a, b) => Linked(b, a) /\ ~Freed(a)
  BY DEF IInv, Together
<1> QED
  BY <1>1, <1>2, PagesKept

LEMMA SameJobs ==
    ASSUME IInv, Types', queue' = queue, existing' = existing, main'.job = main.job, own' = own, SameLinks
    PROVE  /\ Apart' /\ Behind' /\ Together'
           /\ \A a : Freed(a)' <=> Freed(a)
<1>1. Apart' /\ Behind'
  BY DEF IInv, Apart, Behind
<1>2. ASSUME NEW a PROVE Freed(a)' <=> Freed(a)
  BY FreedMeans, FreedMeansNext DEF IInv
<1>3. Together'
  <2>1. \A j \in Jobs' : j \in Jobs
    BY DEF Jobs
  <2> QED
    BY <1>2, <2>1, TogetherStill
<1> QED
  BY <1>1, <1>2, <1>3

\* The main task is to post a job that frees nothing.
LEMMA NewJob ==
    ASSUME IInv, Types', queue' = queue, existing' = existing, own' = own, SameLinks,
           main'.job.free = main.job.free, main'.job.free = {}
    PROVE  /\ Apart' /\ Behind' /\ Together'
           /\ \A a : Freed(a)' <=> Freed(a)
<1>1. Apart' /\ Behind'
  BY DEF IInv, Apart, Behind
<1>2. ASSUME NEW a PROVE Freed(a)' <=> Freed(a)
  BY FreedMeans, FreedMeansNext DEF IInv
<1>3. Together'
  <2>1. \A j \in Jobs' : j \in Jobs \/ j.free = {}
    BY DEF Jobs
  <2> QED
    BY <1>2, <2>1, TogetherStill
<1> QED
  BY <1>1, <1>2, <1>3

\* A job is posted that frees nothing, and nothing that the main task is to post.
LEMMA PostedJob ==
    ASSUME IInv, Types', existing' = existing, own' = own, SameLinks,
           main'.job.free = main.job.free, main'.job = main.job \/ main'.job.free = {},
           NEW j \in JobSet, j.free = {}, queue' = Append(queue, j),
           j.by = "main" => j.to \in existing \cup {Home}
    PROVE  /\ Apart' /\ Behind' /\ Together'
           /\ \A a : Freed(a)' <=> Freed(a)
<1>1. queue \in Seq(JobSet)
  BY DEF IInv, Types
<1>2. /\ Len(queue') = Len(queue) + 1 /\ queue'[Len(queue) + 1] = j
      /\ \A k \in 1..Len(queue) : queue'[k] = queue[k]
  BY <1>1
<1>3. Apart'
  BY <1>1, <1>2 DEF IInv, Apart
<1>4. Behind'
  BY <1>1, <1>2 DEF IInv, Behind
<1>5. ASSUME NEW a PROVE Freed(a)' <=> Freed(a)
  BY <1>1, <1>2, FreedMeans, FreedMeansNext DEF IInv
<1>6. Together'
  <2>1. \A i \in Jobs' : i \in Jobs \/ i.free = {}
    BY <1>1, <1>2 DEF Jobs
  <2> QED
    BY <1>5, <2>1, TogetherStill
<1> QED
  BY <1>3, <1>4, <1>5, <1>6

\* The job of the main task is posted.
LEMMA PostedMain ==
    ASSUME IInv, Types', existing' = existing, own' = own, SameLinks,
           main.at \in {"post", "update"}, main'.job = NoJob, queue' = Append(queue, main.job)
    PROVE  /\ Apart' /\ Behind' /\ Together'
           /\ \A a : Freed(a)' <=> Freed(a)
<1>1. queue \in Seq(JobSet) /\ main.job \in JobSet
  BY DEF IInv, Types
<1>2. /\ Len(queue') = Len(queue) + 1 /\ queue'[Len(queue) + 1] = main.job
      /\ \A k \in 1..Len(queue) : queue'[k] = queue[k]
  BY <1>1
<1>3. NoJob.free = {}
  BY NoJobType
<1>4. Apart'
  BY <1>1, <1>2, <1>3 DEF IInv, Apart
<1>5. Behind'
  <2> SUFFICES ASSUME NEW k \in 1..Len(queue'), queue'[k].by = "main"
               PROVE  \/ queue'[k].to \in existing' \cup {Home}
                      \/ \E m \in 1..Len(queue') : m > k /\ queue'[k].to \in queue'[m].free
    BY DEF Behind
  <2>1. CASE k = Len(queue) + 1
    BY <2>1, <1>2 DEF IInv, Keeps, Types
  <2>2. CASE k \in 1..Len(queue)
    BY <2>2, <1>1, <1>2 DEF IInv, Behind
  <2> QED
    BY <1>1, <1>2, <2>1, <2>2
<1>6. ASSUME NEW a PROVE Freed(a)' <=> Freed(a)
  BY <1>1, <1>2, <1>3, FreedMeans, FreedMeansNext DEF IInv
<1>7. Together'
  <2>1. \A j \in Jobs' : j \in Jobs \/ j.free = {}
    BY <1>1, <1>2, <1>3 DEF Jobs
  <2> QED
    BY <1>6, <2>1, TogetherStill
<1> QED
  BY <1>4, <1>5, <1>6, <1>7

\* The first job is done: what it frees has now been freed.
LEMMA DoneJob ==
    ASSUME IInv, Types', queue # <<>>, queue' = Tail(queue), existing' = existing, main' = main, own' = own,
           links' = {l \in links : l[1] \notin Head(queue).free}
    PROVE  /\ Apart' /\ Behind' /\ Together'
           /\ \A a : Freed(a)' <=> Freed(a) \/ a \in Head(queue).free
<1>1. queue \in Seq(JobSet)
  BY DEF IInv, Types
<1>2. /\ Len(queue) \in Nat \ {0} /\ Len(queue') = Len(queue) - 1 /\ Head(queue) = queue[1]
      /\ \A k \in 1..Len(queue') : k + 1 \in 1..Len(queue) /\ queue'[k] = queue[k + 1]
      /\ queue[1] \in JobSet
  BY <1>1
<1>3. \A k \in 1..Len(queue) : k = 1 \/ (k - 1 \in 1..Len(queue') /\ queue[k] = queue'[k - 1])
  BY <1>2
<1>4. Apart'
  BY <1>1, <1>2 DEF IInv, Apart
<1>5. Behind'
  <2> SUFFICES ASSUME NEW k \in 1..Len(queue'), queue'[k].by = "main"
               PROVE  \/ queue'[k].to \in existing' \cup {Home}
                      \/ queue'[k].to \in main'.job.free
                      \/ \E m \in 1..Len(queue') : m > k /\ queue'[k].to \in queue'[m].free
    BY DEF Behind
  <2>1. \/ queue[k + 1].to \in existing \cup {Home}
        \/ queue[k + 1].to \in main.job.free
        \/ \E m \in 1..Len(queue) : m > k + 1 /\ queue[k + 1].to \in queue[m].free
    BY <1>2 DEF IInv, Behind
  <2>2. ASSUME NEW m \in 1..Len(queue), m > k + 1, queue[k + 1].to \in queue[m].free
        PROVE  m - 1 \in 1..Len(queue') /\ m - 1 > k /\ queue'[k].to \in queue'[m - 1].free
    BY <2>2, <1>2, <1>3
  <2> QED
    BY <1>2, <2>1, <2>2
<1>6. ASSUME NEW a PROVE Freed(a)' <=> Freed(a) \/ a \in Head(queue).free
  <2>1. queue[1].free \subseteq Screens
    BY <1>2 DEF JobSet
  <2>2. a \in queue[1].free => /\ a \in Screens \ existing /\ a \notin main.job.free
                              /\ \A k \in 1..Len(queue) : k # 1 => a \notin queue[k].free
    BY <1>2, <2>1 DEF IInv, Apart
  <2>3. Freed(a) \/ a \in queue[1].free
          <=> /\ a \in Screens \ existing /\ a \notin main.job.free
              /\ \A k \in 1..Len(queue) : k # 1 => a \notin queue[k].free
    BY <1>2, <2>2, FreedMeans DEF IInv
  <2>4. (\A k \in 1..Len(queue) : k # 1 => a \notin queue[k].free)
          => \A k \in 1..Len(queue') : a \notin queue'[k].free
    BY <1>2
  <2>5. (\A k \in 1..Len(queue') : a \notin queue'[k].free)
          => \A k \in 1..Len(queue) : k # 1 => a \notin queue[k].free
    BY <1>3
  <2> QED
    BY <1>2, <2>3, <2>4, <2>5, FreedMeansNext
<1>7. Together'
  <2>1. Head(queue) \in Jobs /\ \A j \in Jobs' : j \in Jobs
    BY <1>2 DEF Jobs
  <2>2. \A a, b : Linked(a, b)' <=> Linked(a, b) /\ a \notin Head(queue).free
    BY DEF Linked
  <2>3. \A a, b : Linked(a, b) => /\ Linked(b, a) /\ ~Freed(a)
                                  /\ (a \in Head(queue).free <=> b \in Head(queue).free)
    BY <2>1 DEF IInv, Together
  <2> HIDE <1>6
  <2>4. \A a, b : Linked(a, b)' => ~Freed(a)'
    BY <1>6, <2>2, <2>3
  <2>5. \A a, b : Linked(a, b)' => Linked(b, a)' /\ \A c : Linked(b, c) => Linked(b, c)'
    BY <2>2, <2>3
  <2> QED
    BY <2>1, <2>2, <2>4, <2>5, PagesKept
<1> QED
  BY <1>4, <1>5, <1>6, <1>7

\* Activities are made, of memory that has been freed.
LEMMA MadeSome ==
    ASSUME IInv, Types', queue' = queue, main'.job = main.job,
           NEW C, \A b \in C : Freed(b), existing' = existing \cup C
    PROVE  /\ Apart' /\ Behind'
           /\ \A a : Freed(a)' <=> Freed(a) /\ a \notin C
<1>1. \A b \in C : b \in Screens /\ b \notin main.job.free /\ \A k \in 1..Len(queue) : b \notin queue[k].free
  BY FreedMeans DEF IInv
<1>2. Apart' /\ Behind'
  BY <1>1 DEF IInv, Apart, Behind
<1>3. ASSUME NEW a PROVE Freed(a)' <=> Freed(a) /\ a \notin C
  BY <1>1, FreedMeans, FreedMeansNext DEF IInv
<1> QED
  BY <1>2, <1>3

\* One that has been freed is no page.
LEMMA NoFreedPage == ASSUME IInv, NEW a, Freed(a) PROVE \A b : ~Linked(a, b) /\ ~Linked(b, a)
BY DEF IInv, Together

\* A guest's activity is linked to none, those of the main task to each other.
LEMMA MadeTogether ==
    ASSUME IInv, queue' = queue, main'.job = main.job,
           NEW C \in SUBSET Screens, \A b \in C : Freed(b), existing' = existing \cup C,
           \A a : Freed(a)' <=> Freed(a) /\ a \notin C,
           \/ own' = own /\ links' = links
           \/ own' = own \cup C /\ links' = links \cup {l \in C \X C : l[1] # l[2]}
    PROVE  Together'
<1>1. \A j \in Jobs' : j \in Jobs
  BY DEF Jobs
<1>2. \A a, b : Linked(a, b) => a \notin C /\ b \notin C /\ Linked(b, a) /\ ~Freed(a)
  BY NoFreedPage DEF IInv, Together
<1>3. CASE own' = own /\ links' = links
  <2>1. \A a, b : Linked(a, b)' <=> Linked(a, b)
    BY <1>3 DEF Linked
  <2> QED
    BY <1>1, <1>2, <1>3, <2>1, PagesKept
<1>4. CASE own' = own \cup C /\ links' = links \cup {l \in C \X C : l[1] # l[2]}
  <2>1. \A a, b : Linked(a, b)' <=> Linked(a, b) \/ (a \in C /\ b \in C /\ a # b)
    BY <1>4 DEF Linked
  <2>2. \A a \in C : ~Freed(a)' /\ \A j \in Jobs' : a \notin j.free
    BY <1>1 DEF Freed
  <2>3. ASSUME NEW a, NEW b, Linked(a, b)
        PROVE  /\ a \in Screens /\ a # b /\ Linked(b, a)'
               /\ \A c : Linked(b, c)' /\ c # a => Linked(a, c)'
               /\ ~Freed(a)' /\ (a \in existing' => a \in own') /\ (a \in existing' => b \in existing')
               /\ \A j \in Jobs' : a \in j.free => b \in j.free
    BY <1>1, <1>2, <1>4, <2>1, <2>3 DEF IInv, Together
  <2>4. ASSUME NEW a \in C, NEW b \in C, a # b
        PROVE  /\ a \in Screens /\ Linked(b, a)'
               /\ \A c : Linked(b, c)' /\ c # a => Linked(a, c)'
               /\ ~Freed(a)' /\ a \in own' /\ b \in existing'
               /\ \A j \in Jobs' : a \notin j.free
    BY <1>2, <1>4, <2>1, <2>2, <2>4
  <2> QED
    BY <2>1, <2>3, <2>4 DEF Together
<1> QED
  BY <1>3, <1>4

\* All others are to be freed.
LEMMA LeftOne ==
    ASSUME IInv, Types', queue' = queue, main.at = "run", NEW b, \A c : ~Linked(b, c),
           main'.job.free = existing \ {b}, existing' = existing \cap {b}, own' = own \cap {b}, links' = links
    PROVE  /\ Apart' /\ Behind' /\ Together'
           /\ \A a : Freed(a)' <=> Freed(a)
<1>1. main.job.free = {}
  BY NoJobType DEF IInv, Keeps
<1>2. Apart'
  BY <1>1 DEF IInv, Apart
<1>3. Behind'
  BY <1>1 DEF IInv, Behind
<1>4. ASSUME NEW a PROVE Freed(a)' <=> Freed(a)
  <2>1. \A k \in 1..Len(queue) : queue[k].free \cap existing = {}
    BY DEF IInv, Apart
  <2> QED
    BY <1>1, <2>1, FreedMeans, FreedMeansNext DEF IInv
<1>5. Together'
  <2>1. \A a, c : Linked(a, c)' <=> Linked(a, c)
    BY DEF Linked
  <2>2. \A j \in Jobs' : j \in Jobs \/ j.free = existing \ {b}
    BY DEF Jobs
  <2>3. ASSUME NEW a, NEW c, Linked(a, c)
        PROVE  /\ a \in Screens /\ a # c /\ Linked(c, a)
               /\ \A d : Linked(c, d) /\ d # a => Linked(a, d)
               /\ ~Freed(a) /\ a \notin existing' /\ (a \in existing => c \in existing \ {b})
               /\ \A j \in Jobs : a \in j.free => c \in j.free
    BY <2>3 DEF IInv, Together
  <2> QED
    BY <1>4, <2>1, <2>2, <2>3 DEF Together
<1> QED
  BY <1>2, <1>3, <1>4, <1>5

-----------------------------------------------------------------------------
(* Handlers *)

\* A step of another kind than showing, freeing and listening.
LEMMA Untouched ==
    ASSUME IInv, fault = None, current' = current, registered' = registered,
           links \subseteq links', \A l \in links' : l[1] = current => l \in links,
           main'.at = "wait" => main.at = "wait" /\ asked' = asked,
           \A t \in Guests : guest'[t].at = "wait" =>
                guest[t].at = "wait" /\ guest'[t].mine = guest[t].mine,
           \A a : Freed(a)' => Freed(a),
           \A t \in Guests : \A a : a = guest[t].mine /\ Freed(a) => Freed(a)'
    PROVE  Registered' /\ Listening'
<1>1. Registered'
  <2>1. \A a : a = current /\ Freed(a)' => Freed(a)
    OBVIOUS
  <2> QED
    BY <2>1 DEF IInv, Registered
<1>2. main'.at = "wait" => <<asked', "main">> \in links'
  BY DEF IInv, Listening
<1>3. ASSUME NEW t \in Guests, guest'[t].at = "wait"
      PROVE  <<guest'[t].mine, t>> \in links' \/ Freed(guest[t].mine)'
  BY <1>3 DEF IInv, Listening
<1> QED
  BY <1>1, <1>2, <1>3 DEF Listening

\* What the main task uses has not been freed.
LEMMA MainLives == ASSUME IInv, main.at # "post" PROVE ~Freed(asked)
BY FreedMeans DEF IInv, Types, Keeps

\* Nor is what its jobs are about, when they are done.
LEMMA JobLives ==
    ASSUME IInv, queue # <<>>, Head(queue).by = "main"
    PROVE  ~Freed(Head(queue).to)
<1>1. queue \in Seq(JobSet)
  BY DEF IInv, Types
<1>2. Len(queue) \in Nat \ {0} /\ Head(queue) = queue[1]
  BY <1>1
<1>3. \/ queue[1].to \in existing \cup {Home} \/ queue[1].to \in main.job.free
      \/ \E m \in 1..Len(queue) : queue[1].to \in queue[m].free
  BY <1>2 DEF IInv, Behind
<1> QED
  BY <1>2, <1>3, FreedMeans DEF IInv

-----------------------------------------------------------------------------
(* The GUI task *)

LEMMA GuiStep == ASSUME IInv, fault = None, Gui PROVE IInv'
<1> USE DEF screen, events, mains
<1>q. queue \in Seq(JobSet)
  BY DEF IInv, Types
<1>1. ASSUME GuiTakes \/ GuiGives PROVE IInv'
  <2>1. UNCHANGED <<current, existing, queue, events, mains, guest, input, link, fault>>
    BY <1>1 DEF GuiTakes, GuiGives
  <2>2. Types' /\ Keeps' /\ FreedInUse'
    BY <2>1 DEF IInv, Types, Keeps, FreedInUse
  <2>3. Apart' /\ Behind' /\ Together' /\ \A a : Freed(a)' <=> Freed(a)
    BY <2>1, <2>2, SameJobs DEF SameLinks
  <2>4. Registered' /\ Listening'
    BY <2>1, <2>3, Untouched
  <2> QED
    BY <2>2, <2>3, <2>4 DEF IInv
<1>2. ASSUME GuiSwitches PROVE IInv'
  <2> DEFINE j == Head(queue)
  <2>1. /\ queue # <<>> /\ queue' = Tail(queue) /\ existing' = existing
        /\ UNCHANGED <<mains, guest, input, link>>
        /\ links' = {l \in links : l[1] \notin j.free} /\ current' = j.to
        /\ registered' = IF j.to = current THEN registered ELSE {l \in links : l[1] = j.to}
        /\ IF Freed(j.to) THEN fault' = <<j.by, "switch">> ELSE fault' = fault
    BY <1>2 DEF GuiSwitches, Use
  <2>2. j \in JobSet /\ Tail(queue) \in Seq(JobSet) /\ j.is = "switch" /\ 1 \in 1..Len(queue) /\ j = queue[1]
    BY <1>2, <1>q DEF GuiSwitches
  <2>3. j.by \in Waiters \cup {"events"} /\ j.to \in Activities \ j.free /\ j.free \cap existing = {}
    BY <2>2 DEF JobSet, IInv, Apart
  <2>4. Types'
    BY <2>1, <2>2, <2>3 DEF IInv, Types
  <2>5. Apart' /\ Behind' /\ Together' /\ \A a : Freed(a)' <=> Freed(a) \/ a \in j.free
    BY <2>1, <2>4, DoneJob
  <2>6. Keeps'
    BY <2>1 DEF IInv, Keeps
  <2>7. FreedInUse'
    <3>1. j.by = "main" => ~Freed(j.to)
      BY <2>1, JobLives
    <3>2. fault' # None => j.by \in Guests \cup {"events"} /\ fault' = <<j.by, "switch">>
      BY <2>1, <2>3, <3>1 DEF Waiters
    <3> QED
      BY <3>2 DEF FreedInUse
  <2>8. Registered'
    <3>1. j.to = current => \A l \in links : l[1] = current => l[1] \notin j.free
      BY <2>3
    <3>2. registered = {l \in links : l[1] = current}
      BY DEF IInv, Registered
    <3>3. registered' = {l \in links' : l[1] = current'}
      <4>1. CASE j.to = current
        BY <4>1, <2>1, <3>1, <3>2
      <4>2. CASE j.to # current
        BY <4>2, <2>1, <2>3
      <4> QED
        BY <4>1, <4>2
    <3>4. ASSUME fault' = None PROVE ~Freed(j.to)
      BY <3>4, <2>1, <2>3, ReportAssumption DEF Waiters, Guests
    <3>5. \A a : a = j.to /\ Freed(a)' => Freed(a)
      BY <2>3, <2>5
    <3> QED
      BY <2>1, <3>3, <3>4, <3>5 DEF Registered
  <2>9. Listening'
    <3>1. main.at = "wait" => <<asked, "main">> \in links' /\ main' = main /\ asked' = asked
      <4>1. main.at = "wait" => <<asked, "main">> \in links /\ asked \notin j.free
        BY <2>2, <2>3 DEF IInv, Listening, Keeps, Types, JobSet
      <4> QED
        BY <4>1, <2>1
    <3>2. ASSUME NEW t \in Guests, NEW a, a = guest[t].mine, guest[t].at = "wait"
          PROVE  <<a, t>> \in links' \/ Freed(a)'
      BY <3>2, <2>1, <2>5 DEF IInv, Listening
    <3> QED
      BY <2>1, <3>1, <3>2 DEF Listening
  <2> QED
    BY <2>4, <2>5, <2>6, <2>7, <2>8, <2>9 DEF IInv
<1>3. ASSUME GuiRepaints PROVE IInv'
  <2> DEFINE j == Head(queue)
  <2>1. /\ queue # <<>> /\ queue' = Tail(queue)
        /\ UNCHANGED <<existing, current, events, mains, guest, input, link>>
        /\ IF Freed(j.to) THEN fault' = <<j.by, "repaint">> ELSE fault' = fault
    BY <1>3 DEF GuiRepaints, Use
  <2>2. j \in JobSet /\ Tail(queue) \in Seq(JobSet) /\ j.is = "repaint"
    BY <1>3, <1>q DEF GuiRepaints
  <2>3. j.by \in Clients \cup {"main", "input"} /\ j.free = {}
    BY <2>2 DEF JobSet
  <2>4. Types' /\ Keeps'
    BY <2>1, <2>2 DEF IInv, Types, Keeps
  <2>5. Apart' /\ Behind' /\ Together' /\ \A a : Freed(a)' <=> Freed(a)
    <3>1. links' = {l \in links : l[1] \notin j.free}
      BY <2>1, <2>3
    <3> QED
      BY <2>1, <2>3, <2>4, <3>1, DoneJob
  <2>6. FreedInUse'
    <3>1. j.by = "main" => ~Freed(j.to)
      BY <2>1, JobLives
    <3>2. fault' # None => j.by \in Clients \cup {"input"} /\ fault' = <<j.by, "repaint">>
      BY <2>1, <2>3, <3>1
    <3> QED
      BY <3>2 DEF FreedInUse
  <2>7. Registered' /\ Listening'
    BY <2>1, <2>5, Untouched
  <2> QED
    BY <2>4, <2>5, <2>6, <2>7 DEF IInv
<1> QED
  BY <1>1, <1>2, <1>3 DEF Gui

-----------------------------------------------------------------------------
(* The main task *)

LEMMA MainStep == ASSUME IInv, fault = None, Main PROVE IInv'
<1> USE DEF screen, events, mains
<1> DEFINE MainType == [at: {"run", "post", "wait", "update", "select"}, job: JobSet]
<1>q. queue \in Seq(JobSet) /\ main \in MainType
  BY DEF IInv, Types
<1>j. /\ main.at \notin {"post", "update"} => main.job = NoJob
      /\ main.at # "post" => asked \in own \cup {Home}
      /\ NoJob \in JobSet /\ NoJob.free = {}
  BY NoJobType DEF IInv, Keeps
<1>1. ASSUME Make PROVE IInv'
  <2>1. PICK C \in SUBSET {a \in Screens : New(a)} :
            /\ existing' = existing \cup C /\ own' = own \cup C
            /\ links' = links \cup {l \in C \X C : l[1] # l[2]}
    BY <1>1 DEF Make
  <2>2. UNCHANGED <<current, queue, mutex, registered, main, asked, guest, input, link, crossed, fault>>
    BY <1>1 DEF Make
  <2>3. /\ C \in SUBSET Screens /\ \A b \in C : Freed(b) /\ b # current
        /\ \A t \in Guests : guest[t].mine \notin C
    BY <2>1 DEF New, Known
  <2>4. Types' /\ Keeps' /\ FreedInUse'
    BY <2>1, <2>2, <2>3 DEF IInv, Types, Keeps, FreedInUse
  <2>5. Apart' /\ Behind' /\ \A b : Freed(b)' <=> Freed(b) /\ b \notin C
    BY <2>1, <2>2, <2>3, <2>4, MadeSome
  <2>6. Together'
    BY <2>1, <2>2, <2>3, <2>5, MadeTogether
  <2>7. Registered' /\ Listening'
    BY <2>1, <2>2, <2>3, <2>5, Untouched
  <2> QED
    BY <2>4, <2>5, <2>6, <2>7 DEF IInv
<1>2. ASSUME ShowAlone PROVE IInv'
  <2>1. PICK a \in own \cup {Home} : /\ ~IsPage(a) /\ Ask(a, existing \ {a})
                                  /\ existing' = existing \cap {a} /\ own' = own \cap {a}
    BY <1>2 DEF ShowAlone
  <2>2. /\ main.at = "run"
        /\ UNCHANGED <<current, queue, mutex, events, asked, guest, input, link, crossed, fault>>
    BY <1>2 DEF ShowAlone, MainAt
  <2>3. a \in Activities /\ existing \ {a} \in SUBSET Screens /\ \A b : ~Linked(a, b)
    BY <2>1 DEF IInv, Types, Activities, IsPage, Linked
  <2> DEFINE j == Switch(a, existing \ {a}, "main")
  <2>4. j \in JobSet /\ j.free = existing \ {a} /\ j.to = a /\ j.by = "main" /\ j.is = "switch"
    BY <2>3, SwitchType DEF Waiters
  <2>5. main' = [at |-> "post", job |-> j]
    BY <2>1 DEF Ask
  <2>6. Types' /\ FreedInUse'
    <3> HIDE DEF j
    <3> QED
      BY <2>1, <2>2, <2>4, <2>5 DEF IInv, Types, FreedInUse
  <2>7. Keeps'
    <3> HIDE DEF j
    <3>1. own \subseteq existing
      BY DEF IInv, Types
    <3>2. asked' \in own' \cup {Home} \cup main'.job.free
      BY <2>1, <2>2, <2>4, <2>5, <3>1, <1>j
    <3> QED
      BY <2>1, <2>2, <2>4, <2>5, <3>2 DEF Keeps
  <2>8. Apart' /\ Behind' /\ Together' /\ \A b : Freed(b)' <=> Freed(b)
    <3>1. main'.job.free = existing \ {a}
      BY <2>4, <2>5
    <3> QED
      BY <2>1, <2>2, <2>3, <2>6, <3>1, LeftOne
  <2>9. Registered' /\ Listening'
    BY <2>2, <2>5, <2>8, Untouched
  <2> QED
    BY <2>6, <2>7, <2>8, <2>9 DEF IInv
<1>3. ASSUME Post \/ PostRepaint PROVE IInv'
  <2>1. /\ main.at \in {"post", "update"} /\ queue' = Append(queue, main.job)
        /\ asked' = IF main.at = "post" THEN main.job.to ELSE asked
        /\ main' = [at |-> "run", job |-> NoJob]
        /\ UNCHANGED <<current, existing, events, own, guest, input, link, fault>>
    BY <1>3 DEF Post, PostSwitch, PostRepaint, MainAt
  <2>2. main.job \in JobSet /\ main.job.to \in own \cup {Home} /\ asked' \in own \cup {Home}
    BY <2>1, <1>q, <1>j DEF IInv, Keeps
  <2>r. asked' \in Activities
    BY <2>2 DEF IInv, Types, Activities
  <2>p. queue' \in Seq(JobSet)
    BY <2>1, <2>2, <1>q
  <2>3. Types' /\ FreedInUse'
    BY <2>1, <2>r, <2>p, NoJobType DEF IInv, Types, FreedInUse
  <2>4. Keeps'
    BY <2>1, <2>2 DEF Keeps
  <2>5. Apart' /\ Behind' /\ Together' /\ \A a : Freed(a)' <=> Freed(a)
    BY <2>1, <2>3, PostedMain DEF SameLinks
  <2>6. Registered' /\ Listening'
    BY <2>1, <2>5, Untouched
  <2> QED
    BY <2>3, <2>4, <2>5, <2>6 DEF IInv
<1>4. ASSUME Show PROVE IInv'
  <2>1. PICK a \in own \cup {Home} : PostSwitch(Switch(a, {}, "main"))
    BY <1>4 DEF Show
  <2> DEFINE j == Switch(a, {}, "main")
  <2>2. a \in Activities /\ a \in existing \cup {Home}
    BY <2>1 DEF IInv, Types, Activities
  <2>3. j \in JobSet /\ j.free = {} /\ j.to = a
    BY <2>2, SwitchType DEF Waiters
  <2>4. /\ main.at = "run" /\ queue' = Append(queue, j) /\ asked' = a
        /\ main' = [at |-> "run", job |-> NoJob]
        /\ UNCHANGED <<current, existing, mutex, events, own, guest, input, link, fault>>
    BY <1>4, <2>1, <2>3 DEF Show, PostSwitch, MainAt
  <2> HIDE DEF j
  <2>5. Types' /\ FreedInUse' /\ Keeps'
    BY <2>2, <2>3, <2>4, <1>q, NoJobType DEF IInv, Types, FreedInUse, Keeps
  <2>6. Apart' /\ Behind' /\ Together' /\ \A b : Freed(b)' <=> Freed(b)
    BY <2>2, <2>3, <2>4, <2>5, <1>j, PostedJob DEF SameLinks
  <2>7. Registered' /\ Listening'
    BY <2>4, <2>6, Untouched
  <2> QED
    BY <2>5, <2>6, <2>7 DEF IInv
<1>5. ASSUME Wait \/ Waited PROVE IInv'
  <2>1. ~Freed(asked)
    BY <1>5, MainLives DEF Wait, Waited, MainAt
  <2>2. /\ \/ main.at = "wait" /\ main' = [main EXCEPT !.at = "run"] /\ UNCHANGED events
           \/ main.at = "run" /\ main' = [main EXCEPT !.at = "wait"] /\ Listen("main", asked)
        /\ UNCHANGED <<current, existing, queue, asked, own, guest, input, link, fault>>
    BY <1>5, <2>1 DEF Wait, Waited, Use, MainAt, MainGoes
  <2>r. /\ main' \in MainType
        /\ main'.job = main.job /\ main'.at \in {"run", "wait"} /\ main.at \notin {"post", "update"}
    BY <2>2, <1>q
  <2>3. Types' /\ FreedInUse' /\ Keeps'
    BY <2>2, <2>r, <1>j DEF IInv, Types, FreedInUse, Keeps
  <2>s. SameLinks
    BY <2>2 DEF SameLinks, Listen, ListenIf, Waiters
  <2>4. Apart' /\ Behind' /\ Together' /\ \A a : Freed(a)' <=> Freed(a)
    BY <2>2, <2>r, <2>s, <2>3, SameJobs
  <2>5. Registered'
    BY <2>2, <2>4 DEF IInv, Registered, Listen, ListenIf
  <2>6. Listening'
    BY <2>2, <2>4, <1>q DEF IInv, Listening, Listen, ListenIf
  <2> QED
    BY <2>3, <2>4, <2>5, <2>6 DEF IInv
<1>6. ASSUME Select PROVE IInv'
  <2>1. /\ main.at = "run" /\ main' = [main EXCEPT !.at = "select"]
        /\ UNCHANGED <<current, existing, queue, events, asked, own, guest, input, link, fault>>
    BY <1>6 DEF Select, MainAt, MainGoes
  <2>2. Types' /\ FreedInUse' /\ Keeps' /\ main'.job = main.job /\ main'.at # "wait"
    BY <2>1, <1>q, <1>j DEF IInv, Types, FreedInUse, Keeps
  <2>3. Apart' /\ Behind' /\ Together' /\ \A a : Freed(a)' <=> Freed(a)
    BY <2>1, <2>2, SameJobs DEF SameLinks
  <2>4. Registered' /\ Listening'
    BY <2>1, <2>2, <2>3, Untouched
  <2> QED
    BY <2>2, <2>3, <2>4 DEF IInv
<1>7. ASSUME Update \/ PostSelection PROVE IInv'
  <2>1. PICK a \in PagesOf(asked) :
            /\ main.at \in {"run", "select"} /\ main' = [at |-> "update", job |-> Repaint(a, "main")]
            /\ queue' = queue \/ queue' = Append(queue, Repaint(asked, "main"))
            /\ UNCHANGED <<current, existing, events, asked, own, guest, input, link, fault>>
    BY <1>7 DEF Update, UpdateWith, PostSelection, MainAt, PagesOf
  <2>2. asked \in own \cup {Home} /\ a \in own \cup {Home}
    <3>1. a = asked \/ Linked(asked, a)
      BY <2>1 DEF PagesOf, Linked
    <3>2. asked \in own \cup {Home}
      BY <2>1, <1>j
    <3>3. Linked(asked, a) => a \in own
      BY <3>2, GuiAssumption DEF IInv, Together, Types
    <3> QED
      BY <3>1, <3>2, <3>3
  <2>3. asked \in Activities /\ a \in Activities /\ asked \in existing \cup {Home}
    BY <2>2 DEF IInv, Types, Activities
  <2> DEFINE j == Repaint(asked, "main")
             i == Repaint(a, "main")
  <2>4. /\ j \in JobSet /\ j.free = {} /\ j.to = asked
        /\ i \in JobSet /\ i.free = {} /\ i.to = a /\ i.by = "main" /\ i.is = "repaint"
    BY <2>3, RepaintType
  <2>m. main' = [at |-> "update", job |-> i] /\ (queue' = queue \/ queue' = Append(queue, j))
    BY <2>1
  <2> HIDE DEF i, j
  <2>5. main'.job = i /\ main'.at = "update" /\ main'.job.free = main.job.free
    <3>1. main.job = NoJob
      BY <2>1, <1>j
    <3>2. main'.job = i /\ main'.at = "update"
      BY <2>m
    <3> QED
      BY <2>4, <3>1, <3>2, <1>j
  <2>6. Types' /\ FreedInUse' /\ Keeps'
    BY <2>1, <2>2, <2>4, <2>m, <1>q DEF IInv, Types, FreedInUse, Keeps
  <2>7. Apart' /\ Behind' /\ Together' /\ \A b : Freed(b)' <=> Freed(b)
    <3>1. CASE queue' = queue
      BY <2>1, <2>4, <2>5, <2>6, <3>1, NewJob DEF SameLinks
    <3>2. CASE queue' = Append(queue, j)
      BY <2>1, <2>3, <2>4, <2>5, <2>6, <3>2, PostedJob DEF SameLinks
    <3> QED
      BY <2>m, <3>1, <3>2
  <2>8. Registered' /\ Listening'
    BY <2>1, <2>5, <2>7, Untouched
  <2> QED
    BY <2>6, <2>7, <2>8 DEF IInv
<1> QED
  BY <1>1, <1>2, <1>3, <1>4, <1>5, <1>6, <1>7 DEF Main

-----------------------------------------------------------------------------
(* Popups and QR clients *)

LEMMA GuestStep == ASSUME IInv, fault = None, NEW t \in Guests, Guest(t) PROVE IInv'
<1> USE DEF screen, events, mains
<1>q. /\ queue \in Seq(JobSet) /\ guest \in [Guests -> GuestType]
      /\ current \in Activities /\ existing \subseteq Screens /\ t \in Waiters /\ t # "main"
      /\ guest[t].at # "none" => guest[t].mine \in Screens
  BY GuiAssumption DEF IInv, Types, Waiters, Guests
<1>n. NoGuest \in GuestType /\ NoGuest.at = "none"
  BY DEF NoGuest, GuestType
<1>1. ASSUME Open(t) \/ ClientMakes(t) PROVE IInv'
  <2>1. PICK prior \in {current, None} : MakeOwn(t, prior) /\ (t \in Popups => prior = current)
    <3>1. Open(t) => MakeOwn(t, current)
      BY DEF Open
    <3>2. ClientMakes(t) => MakeOwn(t, None) /\ t \notin Popups
      BY GuiAssumption DEF ClientMakes
    <3> QED
      BY <1>1, <3>1, <3>2
  <2>2. PICK a \in Screens : /\ New(a) /\ existing' = existing \cup {a}
                             /\ guest' = [guest EXCEPT ![t] = [at |-> "open", mine |-> a, prior |-> prior]]
    BY <2>1 DEF MakeOwn
  <2>3. UNCHANGED <<current, queue, mutex, events, mains, input, link, fault>>
    BY <2>1 DEF MakeOwn
  <2>4. Freed(a) /\ \A u \in Guests : guest[u].mine # a
    BY <2>2 DEF New, Known
  <2>5. /\ guest' \in [Guests -> GuestType] /\ guest'[t].at = "open"
        /\ guest'[t].mine = a /\ guest'[t].prior = prior
        /\ \A u \in Guests \ {t} : guest'[u] = guest[u]
    BY <2>2, <1>q DEF GuestType
  <2>6. Types' /\ Keeps' /\ FreedInUse'
    <3>1. Types'
      BY <2>1, <2>2, <2>3, <2>5, <1>q DEF IInv, Types
    <3> QED
      BY <2>3, <3>1 DEF IInv, Keeps, FreedInUse
  <2>7. Apart' /\ Behind' /\ \A b : Freed(b)' <=> Freed(b) /\ b \notin {a}
    BY <2>2, <2>3, <2>4, <2>6, MadeSome
  <2>8. Together'
    <3>1. {a} \in SUBSET Screens /\ \A b \in {a} : Freed(b)
      BY <2>4
    <3> QED
      BY <2>2, <2>3, <2>7, <3>1, MadeTogether
  <2>9. Registered' /\ Listening'
    BY <2>3, <2>4, <2>5, <2>7, Untouched
  <2> QED
    BY <2>6, <2>7, <2>8, <2>9 DEF IInv
<1>2. ASSUME PutUp(t) \/ Restore(t) \/ PostDrawn(t) PROVE IInv'
  <2> DEFINE j == IF guest[t].at = "open" THEN Switch(guest[t].mine, {}, t)
                  ELSE IF guest[t].at = "restore" THEN Switch(guest[t].prior, {}, t)
                  ELSE Repaint(guest[t].mine, t)
  <2>1. /\ guest[t].at \in {"open", "restore", "draw"} /\ queue' = Append(queue, j)
        /\ \/ guest[t].at = "open" /\ guest' = [guest EXCEPT ![t].at = "up"]
           \/ guest[t].at = "restore" /\ guest' = [guest EXCEPT ![t] = NoGuest]
           \/ guest[t].at = "draw" /\ guest' = [guest EXCEPT ![t].at = "rest"]
        /\ UNCHANGED <<current, existing, mutex, events, mains, input, link, fault>>
    BY <1>2 DEF PutUp, Restore, PostDrawn, GuestAt, GuestGoes
  <2>2. j \in JobSet /\ j.free = {} /\ j.by # "main"
    <3>1. guest[t].mine \in Activities /\ (guest[t].at = "restore" => guest[t].prior \in Activities)
      BY <2>1, <1>q DEF Activities, IInv, Types
    <3>2. guest[t].at = "draw" => t \in Clients
      BY DEF IInv, Types
    <3>3. t \in Waiters \cup {"events"}
      BY <1>q
    <3>4. CASE guest[t].at = "open"
      BY <3>1, <3>3, <3>4, <1>q, PlainType
    <3>5. CASE guest[t].at = "restore"
      BY <3>1, <3>3, <3>5, <1>q, PlainType
    <3>6. CASE guest[t].at = "draw"
      BY <3>1, <3>2, <3>6, <1>q, RepaintType
    <3> QED
      BY <2>1, <3>4, <3>5, <3>6
  <2> HIDE DEF j
  <2>3. /\ guest' \in [Guests -> GuestType]
        /\ \/ guest[t].at = "open" /\ guest'[t].at = "up"
           \/ guest'[t].at = "none"
           \/ guest[t].at = "draw" /\ guest'[t].at = "rest"
        /\ guest'[t].at # "none" => guest'[t].mine = guest[t].mine /\ guest'[t].prior = guest[t].prior
        /\ \A u \in Guests \ {t} : guest'[u] = guest[u]
    <3>1. CASE guest[t].at = "open" /\ guest' = [guest EXCEPT ![t].at = "up"]
      BY <3>1, <1>q DEF GuestType
    <3>2. CASE guest' = [guest EXCEPT ![t] = NoGuest]
      BY <3>2, <1>q, <1>n
    <3>3. CASE guest[t].at = "draw" /\ guest' = [guest EXCEPT ![t].at = "rest"]
      BY <3>3, <1>q DEF GuestType
    <3> QED
      BY <2>1, <3>1, <3>2, <3>3
  <2>4. Types' /\ Keeps' /\ FreedInUse'
    <3>1. queue' \in Seq(JobSet)
      BY <2>1, <2>2, <1>q
    <3>2. Types'
      BY <2>1, <2>3, <3>1, <1>q DEF IInv, Types
    <3> QED
      BY <2>1, <3>2 DEF IInv, Keeps, FreedInUse
  <2>5. Apart' /\ Behind' /\ Together' /\ \A b : Freed(b)' <=> Freed(b)
    BY <2>1, <2>2, <2>4, PostedJob DEF SameLinks
  <2>6. Registered' /\ Listening'
    BY <2>1, <2>3, <2>5, Untouched
  <2> QED
    BY <2>4, <2>5, <2>6 DEF IInv
<1>3. ASSUME Await(t) \/ Answered(t) PROVE IInv'
  <2>1. /\ \/ guest[t].at = "up" /\ guest' = [guest EXCEPT ![t].at = "wait"] /\ Listen(t, guest[t].mine)
           \/ /\ guest[t].at = "wait" /\ UNCHANGED events
              /\ \/ t \in Clients /\ guest' = [guest EXCEPT ![t].at = "rest"]
                 \/ t \in Popups /\ guest' = [guest EXCEPT ![t].at = "check"]
        /\ UNCHANGED <<current, existing, queue, mains, input, link>>
        /\ fault' \in {fault, <<t, "wait">>}
    BY <1>3 DEF Await, Answered, Use, GuestAt, GuestGoes
  <2>2. /\ guest' \in [Guests -> GuestType] /\ guest'[t].at \in {"wait", "check", "rest"}
        /\ guest'[t].mine = guest[t].mine /\ guest'[t].prior = guest[t].prior
        /\ \A u \in Guests \ {t} : guest'[u] = guest[u]
        /\ guest'[t].at # "wait" <=> guest[t].at = "wait"
        /\ guest'[t].at = "check" => t \in Popups
        /\ guest'[t].at = "rest" => t \in Clients
        /\ guest[t].at # "none"
    BY <2>1, <1>q DEF GuestType
  <2>3. Types' /\ Keeps'
    <3>1. Types'
      BY <2>1, <2>2, <1>q DEF IInv, Types
    <3> QED
      BY <2>1, <3>1 DEF IInv, Keeps
  <2>4. FreedInUse'
    BY <2>1 DEF IInv, FreedInUse
  <2>s. SameLinks
    BY <2>1, <1>q DEF SameLinks, Listen, ListenIf
  <2>5. Apart' /\ Behind' /\ Together' /\ \A b : Freed(b)' <=> Freed(b)
    BY <2>1, <2>s, <2>3, SameJobs
  <2>6. Registered'
    BY <2>1, <2>5 DEF IInv, Registered, Listen, ListenIf
  <2>7. Listening'
    <3>1. links \subseteq links' /\ (guest'[t].at = "wait" => <<guest[t].mine, t>> \in links')
      BY <2>1, <2>2 DEF Listen, ListenIf
    <3>2. main'.at = "wait" => <<asked', "main">> \in links'
      BY <2>1, <3>1 DEF IInv, Listening
    <3>3. ASSUME NEW u \in Guests \ {t}, guest'[u].at = "wait"
          PROVE  <<guest'[u].mine, u>> \in links' \/ Freed(guest[u].mine)'
      BY <3>3, <3>1, <2>2, <2>5 DEF IInv, Listening
    <3> QED
      BY <2>2, <3>1, <3>2, <3>3 DEF Listening
  <2> QED
    BY <2>3, <2>4, <2>5, <2>6, <2>7 DEF IInv
<1>4. ASSUME TakeDown(t) \/ ShowAgain(t) \/ Draw(t) \/ ClientEnds(t) PROVE IInv'
  <2>1. /\ \/ guest[t].at = "check" /\ guest' = [guest EXCEPT ![t].at = "restore"]
           \/ guest' = [guest EXCEPT ![t] = NoGuest]
           \/ guest[t].at = "rest" /\ guest' = [guest EXCEPT ![t].at = "open"]
           \/ guest[t].at = "rest" /\ guest' = [guest EXCEPT ![t].at = "draw"]
           \/ guest' = guest
        /\ fault' = fault \/ (guest[t].at = "rest" /\ fault' = <<t, "update">>)
        /\ UNCHANGED <<current, existing, queue, events, mains, input, link>>
    BY <1>4 DEF TakeDown, TakeDownIf, ShowAgain, Draw, ClientEnds, Use, GuestAt, GuestGoes
  <2>2. /\ guest' \in [Guests -> GuestType]
        /\ \/ guest'[t] = guest[t]
           \/ guest[t].at = "check" /\ guest'[t].at = "restore"
           \/ guest'[t].at = "none"
           \/ guest[t].at = "rest" /\ guest'[t].at \in {"open", "draw"}
        /\ guest'[t].at # "none" => guest'[t].mine = guest[t].mine /\ guest'[t].prior = guest[t].prior
        /\ \A u \in Guests \ {t} : guest'[u] = guest[u]
    BY <2>1, <1>q, <1>n DEF GuestType
  <2>3. Types' /\ Keeps'
    <3>1. Types'
      <4>1. guest[t].at = "check" => t \in Popups
        BY DEF IInv, Types
      <4>2. guest[t].at = "rest" => t \in Clients /\ t \notin Popups
        BY GuiAssumption DEF IInv, Types
      <4> QED
        BY <2>1, <2>2, <4>1, <4>2, <1>q DEF IInv, Types
    <3> QED
      BY <2>1, <3>1 DEF IInv, Keeps
  <2>4. FreedInUse'
    BY <2>1 DEF IInv, FreedInUse, Types
  <2>5. Apart' /\ Behind' /\ Together' /\ \A b : Freed(b)' <=> Freed(b)
    BY <2>1, <2>3, SameJobs DEF SameLinks
  <2>6. Registered' /\ Listening'
    <3>1. CASE fault' = fault
      BY <2>1, <2>2, <2>5, Untouched
    <3>2. CASE fault' # None
      BY <2>1, <2>5, <3>2 DEF IInv, Registered, Listening
    <3> QED
      BY <3>1, <3>2
  <2> QED
    BY <2>3, <2>4, <2>5, <2>6 DEF IInv
<1> QED
  BY <1>1, <1>2, <1>3, <1>4 DEF Guest

-----------------------------------------------------------------------------
(* Wheel and buttons *)

LEMMA InputStep == ASSUME IInv, fault = None, Input PROVE IInv'
<1> USE DEF screen, events, mains
<1>1. ASSUME Turn \/ Click \/ FollowLink PROVE IInv'
  <2>1. \A l \in registered : ~Freed(l[1])
    BY DEF IInv, Registered
  <2>2. /\ input' \in {input, current} /\ link' \in {link} \cup Screens
        /\ UNCHANGED <<current, existing, queue, events, mains, guest, fault>>
    BY <1>1, <2>1 DEF Turn, Click, FollowLink
  <2>3. Types' /\ Keeps' /\ FreedInUse'
    BY <2>2 DEF IInv, Types, Keeps, FreedInUse
  <2>4. Apart' /\ Behind' /\ Together' /\ \A b : Freed(b)' <=> Freed(b)
    BY <2>2, <2>3, SameJobs DEF SameLinks
  <2>5. Registered' /\ Listening'
    BY <2>2, <2>4, Untouched
  <2> QED
    BY <2>3, <2>4, <2>5 DEF IInv
<1>2. ASSUME MoveSelection \/ PostLinked PROVE IInv'
  <2>1. PICK j \in JobSet :
            /\ j.free = {} /\ j.by # "main" /\ queue' = Append(queue, j)
            /\ input' \in {input, None} /\ link' \in {link, None}
            /\ UNCHANGED <<current, existing, mutex, events, mains, guest>>
            /\ fault' \in {fault, <<"input", "move">>}
    <3>1. ASSUME MoveSelection PROVE Repaint(input, "input") \in JobSet /\ Repaint(input, "input").free = {}
      BY <3>1, RepaintType DEF IInv, Types, MoveSelection
    <3>2. ASSUME PostLinked PROVE Switch(link, {}, "events") \in JobSet /\ Switch(link, {}, "events").free = {}
      <4>1. link \in Activities
        BY <3>2 DEF IInv, Types, PostLinked, Activities
      <4> QED
        BY <4>1, PlainType
    <3>3. Repaint(input, "input").by # "main" /\ Switch(link, {}, "events").by # "main"
      BY DEF Repaint, Switch
    <3> QED
      BY <1>2, <3>1, <3>2, <3>3 DEF MoveSelection, PostLinked, Use
  <2>2. queue' \in Seq(JobSet)
    BY <2>1 DEF IInv, Types
  <2>3. Types' /\ Keeps' /\ FreedInUse'
    BY <2>1, <2>2 DEF IInv, Types, Keeps, FreedInUse
  <2>4. Apart' /\ Behind' /\ Together' /\ \A b : Freed(b)' <=> Freed(b)
    BY <2>1, <2>3, PostedJob DEF SameLinks
  <2>5. Registered' /\ Listening'
    <3>1. CASE fault' = fault
      BY <2>1, <2>4, <3>1, Untouched
    <3>2. CASE fault' # None
      BY <2>1, <2>4, <3>2 DEF IInv, Registered, Listening
    <3> QED
      BY <3>1, <3>2
  <2> QED
    BY <2>3, <2>4, <2>5 DEF IInv
<1> QED
  BY <1>1, <1>2 DEF Input

-----------------------------------------------------------------------------
(* The whole *)

LEMMA InitInv == Init => IInv
<1> SUFFICES ASSUME Init PROVE IInv
  OBVIOUS
<1>1. /\ current \in Screens /\ existing = {current} /\ queue = <<>> /\ links = {} /\ registered = {}
      /\ main = [at |-> "run", job |-> NoJob] /\ asked = current /\ own = {current}
      /\ guest = [t \in Guests |-> NoGuest] /\ input = None /\ link = None /\ fault = None
  BY DEF Init
<1>2. Len(queue) = 0 /\ queue \in Seq(JobSet)
  BY <1>1
<1>3. Types /\ Apart /\ Keeps /\ Behind /\ Together
  BY <1>1, <1>2, NoJobType DEF Types, Apart, Keeps, Behind, Together, Linked, NoGuest, GuestType, Activities
<1>4. Registered /\ Listening /\ FreedInUse
  BY <1>1, <1>3, FreedMeans DEF Registered, Listening, FreedInUse, NoGuest
<1> QED
  BY <1>3, <1>4 DEF IInv

LEMMA RestartInv == Restart => IInv'
<1> SUFFICES ASSUME Restart PROVE IInv'
  OBVIOUS
<1>1. /\ current' \in Screens /\ existing' = {current'} /\ queue' = <<>> /\ links' = {} /\ registered' = {}
      /\ main' = [at |-> "run", job |-> NoJob] /\ asked' = current' /\ own' = {current'}
      /\ guest' = [t \in Guests |-> NoGuest] /\ input' = None /\ link' = None /\ fault' = None
  BY DEF Restart
<1>2. Len(queue') = 0 /\ queue' \in Seq(JobSet)
  BY <1>1
<1>3. Types' /\ Apart' /\ Keeps' /\ Behind' /\ Together'
  BY <1>1, <1>2, NoJobType DEF Types, Apart, Keeps, Behind, Together, Linked, NoGuest, GuestType, Activities
<1>4. Registered' /\ Listening' /\ FreedInUse'
  BY <1>1, <1>3, FreedMeansNext DEF Registered, Listening, FreedInUse, NoGuest
<1> QED
  BY <1>3, <1>4 DEF IInv

LEMMA NextInv == IInv /\ [Next]_vars => IInv'
<1> SUFFICES ASSUME IInv, [Next]_vars PROVE IInv'
  OBVIOUS
<1>1. CASE fault = None /\ Gui
  BY <1>1, GuiStep
<1>2. CASE fault = None /\ Main
  BY <1>2, MainStep
<1>3. CASE fault = None /\ \E t \in Guests : Guest(t)
  BY <1>3, GuestStep
<1>4. CASE fault = None /\ Input
  BY <1>4, InputStep
<1>5. CASE Restart
  BY <1>5, RestartInv
<1>6. CASE UNCHANGED vars
  <2>1. UNCHANGED <<current, existing, queue, links, registered, main, asked, own, guest, input, link, fault>>
    BY <1>6 DEF vars, screen, events, mains
  <2>2. \A a : Freed(a)' <=> Freed(a)
    BY <2>1 DEF Freed, Jobs
  <2>3. Together'
    BY <2>1, <2>2, TogetherStill DEF SameLinks, Jobs
  <2> QED
    BY <2>1, <2>2, <2>3 DEF IInv, Types, Apart, Keeps, Behind, Registered, Listening, FreedInUse
<1> QED
  BY <1>1, <1>2, <1>3, <1>4, <1>5, <1>6 DEF Next, Running

LEMMA Inductive == Spec => []IInv
BY InitInv, NextInv, PTL DEF Spec

-----------------------------------------------------------------------------
(* Which screen the switches that are queued lead to *)

NoSwitch(q) == \A k \in 1..Len(q) : q[k].is # "switch"
LastSwitch(q, k) == q[k].is = "switch" /\ \A m \in 1..Len(q) : m > k => q[m].is # "switch"

\* With screen c shown and jobs q to do, a is shown in the end, for one of 'by' unless already.
Leads(q, c, a, by) ==
    \/ c = a /\ NoSwitch(q)
    \/ \E k \in 1..Len(q) : LastSwitch(q, k) /\ q[k].to = a /\ q[k].by \in by

LEMMA LedBySwitch ==
    ASSUME NEW q \in Seq(JobSet), NEW j \in JobSet, j.is = "switch", NEW c, NEW by, j.by \in by
    PROVE  Leads(Append(q, j), c, j.to, by)
<1> DEFINE r == Append(q, j)
<1>1. Len(r) = Len(q) + 1 /\ r[Len(q) + 1] = j /\ Len(q) \in Nat
  OBVIOUS
<1> HIDE DEF r
<1>2. Len(q) + 1 \in 1..Len(r) /\ LastSwitch(r, Len(q) + 1)
  BY <1>1 DEF LastSwitch
<1>3. Leads(r, c, j.to, by)
  BY <1>1, <1>2 DEF Leads
<1> QED
  BY <1>3 DEF r

LEMMA LedOnByRepaint ==
    ASSUME NEW q \in Seq(JobSet), NEW j \in JobSet, j.is # "switch", NEW c, NEW a, NEW by
    PROVE  /\ NoSwitch(q) => NoSwitch(Append(q, j))
           /\ Leads(q, c, a, by) => Leads(Append(q, j), c, a, by)
<1> DEFINE r == Append(q, j)
<1>1. /\ Len(r) = Len(q) + 1 /\ r[Len(q) + 1] = j /\ Len(q) \in Nat
      /\ \A k \in 1..Len(q) : r[k] = q[k]
  OBVIOUS
<1> HIDE DEF r
<1>2. NoSwitch(q) => NoSwitch(r)
  BY <1>1 DEF NoSwitch
<1>3. ASSUME NEW k \in 1..Len(q), LastSwitch(q, k) PROVE k \in 1..Len(r) /\ LastSwitch(r, k)
  BY <1>1, <1>3 DEF LastSwitch
<1>4. Leads(q, c, a, by) => Leads(r, c, a, by)
  BY <1>1, <1>2, <1>3 DEF Leads
<1> QED
  BY <1>2, <1>4 DEF r

\* The GUI task does the first job.
LEMMA LedOn ==
    ASSUME NEW q \in Seq(JobSet), q # <<>>, NEW c, NEW d, NEW a, NEW by,
           d = IF Head(q).is = "switch" THEN Head(q).to ELSE c
    PROVE  /\ NoSwitch(q) => NoSwitch(Tail(q)) /\ d = c
           /\ Leads(q, c, a, by) => Leads(Tail(q), d, a, by)
<1> DEFINE r == Tail(q)
<1>1. /\ Len(q) \in Nat \ {0} /\ Len(r) = Len(q) - 1 /\ Head(q) = q[1]
      /\ \A k \in 1..Len(r) : r[k] = q[k + 1]
  OBVIOUS
<1> HIDE DEF r
<1>2. NoSwitch(q) => NoSwitch(r) /\ d = c
  BY <1>1 DEF NoSwitch
<1>3. ASSUME NEW k \in 1..Len(q), k # 1, LastSwitch(q, k), q[k].to = a, q[k].by \in by
      PROVE  Leads(r, d, a, by)
  <2>1. k - 1 \in 1..Len(r) /\ r[k - 1] = q[k]
    BY <1>1, <1>3
  <2>2. ASSUME NEW m \in 1..Len(r), m > k - 1 PROVE r[m].is # "switch"
    <3>1. m + 1 \in 1..Len(q) /\ m + 1 > k /\ r[m] = q[m + 1]
      BY <1>1, <2>2
    <3> QED
      BY <1>3, <3>1 DEF LastSwitch
  <2>3. LastSwitch(r, k - 1)
    BY <1>3, <2>1, <2>2 DEF LastSwitch
  <2> QED
    BY <1>3, <2>1, <2>3 DEF Leads
<1>4. ASSUME LastSwitch(q, 1), q[1].to = a PROVE Leads(r, d, a, by)
  <2>1. d = a
    BY <1>1, <1>4 DEF LastSwitch
  <2>2. ASSUME NEW m \in 1..Len(r) PROVE r[m].is # "switch"
    <3>1. m + 1 \in 1..Len(q) /\ m + 1 > 1 /\ r[m] = q[m + 1]
      BY <1>1
    <3> QED
      BY <1>4, <3>1 DEF LastSwitch
  <2> QED
    BY <2>1, <2>2 DEF Leads, NoSwitch
<1>5. Leads(q, c, a, by) => Leads(r, d, a, by)
  BY <1>2, <1>3, <1>4 DEF Leads
<1> QED
  BY <1>2, <1>5 DEF r

-----------------------------------------------------------------------------
(* The way back to the screen of the main task, or a page of it *)

Anyone == Waiters \cup {"events"}
Settled(a) == current = a /\ NoSwitch(queue)
Alone(t) == \A o \in Popups \ {t} : guest[o].at = "none"

\* The switches that are queued lead to what the main task asked for; a popup may be
\* about to cover it, if it is the only one.
ToMain ==
    /\ \E a \in PagesOf(asked) : Leads(queue, current, a, Anyone)
    /\ \A t \in Popups : /\ guest[t].at = "open" => guest[t].prior \in PagesOf(asked) /\ Alone(t)
                         /\ guest[t].at # "restore"

\* They lead to the screen of a popup, the only one, that covers it; or it is decided
\* that what was covered is shown again.
ToPopup(t) ==
    /\ guest[t].at \in {"up", "wait", "check", "restore"}
    /\ guest[t].prior \in PagesOf(asked) /\ Alone(t)
    /\ guest[t].at # "restore" => Leads(queue, current, guest[t].mine, {t})
    /\ guest[t].at = "check" => Settled(guest[t].mine)

TheWay == ~crossed => ToMain \/ \E t \in Popups : ToPopup(t)

\* The screen of a popup is not one the main task uses, nor a page.
TheirOwn ==
    \A t \in Popups : guest[t].at # "none" =>
        guest[t].mine \notin own \cup {asked} /\ \A b : ~Linked(guest[t].mine, b)

\* Links are followed from pages the main task asked for, once its last switch is done.
On(a, P, l) == a \in P \/ \A b \in Screens : <<a, b>> \notin l
NoMain(q, k) == \A m \in 1..Len(q) : m >= k /\ q[m].is = "switch" => q[m].by # "main"
AllOn(q, c, P, l) ==
    /\ NoMain(q, 1) => On(c, P, l)
    /\ \A k \in 1..Len(q) : q[k].is = "switch" /\ NoMain(q, k + 1) => On(q[k].to, P, l)

\* The page that is linked to is one of those the main task asked for.
TheLink ==
    ~crossed =>
        /\ link # None => link \in PagesOf(asked)
        /\ AllOn(queue, current, PagesOf(asked), links)

Way == TheWay /\ TheirOwn /\ TheLink

LEMMA PagesMean == ASSUME NEW a PROVE PagesOf(a) = {a} \cup {b \in Screens : Linked(a, b)}
BY DEF PagesOf, Linked

\* The same after a step.
LEMMA PagesMeanNext ==
    PagesOf(asked)' = {asked'} \cup {b \in Screens : Linked(asked, b)'}
BY DEF PagesOf, Linked

LEMMA SamePages ==
    ASSUME SameLinks, asked' = asked
    PROVE  PagesOf(asked)' = PagesOf(asked) /\ \A a, b : Linked(a, b)' <=> Linked(a, b)
<1>1. \A a, b : Linked(a, b)' <=> Linked(a, b)
  BY LinkedAsBefore
<1>2. \A b : Linked(asked, b)' <=> Linked(asked, b)
  BY <1>1
<1> QED
  BY <1>1, <1>2, PagesMean, PagesMeanNext

\* A popup's screen is no page of the main task's.
LEMMA NotTheirs ==
    ASSUME IInv, TheirOwn, NEW t \in Popups, guest[t].at # "none"
    PROVE  guest[t].mine \notin PagesOf(asked)
BY PagesMean DEF IInv, Together, TheirOwn

\* A step of another task, and a job that switches to nothing else.
LEMMA SameWay ==
    ASSUME TheWay, ~crossed' => ~crossed, \A t \in Popups : guest'[t] = guest[t],
           PagesOf(asked)' = PagesOf(asked),
           \A a, by : Leads(queue, current, a, by) => Leads(queue', current', a, by),
           NoSwitch(queue) => NoSwitch(queue') /\ current' = current
    PROVE  TheWay'
<1> SUFFICES ASSUME ~crossed' PROVE ToMain' \/ \E t \in Popups : ToPopup(t)'
  BY DEF TheWay
<1>1. CASE ToMain
  BY <1>1 DEF ToMain, Alone
<1>2. ASSUME NEW t \in Popups, ToPopup(t) PROVE ToPopup(t)'
  BY <1>2 DEF ToPopup, Alone, Settled
<1> QED
  BY <1>1, <1>2 DEF TheWay

\* A repaint is posted, or nothing.
LEMMA PostedRepaint ==
    ASSUME Types, TheWay, UNCHANGED current, ~crossed' => ~crossed,
           \A t \in Popups : guest'[t] = guest[t],
           PagesOf(asked)' = PagesOf(asked),
           \/ queue' = queue
           \/ \E j \in JobSet : j.is # "switch" /\ queue' = Append(queue, j)
    PROVE  TheWay'
<1>1. queue \in Seq(JobSet)
  BY DEF Types
<1>2. CASE queue' = queue
  BY <1>2, SameWay
<1>3. ASSUME NEW j \in JobSet, j.is # "switch", queue' = Append(queue, j) PROVE TheWay'
  <2>1. \A a, by : Leads(queue, current, a, by) => Leads(queue', current', a, by)
    BY <1>1, <1>3, LedOnByRepaint
  <2>2. NoSwitch(queue) => NoSwitch(queue')
    BY <1>1, <1>3, LedOnByRepaint
  <2> QED
    BY <2>1, <2>2, SameWay
<1> QED
  BY <1>2, <1>3

-----------------------------------------------------------------------------
(* Links that are followed *)

LEMMA OnStill ==
    ASSUME NEW q, NEW c, NEW P, NEW l, NEW m, AllOn(q, c, P, l),
           \A a, b : (a = c \/ \E k \in 1..Len(q) : a = q[k].to) /\ b \in Screens /\ <<a, b>> \in m
                => <<a, b>> \in l
    PROVE  AllOn(q, c, P, m)
<1>1. \A a : (a = c \/ \E k \in 1..Len(q) : a = q[k].to) /\ On(a, P, l) => On(a, P, m)
  BY DEF On
<1> QED
  BY <1>1 DEF AllOn

\* A job is posted: a repaint, a switch that stays on the pages, or one of the main task.
LEMMA OnPosted ==
    ASSUME NEW q \in Seq(JobSet), NEW j \in JobSet, NEW c, NEW P, NEW l,
           j.is = "switch" => On(j.to, P, l),
           AllOn(q, c, P, l) \/ (j.is = "switch" /\ j.by = "main")
    PROVE  AllOn(Append(q, j), c, P, l)
<1> DEFINE r == Append(q, j)
<1>1. /\ Len(r) = Len(q) + 1 /\ r[Len(q) + 1] = j /\ Len(q) \in Nat
      /\ \A k \in 1..Len(q) : r[k] = q[k]
  OBVIOUS
<1> HIDE DEF r
<1>2. ASSUME NEW k \in 1..(Len(q) + 1), NoMain(r, k)
      PROVE  NoMain(q, k) /\ ~(j.is = "switch" /\ j.by = "main")
  <2>1. Len(q) + 1 \in 1..Len(r) /\ Len(q) + 1 >= k
    BY <1>1
  <2>2. ~(j.is = "switch" /\ j.by = "main")
    BY <1>1, <1>2, <2>1 DEF NoMain
  <2>3. \A m \in 1..Len(q) : m \in 1..Len(r)
    BY <1>1
  <2>4. NoMain(q, k)
    BY <1>1, <1>2, <2>3 DEF NoMain
  <2> QED
    BY <2>2, <2>4
<1>3. NoMain(r, 1) => On(c, P, l)
  <2>1. 1 \in 1..(Len(q) + 1)
    BY <1>1
  <2> QED
    BY <1>2, <2>1 DEF AllOn
<1>4. ASSUME NEW k \in 1..Len(r), r[k].is = "switch", NoMain(r, k + 1) PROVE On(r[k].to, P, l)
  <2>1. CASE k = Len(q) + 1
    BY <1>1, <1>4, <2>1
  <2>2. CASE k \in 1..Len(q)
    <3>1. k + 1 \in 1..(Len(q) + 1)
      BY <1>1, <2>2
    <3>2. AllOn(q, c, P, l) /\ NoMain(q, k + 1)
      BY <1>2, <1>4, <3>1
    <3> QED
      BY <1>1, <1>4, <2>2, <3>2 DEF AllOn
  <2> QED
    BY <1>1, <2>1, <2>2
<1>5. AllOn(r, c, P, l)
  BY <1>3, <1>4 DEF AllOn
<1> QED
  BY <1>5 DEF r

\* The GUI task does the first job.
LEMMA OnServed ==
    ASSUME NEW q \in Seq(JobSet), q # <<>>, NEW c, NEW d, NEW P, NEW l, AllOn(q, c, P, l),
           d = IF Head(q).is = "switch" THEN Head(q).to ELSE c
    PROVE  AllOn(Tail(q), d, P, l)
<1> DEFINE r == Tail(q)
<1>1. /\ Len(q) \in Nat \ {0} /\ Len(r) = Len(q) - 1 /\ Head(q) = q[1] /\ 1 \in 1..Len(q)
      /\ \A k \in 1..Len(r) : k + 1 \in 1..Len(q) /\ r[k] = q[k + 1]
      /\ \A k \in 1..Len(q) : k # 1 => k - 1 \in 1..Len(r) /\ r[k - 1] = q[k]
  OBVIOUS
<1> HIDE DEF r
<1>2. ASSUME NEW k \in Nat \ {0}, NoMain(r, k) PROVE NoMain(q, k + 1)
  <2> SUFFICES ASSUME NEW m \in 1..Len(q), m >= k + 1, q[m].is = "switch" PROVE q[m].by # "main"
    BY DEF NoMain
  <2>1. m # 1 /\ m - 1 >= k
    BY <1>1
  <2>2. m - 1 \in 1..Len(r) /\ r[m - 1] = q[m]
    BY <1>1, <2>1
  <2> QED
    BY <1>2, <2>1, <2>2 DEF NoMain
<1>3. NoMain(r, 1) => On(d, P, l)
  <2> SUFFICES ASSUME NoMain(r, 1) PROVE On(d, P, l)
    OBVIOUS
  <2>1. NoMain(q, 1 + 1)
    BY <1>2
  <2>2. CASE q[1].is = "switch"
    BY <1>1, <2>1, <2>2 DEF AllOn
  <2>3. CASE q[1].is # "switch"
    <3>1. ASSUME NEW m \in 1..Len(q), m >= 1, q[m].is = "switch" PROVE q[m].by # "main"
      <4>1. m >= 1 + 1
        BY <2>3, <3>1
      <4> QED
        BY <2>1, <3>1, <4>1 DEF NoMain
    <3>2. NoMain(q, 1)
      BY <3>1 DEF NoMain
    <3> QED
      BY <1>1, <2>3, <3>2 DEF AllOn
  <2> QED
    BY <2>2, <2>3
<1>4. ASSUME NEW k \in 1..Len(r), r[k].is = "switch", NoMain(r, k + 1) PROVE On(r[k].to, P, l)
  <2>1. k + 1 \in 1..Len(q) /\ k + 1 \in Nat \ {0} /\ r[k] = q[k + 1]
    BY <1>1
  <2>2. NoMain(q, (k + 1) + 1)
    BY <1>2, <1>4, <2>1
  <2> QED
    BY <1>4, <2>1, <2>2 DEF AllOn
<1>5. AllOn(r, d, P, l)
  BY <1>3, <1>4 DEF AllOn
<1> QED
  BY <1>5 DEF r

\* A step that links no page to those that are shown or to be shown, and posts no switch,
\* or one to a page of the main task's or a screen that is none.
LEMMA SameLink ==
    ASSUME Types, TheLink, UNCHANGED current, ~crossed' => ~crossed,
           ~crossed' => link' \in {link, None} \cup PagesOf(asked),
           PagesOf(asked)' = PagesOf(asked),
           \A a, b : a = current \/ (\E k \in 1..Len(queue) : a = queue[k].to)
                => (Linked(a, b)' => Linked(a, b)),
           \/ queue' = queue
           \/ \E j \in JobSet : /\ queue' = Append(queue, j)
                                /\ j.is = "switch" /\ ~crossed' => On(j.to, PagesOf(asked), links')
    PROVE  TheLink'
<1> SUFFICES ASSUME ~crossed' PROVE AllOn(queue', current, PagesOf(asked), links')
  BY DEF TheLink
<1>1. queue \in Seq(JobSet)
  BY DEF Types
<1>2. AllOn(queue, current, PagesOf(asked), links')
  BY OnStill DEF TheLink, Linked
<1>3. ASSUME NEW j \in JobSet, queue' = Append(queue, j),
             j.is = "switch" => On(j.to, PagesOf(asked), links')
      PROVE  AllOn(queue', current, PagesOf(asked), links')
  BY <1>1, <1>2, <1>3, OnPosted
<1> QED
  BY <1>2, <1>3

-----------------------------------------------------------------------------
(* The steps *)

LEMMA WayGui == ASSUME IInv, Way, Gui PROVE TheWay' /\ TheLink'
<1> USE DEF screen, events, mains, Way
<1>1. queue \in Seq(JobSet)
  BY DEF IInv, Types
<1>2. CASE GuiTakes \/ GuiGives
  <2>1. UNCHANGED <<current, queue, links, asked, guest, link, crossed>>
    BY <1>2 DEF GuiTakes, GuiGives
  <2>2. PagesOf(asked)' = PagesOf(asked) /\ \A a, b : Linked(a, b)' <=> Linked(a, b)
    BY <2>1, SamePages DEF SameLinks
  <2> QED
    BY <2>1, <2>2, PostedRepaint, SameLink DEF IInv
<1>3. CASE GuiSwitches \/ GuiRepaints
  <2>1. /\ queue # <<>> /\ queue' = Tail(queue) /\ UNCHANGED <<asked, guest, link, crossed>>
        /\ current' = IF Head(queue).is = "switch" THEN Head(queue).to ELSE current
        /\ links' = {l \in links : l[1] \notin Head(queue).free} \/ links' = links
    BY <1>3 DEF GuiSwitches, GuiRepaints
  <2>2. \A a, by : Leads(queue, current, a, by) => Leads(queue', current', a, by)
    BY <1>1, <2>1, LedOn
  <2>3. NoSwitch(queue) => NoSwitch(queue') /\ current' = current
    BY <1>1, <2>1, LedOn
  <2>4. asked \notin Head(queue).free
    <3>1. 1 \in 1..Len(queue) /\ Head(queue) = queue[1] /\ queue[1] \in JobSet
      BY <1>1, <2>1
    <3>2. queue[1].free \cap existing = {} /\ queue[1].free \cap main.job.free = {}
      BY <3>1 DEF IInv, Apart
    <3>3. queue[1].free \subseteq Screens
      BY <3>1 DEF JobSet
    <3> QED
      BY <3>1, <3>2, <3>3 DEF IInv, Keeps, Types
  <2>5. PagesOf(asked)' = PagesOf(asked)
    <3>1. \A b : <<asked, b>> \in links' <=> <<asked, b>> \in links
      BY <2>1, <2>4
    <3> QED
      BY <2>1, <3>1 DEF PagesOf
  <2>6. TheLink'
    <3>1. ~crossed => AllOn(queue', current', PagesOf(asked), links)
      BY <1>1, <2>1, OnServed DEF TheLink
    <3>2. links' \subseteq links
      BY <2>1
    <3>3. ~crossed => AllOn(queue', current', PagesOf(asked), links')
      BY <3>1, <3>2, OnStill
    <3> QED
      BY <2>1, <2>5, <3>3 DEF TheLink
  <2> QED
    BY <2>1, <2>2, <2>3, <2>5, <2>6, SameWay
<1> QED
  BY <1>2, <1>3 DEF Gui

LEMMA WayMain == ASSUME IInv, Way, Main PROVE TheWay' /\ TheLink'
<1> USE DEF screen, events, mains, Way
<1>1. queue \in Seq(JobSet)
  BY DEF IInv, Types
<1>2. ASSUME NEW j \in JobSet, j.is = "switch", j.by = "main", PostSwitch(j) PROVE TheWay' /\ TheLink'
  <2>1. /\ queue' = Append(queue, j) /\ asked' = j.to /\ UNCHANGED <<current, guest, link, links>>
        /\ crossed' = (Deciding # {} \/ link # None)
    BY <1>2 DEF PostSwitch
  <2>2. j.to \in PagesOf(asked)'
    BY <2>1, PagesMeanNext
  <2>3. ~crossed' => ToMain'
    <3>1. Leads(queue', current', j.to, Anyone)
      BY <1>1, <1>2, <2>1, LedBySwitch DEF Anyone, Waiters
    <3>2. ~crossed' => Deciding = {}
      BY <2>1, Zenon
    <3> QED
      BY <2>1, <2>2, <3>1, <3>2 DEF ToMain, Deciding, GuestAt
  <2>4. ~crossed' => TheLink'
    <3>1. ~crossed' => link = None
      BY <2>1, Zenon
    <3>2. AllOn(queue', current', PagesOf(asked)', links')
      BY <1>1, <1>2, <2>1, <2>2, OnPosted DEF On
    <3> QED
      BY <2>1, <3>1, <3>2 DEF TheLink
  <2> QED
    BY <2>3, <2>4 DEF TheWay, TheLink
<1>3. CASE Post
  <2>1. main.job \in JobSet /\ main.job.is = "switch" /\ main.job.by = "main"
    BY <1>3 DEF IInv, Types, Keeps, Post, MainAt
  <2> QED
    BY <1>2, <1>3, <2>1 DEF Post
<1>4. CASE Show
  <2>1. PICK a \in own \cup {Home} : PostSwitch(Switch(a, {}, "main"))
    BY <1>4 DEF Show
  <2>2. a \in Activities /\ "main" \in Waiters \cup {"events"}
    BY DEF IInv, Types, Activities, Waiters
  <2> QED
    BY <1>2, <2>1, <2>2, PlainType
<1>5. CASE Make
  <2>1. PICK C \in SUBSET {a \in Screens : New(a)} : links' = links \cup {l \in C \X C : l[1] # l[2]}
    BY <1>5 DEF Make
  <2>2. UNCHANGED <<current, queue, asked, guest, link, crossed>>
    BY <1>5 DEF Make
  <2>3. asked \notin C /\ current \notin C /\ \A k \in 1..Len(queue) : queue[k].to \notin C
    BY <2>1, <1>1 DEF New, Known, Jobs
  <2>4. \A a, b : a \notin C => (Linked(a, b)' <=> Linked(a, b))
    BY <2>1 DEF Linked
  <2>5. PagesOf(asked)' = PagesOf(asked)
    <3>1. \A b : Linked(asked, b)' <=> Linked(asked, b)
      BY <2>2, <2>3, <2>4
    <3> QED
      BY <2>2, <3>1, PagesMean, PagesMeanNext
  <2> QED
    BY <2>2, <2>3, <2>4, <2>5, PostedRepaint, SameLink DEF IInv
<1>6. CASE ShowAlone \/ Wait \/ Waited \/ Update \/ Select \/ PostRepaint \/ PostSelection
  <2>1. /\ UNCHANGED <<current, asked, guest, link, crossed>>
        /\ links' = links \/ links' = links \cup {<<asked, "main">>}
        /\ queue' = queue \/ queue' = Append(queue, main.job) \/ queue' = Append(queue, Repaint(asked, "main"))
        /\ queue' = Append(queue, main.job) => queue' = queue \/ main.at = "update" \/ queue' = Append(queue, Repaint(asked, "main"))
    BY <1>6 DEF ShowAlone, Wait, Waited, Update, UpdateWith, Select, PostRepaint, PostSelection,
                MainAt, Listen, ListenIf
  <2>2. Repaint(asked, "main") \in JobSet /\ Repaint(asked, "main").is # "switch"
    BY RepaintType DEF IInv, Types
  <2>3. main.job \in JobSet /\ (main.at = "update" => main.job.is # "switch")
    BY DEF IInv, Types, Keeps
  <2>4. PagesOf(asked)' = PagesOf(asked) /\ \A a, b : Linked(a, b)' <=> Linked(a, b)
    BY <2>1, SamePages DEF SameLinks, Waiters
  <2>5. queue' = queue \/ \E j \in JobSet : j.is # "switch" /\ queue' = Append(queue, j)
    BY <2>1, <2>2, <2>3
  <2> QED
    BY <2>1, <2>4, <2>5, PostedRepaint, SameLink DEF IInv
<1> QED
  BY <1>3, <1>4, <1>5, <1>6 DEF Main

LEMMA WayInput == ASSUME IInv, Way, Input PROVE TheWay' /\ TheLink'
<1> USE DEF screen, events, mains, Way
<1>1. queue \in Seq(JobSet)
  BY DEF IInv, Types
<1>2. CASE Turn \/ Click \/ MoveSelection
  <2>1. /\ UNCHANGED <<current, asked, guest, link, links, crossed>>
        /\ queue' = queue \/ (queue' = Append(queue, Repaint(input, "input")) /\ input # None)
    BY <1>2 DEF Turn, Click, MoveSelection
  <2>2. input # None => Repaint(input, "input") \in JobSet /\ Repaint(input, "input").is # "switch"
    BY RepaintType DEF IInv, Types
  <2>3. PagesOf(asked)' = PagesOf(asked) /\ \A a, b : Linked(a, b)' <=> Linked(a, b)
    BY <2>1, SamePages DEF SameLinks
  <2>4. queue' = queue \/ \E j \in JobSet : j.is # "switch" /\ queue' = Append(queue, j)
    BY <2>1, <2>2
  <2> QED
    BY <2>1, <2>3, <2>4, PostedRepaint, SameLink DEF IInv
<1>3. CASE FollowLink
  <2>1. /\ UNCHANGED <<current, queue, asked, guest, links>>
        /\ <<current, link'>> \in registered /\ link' \in Screens
        /\ ~crossed' => ~crossed /\ NoMain(queue, 1)
    <3>1. ~crossed' => ~crossed /\ ~\E k \in DOMAIN queue : queue[k].is = "switch" /\ queue[k].by = "main"
      BY <1>3, Zenon DEF FollowLink
    <3> QED
      BY <1>1, <1>3, <3>1 DEF FollowLink, NoMain
  <2>2. PagesOf(asked)' = PagesOf(asked) /\ \A a, b : Linked(a, b)' <=> Linked(a, b)
    BY <2>1, SamePages DEF SameLinks
  <2>3. Linked(current, link')
    BY <2>1 DEF IInv, Registered, Linked
  <2>4. ~crossed' => link' \in PagesOf(asked)
    <3> SUFFICES ASSUME ~crossed' PROVE link' \in PagesOf(asked)
      OBVIOUS
    <3>1. current \in PagesOf(asked)
      BY <2>1, <2>3 DEF TheLink, AllOn, On, Linked
    <3>2. current = asked \/ Linked(asked, current)
      BY <3>1, PagesMean
    <3>3. ASSUME NEW b, b = link', Linked(current, b) PROVE b = asked \/ Linked(asked, b)
      BY <3>2, <3>3 DEF IInv, Together
    <3> QED
      BY <2>1, <2>3, <3>3, PagesMean
  <2> QED
    BY <2>1, <2>2, <2>4, PostedRepaint, SameLink DEF IInv
<1>4. CASE PostLinked
  <2> DEFINE j == Switch(link, {}, "events")
  <2>1. /\ UNCHANGED <<current, asked, guest, links, crossed>>
        /\ link # None /\ link' = None /\ queue' = Append(queue, j)
    BY <1>4 DEF PostLinked
  <2>2. j \in JobSet /\ j.is = "switch" /\ j.to = link /\ j.by \in Anyone
    <3>1. link \in Activities /\ "events" \in Waiters \cup {"events"}
      BY <2>1 DEF IInv, Types, Activities
    <3> QED
      BY <3>1, PlainType DEF Anyone
  <2> HIDE DEF j
  <2>3. PagesOf(asked)' = PagesOf(asked) /\ \A a, b : Linked(a, b)' <=> Linked(a, b)
    BY <2>1, SamePages DEF SameLinks
  <2>4. ~crossed => link \in PagesOf(asked)
    BY <2>1 DEF TheLink
  <2>5. TheLink'
    BY <2>1, <2>2, <2>3, <2>4, SameLink DEF IInv, On
  <2>6. TheWay'
    <3> SUFFICES ASSUME ~crossed PROVE ToMain' \/ \E t \in Popups : ToPopup(t)'
      BY <2>1 DEF TheWay
    <3>1. Leads(queue', current', link, Anyone)
      BY <1>1, <2>1, <2>2, LedBySwitch
    <3>2. CASE ToMain
      BY <2>1, <2>3, <2>4, <3>1, <3>2 DEF ToMain, Alone
    <3>3. ASSUME NEW t \in Popups, ToPopup(t) PROVE ToMain' \/ ToPopup(t)'
      <4>1. CASE guest[t].at = "restore"
        BY <2>1, <2>3, <3>3, <4>1 DEF ToPopup, Alone
      <4>2. CASE guest[t].at # "restore"
        <5>1. \A o \in Popups : guest[o].at \notin {"open", "restore"}
          BY <3>3, <4>2 DEF ToPopup, Alone
        <5> QED
          BY <2>1, <2>3, <2>4, <3>1, <5>1 DEF ToMain
      <4> QED
        BY <4>1, <4>2
    <3> QED
      BY <3>2, <3>3 DEF TheWay
  <2> QED
    BY <2>5, <2>6
<1> QED
  BY <1>2, <1>3, <1>4 DEF Input

LEMMA GuestOnly ==
    ASSUME IInv, NEW t \in Guests, Guest(t)
    PROVE  /\ guest' = [guest EXCEPT ![t] = guest'[t]] /\ \A o \in Guests \ {t} : guest'[o] = guest[o]
           /\ UNCHANGED <<current, asked, own, link>> /\ SameLinks
<1> USE DEF screen, events, mains, GuestAt, GuestGoes
<1>1. t \in DOMAIN guest /\ t \in Waiters /\ guest[t] \in GuestType
  BY DEF IInv, Types, Waiters
<1>2. guest' = [guest EXCEPT ![t] = guest'[t]] /\ UNCHANGED <<current, asked, own, link>>
  BY <1>1 DEF IInv, Types, GuestType, Guest, Open, PutUp, Await, Answered, TakeDown, TakeDownIf, Restore,
              ClientMakes, ShowAgain, Draw, PostDrawn, ClientEnds, MakeOwn
<1>3. SameLinks
  BY <1>1 DEF Guest, Open, PutUp, Await, Answered, TakeDown, TakeDownIf, Restore, ClientMakes, ShowAgain,
              Draw, PostDrawn, ClientEnds, MakeOwn, SameLinks, Listen, ListenIf
<1> QED
  BY <1>2, <1>3 DEF IInv, Types

\* Only the guest itself moves; what a popup is is known from how far it has come.
LEMMA WayGuest == ASSUME IInv, Way, NEW t \in Guests, Guest(t) PROVE TheWay' /\ TheLink'
<1> USE DEF screen, events, mains, GuestAt, GuestGoes, Way
<1>1. /\ queue \in Seq(JobSet) /\ t \in DOMAIN guest /\ t \in Waiters
      /\ guest[t] = [at |-> guest[t].at, mine |-> guest[t].mine, prior |-> guest[t].prior]
  BY DEF IInv, Types, GuestType, Waiters
<1>2. guest' = [guest EXCEPT ![t] = guest'[t]] /\ asked' = asked /\ (~crossed' => ~crossed)
  <2>1. ~crossed' => ~crossed
    <3>1. CASE Open(t) \/ PutUp(t)
      BY <3>1, Zenon DEF Open, PutUp
    <3>2. CASE TakeDown(t)
      BY <3>2, Zenon DEF TakeDown, TakeDownIf
    <3>3. CASE \/ Await(t) \/ Answered(t) \/ Restore(t) \/ ClientMakes(t)
               \/ ShowAgain(t) \/ Draw(t) \/ PostDrawn(t) \/ ClientEnds(t)
      BY <3>3, Zenon DEF Await, Answered, Restore, ClientMakes, ShowAgain, Draw, PostDrawn, ClientEnds
    <3> QED
      BY <3>1, <3>2, <3>3 DEF Guest
  <2> QED
    BY <2>1, GuestOnly
<1>3. \A o \in Guests \ {t} : guest'[o] = guest[o]
  BY GuestOnly
<1>l. SameLinks /\ UNCHANGED <<current, link>>
  BY GuestOnly
<1>p. PagesOf(asked)' = PagesOf(asked) /\ \A a, b : Linked(a, b)' <=> Linked(a, b)
  BY <1>2, <1>l, SamePages
<1>s. ASSUME queue' = queue PROVE TheLink'
  BY <1>2, <1>l, <1>p, <1>s, SameLink DEF IInv
<1>c. ASSUME t \in Clients PROVE TheWay' /\ TheLink'
  <2>1. \A u \in Popups : guest'[u] = guest[u] /\ u # t
    BY <1>3, <1>c, GuiAssumption DEF Guests
  <2>2. CASE PutUp(t)
    BY <1>c, <2>2, Zenon DEF PutUp, TheWay, TheLink
  <2>3. CASE ~PutUp(t)
    <3>1. queue' = queue \/ (queue' = Append(queue, Repaint(guest[t].mine, t)) /\ guest[t].at = "draw")
      BY <1>c, <2>1, <2>3 DEF Guest, Open, Await, Answered, TakeDown, TakeDownIf, Restore, ClientMakes,
         ShowAgain, Draw, PostDrawn, ClientEnds, MakeOwn, IInv, Types
    <3>2. guest[t].at = "draw" => /\ Repaint(guest[t].mine, t) \in JobSet
                                  /\ Repaint(guest[t].mine, t).is # "switch"
      <4>1. guest[t].at = "draw" => guest[t].mine \in Activities
        BY DEF IInv, Types, Activities
      <4> QED
        BY <1>c, <4>1, RepaintType
    <3>3. queue' = queue \/ \E j \in JobSet : j.is # "switch" /\ queue' = Append(queue, j)
      BY <3>1, <3>2
    <3> QED
      BY <1>2, <1>l, <1>p, <2>1, <3>3, PostedRepaint, SameLink DEF IInv
  <2> QED
    BY <2>2, <2>3
<1> SUFFICES ASSUME t \in Popups, ~crossed' PROVE (ToMain' \/ \E u \in Popups : ToPopup(u)') /\ TheLink'
  BY <1>c DEF TheWay, TheLink, Guests
<1>4. ToMain \/ \E u \in Popups : ToPopup(u)
  BY <1>2 DEF TheWay
<1>5. guest[t].at # "none" => ToMain \/ ToPopup(t)
  <2>1. ASSUME NEW u \in Popups, ToPopup(u), u # t PROVE guest[t].at = "none"
    BY <2>1 DEF ToPopup, Alone
  <2> QED
    BY <1>4, <2>1
<1>o. ASSUME Alone(t) PROVE Alone(t)' /\ \A o \in Popups \ {t} : guest'[o].at = "none"
  BY <1>3, <1>o DEF Alone, Guests
<1>6. CASE Open(t)
  <2>0. ~Pending /\ Alone(t)
    BY <1>6, Zenon DEF Open, Alone
  <2>1. /\ queue' = queue /\ guest[t].at = "none" /\ guest'[t].at = "open" /\ guest'[t].prior = current
    BY <1>1, <1>6 DEF Open, MakeOwn
  <2>2. NoSwitch(queue)
    BY <1>1, <2>0 DEF Pending, NoSwitch
  <2>3. ToMain
    BY <1>4, <2>0, <2>1 DEF ToPopup, Alone
  <2>4. current \in PagesOf(asked)
    BY <2>2, <2>3 DEF ToMain, Leads, NoSwitch, LastSwitch
  <2>5. ToMain'
    BY <1>l, <1>p, <1>o, <2>0, <2>1, <2>3, <2>4 DEF ToMain
  <2> QED
    BY <1>s, <2>1, <2>5
<1>7. CASE PutUp(t)
  <2> DEFINE j == Switch(guest[t].mine, {}, t)
  <2>1. /\ guest[t].at = "open" /\ queue' = Append(queue, j)
        /\ guest'[t].at = "up" /\ guest'[t].mine = guest[t].mine /\ guest'[t].prior = guest[t].prior
    BY <1>1, <1>7 DEF PutUp
  <2>2. ToMain
    BY <1>5, <2>1 DEF ToPopup
  <2>3. j \in JobSet /\ j.is = "switch" /\ j.by \in {t} /\ j.to = guest[t].mine
    <3>1. guest[t].mine \in Activities
      BY <2>1 DEF IInv, Types, Activities
    <3> QED
      BY <3>1, <1>1, PlainType
  <2> HIDE DEF j
  <2>4. Leads(queue', current', guest'[t].mine, {t})
    BY <1>1, <1>l, <2>1, <2>3, LedBySwitch
  <2>5. guest[t].prior \in PagesOf(asked) /\ Alone(t)
    BY <2>1, <2>2 DEF ToMain
  <2>6. TheLink'
    <3>1. On(j.to, PagesOf(asked), links')
      BY <2>1, <2>3, <1>p DEF TheirOwn, On, Linked
    <3> QED
      BY <1>2, <1>l, <1>p, <2>1, <2>3, <3>1, SameLink DEF IInv
  <2> QED
    BY <1>p, <1>o, <2>1, <2>4, <2>5, <2>6 DEF ToPopup
<1>8. CASE Await(t) \/ Answered(t)
  <2>1. /\ queue' = queue /\ guest[t].at \in {"up", "wait"}
        /\ guest'[t].at \in {"wait", "check"}
        /\ guest'[t].mine = guest[t].mine /\ guest'[t].prior = guest[t].prior
        /\ guest'[t].at = "check" => \A k \in 1..Len(queue) : queue[k].by # t
    BY <1>1, <1>8, GuiAssumption DEF Await, Answered
  <2>2. CASE ToMain
    <3>1. \A o \in Popups : guest'[o].at # "open"
      <4> SUFFICES ASSUME NEW o \in Popups, guest'[o].at = "open" PROVE FALSE
        OBVIOUS
      <4>1. o # t /\ guest[o].at = "open"
        BY <1>3, <2>1 DEF Guests
      <4>2. guest[t].at = "none"
        BY <2>2, <4>1 DEF ToMain, Alone
      <4> QED
        BY <2>1, <4>2
    <3>2. \A o \in Popups : guest'[o].at # "restore"
      BY <1>3, <2>1, <2>2 DEF ToMain, Guests
    <3>3. ToMain'
      BY <1>l, <1>p, <2>1, <2>2, <3>1, <3>2 DEF ToMain
    <3> QED
      BY <1>s, <2>1, <3>3
  <2>3. CASE ToPopup(t)
    <3>1. guest'[t].at = "check" => Settled(guest[t].mine)
      BY <2>1, <2>3 DEF ToPopup, Leads, Settled
    <3>2. ToPopup(t)'
      BY <1>l, <1>p, <1>o, <2>1, <2>3, <3>1 DEF ToPopup, Settled
    <3> QED
      BY <1>s, <2>1, <3>2
  <2> QED
    BY <1>5, <2>1, <2>2, <2>3
<1>9. CASE TakeDown(t)
  <2>1. queue' = queue /\ guest[t].at = "check"
    BY <1>9 DEF TakeDown, TakeDownIf
  <2>2. CASE current = guest[t].mine
    <3>0. ~Pending
      BY <1>9, <2>2, Zenon DEF TakeDown, TakeDownIf
    <3>1. guest'[t].at = "restore" /\ guest'[t].mine = guest[t].mine /\ guest'[t].prior = guest[t].prior
      BY <1>1, <1>9, <2>2 DEF TakeDown, TakeDownIf
    <3>2. NoSwitch(queue)
      BY <1>1, <3>0 DEF Pending, NoSwitch
    <3>3. ~ToMain
      BY <2>1, <2>2, <3>2, NotTheirs DEF ToMain, Leads, NoSwitch, LastSwitch
    <3>4. ToPopup(t)
      BY <1>5, <2>1, <3>3
    <3>5. ToPopup(t)'
      BY <1>p, <1>o, <3>1, <3>4 DEF ToPopup
    <3> QED
      BY <1>s, <2>1, <3>5
  <2>3. CASE current # guest[t].mine
    <3>1. guest'[t].at = "none"
      BY <1>1, <1>9, <2>3 DEF TakeDown, TakeDownIf, NoGuest
    <3>2. ToMain
      BY <1>5, <2>1, <2>3 DEF ToPopup, Settled
    <3>3. \A o \in Popups : guest'[o] = guest[o] \/ guest'[o].at = "none"
      BY <1>3, <3>1 DEF Guests
    <3>4. \A o \in Popups : guest[o].at = "open" /\ Alone(o) => Alone(o)'
      BY <3>3 DEF Alone
    <3>5. ToMain'
      BY <1>l, <1>p, <2>1, <3>2, <3>3, <3>4 DEF ToMain
    <3> QED
      BY <1>s, <2>1, <3>5
  <2> QED
    BY <2>2, <2>3
<1>10. CASE Restore(t)
  <2> DEFINE j == Switch(guest[t].prior, {}, t)
  <2>1. guest[t].at = "restore" /\ queue' = Append(queue, j) /\ guest'[t].at = "none"
    BY <1>1, <1>10 DEF Restore, NoGuest
  <2>2. ToPopup(t)
    BY <1>5, <2>1 DEF ToMain
  <2>3. j \in JobSet /\ j.is = "switch" /\ j.by \in Anyone /\ j.to \in PagesOf(asked) /\ j.to = guest[t].prior
    <3>1. guest[t].prior \in Activities /\ guest[t].prior \in PagesOf(asked)
      BY <2>1, <2>2 DEF IInv, Types, ToPopup
    <3> QED
      BY <3>1, <1>1, PlainType DEF Anyone
  <2> HIDE DEF j
  <2>4. Leads(queue', current', j.to, Anyone)
    BY <1>1, <1>l, <2>1, <2>3, LedBySwitch
  <2>5. \A o \in Popups : guest'[o].at = "none"
    BY <1>o, <2>1, <2>2 DEF ToPopup
  <2>6. TheLink'
    BY <1>2, <1>l, <1>p, <2>1, <2>3, SameLink DEF IInv, On
  <2>7. ToMain'
    BY <1>p, <2>3, <2>4, <2>5 DEF ToMain
  <2> QED
    BY <2>6, <2>7
<1>11. CASE ClientMakes(t) \/ ShowAgain(t) \/ Draw(t) \/ PostDrawn(t) \/ ClientEnds(t)
  BY <1>11, GuiAssumption DEF ClientMakes, ShowAgain, Draw, PostDrawn, ClientEnds, IInv, Types
<1> QED
  BY <1>6, <1>7, <1>8, <1>9, <1>10, <1>11 DEF Guest

\* The main task makes and asks for screens of its own, and a popup one that nobody has.
LEMMA TheirOwnStep == ASSUME IInv, TheirOwn, [Next]_vars PROVE TheirOwn'
<1> USE DEF screen, events, mains
<1>k. ASSUME own' \cup {asked'} \subseteq own \cup {asked, Home}, \A a, b : Linked(a, b)' => Linked(a, b),
             \A t \in Popups : guest'[t].at = "none" \/ (guest[t].at # "none" /\ guest'[t].mine = guest[t].mine)
      PROVE  TheirOwn'
  <2> SUFFICES ASSUME NEW t \in Popups, guest'[t].at # "none"
               PROVE  guest'[t].mine \notin own' \cup {asked'} /\ \A b : ~Linked(guest[t].mine, b)'
    BY DEF TheirOwn
  <2>1. guest[t].at # "none" /\ guest'[t].mine = guest[t].mine /\ guest[t].mine \in Screens
    BY <1>k DEF IInv, Types, Guests
  <2>2. guest[t].mine \notin own \cup {asked, Home} /\ \A b : ~Linked(guest[t].mine, b)
    BY <2>1, GuiAssumption DEF TheirOwn
  <2>3. ASSUME NEW a, a = guest[t].mine PROVE \A b : ~Linked(a, b)'
    BY <1>k, <2>2, <2>3
  <2> QED
    BY <1>k, <2>1, <2>2, <2>3 DEF Linked
<1>1. CASE Gui
  <2>1. UNCHANGED <<own, asked, guest>> /\ links' \subseteq links
    BY <1>1 DEF Gui, GuiTakes, GuiSwitches, GuiRepaints, GuiGives
  <2> QED
    BY <1>k, <2>1 DEF Linked
<1>2. CASE Main
  <2>1. CASE Make
    <3>1. PICK C \in SUBSET {a \in Screens : New(a)} :
            own' = own \cup C /\ links' = links \cup {l \in C \X C : l[1] # l[2]}
      BY <2>1 DEF Make
    <3>2. UNCHANGED <<asked, guest>>
      BY <2>1 DEF Make
    <3>3. \A t \in Popups : guest[t].mine \notin C
      BY <3>1 DEF New, Known, Guests
    <3>4. \A a, b : a \notin C => (Linked(a, b)' <=> Linked(a, b))
      BY <3>1 DEF Linked
    <3> QED
      BY <3>1, <3>2, <3>3, <3>4 DEF TheirOwn
  <2>2. CASE ~Make
    <3>1. guest' = guest /\ SameLinks
      BY <1>2, <2>2 DEF Main, Show, ShowAlone, Post, PostSwitch, Wait, Waited, Update, UpdateWith, PostRepaint,
         Select, PostSelection, SameLinks, Listen, ListenIf, Waiters
    <3>2. own' \cup {asked'} \subseteq own \cup {asked, Home}
      <4>1. CASE Post
        BY <4>1 DEF Post, PostSwitch, MainAt, IInv, Keeps
      <4>2. CASE Show
        BY <4>2 DEF Show, PostSwitch, Switch
      <4>3. CASE ShowAlone
        BY <4>3 DEF ShowAlone
      <4>4. CASE Wait \/ Waited \/ Update \/ PostRepaint \/ Select \/ PostSelection
        BY <4>4 DEF Wait, Waited, Update, UpdateWith, PostRepaint, Select, PostSelection
      <4> QED
        BY <1>2, <2>2, <4>1, <4>2, <4>3, <4>4 DEF Main
    <3> QED
      BY <1>k, <3>1, <3>2, LinkedAsBefore
  <2> QED
    BY <2>1, <2>2
<1>3. ASSUME NEW t \in Guests, Guest(t) PROVE TheirOwn'
  <2>1. /\ UNCHANGED <<own, asked>> /\ SameLinks
        /\ \A o \in Guests \ {t} : guest'[o] = guest[o]
    BY <1>3, GuestOnly
  <2>2. CASE Open(t)
    <3>1. PICK a \in Screens : New(a) /\ guest'[t].mine = a
      BY <2>2 DEF Open, MakeOwn, IInv, Types
    <3>2. a \notin own \cup {asked} /\ \A b : ~Linked(a, b)
      BY <3>1, NoFreedPage DEF New, Known, Freed, IInv, Types
    <3>3. \A c, b : Linked(c, b)' <=> Linked(c, b)
      BY <2>1, LinkedAsBefore
    <3> QED
      BY <2>1, <3>1, <3>2, <3>3 DEF TheirOwn, Guests
  <2>3. CASE t \in Popups /\ ~Open(t)
    <3>1. guest[t].at # "none" /\ (guest'[t].at = "none" \/ guest'[t].mine = guest[t].mine)
      BY <1>3, <2>3, GuiAssumption DEF Guest, PutUp, Await, Answered, TakeDown, TakeDownIf, Restore, ClientMakes,
         ShowAgain, Draw, PostDrawn, ClientEnds, GuestAt, GuestGoes, NoGuest, IInv, Types, GuestType
    <3>2. \A o \in Popups : guest'[o].at = "none" \/ (guest[o].at # "none" /\ guest'[o].mine = guest[o].mine)
      BY <2>1, <3>1 DEF Guests
    <3> QED
      BY <1>k, <2>1, <3>2, LinkedAsBefore
  <2>4. CASE t \notin Popups
    <3>1. \A o \in Popups : guest'[o] = guest[o]
      BY <2>1, <2>4 DEF Guests
    <3> QED
      BY <1>k, <2>1, <3>1, LinkedAsBefore
  <2> QED
    BY <2>2, <2>3, <2>4
<1>4. CASE Input
  <2>1. UNCHANGED <<own, asked, guest, links>>
    BY <1>4 DEF Input, Turn, MoveSelection, Click, FollowLink, PostLinked
  <2> QED
    BY <1>k, <2>1 DEF Linked
<1>5. CASE Restart
  BY <1>5 DEF Restart, NoGuest, TheirOwn, Guests
<1>6. CASE UNCHANGED vars
  <2>1. UNCHANGED <<own, asked, guest, links>>
    BY <1>6 DEF vars
  <2> QED
    BY <1>k, <2>1 DEF Linked
<1> QED
  BY <1>1, <1>2, <1>3, <1>4, <1>5, <1>6 DEF Next

LEMMA WayStep == IInv /\ Way /\ [Next]_vars => Way'
<1> SUFFICES ASSUME IInv, Way, [Next]_vars PROVE TheWay' /\ TheLink'
  BY TheirOwnStep DEF Way
<1>1. CASE Restart
  <2>1. /\ queue' = <<>> /\ current' = asked' /\ link' = None
        /\ guest' = [t \in Guests |-> NoGuest]
    BY <1>1 DEF Restart
  <2>2. asked' \in PagesOf(asked)'
    BY PagesMeanNext
  <2>3. Leads(queue', current', asked', Anyone) /\ AllOn(queue', current', PagesOf(asked)', links')
    BY <2>1, <2>2 DEF Leads, NoSwitch, AllOn, On
  <2>4. \A t \in Popups : guest'[t].at = "none"
    BY <2>1 DEF NoGuest, Guests
  <2> QED
    BY <2>1, <2>2, <2>3, <2>4 DEF TheWay, ToMain, TheLink
<1>2. CASE UNCHANGED vars
  <2>1. UNCHANGED <<current, queue, links, asked, guest, link, crossed>>
    BY <1>2 DEF vars, screen, events, mains
  <2>2. PagesOf(asked)' = PagesOf(asked) /\ \A a, b : Linked(a, b)' <=> Linked(a, b)
    BY <2>1, SamePages DEF SameLinks
  <2> QED
    BY <2>1, <2>2, PostedRepaint, SameLink DEF IInv, Way
<1> QED
  BY <1>1, <1>2, WayGui, WayMain, WayGuest, WayInput DEF Next

LEMMA WayInit == Init => Way
<1> SUFFICES ASSUME Init PROVE Way
  OBVIOUS
<1>1. queue = <<>> /\ current = asked /\ link = None /\ guest = [t \in Guests |-> NoGuest]
  BY DEF Init
<1>2. asked \in PagesOf(asked)
  BY PagesMean
<1>3. Leads(queue, current, asked, Anyone) /\ AllOn(queue, current, PagesOf(asked), links)
  BY <1>1, <1>2 DEF Leads, NoSwitch, AllOn, On
<1>4. \A t \in Popups : guest[t].at = "none"
  BY <1>1 DEF NoGuest, Guests
<1> QED
  BY <1>1, <1>2, <1>3, <1>4 DEF Way, TheWay, ToMain, TheLink, TheirOwn

-----------------------------------------------------------------------------
(* Types of what the invariant above does not speak of *)

Rest ==
    /\ Len(queue) <= QueueSize /\ mutex \in {"none", "gui", "main"}
    /\ links \subseteq Activities \X (Waiters \cup Screens) /\ crossed \in BOOLEAN

LEMMA RestInv == IInv /\ Rest /\ [Next]_vars => Rest'
<1> SUFFICES ASSUME IInv, Rest, [Next]_vars PROVE Rest'
  OBVIOUS
<1> USE DEF screen, events, mains
<1>q. queue \in Seq(JobSet) /\ QueueSize \in Nat \ {0} /\ Len(queue) \in Nat
  BY GuiAssumption DEF IInv, Types
<1>1. Len(queue') <= QueueSize
  <2>1. Len(queue) <= QueueSize
    BY DEF Rest
  <2>2. \A j : Len(queue) < QueueSize => Len(Append(queue, j)) <= QueueSize
    BY <1>q
  <2>3. queue # <<>> => Len(Tail(queue)) <= QueueSize
    BY <1>q, <2>1
  <2>4. \/ queue' = queue
        \/ queue' = <<>>
        \/ queue # <<>> /\ queue' = Tail(queue)
        \/ Room /\ \E j : queue' = Append(queue, j)
    <3>1. CASE Gui
      BY <3>1 DEF Gui, GuiTakes, GuiSwitches, GuiRepaints, GuiGives
    <3>2. CASE Main
      BY <3>2 DEF Main, Make, Show, ShowAlone, Post, PostSwitch, Wait, Waited, Update, UpdateWith,
                  PostRepaint, Select, PostSelection
    <3>3. ASSUME NEW t \in Guests, Guest(t)
          PROVE  queue' = queue \/ (Room /\ \E j : queue' = Append(queue, j))
      BY <3>3 DEF Guest, Open, PutUp, Await, Answered, TakeDown, TakeDownIf, Restore,
                  ClientMakes, ShowAgain, Draw, PostDrawn, ClientEnds, MakeOwn
    <3>4. CASE Input
      BY <3>4 DEF Input, Turn, MoveSelection, Click, FollowLink, PostLinked
    <3>5. CASE Restart \/ UNCHANGED vars
      BY <3>5 DEF Restart, vars
    <3> QED
      BY <3>1, <3>2, <3>3, <3>4, <3>5 DEF Next
  <2>5. Len(<<>>) <= QueueSize
    BY <1>q
  <2> QED
    BY <2>1, <2>2, <2>3, <2>4, <2>5 DEF Room
<1>2. links' \subseteq Activities \X (Waiters \cup Screens)
  <2>1. \/ links' \subseteq links
        \/ links' \subseteq links \cup (Screens \X Screens)
        \/ \E t \in Waiters, a \in Activities : links' = links \cup {<<a, t>>}
    <3>1. CASE Gui
      BY <3>1 DEF Gui, GuiTakes, GuiSwitches, GuiRepaints, GuiGives
    <3>2. CASE Wait
      BY <3>2 DEF Wait, Listen, ListenIf, IInv, Types, Waiters
    <3>3. CASE Make
      <4>1. PICK C \in SUBSET {a \in Screens : New(a)} : links' = links \cup {l \in C \X C : l[1] # l[2]}
        BY <3>3 DEF Make
      <4> QED
        BY <4>1
    <3>4. CASE Main /\ ~Wait /\ ~Make
      BY <3>4 DEF Main, Show, ShowAlone, Post, PostSwitch, Waited, Update, UpdateWith,
                  PostRepaint, Select, PostSelection
    <3>5. ASSUME NEW t \in Guests, Guest(t)
          PROVE  \/ links' = links
                 \/ guest[t].mine \in Activities /\ links' = links \cup {<<guest[t].mine, t>>}
      <4>1. CASE Await(t)
        BY <4>1 DEF Await, GuestAt, Listen, ListenIf, IInv, Types, Activities
      <4>2. CASE ~Await(t)
        BY <3>5, <4>2 DEF Guest, Open, PutUp, Answered, TakeDown, TakeDownIf, Restore,
                  ClientMakes, ShowAgain, Draw, PostDrawn, ClientEnds, MakeOwn
      <4> QED
        BY <4>1, <4>2
    <3>6. CASE Input
      BY <3>6 DEF Input, Turn, MoveSelection, Click, FollowLink, PostLinked
    <3>7. CASE Restart \/ UNCHANGED vars
      BY <3>7 DEF Restart, vars
    <3> QED
      BY <3>1, <3>2, <3>3, <3>4, <3>5, <3>6, <3>7 DEF Next, Waiters, Activities
  <2>2. links \subseteq Activities \X (Waiters \cup Screens)
    BY DEF Rest
  <2>3. Screens \X Screens \subseteq Activities \X (Waiters \cup Screens)
    BY DEF Activities
  <2>4. ASSUME NEW t \in Waiters, NEW a \in Activities PROVE <<a, t>> \in Activities \X (Waiters \cup Screens)
    OBVIOUS
  <2> HIDE DEF Activities
  <2> QED
    BY <2>1, <2>2, <2>3, <2>4
<1>3. mutex' \in {"none", "gui", "main"} /\ crossed' \in BOOLEAN
  <2> USE DEF Rest
  <2>1. CASE Gui
    BY <2>1 DEF Gui, GuiTakes, GuiSwitches, GuiRepaints, GuiGives
  <2>2. CASE Main
    BY <2>2 DEF Main, Make, Show, ShowAlone, Post, PostSwitch, Wait, Waited, Update, UpdateWith,
                PostRepaint, Select, PostSelection
  <2>3. ASSUME NEW t \in Guests, Guest(t) PROVE mutex' = mutex /\ crossed' \in BOOLEAN
    BY <2>3 DEF Guest, Open, PutUp, Await, Answered, TakeDown, TakeDownIf, Restore,
                  ClientMakes, ShowAgain, Draw, PostDrawn, ClientEnds, MakeOwn
  <2>4. CASE Input
    BY <2>4 DEF Input, Turn, MoveSelection, Click, FollowLink, PostLinked
  <2>5. CASE Restart \/ UNCHANGED vars
    BY <2>5 DEF Restart, vars
  <2> QED
    BY <2>1, <2>2, <2>3, <2>4, <2>5 DEF Next
<1> QED
  BY <1>1, <1>2, <1>3 DEF Rest

LEMMA RestInit == Init => Rest
<1> SUFFICES ASSUME Init PROVE Rest
  OBVIOUS
<1>1. queue = <<>> /\ mutex = "none" /\ links = {} /\ crossed = FALSE
  BY DEF Init
<1>2. Len(queue) <= QueueSize
  <2>1. Len(queue) = 0 /\ QueueSize \in Nat
    BY <1>1, GuiAssumption
  <2> QED
    BY <2>1
<1> QED
  BY <1>1, <1>2 DEF Rest

\* Every variable keeps its type, and the queue its size.
THEOREM TypeCorrect == Spec => []TypeOK
<1>1. IInv /\ Rest => TypeOK
  <2> SUFFICES ASSUME IInv, Rest PROVE TypeOK
    OBVIOUS
  <2>1. Types /\ registered \subseteq links
    BY DEF IInv, Registered
  <2>2. Activities = Screens \cup {Home} /\ Activities \cup {None} = Screens \cup {Home, None}
    BY DEF Activities
  <2> QED
    BY <2>1, <2>2 DEF Types, GuestType, Rest, TypeOK
<1> QED
  BY <1>1, InitInv, NextInv, RestInit, RestInv, PTL DEF Spec

\* Whatever is freed under whoever uses it, the main task never uses, shows or repaints a
\* screen that has been freed, and no handler is called with data that has.  It happens, if
\* at all, to popups and QR clients, to the wheel, and to a page shown for a link.
THEOREM OnlyOthersUseFreed == Spec => []FreedInUse
<1>1. IInv => FreedInUse
  BY DEF IInv
<1> QED
  BY <1>1, Inductive, PTL

\* Who waits for the buttons of the screen that is shown has a handler registered.
THEOREM WaiterHears == Spec => []Heard
<1>1. IInv => Heard
  <2> SUFFICES ASSUME IInv PROVE Heard
    OBVIOUS
  <2>1. main.at = "wait" /\ asked = current => <<current, "main">> \in registered
    BY DEF IInv, Listening, Registered
  <2>2. ASSUME NEW t \in Guests, guest[t].at = "wait", guest[t].mine = current, fault = None
        PROVE  <<current, t>> \in registered
    BY <2>2 DEF IInv, Listening, Registered
  <2> QED
    BY <2>1, <2>2 DEF Heard, MainAt, GuestAt
<1> QED
  BY <1>1, Inductive, PTL

\* However popups come and go and links are followed, once the GUI task has nothing left to
\* do the screen is the one the main task asked for last, or another page of it: unless its
\* switch crossed a popup or a link, two popups met, or a QR client has put up its own.
THEOREM BackToMain == Spec => []MainScreenBack
<1>1. Way => MainScreenBack
  <2> SUFFICES ASSUME Way, queue = <<>>, ~crossed, \A t \in Popups : guest[t].at = "none"
               PROVE  current \in PagesOf(asked)
    BY DEF MainScreenBack, GuestAt
  <2> QED
    BY DEF Way, TheWay, ToMain, ToPopup, Leads
<1> QED
  BY <1>1, WayInit, WayStep, InitInv, NextInv, PTL DEF Spec

-----------------------------------------------------------------------------
(* Who can hold up the GUI task *)

HeldToSelect == mutex = "main" <=> main.at = "select"

Halted == main.at = "select" /\ ~Room

LEMMA HeldToSelectInv == IInv /\ HeldToSelect /\ [Next]_vars => HeldToSelect'
<1> SUFFICES ASSUME IInv, HeldToSelect, [Next]_vars PROVE HeldToSelect'
  OBVIOUS
<1> USE DEF HeldToSelect, screen, events, mains
<1>t. \A where : [main EXCEPT !.at = where].at = where
  <2>1. main \in [at: {"run", "post", "wait", "update", "select"}, job: JobSet]
    BY DEF IInv, Types
  <2> QED
    BY <2>1
<1>1. CASE Gui
  BY <1>1 DEF Gui, GuiTakes, GuiSwitches, GuiRepaints, GuiGives, Unlocked
<1>2. CASE Make \/ Show \/ ShowAlone \/ Post \/ Wait \/ Waited
  <2>1. mutex' = mutex /\ main.at # "select" /\ main'.at # "select"
    <3>0. CASE Make
      BY <3>0 DEF Make, MainAt
    <3>1. CASE ShowAlone
      <4>1. \E j : main' = [at |-> "post", job |-> j]
        BY <3>1 DEF ShowAlone, Ask
      <4> QED
        BY <3>1, <4>1 DEF ShowAlone, MainAt
    <3>2. CASE Show \/ Post
      BY <3>2 DEF Show, Post, PostSwitch, MainAt
    <3>3. CASE Wait \/ Waited
      BY <3>3, <1>t DEF Wait, Waited, MainAt, MainGoes
    <3> QED
      BY <1>2, <3>0, <3>1, <3>2, <3>3
  <2> QED
    BY <2>1
<1>3. CASE Update \/ PostRepaint \/ Select \/ PostSelection
  <2>1. CASE Update
    BY <2>1 DEF Update, UpdateWith, MainAt
  <2>2. CASE PostRepaint
    BY <2>2 DEF PostRepaint, MainAt
  <2>3. CASE Select
    BY <2>3, <1>t DEF Select, MainGoes
  <2>4. CASE PostSelection
    BY <2>4 DEF PostSelection
  <2> QED
    BY <1>3, <2>1, <2>2, <2>3, <2>4
<1>4. ASSUME NEW t \in Guests, Guest(t) PROVE UNCHANGED <<mutex, main>>
  BY <1>4 DEF Guest, Open, PutUp, Await, Answered, TakeDown, TakeDownIf, Restore,
                  ClientMakes, ShowAgain, Draw, PostDrawn, ClientEnds, MakeOwn
<1>5. CASE Input
  BY <1>5 DEF Input, Turn, MoveSelection, Click, FollowLink, PostLinked
<1>6. CASE Restart \/ UNCHANGED vars
  BY <1>6 DEF Restart, vars
<1> QED
  BY <1>1, <1>2, <1>3, <1>4, <1>5, <1>6 DEF Next, Main

LEMMA HeldToSelectAlways == Spec => []HeldToSelect
<1>1. Init => HeldToSelect
  BY DEF Init, HeldToSelect
<1> QED
  BY <1>1, InitInv, NextInv, HeldToSelectInv, PTL DEF Spec

\* When the main task has a job to post there is room for it, or the GUI task can take and
\* serve what fills the queue; but for a selection, which is posted with the mutex held.
THEOREM OnlySelectingHalts ==
    Spec => [](Posts => Room \/ mutex = "gui" \/ (Unlocked /\ queue # <<>>) \/ Halted)
<1>1. IInv /\ Rest /\ HeldToSelect
        => (Posts => Room \/ mutex = "gui" \/ (Unlocked /\ queue # <<>>) \/ Halted)
  <2> SUFFICES ASSUME IInv, Rest, HeldToSelect, ~Room, mutex # "gui", ~Halted
               PROVE  Unlocked /\ queue # <<>>
    OBVIOUS
  <2>1. mutex = "none"
    BY DEF Halted, HeldToSelect, Rest
  <2>2. queue # <<>>
    BY DEF Room
  <2> QED
    BY <2>1, <2>2 DEF Unlocked
<1> QED
  BY <1>1, InitInv, NextInv, RestInit, RestInv, HeldToSelectAlways, PTL DEF Spec

\* And then nothing but a restart helps: not the wheel, nor buttons, nor a popup's end.
THEOREM HaltsForGood == Spec => [][Halted => Halted' \/ Restart]_vars
<1>1. IInv /\ HeldToSelect /\ [Next]_vars => [Halted => Halted' \/ Restart]_vars
  <2> SUFFICES ASSUME HeldToSelect, Next, Halted, ~Restart PROVE Halted'
    BY DEF vars
  <2> USE DEF HeldToSelect, Halted, Room, screen, events, mains
  <2>1. CASE Gui
    BY <2>1 DEF Gui, GuiTakes, GuiSwitches, GuiRepaints, GuiGives, Unlocked
  <2>2. CASE Main
    BY <2>2 DEF Main, Make, Show, ShowAlone, Post, PostSwitch, Wait, Waited, Update, UpdateWith,
                PostRepaint, Select, PostSelection, MainAt, Unlocked
  <2>3. ASSUME NEW t \in Guests, Guest(t) PROVE main' = main /\ (queue' = queue \/ Room)
    BY <2>3 DEF Guest, Open, PutUp, Await, Answered, TakeDown, TakeDownIf, Restore,
                  ClientMakes, ShowAgain, Draw, PostDrawn, ClientEnds, MakeOwn
  <2>4. CASE Input
    BY <2>4 DEF Input, Turn, MoveSelection, Click, FollowLink, PostLinked
  <2> QED
    BY <2>1, <2>2, <2>3, <2>4 DEF Next
<1> QED
  BY <1>1, Inductive, HeldToSelectAlways, PTL DEF Spec

-----------------------------------------------------------------------------
(* The main task gets its jobs through *)

PostJob == Post \/ PostRepaint \/ PostSelection

\* Who can go on: the GUI task where the queue is full and nobody else holds the mutex, and
\* the main task where there is room for its job.
GuiCanServe == Running /\ ~Room /\ mutex # "main" => ENABLED <<Running /\ Gui>>_vars
MainCanPost == Running /\ Posts /\ Room => ENABLED <<Running /\ PostJob>>_vars

\* The end of waiting to post, or what ends it otherwise.
Through == ~Posts \/ Halted \/ fault # None

\* Two jobs are posted for a selection; then, as for any other, one.
FirstOfTwo == main.at = "select" /\ Room /\ Running
LastJob == main.at \in {"post", "update"} /\ Running
FullUnlocked == LastJob /\ ~Room /\ mutex = "none"
FullTaken == LastJob /\ ~Room /\ mutex = "gui"
RoomToPost == LastJob /\ Room

LEMMA PostsIs == Posts <=> main.at \in {"post", "update", "select"}
BY DEF Posts, MainAt

\* Who is about to post does nothing else.
LEMMA OnlyPosting ==
    ASSUME IInv, Posts, Next
    PROVE  main' = main \/ (Running /\ PostJob) \/ Through'
<1>1. CASE Restart
  <2>1. main'.at = "run"
    BY <1>1 DEF Restart
  <2> QED
    BY <2>1 DEF Through, Posts, MainAt
<1>2. CASE Running /\ (Gui \/ (\E t \in Guests : Guest(t)) \/ Input)
  <2>1. ASSUME NEW t \in Guests, Guest(t) PROVE main' = main
    BY <2>1 DEF Guest, Open, PutUp, Await, Answered, TakeDown, TakeDownIf, Restore,
                  ClientMakes, ShowAgain, Draw, PostDrawn, ClientEnds, MakeOwn, mains
  <2>2. Gui \/ Input => main' = main
    BY DEF Gui, GuiTakes, GuiSwitches, GuiRepaints, GuiGives, Input, Turn, MoveSelection, Click, FollowLink,
       PostLinked, mains
  <2> QED
    BY <1>2, <2>1, <2>2
<1>3. CASE Running /\ Main
  BY <1>3, PostsIs DEF Main, PostJob, Make, Show, ShowAlone, Wait, Waited, Update, UpdateWith, Select, MainAt
<1> QED
  BY <1>1, <1>2, <1>3 DEF Next

LEMMA Posted ==
    ASSUME IInv, Running, PostJob
    PROVE  /\ main.at = "select" => main'.at = "update"
           /\ main.at \in {"post", "update"} => main'.at = "run"
<1>1. \A where : [main EXCEPT !.at = where].at = where
  <2>1. main \in [at: {"run", "post", "wait", "update", "select"}, job: JobSet]
    BY DEF IInv, Types
  <2> QED
    BY <2>1
<1>2. CASE Post
  BY <1>2 DEF Post, PostSwitch, MainAt
<1>3. CASE PostRepaint \/ PostSelection
  BY <1>1, <1>3 DEF PostRepaint, PostSelection, MainAt, MainGoes
<1> QED
  BY <1>2, <1>3 DEF PostJob

LEMMA Waits ==
    ASSUME IInv, Posts, Running, [Next]_vars, ~Through'
    PROVE  Running' /\ (main'.at = main.at \/ (main.at = "select" /\ main'.at = "update"))
<1>1. Running'
  BY DEF Through, Running
<1>2. CASE UNCHANGED vars
  BY <1>1, <1>2 DEF vars, mains
<1>3. CASE Next
  <2>1. main' = main \/ (Running /\ PostJob)
    BY <1>3, OnlyPosting
  <2>2. CASE PostJob
    <3>1. main'.at # "run"
      BY PostsIs DEF Through, Posts, MainAt
    <3> QED
      BY <1>1, <2>2, <3>1, Posted, PostsIs
  <2> QED
    BY <1>1, <2>1, <2>2
<1> QED
  BY <1>2, <1>3

\* The queue is full: only the GUI task changes it, and takes the mutex.
LEMMA FullStep ==
    ASSUME IInv, Rest, LastJob, ~Room, [Next]_vars, ~Through'
    PROVE  Gui \/ (UNCHANGED <<queue, mutex>>)
<1>1. main.at \in {"post", "update"} /\ Posts /\ Running
  BY PostsIs DEF LastJob
<1>2. CASE UNCHANGED vars
  BY <1>2 DEF vars, screen
<1>3. CASE Main
  BY <1>1, <1>3 DEF Main, Make, Show, ShowAlone, Post, PostSwitch, Wait, Waited, Update, UpdateWith, PostRepaint,
     Select, PostSelection, MainAt
<1>4. ASSUME NEW t \in Guests, Guest(t) PROVE UNCHANGED <<queue, mutex>>
  BY <1>4 DEF Guest, Open, PutUp, Await, Answered, TakeDown, TakeDownIf, Restore,
                  ClientMakes, ShowAgain, Draw, PostDrawn, ClientEnds, MakeOwn, screen
<1>5. CASE Input
  BY <1>5 DEF Input, Turn, MoveSelection, Click, FollowLink, PostLinked, screen
<1>6. CASE Restart
  <2>1. main'.at = "run"
    BY <1>6 DEF Restart
  <2> QED
    BY <2>1 DEF Through, Posts, MainAt
<1> QED
  BY <1>2, <1>3, <1>4, <1>5, <1>6 DEF Next

\* It takes the mutex, then a job, and there is room.
LEMMA GuiServes ==
    ASSUME IInv, Rest, ~Room, Gui
    PROVE  /\ mutex = "none" => mutex' = "gui" /\ UNCHANGED queue
           /\ mutex = "gui" => Len(queue') < QueueSize
<1>1. queue \in Seq(JobSet) /\ Len(queue) = QueueSize /\ QueueSize \in Nat \ {0}
  BY GuiAssumption DEF IInv, Types, Rest, Room
<1>2. queue # <<>> /\ Len(Tail(queue)) = QueueSize - 1
  BY <1>1
<1>3. ASSUME mutex = "none" PROVE GuiTakes
  BY <1>3 DEF Gui, GuiSwitches, GuiRepaints, GuiGives
<1>4. ASSUME mutex = "gui" PROVE queue' = Tail(queue)
  BY <1>2, <1>4 DEF Gui, GuiTakes, GuiSwitches, GuiRepaints, GuiGives, Unlocked
<1> QED
  BY <1>1, <1>2, <1>3, <1>4 DEF GuiTakes

\* What the main task has to post for the GUI task it gets through, whoever else posts and
\* however often: each time the queue is full the GUI task takes the mutex and serves it.
\* Unless it posts with the mutex held, and the queue is full (Halted).  The fairness is
\* that of FairSpec; that the two tasks can go on is stated as hypotheses.
THEOREM JobsArrive == FairSpec /\ []GuiCanServe /\ []MainCanPost => JobsGoThrough
<1> DEFINE I == IInv /\ Rest /\ HeldToSelect
<1>1. Spec => []I
  BY InitInv, NextInv, RestInit, RestInv, HeldToSelectAlways, PTL DEF Spec
<1>2. I /\ FirstOfTwo /\ [Next]_vars => FirstOfTwo' \/ LastJob' \/ Through'
  BY Waits, PostsIs DEF FirstOfTwo, LastJob, Through, Halted
<1>3. I /\ FirstOfTwo /\ <<Running /\ PostJob>>_vars => LastJob' \/ Through'
  BY Posted DEF FirstOfTwo, LastJob, Through, Running
<1>4. I /\ LastJob /\ [Next]_vars => LastJob' \/ Through'
  BY Waits, PostsIs DEF LastJob
<1>5. I /\ LastJob => FullUnlocked \/ FullTaken \/ RoomToPost
  BY DEF LastJob, FullUnlocked, FullTaken, RoomToPost, HeldToSelect, Rest
<1>6. I /\ FullUnlocked /\ [Next]_vars => FullUnlocked' \/ FullTaken' \/ Through'
  <2> SUFFICES ASSUME I, FullUnlocked, [Next]_vars, ~Through' PROVE FullUnlocked' \/ FullTaken'
    OBVIOUS
  <2>1. LastJob'
    BY <1>4 DEF FullUnlocked
  <2>2. UNCHANGED queue /\ mutex' \in {"none", "gui"}
    BY FullStep, GuiServes DEF FullUnlocked
  <2> QED
    BY <2>1, <2>2 DEF FullUnlocked, FullTaken, Room
<1>7. I /\ FullUnlocked /\ <<Running /\ Gui>>_vars => FullTaken' \/ Through'
  <2> SUFFICES ASSUME I, FullUnlocked, <<Running /\ Gui>>_vars, ~Through' PROVE FullTaken'
    OBVIOUS
  <2>1. LastJob'
    BY <1>4 DEF FullUnlocked, Next
  <2>2. UNCHANGED queue /\ mutex' = "gui"
    BY GuiServes DEF FullUnlocked
  <2> QED
    BY <2>1, <2>2 DEF FullUnlocked, FullTaken, Room
<1>8. I /\ FullTaken /\ [Next]_vars => FullTaken' \/ RoomToPost' \/ Through'
  <2> SUFFICES ASSUME I, FullTaken, [Next]_vars, ~Through' PROVE FullTaken' \/ RoomToPost'
    OBVIOUS
  <2>1. LastJob'
    BY <1>4 DEF FullTaken
  <2>2. UNCHANGED <<queue, mutex>> \/ Len(queue') < QueueSize
    BY FullStep, GuiServes DEF FullTaken
  <2> QED
    BY <2>1, <2>2 DEF RoomToPost, FullTaken, Room
<1>9. I /\ FullTaken /\ <<Running /\ Gui>>_vars => RoomToPost' \/ Through'
  <2> SUFFICES ASSUME I, FullTaken, <<Running /\ Gui>>_vars, ~Through' PROVE RoomToPost'
    OBVIOUS
  <2>1. LastJob'
    BY <1>4 DEF FullTaken, Next
  <2>2. Len(queue') < QueueSize
    BY GuiServes DEF FullTaken
  <2> QED
    BY <2>1, <2>2 DEF RoomToPost, Room
<1>10. I /\ LastJob /\ <<Running /\ PostJob>>_vars => Through'
  BY Posted DEF LastJob, Through, Posts, MainAt
<1>11. Posts => FirstOfTwo \/ LastJob \/ Through
  BY PostsIs DEF FirstOfTwo, LastJob, Through, Halted, Running
<1>12. /\ GuiCanServe /\ (FullUnlocked \/ FullTaken) => ENABLED <<Running /\ Gui>>_vars
       /\ MainCanPost /\ (FirstOfTwo \/ RoomToPost) => ENABLED <<Running /\ PostJob>>_vars
  BY PostsIs DEF GuiCanServe, MainCanPost, FullUnlocked, FullTaken, FirstOfTwo, RoomToPost, LastJob
<1>13. FullUnlocked \/ FullTaken \/ RoomToPost => LastJob
  BY DEF FullUnlocked, FullTaken, RoomToPost
<1>14. Through => ~Posts \/ (MainAt("select") /\ ~Room) \/ (link # None /\ ~Room) \/ fault # None
  BY DEF Through, Halted, MainAt
<1> HIDE DEF I
<1> QED
  BY <1>1, <1>2, <1>3, <1>4, <1>5, <1>6, <1>7, <1>8, <1>9, <1>10, <1>11, <1>12, <1>13, <1>14, PTL
     DEF FairSpec, Spec, JobsGoThrough, PostJob
=============================================================================

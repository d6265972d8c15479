------------------------------- MODULE IhpPage -------------------------------
(***************************************************************************)
(* The speed harmonisation page (web/script/ihp.js) with the part of its    *)
(* service it talks to (cc/ihp/IHP.java): the poll for the status, the      *)
(* buttons it enables, the overlay, the table of detectors, and who may use *)
(* the page when several users open it.  One page, Mine, is worked with;    *)
(* the others only ask for the status.  A corridor is a number, 0 when       *)
(* there is none; the rows of its detectors are named by it.                *)
(***************************************************************************)
EXTENDS Integers, Sequences, FiniteSetsExt

CONSTANTS
  Pages,      \* one page for each user
  Mine,       \* the page that is worked with
  Budgets     \* how often start or stop is clicked, corridors and detectors are
              \* sent, pages are opened and requests fail: one choice of each

ASSUME PageAssumption ==
  /\ Mine \in Pages /\ IsFiniteSet(Pages) /\ IsFiniteSet(Budgets)
  /\ Budgets \subseteq [clicks : Nat, saves : Nat, updates : Nat, opens : Nat, fails : Nat]

VARIABLES
  running,  \* whether m_oTimer is set
  geo,      \* the corridor of the service
  file,     \* the detectors in its file
  users,    \* the keys of m_oUsers that are not out of date
  current,  \* m_sCurrentUser
  open,     \* the pages that are open
  admitted, \* those whose last answer told of no other user
  held,     \* those with bStop set
  covered,  \* those whose overlay is shown
  timers,   \* for each page the polls set by a timer: nStatusId, and older ones
  polls,    \* the requests for the status under way
  page,     \* the buttons of Mine, its corridor and table, and its timers
  calls,    \* the other requests of Mine under way
  left,     \* what is left of the budget
  marks     \* history: what happened that the page does not provide for

service == <<running, geo, file>>
presence == <<users, current, open, admitted>>
polling == <<timers, polls>>
vars == <<service, presence, held, covered, polling, page, calls, left, marks>>

Slots == 1..(Max({b.clicks : b \in Budgets}) + 1)
Newest(saves) == Max({b.saves : b \in Budgets}) + 1 - saves
Versions == 1..Newest(0)
Nobody == "nobody"
None == <<0>>

TypeOK ==
  /\ running \in BOOLEAN /\ geo \in Versions \cup {0} /\ file \in Seq(Versions \cup {0})
  /\ users \subseteq Pages /\ current \in Pages \cup {Nobody}
  /\ {open, admitted, held, covered} \subseteq SUBSET Pages
  /\ timers \in [Pages -> [known : BOOLEAN, orphans : 0..Max(Slots)]]
  /\ polls \subseteq [page : Pages, n : Slots, at : {"sent", "back"}, running : BOOLEAN, sole : BOOLEAN]
  /\ page \in [start : BOOLEAN, stop : BOOLEAN, new : BOOLEAN, update : BOOLEAN, drawing : BOOLEAN,
               poly : Seq(Versions), rows : Seq(Versions), hides : Nat, reloads : Nat]
  /\ calls \subseteq [kind : {"start", "stop", "save", "update", "geo"}, n : Nat,
                      at : {"sent", "done", "refused", "lost"}, data : Seq(Versions)]
  /\ left \in [{"clicks", "saves", "updates", "opens", "fails"} -> Nat]
  /\ marks \subseteq {"overlap", "silent", "hasty", "swapped", "untabled", "overtaken",
                      "early", "lost", "refused", "uncovered"}

Closed == [start |-> TRUE, stop |-> TRUE, new |-> TRUE, update |-> TRUE, drawing |-> FALSE,
           poly |-> <<>>, rows |-> <<>>, hides |-> 0, reloads |-> 0]
NoTimer == [known |-> FALSE, orphans |-> 0]

Init ==
  /\ running = FALSE /\ geo \in {0, 1} /\ file \in {None, <<1>>} /\ (geo = 0 => file = None)
  /\ users = {} /\ current = Nobody /\ open = {} /\ admitted = {} /\ held = {} /\ covered = {}
  /\ timers = [p \in Pages |-> NoTimer] /\ polls = {} /\ page = Closed /\ calls = {}
  /\ left \in Budgets /\ marks = {}

Spend(what) == left[what] > 0 /\ left' = [left EXCEPT ![what] = @ - 1]
Mark(on, what) == marks' = IF on THEN marks \cup {what} ELSE marks

-----------------------------------------------------------------------------
(* The poll for the status.                                                   *)
Poll(p) ==
  LET free == Slots \ {q.n : q \in {q \in polls : q.page = p}}
  IN [page |-> p, n |-> Min(free), at |-> "sent", running |-> FALSE, sole |-> FALSE]

Call(kind, data) ==
  [kind |-> kind, at |-> "sent", data |-> data,
   n |-> CHOOSE n \in 1..(Cardinality(calls) + 1) : n \notin {c.n : c \in calls}]

(* A page opens: it asks for the status and, the page of the user, for the    *)
(* corridor once its map is loaded.                                           *)
Open(p) ==
  /\ p \notin open /\ Spend("opens")
  /\ open' = open \cup {p} /\ polls' = polls \cup {Poll(p)}
  /\ IF p = Mine THEN covered' = covered \cup {p} /\ calls' = {Call("geo", <<>>)}
                 ELSE UNCHANGED <<covered, calls>>
  /\ UNCHANGED <<service, users, current, admitted, held, timers, page, marks>>

(* A page is left with what it has sent unanswered.                           *)
Leave(p) ==
  /\ p \in open /\ p # Mine
  /\ open' = open \ {p} /\ admitted' = admitted \ {p} /\ held' = held \ {p} /\ covered' = covered \ {p}
  /\ timers' = [timers EXCEPT ![p] = NoTimer] /\ polls' = {q \in polls : q.page # p}
  /\ UNCHANGED <<service, users, current, page, calls, left, marks>>

Chains(p) ==
  Cardinality({q \in polls : q.page = p}) + timers[p].orphans + (IF timers[p].known THEN 1 ELSE 0)
    + (IF p = Mine THEN Cardinality({c \in calls : c.kind \in {"start", "stop"}}) ELSE 0)

(* A user of whom nothing was heard for thirty seconds; a page that polls     *)
(* is heard every ten.                                                        *)
Lapse(p) ==
  /\ p \in users /\ Chains(p) = 0 /\ users' = users \ {p}
  /\ UNCHANGED <<service, current, open, admitted, held, covered, polling, page, calls, left, marks>>

(* Mutant: whoever asks becomes the current user.                             *)
LastUser(p, present) == p

CurrentUser(p, present) == IF present = {p} THEN p ELSE current

Status(q) ==
  /\ q.at = "sent"
  /\ users' = users \cup {q.page}
  /\ current' = CurrentUser(q.page, users')
  /\ polls' = (polls \ {q}) \cup {[q EXCEPT !.at = "back", !.running = running,
                                            !.sole = (current' = q.page)]}
  /\ UNCHANGED <<service, open, admitted, held, covered, timers, page, calls, left, marks>>

DisableEntities(on) ==
  [page EXCEPT !.start = ~on /\ ~page.drawing, !.new = ~on /\ ~page.drawing, !.stop = on]

(* An answer sets nStatusId whether a timer is still set or not.              *)
SetTimer(t) == [known |-> TRUE, orphans |-> t.orphans + (IF t.known THEN 1 ELSE 0)]

PollDone(q) ==
  /\ q.at = "back" /\ polls' = polls \ {q}
  /\ page' = IF q.page = Mine THEN DisableEntities(q.running) ELSE page
  /\ IF q.sole
       THEN /\ admitted' = admitted \cup {q.page}
            /\ timers' = [timers EXCEPT ![q.page] = SetTimer(@)]
            /\ UNCHANGED <<held, covered, marks>>
       ELSE /\ admitted' = admitted \ {q.page}
            /\ held' = held \cup {q.page} /\ covered' = covered \cup {q.page}
            /\ Mark(q.page = Mine /\ page.reloads > 0, "uncovered")
            /\ UNCHANGED timers
  /\ UNCHANGED <<service, users, current, open, calls, left>>

(* The chain of polls ends without a word.                                    *)
PollFails(q) ==
  /\ Spend("fails")
  /\ polls' = polls \ {q} /\ marks' = marks \cup {"silent"}
  /\ UNCHANGED <<service, presence, held, covered, timers, page, calls>>

Fired(t) ==
  (IF t.known THEN {[t EXCEPT !.known = FALSE]} ELSE {})
    \cup (IF t.orphans > 0 THEN {[t EXCEPT !.orphans = @ - 1]} ELSE {})

TimerFires(p) ==
  /\ \E after \in Fired(timers[p]) : timers' = [timers EXCEPT ![p] = after]
  /\ polls' = polls \cup {Poll(p)}
  /\ UNCHANGED <<service, presence, held, covered, page, calls, left, marks>>

-----------------------------------------------------------------------------
(* Start and stop.  The timer set last is cleared, a poll under way is not.   *)
Usable == Mine \in open /\ Mine \notin covered
Polling == \E q \in polls : q.page = Mine

(* Mutant: the timer is left.                                                 *)
TimerStays(t) == t
ClearTimer(t) == [t EXCEPT !.known = FALSE]

Click(kind) ==
  /\ Spend("clicks")
  /\ timers' = [timers EXCEPT ![Mine] = ClearTimer(@)]
  /\ calls' = calls \cup {Call(kind, <<>>)}
  /\ marks' = marks
       \cup (IF Polling \/ timers[Mine].orphans > 0 \/ \E c \in calls : c.kind \in {"start", "stop"}
             THEN {"overlap"} ELSE {})
       \cup (IF kind = "start" /\ \E c \in calls : c.kind = "save" THEN {"hasty"} ELSE {})
  /\ UNCHANGED <<service, presence, held, polls>>

StopSim == Usable /\ page.stop /\ Click("stop") /\ UNCHANGED <<covered, page>>

StartSim ==
  /\ Usable /\ page.start
  /\ \/ page.rows # <<>> /\ Click("start") /\ UNCHANGED <<covered, page>>
     \/ /\ page.rows = <<>> /\ covered' = covered \cup {Mine}
        /\ page' = [page EXCEPT !.start = FALSE, !.hides = @ + 1]
        /\ UNCHANGED <<service, presence, held, polling, calls, left, marks>>

-----------------------------------------------------------------------------
(* The corridor and its table of detectors, which the detectors of the file   *)
(* only fill.                                                                 *)
Emptied(shown) == <<>>

(* The last answer told that the simulation runs.                             *)
Told == page.stop /\ ~page.start

NewCorridor ==
  /\ Usable /\ page.new /\ left.saves > 0
  /\ page' = [page EXCEPT !.poly = Emptied(@), !.rows = Emptied(@), !.drawing = TRUE,
                          !.new = FALSE, !.start = FALSE, !.update = FALSE]
  /\ marks' = marks
       \cup (IF ~Told /\ (running \/ \E c \in calls : c.kind = "start") THEN {"hasty"} ELSE {})
       \cup (IF page.reloads > 0 \/ \E c \in calls : c.kind \in {"geo", "save"} THEN {"early"} ELSE {})
  /\ UNCHANGED <<service, presence, held, covered, polling, calls, left>>

SaveCorridor ==
  /\ Usable /\ page.drawing /\ Spend("saves")
  /\ page' = [page EXCEPT !.new = TRUE, !.start = TRUE, !.update = TRUE, !.drawing = FALSE]
  /\ covered' = covered \cup {Mine}
  /\ calls' = calls \cup {Call("save", <<Newest(left'.saves)>>)}
  /\ Mark(\E c \in calls : c.kind = "update", "overtaken")
  /\ UNCHANGED <<service, presence, held, polling>>

(* Every table there is is sent; the upload button sends as well, and is      *)
(* never disabled.                                                            *)
UpdateDetectors ==
  /\ Usable /\ Spend("updates")
  /\ calls' = calls \cup {Call("update", page.rows)}
  /\ Mark(page.rows = <<>>, "untabled")
  /\ UNCHANGED <<service, presence, held, covered, polling, page>>

-----------------------------------------------------------------------------
(* The service.                                                               *)
Fits(rows) == geo = 0 \/ (rows # <<>> /\ rows[1] = geo)

(* Mutant: a new corridor leaves the detectors of the old one.                *)
FileStays == file
NewFile == None

Back(c, at, data) == calls' = (calls \ {c}) \cup {[c EXCEPT !.at = at, !.data = data]}

Serve(c) ==
  /\ c.at = "sent"
  /\ \/ c.kind = "start" /\ running' = TRUE /\ UNCHANGED <<geo, file, marks>>
        /\ Back(c, IF running THEN "refused" ELSE "done", <<>>)
     \/ c.kind = "stop" /\ running' = FALSE /\ UNCHANGED <<geo, file, marks>>
        /\ Back(c, IF running THEN "done" ELSE "refused", <<>>)
     \/ c.kind = "save" /\ geo' = c.data[1] /\ file' = NewFile /\ UNCHANGED running
        /\ Mark(running, "swapped") /\ Back(c, "done", <<>>)
     \/ c.kind = "update" /\ file' = c.data /\ UNCHANGED <<running, geo, marks>>
        /\ \E fits \in (IF Fits(c.data) THEN {TRUE} ELSE IF c.data = <<>> THEN {FALSE} ELSE BOOLEAN) :
             Back(c, IF fits THEN "done" ELSE "refused", <<>>)
     \/ c.kind = "geo" /\ UNCHANGED <<service, marks>>
        /\ Back(c, "done", IF geo # 0 THEN <<geo>> ELSE <<>>)
  /\ UNCHANGED <<presence, held, covered, polling, page, left>>

(* A request is refused with an error, or it or its answer is lost.           *)
Fail(c, how) ==
  /\ Spend("fails") /\ c.at \in {"sent", "done"}
  /\ (how = "refused" => c.at = "sent")
  /\ Back(c, how, <<>>) /\ marks' = marks \cup {how}
  /\ UNCHANGED <<service, presence, held, covered, polling, page>>

-----------------------------------------------------------------------------
(* Answers.  A page told to stop shows nothing more on its overlay.           *)
Show == covered' = covered \cup {Mine}

(* Mutant: the next poll is set only if the service agreed.                   *)
AfterDone(c) == IF c.at = "done" THEN polls \cup {Poll(Mine)} ELSE polls

AfterClick(c) == polls \cup {Poll(Mine)}

ClickAnswered(c) ==
  /\ c.kind \in {"start", "stop"} /\ c.at # "sent" /\ calls' = calls \ {c}
  /\ polls' = AfterClick(c)
  /\ UNCHANGED <<service, presence, held, covered, timers, page, left, marks>>

HidesLater(p) == [p EXCEPT !.hides = @ + 1]

(* The overlay is hidden and the corridor loaded a while after the save; when *)
(* the save is lost its handler fails and the overlay stays.                  *)
SaveAnswered(c) ==
  /\ c.kind = "save" /\ c.at # "sent" /\ calls' = calls \ {c}
  /\ page' = CASE c.at = "done" -> [page EXCEPT !.reloads = @ + 1]
               [] c.at = "refused" -> HidesLater(page)
               [] OTHER -> page
  /\ IF c.at = "lost" THEN UNCHANGED covered ELSE Show
  /\ Mark(c.at = "done" /\ Mine \in held, "uncovered")
  /\ UNCHANGED <<service, presence, held, polling, left>>

UpdateAnswered(c) ==
  /\ c.kind = "update" /\ c.at # "sent" /\ calls' = calls \ {c}
  /\ IF c.at = "done" THEN page' = [page EXCEPT !.start = TRUE, !.hides = @ + 1] /\ Show
                      ELSE UNCHANGED <<page, covered>>
  /\ UNCHANGED <<service, presence, held, polling, left, marks>>

(* A table is added to those there are, with a row for each area there is.    *)
CreateDetectorList(rows, poly) == rows \o poly

GeoAnswered(c) ==
  /\ c.kind = "geo" /\ c.at # "sent" /\ calls' = calls \ {c}
  /\ page' = IF c.at = "done"
               THEN [page EXCEPT !.poly = @ \o c.data, !.hides = @ + 1,
                                 !.rows = CreateDetectorList(@, page.poly \o c.data)]
               ELSE [page EXCEPT !.hides = @ + 1]
  /\ Show
  /\ UNCHANGED <<service, presence, held, polling, left, marks>>

TimeoutPageoverlay == Mine \notin held

Hide ==
  /\ page.hides > 0 /\ page' = [page EXCEPT !.hides = @ - 1]
  /\ covered' = IF TimeoutPageoverlay THEN covered \ {Mine} ELSE covered
  /\ UNCHANGED <<service, presence, held, polling, calls, left, marks>>

Reload ==
  /\ page.reloads > 0 /\ page' = [page EXCEPT !.reloads = @ - 1]
  /\ covered' = IF Mine \in held THEN covered \ {Mine} ELSE covered \cup {Mine}
  /\ calls' = calls \cup {Call("geo", <<>>)}
  /\ UNCHANGED <<service, presence, held, polling, left, marks>>

-----------------------------------------------------------------------------
Answered(c) ==
  \/ ClickAnswered(c)
  \/ SaveAnswered(c)
  \/ UpdateAnswered(c)
  \/ GeoAnswered(c)

Next ==
  \/ \E p \in Pages : Open(p)
  \/ \E p \in Pages : Leave(p)
  \/ \E p \in Pages : Lapse(p)
  \/ \E p \in Pages : TimerFires(p)
  \/ \E q \in polls : Status(q)
  \/ \E q \in polls : PollDone(q)
  \/ \E q \in polls : PollFails(q)
  \/ StartSim
  \/ StopSim
  \/ NewCorridor
  \/ SaveCorridor
  \/ UpdateDetectors
  \/ \E c \in calls : Serve(c)
  \/ \E c \in calls, how \in {"refused", "lost"} : Fail(c, how)
  \/ \E c \in calls : Answered(c)
  \/ Hide
  \/ Reload

(* Timers fire, requests are served and answered; users do as they like.      *)
Fairness ==
  /\ \A p \in Pages : WF_vars(TimerFires(p))
  /\ \A p \in Pages : WF_vars(\E q \in polls : q.page = p /\ (Status(q) \/ PollDone(q)))
  /\ WF_vars(\E c \in calls : Serve(c) \/ Answered(c))

Spec == Init /\ [][Next]_vars /\ Fairness

-----------------------------------------------------------------------------
(* A page keeps one chain of polls: unless start or stop was clicked while a  *)
(* poll or another click was under way, which adds one that nothing ends.     *)
OneChain == "overlap" \notin marks => \A p \in Pages : Chains(p) <= 1

(* A page open and not told to stop goes on asking for the status, unless a   *)
(* poll failed, which ends the chain for good.                                *)
KeepsPolling ==
  \A p \in open : (p \notin held /\ "silent" \notin marks) => Chains(p) >= 1

(* Of all users one at most is let work, unless polls of the one in charge    *)
(* failed: the service forgets it and its page does not notice.               *)
OneInCharge == "silent" \notin marks => Cardinality(admitted) <= 1

(* A page told that another user is at work stays covered: unless a corridor  *)
(* of its was saved just then, whose handler hides the overlay regardless.    *)
HeldIsCovered == "uncovered" \notin marks => held \subseteq covered

(* The overlay does not stay for good on a page that may work, unless the     *)
(* answer to a save was lost.                                                 *)
OverlayLifts ==
  ("lost" \notin marks /\ calls = {} /\ page.hides = 0 /\ page.reloads = 0) =>
    Mine \notin covered \ held

(* The detector file is that of the corridor in force: unless detectors were  *)
(* sent with no table on the page, or with that of a corridor loaded while    *)
(* the next was drawn, or an update was overtaken by a save.                  *)
DetectorsFit ==
  marks \cap {"untabled", "early", "overtaken"} = {} =>
    (file = None \/ Fits(file))

(* At rest the page shows the corridor of the service in one table, unless a  *)
(* request failed or a corridor was begun while one was being loaded.       *)
TableIsCorridor ==
  (/\ marks \cap {"lost", "refused", "early"} = {} /\ Mine \in open
   /\ calls = {} /\ page.reloads = 0 /\ ~page.drawing) =>
    page.rows = (IF geo = 0 THEN <<>> ELSE <<geo>>)

(* The corridor is not replaced while the simulation runs, unless a new one   *)
(* was begun before the page learnt that it had started, it was started while *)
(* a corridor was being saved, its overlay hidden by an earlier timer, or a   *)
(* corridor was loaded while one was drawn: its table lets the other start.   *)
SavedWhileReady == "swapped" \in marks => {"hasty", "early"} \cap marks # {}

(* When a simulation runs for good the page in charge comes to offer to stop  *)
(* it, and no longer to start it or to draw, unless a poll failed.            *)
ShowsRunning ==
  (<>[](running /\ Mine \in open \ held /\ "silent" \notin marks)) =>
    <>[](page.stop /\ ~page.new /\ ~page.start)

(* Each page that is open asks for the status over and over, in one chain.    *)
PollsOnce == TypeOK /\ OneChain /\ KeepsPolling

(* One user is let work at a time: the pages of the others are covered, and   *)
(* the page of that one is not, or not for good.                              *)
OneAtWork == OneInCharge /\ HeldIsCovered /\ OverlayLifts

(* Corridor, detector file, table and simulation stay those of one another.   *)
CorridorKept == DetectorsFit /\ TableIsCorridor /\ SavedWhileReady
=============================================================================

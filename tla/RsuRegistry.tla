----------------------------- MODULE RsuRegistry -----------------------------
(***************************************************************************)
(* The roadside units (RSUs) and the requests of emergency vehicles (BSMs) *)
(* that RSUServlet keeps as two attributes of the servlet context, with no *)
(* lock.  Servlet threads register and delete units and track requests, a *)
(* timer forgets old requests, and a task per request, on a thread of its  *)
(* own, finds the units along the route and posts the request to their     *)
(* hubs.                                                                   *)
(*                                                                         *)
(* A registration changes the published ArrayList in place; a deletion and *)
(* everything done to the list of BSM requests work on a copy that is then *)
(* published.  So the lists of units are objects on a heap, the lists of   *)
(* BSM requests are values.  A call of an ArrayList method is one step; its *)
(* iterators fail when the list was changed since they were made.          *)
(***************************************************************************)
EXTENDS Integers, Sequences, FiniteSets, SequencesExt

CONSTANTS
  Ports,          \* the V2X hubs, by port
  Bsms,           \* the ids of BSM requests
  Along,          \* per BSM request, the ports of the units along its route
  Regs,           \* registrations, each handled by a thread
  Dels,           \* deletions, each handled by a thread
  Reqs,           \* BSM requests received, each handled by a thread and a task
  Absent,         \* an attribute that is not set
  Duration,       \* bsmReqDuration, in seconds
  TicksPerSecond, \* the milliseconds of a second
  MaxNow,         \* bound on the clock
  MaxRegistering, \* bound on the registrations handled at the same time
  MaxAsking       \* bound on the BSM requests handled at the same time

ASSUME RsuAssumption ==
  /\ Along \in [Bsms -> SUBSET Ports]
  /\ Duration \in Nat /\ TicksPerSecond \in Nat \ {0} /\ MaxNow \in Nat
  /\ \A tracked \in SUBSET Reqs : tracked # Absent

VARIABLES
  heap,    \* the lists of units: their elements and the count of changes
  rsuList, \* attribute RSUList: a list on the heap
  bsmList, \* attribute BSMReqList: a set of requests, for its order is not used
  now,     \* the clock
  updated, \* last_update_at of each BSM request
  reg, del, req, task, timer

vars == <<heap, rsuList, bsmList, now, updated, reg, del, req, task, timer>>

List == [elems : Seq(Regs), changes : Nat]
Lists == 1..Len(heap)

(* A thread, where it is, the port or BSM it is about, the list it works on   *)
(* and the position of its loop.  What a thread has no more use for is reset. *)
Registration == [pc : {"none", "scan", "add", "publish", "done"}, port : Ports \cup {Absent},
                 list : Nat, i : Nat]
Deletion == [pc : {"none", "copy", "publish", "done", "failed"}, port : Ports \cup {Absent},
             list : Nat, i : Nat, changes : Nat, copy : Seq(Regs)]
Request == [pc : {"none", "look", "match", "submit", "publish", "done"},
            bsm : Bsms \cup {Absent}, list : Nat, known : SUBSET Reqs, ignored : BOOLEAN]
Task == [pc : {"none", "submitted", "identify", "forward", "over"}, i : Nat, changes : Nat,
         found : Seq(Ports), tried : SUBSET Ports,
         due : SUBSET Ports, from : Nat]  \* history: what was listed, and its changes then
Timer == [pc : {"idle", "scan"}, todo : SUBSET Reqs, keep : SUBSET Reqs]

Listed(list) == {heap[list].elems[i] : i \in 1..Len(heap[list].elems)}
Active(p, ended) == Cardinality({x \in DOMAIN p : p[x].pc \notin {"none"} \cup ended})
Change(list, elems) == [heap EXCEPT ![list] = [elems |-> elems, changes |-> @.changes + 1]]

-----------------------------------------------------------------------------
(* The lists and threads keep their shape.                                    *)
TypeOK ==
  /\ heap \in Seq(List) /\ rsuList \in {Absent} \cup Lists
  /\ bsmList = Absent \/ bsmList \subseteq Reqs
  /\ now \in 0..MaxNow /\ updated \in [Reqs -> 0..MaxNow]
  /\ reg \in [Regs -> Registration] /\ del \in [Dels -> Deletion]
  /\ req \in [Reqs -> Request] /\ task \in [Reqs -> Task] /\ timer \in Timer
  /\ \A g \in Regs : reg[g].pc \in {"scan", "add", "publish"} => reg[g].list \in Lists

(* A deletion that holds no list.                                             *)
DeletionAt(pc) ==
  [pc |-> pc, port |-> Absent, list |-> 0, i |-> 0, changes |-> 0, copy |-> <<>>]

Init ==
  /\ heap = <<>> /\ rsuList = Absent /\ bsmList = Absent
  /\ now = 0 /\ updated = [r \in Reqs |-> 0]
  /\ reg = [g \in Regs |-> [pc |-> "none", port |-> Absent, list |-> 0, i |-> 0]]
  /\ del = [d \in Dels |-> DeletionAt("none")]
  /\ req = [r \in Reqs |-> [pc |-> "none", bsm |-> Absent, list |-> 0, known |-> {},
                            ignored |-> FALSE]]
  /\ task = [r \in Reqs |-> [pc |-> "none", i |-> 0, changes |-> 0, found |-> <<>>, tried |-> {},
                             due |-> {}, from |-> 0]]
  /\ timer = [pc |-> "idle", todo |-> {}, keep |-> {}]

-----------------------------------------------------------------------------
(* Registration.  What is read is the published list itself; a request that   *)
(* cannot be parsed publishes it again.                                       *)
Register(g, port) ==
  /\ reg[g].pc = "none" /\ Active(reg, {"done"}) < MaxRegistering
  /\ \/ /\ rsuList = Absent
        /\ heap' = Append(heap, [elems |-> <<>>, changes |-> 0])
        /\ reg' = [reg EXCEPT ![g] = [pc |-> "add", port |-> port, list |-> Len(heap'), i |-> 0]]
     \/ /\ rsuList # Absent /\ UNCHANGED heap
        /\ reg' = [reg EXCEPT ![g] = [pc |-> "scan", port |-> port, list |-> rsuList, i |-> 1]]
  /\ UNCHANGED <<rsuList, bsmList, now, updated, del, req, task, timer>>

RegisterUnparsed(g) ==
  /\ reg[g].pc = "none" /\ Active(reg, {"done"}) < MaxRegistering
  /\ reg' = [reg EXCEPT ![g] = IF rsuList = Absent THEN [@ EXCEPT !.pc = "done"]
                               ELSE [@ EXCEPT !.pc = "publish", !.list = rsuList]]
  /\ UNCHANGED <<heap, rsuList, bsmList, now, updated, del, req, task, timer>>

(* Mutant: the loop stops in front of the last element.                       *)
InLoopShort(i, elems) == i < Len(elems)

InLoop(i, elems) == i <= Len(elems)

(* The loop removes what has the same port; i moves on all the same.          *)
ScanList(g) ==
  LET elems == heap[reg[g].list].elems
      i == reg[g].i
  IN
  /\ reg[g].pc = "scan"
  /\ IF InLoop(i, elems)
     THEN /\ reg' = [reg EXCEPT ![g].i = i + 1]
          /\ heap' = IF reg[elems[i]].port = reg[g].port
                     THEN Change(reg[g].list, RemoveAt(elems, i)) ELSE heap
     ELSE reg' = [reg EXCEPT ![g] = [@ EXCEPT !.pc = "add", !.i = 0]] /\ UNCHANGED heap
  /\ UNCHANGED <<rsuList, bsmList, now, updated, del, req, task, timer>>

AddUnit(g) ==
  /\ reg[g].pc = "add"
  /\ heap' = Change(reg[g].list, Append(heap[reg[g].list].elems, g))
  /\ reg' = [reg EXCEPT ![g].pc = "publish"]
  /\ UNCHANGED <<rsuList, bsmList, now, updated, del, req, task, timer>>

PublishUnits(g) ==
  /\ reg[g].pc = "publish"
  /\ rsuList' = reg[g].list
  /\ reg' = [reg EXCEPT ![g] = [@ EXCEPT !.pc = "done", !.list = 0, !.i = 0]]
  /\ UNCHANGED <<heap, bsmList, now, updated, del, req, task, timer>>

-----------------------------------------------------------------------------
(* Deletion, for a logged-in user: copy what has another port, publish.       *)
Delete(d, port) ==
  /\ del[d].pc = "none"
  /\ del' = [del EXCEPT ![d] =
               IF rsuList = Absent THEN DeletionAt("done")
               ELSE [pc |-> "copy", port |-> port, list |-> rsuList, i |-> 0,
                     changes |-> heap[rsuList].changes, copy |-> <<>>]]
  /\ UNCHANGED <<heap, rsuList, bsmList, now, updated, reg, req, task, timer>>

(* A for loop over a list: at its end when the cursor equals the size; else   *)
(* next() throws when the list was changed, and returns the element if not.   *)
CopyUnit(d) ==
  LET list == heap[del[d].list]
      i == del[d].i
      copy == del[d].copy
  IN
  /\ del[d].pc = "copy"
  /\ del' = [del EXCEPT ![d] =
       IF i = Len(list.elems) THEN [@ EXCEPT !.pc = "publish"]
       ELSE IF list.changes # @.changes THEN DeletionAt("failed")
       ELSE [@ EXCEPT !.i = i + 1,
                      !.copy = IF reg[list.elems[i + 1]].port = del[d].port THEN copy
                               ELSE Append(copy, list.elems[i + 1])]]
  /\ UNCHANGED <<heap, rsuList, bsmList, now, updated, reg, req, task, timer>>

PublishCopy(d) ==
  /\ del[d].pc = "publish"
  /\ heap' = Append(heap, [elems |-> del[d].copy, changes |-> 0])
  /\ rsuList' = Len(heap')
  /\ del' = [del EXCEPT ![d] = DeletionAt("done")]
  /\ UNCHANGED <<bsmList, now, updated, reg, req, task, timer>>

-----------------------------------------------------------------------------
(* A BSM request.  Without registered units it is accepted and dropped.       *)
Ask(r, bsm) ==
  /\ req[r].pc = "none" /\ Active(req, {"done"}) < MaxAsking
  /\ LET some == rsuList # Absent /\ heap[rsuList].elems # <<>>
     IN /\ req' = [req EXCEPT ![r] = [@ EXCEPT !.bsm = bsm, !.pc = IF some THEN "look" ELSE "done",
                                               !.list = IF some THEN rsuList ELSE 0]]
        /\ task' = IF ~some THEN task
                   ELSE [task EXCEPT ![r] = [@ EXCEPT !.from = heap[rsuList].changes,
                           !.due = {reg[g].port : g \in Listed(rsuList)} \cap Along[bsm]]]
  /\ UNCHANGED <<heap, rsuList, bsmList, now, updated, reg, del, timer>>

(* One that cannot be parsed fails; one with a single point has arrived.      *)
Drop(r) ==
  /\ req[r].pc = "look"
  /\ req' = [req EXCEPT ![r].pc = "done"]
  /\ UNCHANGED <<heap, rsuList, bsmList, now, updated, reg, del, task, timer>>

Look(r) ==
  /\ req[r].pc = "look"
  /\ updated' = [updated EXCEPT ![r] = now]
  /\ req' = [req EXCEPT ![r] = [@ EXCEPT !.pc = "match",
                                         !.known = IF bsmList = Absent THEN {} ELSE bsmList]]
  /\ UNCHANGED <<heap, rsuList, bsmList, now, reg, del, task, timer>>

(* A known request is refreshed and this one ignored.                         *)
Match(r) ==
  LET same == {q \in req[r].known : req[q].bsm = req[r].bsm} IN
  /\ req[r].pc = "match"
  /\ updated' = [q \in Reqs |-> IF q \in same THEN now ELSE updated[q]]
  /\ req' = [req EXCEPT ![r] = [@ EXCEPT !.pc = IF same = {} THEN "submit" ELSE "publish",
                                         !.ignored = same # {}]]
  /\ UNCHANGED <<heap, rsuList, bsmList, now, reg, del, task, timer>>

(* Mutant: no task for an empty list of units.                                *)
SubmitIfAny(r) ==
  /\ req[r].pc = "submit"
  /\ task' = IF heap[req[r].list].elems = <<>> THEN task ELSE [task EXCEPT ![r].pc = "submitted"]
  /\ req' = [req EXCEPT ![r].pc = "publish"]
  /\ UNCHANGED <<heap, rsuList, bsmList, now, updated, reg, del, timer>>

Submit(r) ==
  /\ req[r].pc = "submit"
  /\ task' = [task EXCEPT ![r].pc = "submitted"]
  /\ req' = [req EXCEPT ![r].pc = "publish"]
  /\ UNCHANGED <<heap, rsuList, bsmList, now, updated, reg, del, timer>>

(* Mutant: an ignored request joins the list too.                             *)
ToTrackAlways(r) == req[r].known \cup {r}

ToTrack(r) == IF req[r].ignored THEN req[r].known ELSE req[r].known \cup {r}

Track(r) ==
  /\ req[r].pc = "publish"
  /\ bsmList' = ToTrack(r)
  /\ req' = [req EXCEPT ![r] = [@ EXCEPT !.pc = "done", !.known = {}]]
  /\ UNCHANGED <<heap, rsuList, now, updated, reg, del, task, timer>>

-----------------------------------------------------------------------------
(* The task of a request.  The list it was given may be empty by now.         *)
Begin(r) ==
  LET list == heap[req[r].list] IN
  /\ task[r].pc = "submitted"
  /\ task' = [task EXCEPT ![r] =
       IF list.elems = <<>> THEN [@ EXCEPT !.pc = "over"]
       ELSE [@ EXCEPT !.pc = "identify", !.changes = list.changes]]
  /\ UNCHANGED <<heap, rsuList, bsmList, now, updated, reg, del, req, timer>>

(* The exception of a changed list ends the task; nobody asks for its result. *)
Identify(r) ==
  LET list == heap[req[r].list]
      i == task[r].i
      found == task[r].found
      port == reg[list.elems[i + 1]].port
  IN
  /\ task[r].pc = "identify"
  /\ task' = [task EXCEPT ![r] =
       IF i = Len(list.elems) THEN [@ EXCEPT !.pc = "forward", !.i = 0, !.changes = 0]
       ELSE IF list.changes # @.changes
       THEN [@ EXCEPT !.pc = "over", !.i = 0, !.changes = 0, !.found = <<>>]
       ELSE [@ EXCEPT !.i = i + 1,
                      !.found = IF port \in Along[req[r].bsm] THEN Append(found, port) ELSE found]]
  /\ UNCHANGED <<heap, rsuList, bsmList, now, updated, reg, del, req, timer>>

(* Mutant: a hub that cannot be reached ends the forwarding.                  *)
AfterHubGivesUp(todo, reached) == IF reached THEN Tail(todo) ELSE <<>>

(* An exception is caught per hub.                                            *)
AfterHub(todo, reached) == Tail(todo)

Forward(r) ==
  LET found == task[r].found IN
  /\ task[r].pc = "forward"
  /\ \E reached \in BOOLEAN :
       task' = [task EXCEPT ![r] =
         IF found = <<>> THEN [@ EXCEPT !.pc = "over"]
         ELSE [@ EXCEPT !.tried = task[r].tried \cup {Head(found)},
                        !.found = AfterHub(found, reached)]]
  /\ UNCHANGED <<heap, rsuList, bsmList, now, updated, reg, del, req, timer>>

-----------------------------------------------------------------------------
(* The timer copies the requests that are younger than the duration.          *)
TimerRuns ==
  /\ timer.pc = "idle" /\ bsmList # Absent
  /\ timer' = [pc |-> "scan", todo |-> bsmList, keep |-> {}]
  /\ UNCHANGED <<heap, rsuList, bsmList, now, updated, reg, del, req, task>>

Young(r) == (now - updated[r]) \div TicksPerSecond < Duration

TimerChecks(r) ==
  /\ timer.pc = "scan" /\ r \in timer.todo
  /\ timer' = [timer EXCEPT !.todo = @ \ {r}, !.keep = IF Young(r) THEN @ \cup {r} ELSE @]
  /\ UNCHANGED <<heap, rsuList, bsmList, now, updated, reg, del, req, task>>

TimerPublishes ==
  /\ timer.pc = "scan" /\ timer.todo = {}
  /\ bsmList' = timer.keep
  /\ timer' = [pc |-> "idle", todo |-> {}, keep |-> {}]
  /\ UNCHANGED <<heap, rsuList, now, updated, reg, del, req, task>>

Tick ==
  /\ now < MaxNow /\ now' = now + 1
  /\ UNCHANGED <<heap, rsuList, bsmList, updated, reg, del, req, task, timer>>

Next ==
  \/ \E g \in Regs : \/ \E port \in Ports : Register(g, port)
                     \/ RegisterUnparsed(g) \/ ScanList(g) \/ AddUnit(g) \/ PublishUnits(g)
  \/ \E d \in Dels : \/ \E port \in Ports : Delete(d, port)
                     \/ CopyUnit(d) \/ PublishCopy(d)
  \/ \E r \in Reqs : \/ \E bsm \in Bsms : Ask(r, bsm)
                     \/ Drop(r) \/ Look(r) \/ Match(r) \/ Submit(r) \/ Track(r)
                     \/ Begin(r) \/ Identify(r) \/ Forward(r)
                     \/ TimerChecks(r)
  \/ TimerRuns \/ TimerPublishes \/ Tick

Spec == Init /\ [][Next]_vars

-----------------------------------------------------------------------------
(* A hub has one unit: a registration replaces the one that has its port      *)
(* (RSUService.RegisteringRSU), whatever deletions copy meanwhile.            *)
OnePerPort ==
  rsuList # Absent =>
    LET elems == heap[rsuList].elems IN
    \A i, j \in 1..Len(elems) : reg[elems[i]].port = reg[elems[j]].port => i = j

(* When the task of a request is over, it has tried the hub of every unit     *)
(* along the route that was registered when the request came in.              *)
Served == \A r \in Reqs : task[r].pc = "over" => task[r].due \subseteq task[r].tried

(* It has, unless a registration changed that very list since; deletions and  *)
(* hubs out of reach never disturb it.                                        *)
ServedIfUnchanged ==
  \A r \in Reqs :
    task[r].pc = "over" /\ heap[req[r].list].changes = task[r].from
    => task[r].due \subseteq task[r].tried

(* However requests and the timer overtake one another, a BSM is tracked once, *)
(* so that one refresh keeps it and one expiry forgets it.                    *)
TrackedOnce ==
  bsmList # Absent => \A p, q \in bsmList : req[p].bsm = req[q].bsm => p = q

(* A request is ignored only when another one started a task for its BSM.     *)
IgnoredWasProcessed ==
  \A r \in Reqs : req[r].ignored =>
    \E q \in Reqs \ {r} : req[q].bsm = req[r].bsm /\ task[q].pc # "none"

(* The lists keep their shape, and list one unit for each hub.                *)
RegistrySound == TypeOK /\ OnePerPort
=============================================================================

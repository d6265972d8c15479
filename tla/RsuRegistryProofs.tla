-------------------------- MODULE RsuRegistryProofs ---------------------------
(***************************************************************************)
(* What the two lists of RSUServlet keep, for any number of hubs, units,   *)
(* deletions, requests and clock ticks.  The invariant says of each thread *)
(* what it knows of a list that others may change or replace under it: as  *)
(* long as the change count it started from still stands, what it has seen *)
(* is a prefix of what is there; once it does not, nothing is claimed.     *)
(***************************************************************************)
EXTENDS RsuRegistry, FiniteSetTheorems, TLAPS

(* A registration that is in a list, or was: its port no longer changes.      *)
Entered(g) == reg[g].pc \in {"publish", "done"}
AllEntered(elems) == \A k \in 1..Len(elems) : Entered(elems[k])

ListsInv ==
  /\ heap \in Seq(List) /\ rsuList \in {Absent} \cup Lists
  /\ \A l \in Lists : AllEntered(heap[l].elems)

RegistrationsInv ==
  /\ reg \in [Regs -> Registration]
  /\ \A g \in Regs : /\ reg[g].pc \in {"scan", "add", "publish"} => reg[g].list \in Lists
                     /\ reg[g].pc = "scan" => reg[g].i >= 1

(* What a deletion copied, it copied from the front of the list it reads.     *)
CopyFits(d) ==
  LET list == heap[del[d].list] IN
  /\ AllEntered(del[d].copy)
  /\ del[d].pc = "copy" =>
       /\ del[d].list \in Lists /\ del[d].changes <= list.changes
       /\ list.changes = del[d].changes =>
            /\ del[d].i <= Len(list.elems)
            /\ \A j \in 1..Len(del[d].copy) : \E k \in 1..del[d].i : del[d].copy[j] = list.elems[k]

DeletionsInv == del \in [Dels -> Deletion] /\ \A d \in Dels : CopyFits(d)

(* The ports of the first n units of a request's list that its route passes.  *)
Passed(r, n) ==
  {reg[heap[req[r].list].elems[k]].port : k \in 1..n} \cap Along[req[r].bsm]
Unchanged(r) == heap[req[r].list].changes = task[r].from
Waiting(r) == req[r].pc \in {"look", "match", "submit"}
Found(r) == {task[r].found[j] : j \in 1..Len(task[r].found)}

(* A task, before it is submitted and at each of its stages.                  *)
TaskFits(r) ==
  LET list == heap[req[r].list] IN
  /\ req[r].pc = "none" \/ Waiting(r) => task[r].pc = "none"
  /\ task[r].pc \in {"none", "submitted"} =>
       task[r].found = <<>> /\ task[r].tried = {} /\ task[r].i = 0
  /\ Waiting(r) \/ task[r].pc # "none" =>
       req[r].list \in Lists /\ req[r].bsm \in Bsms /\ task[r].from <= list.changes
  /\ (Waiting(r) \/ task[r].pc = "submitted") /\ Unchanged(r) =>
       task[r].due = Passed(r, Len(list.elems))
  /\ task[r].pc = "identify" =>
       /\ task[r].from <= task[r].changes /\ task[r].changes <= list.changes
       /\ Unchanged(r) =>
            /\ task[r].due = Passed(r, Len(list.elems))
            /\ task[r].i <= Len(list.elems) /\ Passed(r, task[r].i) \subseteq Found(r)
  /\ task[r].pc = "forward" /\ Unchanged(r) =>
       task[r].due \subseteq Found(r) \cup task[r].tried
  /\ task[r].pc = "over" /\ Unchanged(r) =>
       task[r].due \subseteq task[r].tried

TasksInv ==
  /\ req \in [Reqs -> Request] /\ task \in [Reqs -> Task]
  /\ \A r \in Reqs : TaskFits(r)

TimerInv ==
  /\ bsmList = Absent \/ bsmList \subseteq Reqs
  /\ now \in 0..MaxNow /\ updated \in [Reqs -> 0..MaxNow] /\ timer \in Timer

RsuInv == ListsInv /\ RegistrationsInv /\ DeletionsInv /\ TasksInv /\ TimerInv

(* The requests of a set stand for BSMs of their own, and each has a task.    *)
Tracked(S) ==
  /\ \A q \in S : task[q].pc # "none"
  /\ \A p, q \in S : req[p].bsm = req[q].bsm => p = q

(* A request that goes on has no BSM in common with those it knows, and is     *)
(* published only once it has a task.                                         *)
TrackFits(r) ==
  /\ Tracked(req[r].known)
  /\ req[r].pc = "none" \/ Waiting(r) => ~req[r].ignored
  /\ req[r].pc = "publish" /\ ~req[r].ignored => task[r].pc # "none"
  /\ req[r].pc \in {"submit", "publish"} /\ ~req[r].ignored =>
       \A q \in req[r].known : req[q].bsm # req[r].bsm

TrackInv ==
  /\ bsmList # Absent => Tracked(bsmList)
  /\ Tracked(timer.todo \cup timer.keep)
  /\ \A r \in Reqs : TrackFits(r)
  /\ IgnoredWasProcessed

(* No two units of a list have a port in common.                              *)
Unique(elems) ==
  \A i, j \in 1..Len(elems) : reg[elems[i]].port = reg[elems[j]].port => i = j

Registering(g) == reg[g].pc \notin {"none", "done"}

(* One registration works at a time, and its loop leaves no unit of its port  *)
(* behind it.                                                                 *)
UniqueInv ==
  /\ \A l \in Lists : Unique(heap[l].elems)
  /\ \A d \in Dels : Unique(del[d].copy)
  /\ \A g, h \in Regs : Registering(g) /\ Registering(h) => g = h
  /\ \A g \in Regs :
       LET elems == heap[reg[g].list].elems IN
       /\ reg[g].pc = "scan" =>
            \A k \in 1..Len(elems) : k < reg[g].i => reg[elems[k]].port # reg[g].port
       /\ reg[g].pc = "add" =>
            \A k \in 1..Len(elems) : reg[elems[k]].port # reg[g].port

-----------------------------------------------------------------------------
(* The lists on the heap.                                                     *)

(* The element of a list is a registration.                                   *)
LEMMA ElementOf ==
  ASSUME heap \in Seq(List), NEW l \in Lists
  PROVE  /\ heap[l] \in List /\ heap[l].elems \in Seq(Regs) /\ heap[l].changes \in Nat
         /\ Len(heap[l].elems) \in Nat
         /\ \A k \in 1..Len(heap[l].elems) : heap[l].elems[k] \in Regs
<1>1. heap[l] \in List
  BY DEF Lists
<1>2. heap[l].elems \in Seq(Regs) /\ heap[l].changes \in Nat
  BY <1>1 DEF List
<1> QED BY <1>1, <1>2

(* A step of the heap: lists are never taken off it, and change by one.       *)
HeapStep ==
  /\ heap' \in Seq(List) /\ Len(heap') >= Len(heap)
  /\ \A l \in Lists : heap'[l] = heap[l] \/ heap'[l].changes = heap[l].changes + 1

(* A step of the registrations: a unit in a list keeps its port.              *)
EnteredStep ==
  \A g \in Regs : Entered(g) =>
    reg'[g].pc \in {"publish", "done"} /\ reg'[g].port = reg[g].port

LEMMA HeapAppend ==
  ASSUME heap \in Seq(List), NEW list \in List, heap' = Append(heap, list)
  PROVE  /\ HeapStep /\ Len(heap') = Len(heap) + 1 /\ heap'[Len(heap')] = list
         /\ \A l \in Lists : heap'[l] = heap[l]
<1>1. Len(heap) \in Nat
  OBVIOUS
<1> QED BY <1>1 DEF HeapStep, Lists

LEMMA HeapChange ==
  ASSUME heap \in Seq(List), NEW l \in Lists, NEW elems \in Seq(Regs), heap' = Change(l, elems)
  PROVE  /\ HeapStep /\ Len(heap') = Len(heap)
         /\ heap'[l].elems = elems /\ heap'[l].changes = heap[l].changes + 1
         /\ \A k \in Lists \ {l} : heap'[k] = heap[k]
<1>1. heap[l].changes \in Nat /\ Len(heap) \in Nat
  BY ElementOf
<1> DEFINE new == [elems |-> elems, changes |-> heap[l].changes + 1]
<1>2. new \in List
  BY <1>1 DEF List
<1>3. heap' = [heap EXCEPT ![l] = new]
  BY DEF Change
<1> HIDE DEF new
<1>4. heap' \in Seq(List) /\ Len(heap') = Len(heap) /\ heap'[l] = new /\ \A k \in Lists \ {l} : heap'[k] = heap[k]
  BY <1>2, <1>3 DEF Lists
<1>5. new.elems = elems /\ new.changes = heap[l].changes + 1
  BY DEF new
<1> QED BY <1>1, <1>4, <1>5 DEF HeapStep, Lists

(* What is left when an element is removed.                                   *)
LEMMA RemoveAtElements ==
  ASSUME NEW S, NEW s \in Seq(S), NEW i \in 1..Len(s)
  PROVE  /\ RemoveAt(s, i) \in Seq(S) /\ Len(RemoveAt(s, i)) = Len(s) - 1
         /\ \A k \in 1..(i - 1) : RemoveAt(s, i)[k] = s[k]
         /\ \A k \in i..(Len(s) - 1) : RemoveAt(s, i)[k] = s[k + 1]
<1> DEFINE a == SubSeq(s, 1, i - 1)
           b == SubSeq(s, i + 1, Len(s))
<1>0. Len(s) \in Nat
  OBVIOUS
<1>1. a \in Seq(S) /\ Len(a) = i - 1 /\ \A k \in 1..(i - 1) : a[k] = s[k]
  BY <1>0
<1>2. b \in Seq(S) /\ Len(b) = Len(s) - i /\ \A k \in 1..(Len(s) - i) : b[k] = s[i + k]
  BY <1>0
<1> HIDE DEF a, b
<1>3. a \o b \in Seq(S) /\ Len(a \o b) = Len(s) - 1
  <2>0. a \in Seq(S) /\ b \in Seq(S)
    BY <1>1, <1>2
  <2>1. a \o b \in Seq(S)
    BY <2>0
  <2>2. Len(a \o b) = Len(a) + Len(b)
    BY <2>0
  <2> QED BY <1>0, <1>1, <1>2, <2>1, <2>2
<1>4. \A k \in 1..(i - 1) : (a \o b)[k] = s[k]
  BY <1>0, <1>1, <1>2
<1>5. ASSUME NEW k \in i..(Len(s) - 1) PROVE (a \o b)[k] = s[k + 1]
  <2>1. k > Len(a) /\ k <= Len(a) + Len(b) /\ k - Len(a) = k - i + 1 /\ k - i + 1 \in 1..(Len(s) - i)
    BY <1>0, <1>1, <1>2
  <2>2. (a \o b)[k] = b[k - i + 1]
    BY <1>0, <1>1, <1>2, <2>1
  <2>3. b[k - i + 1] = s[i + (k - i + 1)]
    BY <1>2, <2>1
  <2>4. i + (k - i + 1) = k + 1
    BY <1>0
  <2> QED BY <2>2, <2>3, <2>4
<1> QED BY <1>3, <1>4, <1>5 DEF RemoveAt, a, b

-----------------------------------------------------------------------------
(* What a step of the lists leaves to the others.                             *)

LEMMA CopyKept ==
  ASSUME ListsInv, DeletionsInv, HeapStep, EnteredStep, NEW d \in Dels, del'[d] = del[d]
  PROVE  CopyFits(d)'
<1>1. CopyFits(d) /\ del[d] \in Deletion
  BY DEF DeletionsInv
<1>2. del[d].copy \in Seq(Regs) /\ del[d].changes \in Nat
  BY <1>1 DEF Deletion
<1>3. AllEntered(del[d].copy)'
  BY <1>1, <1>2 DEF CopyFits, AllEntered, EnteredStep, Entered
<1>4. ASSUME del[d].pc = "copy"
      PROVE  LET l == del[d].list IN
             /\ l \in Lists' /\ del[d].changes <= heap'[l].changes
             /\ heap'[l].changes = del[d].changes => heap'[l] = heap[l] /\ heap[l].changes = del[d].changes
  <2> DEFINE l == del[d].list
  <2>1. l \in Lists /\ del[d].changes <= heap[l].changes
    BY <1>1, <1>4 DEF CopyFits
  <2>2. heap[l].changes \in Nat
    BY <2>1, ElementOf DEF ListsInv
  <2>3. l \in Lists'
    BY <2>1 DEF Lists, HeapStep, ListsInv
  <2>4. heap'[l] = heap[l] \/ heap'[l].changes = heap[l].changes + 1
    BY <2>1 DEF HeapStep
  <2> QED BY <1>2, <2>1, <2>2, <2>3, <2>4
<1> QED BY <1>1, <1>3, <1>4 DEF CopyFits

LEMMA TaskKept ==
  ASSUME ListsInv, TasksInv, HeapStep, EnteredStep, NEW r \in Reqs,
         req'[r] = req[r], task'[r] = task[r]
  PROVE  TaskFits(r)'
<1> DEFINE l == req[r].list
<1>1. TaskFits(r) /\ task[r] \in Task
  BY DEF TasksInv
<1>2. task[r].from \in Nat /\ task[r].changes \in Nat
  BY <1>1 DEF Task
<1>3. CASE ~Waiting(r) /\ task[r].pc = "none"
  BY <1>1, <1>3 DEF TaskFits, Waiting
<1>4. CASE Waiting(r) \/ task[r].pc # "none"
  <2>1. l \in Lists /\ task[r].from <= heap[l].changes
    BY <1>1, <1>4 DEF TaskFits
  <2>2. heap[l].changes \in Nat
    BY <2>1, ElementOf DEF ListsInv
  <2>3. l \in Lists'
    BY <2>1 DEF Lists, HeapStep, ListsInv
  <2>4. heap'[l] = heap[l] \/ heap'[l].changes = heap[l].changes + 1
    BY <2>1 DEF HeapStep
  <2>5. task[r].from <= heap'[l].changes
    BY <1>2, <2>1, <2>2, <2>4
  <2>6. heap'[l].changes = task[r].from => heap'[l] = heap[l]
    BY <1>2, <2>1, <2>2, <2>4
  <2>7. task[r].changes <= heap[l].changes => task[r].changes <= heap'[l].changes
    BY <1>2, <2>2, <2>4
  <2>8. Unchanged(r)' => Unchanged(r) /\ heap'[l] = heap[l]
    BY <2>6 DEF Unchanged
  <2>9. ASSUME Unchanged(r)', NEW n \in Nat, n <= Len(heap[l].elems)
        PROVE  Passed(r, n)' = Passed(r, n)
    <3>1. \A k \in 1..n : heap[l].elems[k] \in Regs /\ Entered(heap[l].elems[k])
      BY <2>1, <2>9, ElementOf DEF ListsInv, AllEntered
    <3>2. \A k \in 1..n : reg'[heap[l].elems[k]].port = reg[heap[l].elems[k]].port
      BY <3>1 DEF EnteredStep
    <3>3. req'[r].list = l /\ req'[r].bsm = req[r].bsm /\ heap'[l] = heap[l]
      BY <2>8, <2>9
    <3> QED BY <3>2, <3>3, SMTT(30) DEF Passed
  <2>10. Len(heap[l].elems) \in Nat /\ task[r].i \in Nat
    BY <1>1, <2>1, ElementOf DEF ListsInv, Task
  <2>11. Found(r)' = Found(r) /\ Waiting(r)' = Waiting(r)
    BY DEF Found, Waiting
  <2>12. Unchanged(r)' => Passed(r, Len(heap[l].elems))' = Passed(r, Len(heap[l].elems))
    BY <2>8, <2>9, <2>10
  <2>13. Unchanged(r)' /\ task[r].i <= Len(heap[l].elems) => Passed(r, task[r].i)' = Passed(r, task[r].i)
    BY <2>9, <2>10
  <2> QED BY <1>1, <2>3, <2>5, <2>7, <2>8, <2>10, <2>11, <2>12, <2>13 DEF TaskFits
<1> QED BY <1>3, <1>4

-----------------------------------------------------------------------------
(* Registrations, and what they do to the lists.                              *)

(* A registration that is written over was not in a list, or stays in it.     *)
LEMMA EnteredWrite ==
  ASSUME RegistrationsInv, NEW g \in Regs, NEW entry, reg' = [reg EXCEPT ![g] = entry],
         Entered(g) => entry.pc \in {"publish", "done"} /\ entry.port = reg[g].port
  PROVE  EnteredStep
BY DEF EnteredStep, Entered, RegistrationsInv

LEMMA RegistrationsWrite ==
  ASSUME RegistrationsInv, NEW g \in Regs, NEW entry \in Registration, reg' = [reg EXCEPT ![g] = entry],
         Lists \subseteq Lists',
         entry.pc \in {"scan", "add", "publish"} => entry.list \in Lists',
         entry.pc = "scan" => entry.i >= 1
  PROVE  RegistrationsInv'
BY DEF RegistrationsInv

(* Lists that keep their elements, and perhaps gain a list of entered ones.   *)
LEMMA ListsWrite ==
  ASSUME ListsInv, HeapStep, EnteredStep, rsuList' \in {Absent} \cup Lists',
         \A l \in Lists' : \A k \in 1..Len(heap'[l].elems) :
           \/ reg'[heap'[l].elems[k]].pc \in {"publish", "done"}
           \/ \E m \in Lists : \E n \in 1..Len(heap[m].elems) : heap'[l].elems[k] = heap[m].elems[n]
  PROVE  ListsInv'
<1>1. \A m \in Lists : \A n \in 1..Len(heap[m].elems) : heap[m].elems[n] \in Regs /\ Entered(heap[m].elems[n])
  BY ElementOf DEF ListsInv, AllEntered
<1>2. \A m \in Lists : \A n \in 1..Len(heap[m].elems) :
        reg'[heap[m].elems[n]].pc \in {"publish", "done"}
  BY <1>1 DEF EnteredStep
<1>3. \A l \in Lists' : \A k \in 1..Len(heap'[l].elems) : reg'[heap'[l].elems[k]].pc \in {"publish", "done"}
  BY <1>2
<1> QED BY <1>3 DEF ListsInv, HeapStep, AllEntered, Entered

RegistrationOutcome == ListsInv' /\ RegistrationsInv' /\ HeapStep /\ EnteredStep

LEMMA RegisterOutcome ==
  ASSUME ListsInv, RegistrationsInv, NEW g \in Regs, NEW port \in Ports, Register(g, port)
  PROVE  RegistrationOutcome
<1>1. reg \in [Regs -> Registration] /\ reg[g].pc = "none" /\ ~Entered(g) /\ Len(heap) \in Nat
      /\ heap \in Seq(List)
  BY DEF RegistrationsInv, Register, Entered, ListsInv
<1>2. CASE /\ heap' = Append(heap, [elems |-> <<>>, changes |-> 0])
           /\ reg' = [reg EXCEPT ![g] = [pc |-> "add", port |-> port, list |-> Len(heap'), i |-> 0]]
  <2> DEFINE new == [elems |-> <<>>, changes |-> 0]
             entry == [pc |-> "add", port |-> port, list |-> Len(heap'), i |-> 0]
  <2>1. new \in List
    BY DEF List
  <2>2. HeapStep /\ Len(heap') = Len(heap) + 1 /\ heap'[Len(heap')] = new /\ \A l \in Lists : heap'[l] = heap[l]
    <3> HIDE DEF new
    <3> QED BY <1>1, <1>2, <2>1, HeapAppend DEF new
  <2>3. entry \in Registration /\ entry.pc = "add" /\ entry.list = Len(heap')
    BY <1>1, <2>2 DEF Registration
  <2>4. EnteredStep
    BY <1>1, <1>2, EnteredWrite
  <2>5. RegistrationsInv'
    <3>1. reg' = [reg EXCEPT ![g] = entry] /\ Lists \subseteq Lists' /\ Len(heap') \in Lists'
      BY <1>1, <1>2, <2>2 DEF Lists
    <3> HIDE DEF entry
    <3> QED BY <2>3, <3>1, RegistrationsWrite
  <2>6. \A l \in Lists' : l \in Lists \/ heap'[l].elems = <<>>
    BY <1>1, <2>2 DEF Lists
  <2>7. rsuList' \in {Absent} \cup Lists'
    BY <1>1, <2>2 DEF Register, Lists, ListsInv
  <2>8. \A l \in Lists' : \A k \in 1..Len(heap'[l].elems) :
          \E m \in Lists : \E n \in 1..Len(heap[m].elems) : heap'[l].elems[k] = heap[m].elems[n]
    BY <2>2, <2>6
  <2> QED BY <2>2, <2>4, <2>5, <2>7, <2>8, ListsWrite DEF RegistrationOutcome
<1>3. CASE /\ rsuList # Absent /\ heap' = heap
           /\ reg' = [reg EXCEPT ![g] = [pc |-> "scan", port |-> port, list |-> rsuList, i |-> 1]]
  <2> DEFINE entry == [pc |-> "scan", port |-> port, list |-> rsuList, i |-> 1]
  <2>1. rsuList \in Lists /\ rsuList' = rsuList /\ Lists' = Lists
    BY <1>3 DEF ListsInv, Register, Lists
  <2>2. entry \in Registration /\ entry.pc = "scan" /\ entry.list = rsuList /\ entry.i >= 1
    BY <1>1, <2>1 DEF Registration, Lists
  <2>3. HeapStep
    BY <1>1, <1>3 DEF HeapStep
  <2>4. EnteredStep
    BY <1>1, <1>3, EnteredWrite
  <2>5. RegistrationsInv'
    <3>1. reg' = [reg EXCEPT ![g] = entry] /\ Lists \subseteq Lists' /\ rsuList \in Lists'
      BY <1>3, <2>1
    <3> HIDE DEF entry
    <3> QED BY <2>2, <3>1, RegistrationsWrite
  <2>6. ListsInv'
    BY <1>3, <2>1, <2>3, <2>4, ListsWrite DEF ListsInv
  <2> QED BY <2>3, <2>4, <2>5, <2>6 DEF RegistrationOutcome
<1> QED BY <1>2, <1>3 DEF Register

(* A step that writes a registration and leaves the heap alone.               *)
LEMMA SameHeapOutcome ==
  ASSUME ListsInv, RegistrationsInv, NEW g \in Regs, NEW entry \in Registration,
         reg' = [reg EXCEPT ![g] = entry], heap' = heap, rsuList' \in {Absent} \cup Lists,
         Entered(g) => entry.pc \in {"publish", "done"} /\ entry.port = reg[g].port,
         entry.pc \in {"scan", "add", "publish"} => entry.list \in Lists,
         entry.pc = "scan" => entry.i >= 1
  PROVE  RegistrationOutcome
<1>1. Lists' = Lists /\ Len(heap) \in Nat /\ heap \in Seq(List)
  BY DEF Lists, ListsInv
<1>2. HeapStep
  BY <1>1 DEF HeapStep
<1>3. EnteredStep
  BY EnteredWrite
<1>4. RegistrationsInv'
  BY <1>1, RegistrationsWrite
<1>5. ListsInv'
  BY <1>1, <1>2, <1>3, ListsWrite
<1> QED BY <1>2, <1>3, <1>4, <1>5 DEF RegistrationOutcome

LEMMA RegisterUnparsedOutcome ==
  ASSUME ListsInv, RegistrationsInv, NEW g \in Regs, RegisterUnparsed(g)
  PROVE  RegistrationOutcome
<1>1. reg[g] \in Registration /\ reg[g].pc = "none" /\ ~Entered(g)
  BY DEF RegistrationsInv, RegisterUnparsed, Entered
<1>2. CASE rsuList = Absent
  <2> DEFINE entry == [reg[g] EXCEPT !.pc = "done"]
  <2>1. entry \in Registration /\ entry.pc = "done" /\ entry.port = reg[g].port
    BY <1>1 DEF Registration
  <2>2. reg' = [reg EXCEPT ![g] = entry] /\ heap' = heap /\ rsuList' \in {Absent} \cup Lists
    BY <1>2 DEF RegisterUnparsed
  <2> HIDE DEF entry
  <2> QED BY <1>1, <2>1, <2>2, SameHeapOutcome
<1>3. CASE rsuList # Absent
  <2> DEFINE entry == [reg[g] EXCEPT !.pc = "publish", !.list = rsuList]
  <2>0. rsuList \in Lists /\ rsuList \in Nat
    BY <1>3 DEF ListsInv, Lists
  <2>1. entry \in Registration /\ entry.pc = "publish" /\ entry.list = rsuList
    BY <1>1, <2>0 DEF Registration
  <2>2. reg' = [reg EXCEPT ![g] = entry] /\ heap' = heap /\ rsuList' \in {Absent} \cup Lists
    BY <1>3, <2>0 DEF RegisterUnparsed
  <2> HIDE DEF entry
  <2> QED BY <1>1, <2>0, <2>1, <2>2, SameHeapOutcome
<1> QED BY <1>2, <1>3

(* What the loop sees, and leaves of the list it works on.                    *)
LEMMA ScanStep ==
  ASSUME ListsInv, RegistrationsInv, NEW g \in Regs, ScanList(g),
         reg[g].i <= Len(heap[reg[g].list].elems)
  PROVE  LET l == reg[g].list
             old == heap[l].elems
             i == reg[g].i
         IN /\ l \in Lists /\ i \in 1..Len(old) /\ i \in Nat /\ old \in Seq(Regs)
            /\ reg' = [reg EXCEPT ![g].i = i + 1]
            /\ \/ reg[old[i]].port # reg[g].port /\ heap' = heap
               \/ /\ reg[old[i]].port = reg[g].port /\ HeapStep /\ Len(heap') = Len(heap)
                  /\ heap'[l].elems = RemoveAt(old, i)
                  /\ \A k \in Lists \ {l} : heap'[k] = heap[k]
<1> DEFINE l == reg[g].list
           old == heap[l].elems
           i == reg[g].i
<1>1. l \in Lists /\ i >= 1 /\ reg[g] \in Registration
  BY DEF RegistrationsInv, ScanList
<1>2. i \in Nat /\ old \in Seq(Regs) /\ Len(old) \in Nat
  BY <1>1, ElementOf DEF Registration, ListsInv
<1>3. i \in 1..Len(old)
  BY <1>1, <1>2
<1>4. reg' = [reg EXCEPT ![g].i = i + 1]
  BY DEF ScanList, InLoop
<1>5. CASE reg[old[i]].port = reg[g].port
  <2>1. heap' = Change(l, RemoveAt(old, i))
    BY <1>5 DEF ScanList, InLoop
  <2>2. RemoveAt(old, i) \in Seq(Regs)
    BY <1>2, <1>3, RemoveAtElements
  <2> DEFINE new == RemoveAt(old, i)
  <2>3. new = RemoveAt(old, i)
    OBVIOUS
  <2> HIDE DEF new
  <2>4. HeapStep /\ Len(heap') = Len(heap) /\ heap'[l].elems = new /\ \A k \in Lists \ {l} : heap'[k] = heap[k]
    BY <1>1, <2>1, <2>2, <2>3, HeapChange DEF ListsInv
  <2> QED BY <1>1, <1>2, <1>3, <1>4, <1>5, <2>3, <2>4
<1>6. CASE reg[old[i]].port # reg[g].port
  <2>1. heap' = heap
    BY <1>6 DEF ScanList, InLoop
  <2> QED BY <1>1, <1>2, <1>3, <1>4, <1>6, <2>1
<1> QED BY <1>5, <1>6

LEMMA ScanListOutcome ==
  ASSUME ListsInv, RegistrationsInv, NEW g \in Regs, ScanList(g)
  PROVE  RegistrationOutcome
<1> DEFINE l == reg[g].list
           old == heap[l].elems
           i == reg[g].i
<1>1. reg[g] \in Registration /\ reg[g].pc = "scan" /\ ~Entered(g) /\ l \in Lists /\ i >= 1 /\ i \in Nat
      /\ rsuList' \in {Absent} \cup Lists /\ heap \in Seq(List) /\ Len(heap) \in Nat
  BY DEF RegistrationsInv, ScanList, Entered, Registration, ListsInv
<1>2. CASE i <= Len(old)
  <2> DEFINE entry == [reg[g] EXCEPT !.i = i + 1]
  <2>1. entry \in Registration /\ entry.pc = "scan" /\ entry.list = l /\ entry.i >= 1
    BY <1>1 DEF Registration
  <2>2. reg' = [reg EXCEPT ![g] = entry]
    BY <1>2, ScanStep
  <2> HIDE DEF entry
  <2>3. CASE heap' = heap
    BY <1>1, <2>1, <2>2, <2>3, SameHeapOutcome
  <2>4. CASE /\ HeapStep /\ Len(heap') = Len(heap) /\ heap'[l].elems = RemoveAt(old, i)
             /\ \A k \in Lists \ {l} : heap'[k] = heap[k]
    <3>1. i \in 1..Len(old) /\ old \in Seq(Regs) /\ Len(old) \in Nat
      BY <1>2, ScanStep, ElementOf DEF ListsInv
    <3>2. Lists' = Lists
      BY <2>4 DEF Lists
    <3>3. \A k \in 1..Len(heap'[l].elems) : \E n \in 1..Len(old) : heap'[l].elems[k] = old[n]
      <4> SUFFICES ASSUME NEW k \in 1..Len(RemoveAt(old, i))
                   PROVE  \E n \in 1..Len(old) : RemoveAt(old, i)[k] = old[n]
        BY <2>4
      <4> HIDE DEF old, i
      <4>0. /\ Len(RemoveAt(old, i)) = Len(old) - 1
            /\ \A n \in 1..(i - 1) : RemoveAt(old, i)[n] = old[n]
            /\ \A n \in i..(Len(old) - 1) : RemoveAt(old, i)[n] = old[n + 1]
        BY <3>1, RemoveAtElements
      <4>1. k \in 1..(Len(old) - 1)
        BY <4>0
      <4>2. CASE k \in 1..(i - 1)
        <5>1. RemoveAt(old, i)[k] = old[k] /\ k \in 1..Len(old)
          BY <3>1, <4>0, <4>1, <4>2
        <5> QED BY <5>1
      <4>3. CASE k \in i..(Len(old) - 1)
        <5>1. RemoveAt(old, i)[k] = old[k + 1] /\ k + 1 \in 1..Len(old)
          BY <3>1, <4>0, <4>1, <4>3
        <5> QED BY <5>1
      <4> QED BY <3>1, <4>1, <4>2, <4>3
    <3>4. EnteredStep
      BY <1>1, <2>2, EnteredWrite
    <3>5. RegistrationsInv'
      BY <1>1, <2>1, <2>2, <3>2, RegistrationsWrite
    <3>6. \A m \in Lists' : \A k \in 1..Len(heap'[m].elems) :
            \E x \in Lists : \E n \in 1..Len(heap[x].elems) : heap'[m].elems[k] = heap[x].elems[n]
      <4> SUFFICES ASSUME NEW m \in Lists, NEW k \in 1..Len(heap'[m].elems)
                   PROVE  \E x \in Lists : \E n \in 1..Len(heap[x].elems) :
                            heap'[m].elems[k] = heap[x].elems[n]
        BY <3>2
      <4>1. CASE m = l
        <5>1. PICK n \in 1..Len(old) : heap'[l].elems[k] = old[n]
          BY <3>3, <4>1
        <5> QED BY <1>1, <4>1, <5>1
      <4>2. CASE m # l
        <5>1. heap'[m] = heap[m]
          BY <2>4, <4>2
        <5> QED BY <5>1
      <4> QED BY <4>1, <4>2
    <3>7. ListsInv'
      BY <1>1, <2>4, <3>2, <3>4, <3>6, ListsWrite
    <3> QED BY <2>4, <3>4, <3>5, <3>7 DEF RegistrationOutcome
  <2> QED BY <1>2, <2>3, <2>4, ScanStep
<1>3. CASE ~(i <= Len(old))
  <2> DEFINE entry == [reg[g] EXCEPT !.pc = "add", !.i = 0]
  <2>1. entry \in Registration /\ entry.pc = "add" /\ entry.list = l
    BY <1>1 DEF Registration
  <2>2. reg' = [reg EXCEPT ![g] = entry] /\ heap' = heap
    BY <1>3 DEF ScanList, InLoop
  <2> HIDE DEF entry
  <2> QED BY <1>1, <2>1, <2>2, SameHeapOutcome
<1> QED BY <1>2, <1>3

LEMMA AddUnitStep ==
  ASSUME ListsInv, RegistrationsInv, NEW g \in Regs, AddUnit(g)
  PROVE  LET l == reg[g].list
             old == heap[l].elems
         IN /\ l \in Lists /\ old \in Seq(Regs) /\ Len(old) \in Nat
            /\ heap'[l].elems = Append(old, g)
            /\ HeapStep /\ Len(heap') = Len(heap) /\ \A k \in Lists \ {l} : heap'[k] = heap[k]
<1> DEFINE l == reg[g].list
           old == heap[l].elems
           new == Append(old, g)
<1>1. l \in Lists /\ heap \in Seq(List)
  BY DEF RegistrationsInv, AddUnit, ListsInv
<1>2. old \in Seq(Regs) /\ Len(old) \in Nat
  BY <1>1, ElementOf
<1>3. new \in Seq(Regs) /\ heap' = Change(l, new)
  BY <1>2 DEF AddUnit
<1> HIDE DEF new
<1>4. HeapStep /\ Len(heap') = Len(heap) /\ heap'[l].elems = new /\ \A k \in Lists \ {l} : heap'[k] = heap[k]
  BY <1>1, <1>3, HeapChange
<1> QED BY <1>1, <1>2, <1>4 DEF new

LEMMA AddUnitOutcome ==
  ASSUME ListsInv, RegistrationsInv, NEW g \in Regs, AddUnit(g)
  PROVE  RegistrationOutcome
<1> DEFINE l == reg[g].list
           old == heap[l].elems
           entry == [reg[g] EXCEPT !.pc = "publish"]
<1>1. reg[g] \in Registration /\ reg[g].pc = "add" /\ ~Entered(g) /\ l \in Lists
      /\ rsuList' \in {Absent} \cup Lists /\ heap \in Seq(List) /\ Len(heap) \in Nat
  BY DEF RegistrationsInv, AddUnit, Entered, ListsInv
<1>2. entry \in Registration /\ entry.pc = "publish" /\ entry.list = l
  BY <1>1 DEF Registration
<1>3. reg' = [reg EXCEPT ![g] = entry]
  BY DEF AddUnit
<1> HIDE DEF entry
<1>4. /\ old \in Seq(Regs) /\ Len(old) \in Nat /\ heap'[l].elems = Append(old, g)
      /\ HeapStep /\ Len(heap') = Len(heap) /\ \A k \in Lists \ {l} : heap'[k] = heap[k]
  BY AddUnitStep
<1>5. Lists' = Lists
  BY <1>4 DEF Lists
<1>6. EnteredStep
  BY <1>1, <1>3, EnteredWrite
<1>7. RegistrationsInv'
  BY <1>1, <1>2, <1>3, <1>4, <1>5, RegistrationsWrite DEF HeapStep
<1>8. reg'[g].pc \in {"publish", "done"}
  BY <1>2, <1>3 DEF RegistrationsInv
<1>9. \A k \in 1..Len(heap'[l].elems) : heap'[l].elems[k] = g \/ \E n \in 1..Len(old) : heap'[l].elems[k] = old[n]
  BY <1>4
<1>10. \A m \in Lists' : \A k \in 1..Len(heap'[m].elems) :
         \/ reg'[heap'[m].elems[k]].pc \in {"publish", "done"}
         \/ \E x \in Lists : \E n \in 1..Len(heap[x].elems) : heap'[m].elems[k] = heap[x].elems[n]
  <2> SUFFICES ASSUME NEW m \in Lists, NEW k \in 1..Len(heap'[m].elems)
               PROVE  \/ reg'[heap'[m].elems[k]].pc \in {"publish", "done"}
                      \/ \E x \in Lists : \E n \in 1..Len(heap[x].elems) : heap'[m].elems[k] = heap[x].elems[n]
    BY <1>5
  <2>1. CASE m = l
    BY <1>1, <1>8, <1>9, <2>1
  <2>2. CASE m # l
    <3>1. heap'[m] = heap[m]
      BY <1>4, <2>2
    <3> QED BY <3>1
  <2> QED BY <2>1, <2>2
<1>11. ListsInv'
  BY <1>1, <1>4, <1>5, <1>6, <1>10, ListsWrite
<1> QED BY <1>4, <1>6, <1>7, <1>11 DEF RegistrationOutcome

LEMMA PublishUnitsOutcome ==
  ASSUME ListsInv, RegistrationsInv, NEW g \in Regs, PublishUnits(g)
  PROVE  RegistrationOutcome
<1> DEFINE entry == [reg[g] EXCEPT !.pc = "done", !.list = 0, !.i = 0]
<1>1. reg[g] \in Registration /\ reg[g].pc = "publish" /\ reg[g].list \in Lists
  BY DEF RegistrationsInv, PublishUnits
<1>2. entry \in Registration /\ entry.pc = "done" /\ entry.port = reg[g].port
  BY <1>1 DEF Registration
<1>3. reg' = [reg EXCEPT ![g] = entry] /\ heap' = heap /\ rsuList' = reg[g].list
  BY DEF PublishUnits
<1> HIDE DEF entry
<1> QED BY <1>1, <1>2, <1>3, SameHeapOutcome

(* A thread that registers a unit.                                            *)
RegisterStep(g) ==
  \/ \E port \in Ports : Register(g, port)
  \/ RegisterUnparsed(g) \/ ScanList(g) \/ AddUnit(g) \/ PublishUnits(g)

LEMMA RegisterStepOutcome ==
  ASSUME ListsInv, RegistrationsInv, NEW g \in Regs, RegisterStep(g)
  PROVE  RegistrationOutcome
BY RegisterOutcome, RegisterUnparsedOutcome, ScanListOutcome, AddUnitOutcome, PublishUnitsOutcome
   DEF RegisterStep

LEMMA RegisterStepInv ==
  ASSUME RsuInv, NEW g \in Regs, RegisterStep(g)
  PROVE  RsuInv'
<1>1. RegistrationOutcome
  BY RegisterStepOutcome DEF RsuInv
<1>2. UNCHANGED <<bsmList, now, updated, del, req, task, timer>>
  BY DEF RegisterStep, Register, RegisterUnparsed, ScanList, AddUnit, PublishUnits
<1>3. DeletionsInv'
  BY <1>1, <1>2, CopyKept DEF RsuInv, RegistrationOutcome, DeletionsInv
<1>4. TasksInv'
  BY <1>1, <1>2, TaskKept DEF RsuInv, RegistrationOutcome, TasksInv
<1> QED BY <1>1, <1>2, <1>3, <1>4 DEF RsuInv, RegistrationOutcome, TimerInv

-----------------------------------------------------------------------------
(* Deletions.                                                                 *)

(* Steps that leave the lists and the registrations as they are.              *)
LEMMA SameLists ==
  ASSUME RsuInv, heap' = heap, rsuList' = rsuList, reg' = reg
  PROVE  HeapStep /\ EnteredStep /\ ListsInv' /\ RegistrationsInv'
<1>1. Lists' = Lists /\ heap \in Seq(List) /\ Len(heap) \in Nat
  BY DEF Lists, RsuInv, ListsInv
<1>2. HeapStep /\ EnteredStep
  BY <1>1 DEF HeapStep, EnteredStep, Entered
<1>3. ListsInv' /\ RegistrationsInv'
  BY <1>1 DEF RsuInv, ListsInv, RegistrationsInv, AllEntered, Entered
<1> QED BY <1>2, <1>3

(* A step that writes a deletion.                                             *)
LEMMA DeletionsWrite ==
  ASSUME ListsInv, DeletionsInv, HeapStep, EnteredStep, NEW d \in Dels, NEW entry \in Deletion,
         del' = [del EXCEPT ![d] = entry], CopyFits(d)'
  PROVE  DeletionsInv'
<1>1. del' \in [Dels -> Deletion]
  BY DEF DeletionsInv
<1>2. ASSUME NEW e \in Dels PROVE CopyFits(e)'
  <2>1. e # d => del'[e] = del[e]
    BY DEF DeletionsInv
  <2> QED BY <2>1, CopyKept
<1> QED BY <1>1, <1>2 DEF DeletionsInv

(* A deletion that has ended, or has not begun, holds nothing.                *)
LEMMA DeletionAtRest ==
  ASSUME NEW pc \in {"none", "done", "failed"}, NEW d \in Dels, DeletionsInv,
         del' = [del EXCEPT ![d] = DeletionAt(pc)]
  PROVE  DeletionAt(pc) \in Deletion /\ CopyFits(d)'
<1>1. DeletionAt(pc) \in Deletion
  BY DEF DeletionAt, Deletion
<1>2. del'[d] = DeletionAt(pc)
  BY DEF DeletionsInv
<1>3. del'[d].pc = pc /\ del'[d].copy = <<>>
  BY <1>2 DEF DeletionAt
<1>4. AllEntered(del[d].copy)'
  BY <1>3 DEF AllEntered
<1> QED BY <1>1, <1>3, <1>4 DEF CopyFits

LEMMA DeleteStep ==
  ASSUME RsuInv, NEW d \in Dels, NEW port \in Ports, Delete(d, port)
  PROVE  DeletionsInv'
<1>0. HeapStep /\ EnteredStep /\ ListsInv /\ DeletionsInv /\ del \in [Dels -> Deletion]
  BY SameLists DEF Delete, RsuInv, DeletionsInv
<1>1. CASE rsuList = Absent
  BY <1>0, <1>1, DeletionAtRest, DeletionsWrite DEF Delete
<1>2. CASE rsuList # Absent
  <2> DEFINE entry == [pc |-> "copy", port |-> port, list |-> rsuList, i |-> 0,
                       changes |-> heap[rsuList].changes, copy |-> <<>>]
  <2>1. rsuList \in Lists /\ rsuList \in Nat /\ heap[rsuList].changes \in Nat
        /\ Len(heap[rsuList].elems) \in Nat
    BY <1>0, <1>2, ElementOf DEF ListsInv, Lists
  <2>2. entry \in Deletion
    BY <2>1 DEF Deletion
  <2>3. del' = [del EXCEPT ![d] = entry] /\ heap' = heap /\ Lists' = Lists
    BY <1>2 DEF Delete, Lists
  <2>4. del'[d] = entry
    BY <1>0, <2>3
  <2>5. /\ del'[d].pc = "copy" /\ del'[d].list = rsuList /\ del'[d].i = 0
        /\ del'[d].changes = heap[rsuList].changes /\ del'[d].copy = <<>>
    BY <2>4
  <2>6. CopyFits(d)'
    BY <2>1, <2>3, <2>5 DEF CopyFits, AllEntered
  <2> HIDE DEF entry
  <2> QED BY <1>0, <2>2, <2>3, <2>6, DeletionsWrite
<1> QED BY <1>1, <1>2

(* What the loop of a deletion copies.                                        *)
LEMMA CopyUnitStep ==
  ASSUME RsuInv, NEW d \in Dels, CopyUnit(d)
  PROVE  LET l == del[d].list
             elems == heap[l].elems
             i == del[d].i
             u == elems[i + 1]
         IN /\ l \in Lists /\ i \in Nat /\ del[d].copy \in Seq(Regs) /\ del[d] \in Deletion
            /\ Len(elems) \in Nat
            /\ \/ del' = [del EXCEPT ![d] = [del[d] EXCEPT !.pc = "publish"]]
               \/ del' = [del EXCEPT ![d] = DeletionAt("failed")]
               \/ /\ i + 1 <= Len(elems) /\ i + 1 \in 1..Len(elems) /\ u \in Regs /\ Entered(u)
                  /\ heap[l].changes = del[d].changes
                  /\ \/ del' = [del EXCEPT ![d] = [del[d] EXCEPT !.i = i + 1]]
                     \/ del' = [del EXCEPT ![d] = [del[d] EXCEPT !.i = i + 1, !.copy = Append(del[d].copy, u)]]
<1> DEFINE l == del[d].list
           elems == heap[l].elems
           i == del[d].i
           u == elems[i + 1]
<1>1. del[d] \in Deletion /\ CopyFits(d) /\ del[d].pc = "copy" /\ ListsInv
  BY DEF CopyUnit, RsuInv, DeletionsInv
<1>2. i \in Nat /\ del[d].copy \in Seq(Regs) /\ l \in Lists
  BY <1>1 DEF Deletion, CopyFits
<1>3. Len(elems) \in Nat /\ \A k \in 1..Len(elems) : elems[k] \in Regs /\ Entered(elems[k])
  BY <1>1, <1>2, ElementOf DEF ListsInv, AllEntered
<1>4. CASE i = Len(elems)
  <2>1. del' = [del EXCEPT ![d] = [del[d] EXCEPT !.pc = "publish"]]
    BY <1>4 DEF CopyUnit
  <2> QED BY <1>1, <1>2, <1>3, <2>1
<1>5. CASE i # Len(elems) /\ heap[l].changes # del[d].changes
  <2>1. del' = [del EXCEPT ![d] = DeletionAt("failed")]
    BY <1>5 DEF CopyUnit
  <2> QED BY <1>1, <1>2, <1>3, <2>1
<1>6. CASE i # Len(elems) /\ heap[l].changes = del[d].changes
  <2>1. i <= Len(elems)
    BY <1>1, <1>6 DEF CopyFits
  <2>2. i + 1 \in 1..Len(elems)
    BY <1>2, <1>3, <1>6, <2>1
  <2>3. \/ del' = [del EXCEPT ![d] = [del[d] EXCEPT !.i = i + 1, !.copy = del[d].copy]]
        \/ del' = [del EXCEPT ![d] = [del[d] EXCEPT !.i = i + 1, !.copy = Append(del[d].copy, u)]]
    <3>1. del' = [del EXCEPT ![d] =
                    [del[d] EXCEPT !.i = i + 1,
                                   !.copy = IF reg[u].port = del[d].port THEN del[d].copy
                                            ELSE Append(del[d].copy, u)]]
      BY <1>6 DEF CopyUnit
    <3>2. CASE reg[u].port = del[d].port
      BY <3>1, <3>2
    <3>3. CASE reg[u].port # del[d].port
      BY <3>1, <3>3
    <3> QED BY <3>2, <3>3
  <2>4. [del[d] EXCEPT !.i = i + 1, !.copy = del[d].copy] = [del[d] EXCEPT !.i = i + 1]
    BY <1>1 DEF Deletion
  <2> QED BY <1>1, <1>2, <1>3, <1>6, <2>2, <2>3, <2>4
<1> QED BY <1>4, <1>5, <1>6

LEMMA CopyUnitInv ==
  ASSUME RsuInv, NEW d \in Dels, CopyUnit(d)
  PROVE  DeletionsInv'
<1> DEFINE l == del[d].list
           elems == heap[l].elems
           i == del[d].i
           u == elems[i + 1]
           copy == del[d].copy
<1>0. HeapStep /\ EnteredStep /\ ListsInv /\ DeletionsInv /\ del \in [Dels -> Deletion]
  BY SameLists DEF CopyUnit, RsuInv, DeletionsInv
<1>1. heap' = heap /\ reg' = reg /\ Lists' = Lists
  BY DEF CopyUnit, Lists
<1>2. /\ l \in Lists /\ i \in Nat /\ copy \in Seq(Regs) /\ del[d] \in Deletion
      /\ Len(elems) \in Nat
  BY CopyUnitStep
<1>3. CopyFits(d) /\ del[d].pc = "copy"
  BY <1>0 DEF DeletionsInv, CopyUnit
<1>4. CASE del' = [del EXCEPT ![d] = [del[d] EXCEPT !.pc = "publish"]]
  <2> DEFINE entry == [del[d] EXCEPT !.pc = "publish"]
  <2>1. entry \in Deletion /\ entry.pc = "publish" /\ entry.copy = copy
    BY <1>2 DEF Deletion
  <2>2. del'[d] = entry
    BY <1>0, <1>4
  <2> HIDE DEF entry
  <2>3. CopyFits(d)'
    BY <1>1, <1>3, <2>1, <2>2 DEF CopyFits, AllEntered, Entered
  <2> QED BY <1>0, <1>4, <2>1, <2>3, DeletionsWrite DEF entry
<1>5. CASE del' = [del EXCEPT ![d] = DeletionAt("failed")]
  BY <1>0, <1>5, DeletionAtRest, DeletionsWrite
<1>6. CASE /\ i + 1 \in 1..Len(elems) /\ Entered(u) /\ heap[l].changes = del[d].changes
           /\ del' = [del EXCEPT ![d] = [del[d] EXCEPT !.i = i + 1]]
  <2> DEFINE entry == [del[d] EXCEPT !.i = i + 1]
  <2>1. entry \in Deletion /\ entry.pc = "copy" /\ entry.copy = copy /\ entry.i = i + 1 /\ entry.list = l
        /\ entry.changes = del[d].changes
    BY <1>2, <1>3 DEF Deletion
  <2>2. del'[d] = entry
    BY <1>0, <1>6
  <2> HIDE DEF entry
  <2>3. \A j \in 1..Len(copy) : \E k \in 1..i : copy[j] = elems[k]
    BY <1>3, <1>6 DEF CopyFits
  <2>4. \A j \in 1..Len(copy) : \E k \in 1..(i + 1) : copy[j] = elems[k]
    BY <1>2, <2>3
  <2>5. CopyFits(d)'
    BY <1>1, <1>2, <1>3, <1>6, <2>1, <2>2, <2>4 DEF CopyFits, AllEntered, Entered
  <2> QED BY <1>0, <1>6, <2>1, <2>5, DeletionsWrite DEF entry
<1>7. CASE /\ i + 1 \in 1..Len(elems) /\ u \in Regs /\ Entered(u) /\ heap[l].changes = del[d].changes
           /\ del' = [del EXCEPT ![d] = [del[d] EXCEPT !.i = i + 1, !.copy = Append(copy, u)]]
  <2> DEFINE new == Append(copy, u)
             upto == i + 1
             entry == [del[d] EXCEPT !.i = upto, !.copy = new]
  <2>0. new \in Seq(Regs) /\ Len(copy) \in Nat /\ upto \in Nat /\ upto = i + 1
    BY <1>2, <1>7
  <2> HIDE DEF new, upto
  <2>1. entry \in Deletion /\ entry.pc = "copy" /\ entry.copy = new /\ entry.i = i + 1 /\ entry.list = l
        /\ entry.changes = del[d].changes
    <3>1. /\ entry \in Deletion /\ entry.pc = del[d].pc /\ entry.list = del[d].list
          /\ entry.changes = del[d].changes /\ entry.i = upto /\ entry.copy = new
      BY <1>2, <2>0 DEF Deletion
    <3> QED BY <1>3, <2>0, <3>1
  <2>2. del'[d] = entry
    BY <1>0, <1>7 DEF new, upto
  <2>3. \A j \in 1..Len(copy) : \E k \in 1..i : copy[j] = elems[k]
    BY <1>3, <1>7 DEF CopyFits
  <2>4. \A j \in 1..Len(new) : new[j] = u \/ \E m \in 1..Len(copy) : new[j] = copy[m]
    BY <1>2, <1>7 DEF new
  <2> HIDE DEF entry
  <2>5. \A j \in 1..Len(new) : \E k \in 1..(i + 1) : new[j] = elems[k]
    BY <1>2, <1>7, <2>3, <2>4
  <2>6. \A j \in 1..Len(new) : Entered(new[j])
    BY <1>3, <1>7, <2>4 DEF CopyFits, AllEntered
  <2>7. AllEntered(del[d].copy)'
    BY <1>1, <2>1, <2>2, <2>6 DEF AllEntered, Entered
  <2>8. /\ del'[d].pc = "copy" /\ del'[d].copy = new /\ del'[d].i = i + 1 /\ del'[d].list = l
        /\ del'[d].changes = del[d].changes /\ heap[l].changes \in Nat
    BY <1>0, <1>2, <2>1, <2>2, ElementOf DEF ListsInv
  <2>9. CopyFits(d)'
    <3>1. heap'[del'[d].list] = heap[l] /\ del'[d].list \in Lists'
      BY <1>1, <1>2, <2>8
    <3>2. del'[d].changes <= heap[l].changes
      BY <1>7, <2>8
    <3> HIDE DEF l, i
    <3>3. \A j \in 1..Len(del'[d].copy) : \E k \in 1..del'[d].i : del'[d].copy[j] = heap[l].elems[k]
      BY <2>5, <2>8
    <3>4. del'[d].i <= Len(heap[l].elems)
      BY <1>2, <1>7, <2>8
    <3> QED BY <2>7, <3>1, <3>2, <3>3, <3>4 DEF CopyFits
  <2> QED BY <1>0, <1>7, <2>1, <2>9, DeletionsWrite DEF entry, new, upto
<1> QED BY <1>4, <1>5, <1>6, <1>7, CopyUnitStep

LEMMA PublishCopyStep ==
  ASSUME RsuInv, NEW d \in Dels, PublishCopy(d)
  PROVE  /\ HeapStep /\ EnteredStep /\ ListsInv' /\ RegistrationsInv' /\ DeletionsInv'
         /\ Len(heap') = Len(heap) + 1 /\ heap'[Len(heap')].elems = del[d].copy
         /\ \A l \in Lists : heap'[l] = heap[l]
<1> DEFINE new == [elems |-> del[d].copy, changes |-> 0]
<1>0. ListsInv /\ DeletionsInv /\ RegistrationsInv /\ del[d] \in Deletion /\ CopyFits(d) /\ reg' = reg
  BY DEF PublishCopy, RsuInv, DeletionsInv
<1>1. new \in List /\ new.elems = del[d].copy /\ del[d].copy \in Seq(Regs)
  BY <1>0 DEF List, Deletion
<1>2. heap' = Append(heap, new) /\ heap \in Seq(List) /\ Len(heap) \in Nat /\ rsuList' = Len(heap')
  BY <1>0 DEF PublishCopy, ListsInv
<1> HIDE DEF new
<1>3. HeapStep /\ Len(heap') = Len(heap) + 1 /\ heap'[Len(heap')] = new /\ \A l \in Lists : heap'[l] = heap[l]
  BY <1>1, <1>2, HeapAppend
<1>4. EnteredStep
  BY <1>0 DEF EnteredStep, Entered
<1>5. \A l \in Lists' : l \in Lists \/ heap'[l] = new
  BY <1>2, <1>3 DEF Lists
<1>6. \A k \in 1..Len(new.elems) : reg'[new.elems[k]].pc \in {"publish", "done"}
  BY <1>0, <1>1 DEF CopyFits, AllEntered, Entered
<1>7. \A l \in Lists' : \A k \in 1..Len(heap'[l].elems) :
        \/ reg'[heap'[l].elems[k]].pc \in {"publish", "done"}
        \/ \E m \in Lists : \E n \in 1..Len(heap[m].elems) : heap'[l].elems[k] = heap[m].elems[n]
  BY <1>3, <1>5, <1>6
<1>8. rsuList' \in {Absent} \cup Lists' /\ Lists \subseteq Lists'
  BY <1>2, <1>3 DEF Lists
<1>9. ListsInv'
  BY <1>0, <1>3, <1>4, <1>7, <1>8, ListsWrite
<1>10. RegistrationsInv'
  BY <1>0, <1>8 DEF RegistrationsInv
<1>11. DeletionsInv'
  BY <1>0, <1>3, <1>4, DeletionAtRest, DeletionsWrite DEF PublishCopy
<1> QED BY <1>1, <1>3, <1>4, <1>9, <1>10, <1>11

(* A thread that deletes a unit.                                              *)
DeleteUnitStep(d) == (\E port \in Ports : Delete(d, port)) \/ CopyUnit(d) \/ PublishCopy(d)

LEMMA DeleteUnitStepInv ==
  ASSUME RsuInv, NEW d \in Dels, DeleteUnitStep(d)
  PROVE  RsuInv' /\ HeapStep /\ EnteredStep
<1>1. UNCHANGED <<bsmList, now, updated, reg, req, task, timer>>
  BY DEF DeleteUnitStep, Delete, CopyUnit, PublishCopy
<1>2. HeapStep /\ EnteredStep /\ ListsInv' /\ RegistrationsInv' /\ DeletionsInv'
  <2>1. ASSUME NEW port \in Ports, Delete(d, port)
        PROVE  HeapStep /\ EnteredStep /\ ListsInv' /\ RegistrationsInv' /\ DeletionsInv'
    BY <2>1, DeleteStep, SameLists DEF Delete
  <2>2. CASE CopyUnit(d)
    BY <2>2, CopyUnitInv, SameLists DEF CopyUnit
  <2>3. CASE PublishCopy(d)
    BY <2>3, PublishCopyStep
  <2> QED BY <2>1, <2>2, <2>3 DEF DeleteUnitStep
<1>3. TasksInv'
  BY <1>1, <1>2, TaskKept DEF RsuInv, TasksInv
<1> QED BY <1>1, <1>2, <1>3 DEF RsuInv, TimerInv

-----------------------------------------------------------------------------
(* Requests and their tasks.                                                  *)

(* A step of one request, or its task, that leaves the lists as they are.     *)
LEMMA TasksWrite ==
  ASSUME RsuInv, heap' = heap, rsuList' = rsuList, reg' = reg, NEW r \in Reqs,
         req' \in [Reqs -> Request], task' \in [Reqs -> Task], TaskFits(r)',
         \A q \in Reqs \ {r} : req'[q] = req[q] /\ task'[q] = task[q]
  PROVE  TasksInv'
<1>1. HeapStep /\ EnteredStep
  BY SameLists
<1>2. ASSUME NEW q \in Reqs PROVE TaskFits(q)'
  BY <1>1, <1>2, TaskKept DEF RsuInv
<1> QED BY <1>2 DEF TasksInv

(* A request that changes only where it is among the early stages, and what   *)
(* it knows of others, leaves its task as it was.                             *)
LEMMA StageKept ==
  ASSUME RsuInv, heap' = heap, reg' = reg, NEW r \in Reqs, task' = task,
         req'[r].list = req[r].list, req'[r].bsm = req[r].bsm,
         req'[r].pc # "none", Waiting(r)' => Waiting(r)
  PROVE  TaskFits(r)'
<1>1. TaskFits(r)
  BY DEF RsuInv, TasksInv
<1>2. Lists' = Lists /\ \A n : Passed(r, n)' = Passed(r, n)
  BY DEF Lists, Passed
<1>3. Found(r)' = Found(r) /\ Unchanged(r)' = Unchanged(r)
  BY DEF Found, Unchanged
<1> QED BY <1>1, <1>2, <1>3 DEF TaskFits, Waiting

TaskOutcome == TasksInv' /\ bsmList' \in {bsmList} \cup SUBSET Reqs /\ updated' \in [Reqs -> 0..MaxNow]

LEMMA AskOutcome ==
  ASSUME RsuInv, NEW r \in Reqs, NEW bsm \in Bsms, Ask(r, bsm)
  PROVE  TaskOutcome
<1>1. /\ req \in [Reqs -> Request] /\ task \in [Reqs -> Task] /\ TaskFits(r) /\ req[r].pc = "none"
      /\ task[r] \in Task /\ req[r] \in Request /\ ListsInv
      /\ heap' = heap /\ rsuList' = rsuList /\ reg' = reg /\ bsmList' = bsmList /\ updated' = updated
      /\ updated \in [Reqs -> 0..MaxNow]
  BY DEF RsuInv, TasksInv, Ask, TimerInv
<1>2. task[r].pc = "none" /\ task[r].found = <<>> /\ task[r].tried = {} /\ task[r].i = 0
  BY <1>1 DEF TaskFits
<1>3. CASE rsuList # Absent /\ heap[rsuList].elems # <<>>
  <2> DEFINE due == {reg[g].port : g \in Listed(rsuList)} \cap Along[bsm]
             from == heap[rsuList].changes
             asked == [req[r] EXCEPT !.bsm = bsm, !.pc = "look", !.list = rsuList]
             entry == [task[r] EXCEPT !.from = from, !.due = due]
  <2>1. rsuList \in Lists /\ rsuList \in Nat /\ from \in Nat
    BY <1>1, <1>3, ElementOf DEF ListsInv, Lists
  <2>2. due \subseteq Ports
    BY RsuAssumption
  <2>3. req' = [req EXCEPT ![r] = asked] /\ task' = [task EXCEPT ![r] = entry]
    BY <1>3 DEF Ask
  <2>4. asked \in Request /\ asked.pc = "look" /\ asked.list = rsuList /\ asked.bsm = bsm
    BY <1>1, <2>1 DEF Request
  <2>5. due = {reg[heap[rsuList].elems[k]].port : k \in 1..Len(heap[rsuList].elems)} \cap Along[bsm]
    BY DEF Listed
  <2> HIDE DEF due, from
  <2>6. /\ entry \in Task /\ entry.pc = "none" /\ entry.found = <<>> /\ entry.tried = {} /\ entry.i = 0
        /\ entry.due = due /\ entry.from = from
    BY <1>1, <1>2, <2>1, <2>2 DEF Task
  <2> HIDE DEF asked, entry
  <2>7. /\ req' \in [Reqs -> Request] /\ task' \in [Reqs -> Task] /\ req'[r] = asked /\ task'[r] = entry
        /\ \A q \in Reqs \ {r} : req'[q] = req[q] /\ task'[q] = task[q]
    BY <1>1, <2>3, <2>4, <2>6
  <2>8. Passed(r, Len(heap[req[r].list].elems))' = due
    BY <1>1, <2>4, <2>5, <2>7 DEF Passed
  <2>9. Lists' = Lists
    BY <1>1 DEF Lists
  <2>10. from = heap[rsuList].changes
    BY DEF from
  <2>11. TaskFits(r)'
    BY <1>1, <2>1, <2>4, <2>6, <2>7, <2>8, <2>9, <2>10 DEF TaskFits, Waiting, Unchanged
  <2> QED BY <1>1, <2>7, <2>11, TasksWrite DEF TaskOutcome
<1>4. CASE ~(rsuList # Absent /\ heap[rsuList].elems # <<>>)
  <2> DEFINE asked == [req[r] EXCEPT !.bsm = bsm, !.pc = "done", !.list = 0]
  <2>1. req' = [req EXCEPT ![r] = asked] /\ task' = task
    BY <1>4 DEF Ask
  <2>2. asked \in Request /\ asked.pc = "done"
    BY <1>1 DEF Request
  <2> HIDE DEF asked
  <2>3. /\ req' \in [Reqs -> Request] /\ req'[r] = asked
        /\ \A q \in Reqs \ {r} : req'[q] = req[q] /\ task'[q] = task[q]
    BY <1>1, <2>1, <2>2
  <2>4. TaskFits(r)'
    BY <1>2, <2>1, <2>2, <2>3 DEF TaskFits, Waiting
  <2> QED BY <1>1, <2>1, <2>3, <2>4, TasksWrite DEF TaskOutcome
<1> QED BY <1>3, <1>4

(* Steps that only write the request.                                         *)
LEMMA RequestOutcome ==
  ASSUME RsuInv, NEW r \in Reqs, NEW entry \in Request, req' = [req EXCEPT ![r] = entry],
         heap' = heap, rsuList' = rsuList, reg' = reg, task' = task,
         entry.list = req[r].list, entry.bsm = req[r].bsm, entry.pc # "none",
         entry.pc \in {"look", "match", "submit"} => Waiting(r),
         bsmList' \in {bsmList} \cup SUBSET Reqs, updated' \in [Reqs -> 0..MaxNow]
  PROVE  TaskOutcome
<1>1. req \in [Reqs -> Request] /\ task \in [Reqs -> Task]
  BY DEF RsuInv, TasksInv
<1>2. req' \in [Reqs -> Request] /\ req'[r] = entry /\ \A q \in Reqs \ {r} : req'[q] = req[q]
  BY <1>1
<1>3. TaskFits(r)'
  BY <1>2, StageKept DEF Waiting
<1> QED BY <1>1, <1>2, <1>3, TasksWrite DEF TaskOutcome

LEMMA DropOutcome ==
  ASSUME RsuInv, NEW r \in Reqs, Drop(r)
  PROVE  TaskOutcome
<1> DEFINE entry == [req[r] EXCEPT !.pc = "done"]
<1>1. req[r] \in Request /\ updated \in [Reqs -> 0..MaxNow]
  BY DEF RsuInv, TasksInv, TimerInv
<1>2. entry \in Request /\ entry.pc = "done" /\ entry.list = req[r].list /\ entry.bsm = req[r].bsm
  BY <1>1 DEF Request
<1>3. req' = [req EXCEPT ![r] = entry] /\ UNCHANGED <<heap, rsuList, reg, task, bsmList, updated>>
  BY DEF Drop
<1> HIDE DEF entry
<1> QED BY <1>1, <1>2, <1>3, RequestOutcome

LEMMA LookOutcome ==
  ASSUME RsuInv, NEW r \in Reqs, Look(r)
  PROVE  TaskOutcome
<1> DEFINE known == IF bsmList = Absent THEN {} ELSE bsmList
           entry == [req[r] EXCEPT !.pc = "match", !.known = known]
<1>1. req[r] \in Request /\ updated \in [Reqs -> 0..MaxNow] /\ now \in 0..MaxNow /\ known \subseteq Reqs
      /\ Waiting(r)
  BY DEF RsuInv, TasksInv, TimerInv, Look, Waiting
<1>2. req' = [req EXCEPT ![r] = entry] /\ UNCHANGED <<heap, rsuList, reg, task, bsmList>>
  BY DEF Look
<1> HIDE DEF known
<1>3. entry \in Request /\ entry.pc = "match" /\ entry.list = req[r].list /\ entry.bsm = req[r].bsm
  BY <1>1 DEF Request
<1> HIDE DEF entry
<1>4. updated' \in [Reqs -> 0..MaxNow]
  BY <1>1 DEF Look
<1> QED BY <1>1, <1>2, <1>3, <1>4, RequestOutcome

(* What Match writes.                                                         *)
LEMMA MatchStep ==
  ASSUME RsuInv, NEW r \in Reqs, Match(r)
  PROVE  LET same == {q \in req[r].known : req[q].bsm = req[r].bsm} IN
         /\ req'[r] \in Request /\ req'[r].list = req[r].list /\ req'[r].bsm = req[r].bsm
         /\ req'[r].known = req[r].known
         /\ \/ same = {} /\ req'[r].pc = "submit" /\ ~req'[r].ignored
            \/ same # {} /\ req'[r].pc = "publish" /\ req'[r].ignored
<1> DEFINE same == {q \in req[r].known : req[q].bsm = req[r].bsm}
<1>1. req[r] \in Request /\ req \in [Reqs -> Request]
  BY DEF RsuInv, TasksInv
<1>2. CASE same = {}
  <2> DEFINE entry == [req[r] EXCEPT !.pc = "submit", !.ignored = FALSE]
  <2>1. (same # {}) = FALSE
    BY <1>2
  <2>2. req' = [req EXCEPT ![r] = entry]
    BY <1>2, <2>1 DEF Match
  <2>3. req'[r] = entry
    BY <1>1, <2>2
  <2>4. entry \in Request
    BY <1>1 DEF Request
  <2>5. entry.pc = "submit" /\ entry.list = req[r].list /\ entry.bsm = req[r].bsm /\ entry.known = req[r].known
        /\ ~entry.ignored
    BY <1>1 DEF Request
  <2> HIDE DEF entry
  <2> QED BY <1>2, <2>3, <2>4, <2>5
<1>3. CASE same # {}
  <2> DEFINE entry == [req[r] EXCEPT !.pc = "publish", !.ignored = TRUE]
  <2>1. (same # {}) = TRUE
    BY <1>3
  <2>2. req' = [req EXCEPT ![r] = entry]
    BY <1>3, <2>1 DEF Match
  <2>3. req'[r] = entry
    BY <1>1, <2>2
  <2>4. entry \in Request
    BY <1>1 DEF Request
  <2>5. entry.pc = "publish" /\ entry.list = req[r].list /\ entry.bsm = req[r].bsm /\ entry.known = req[r].known
        /\ entry.ignored
    BY <1>1 DEF Request
  <2> HIDE DEF entry
  <2> QED BY <1>3, <2>3, <2>4, <2>5
<1> QED BY <1>2, <1>3

LEMMA MatchOutcome ==
  ASSUME RsuInv, NEW r \in Reqs, Match(r)
  PROVE  TaskOutcome
<1>1. req \in [Reqs -> Request] /\ updated \in [Reqs -> 0..MaxNow] /\ now \in 0..MaxNow /\ Waiting(r)
  BY DEF RsuInv, TasksInv, TimerInv, Match, Waiting
<1>2. /\ req'[r] \in Request /\ req'[r].list = req[r].list /\ req'[r].bsm = req[r].bsm
      /\ req'[r].pc \in {"submit", "publish"}
  BY MatchStep
<1>3. req' = [req EXCEPT ![r] = req'[r]] /\ UNCHANGED <<heap, rsuList, reg, task, bsmList>>
  BY <1>1 DEF Match
<1>4. updated' \in [Reqs -> 0..MaxNow]
  BY <1>1 DEF Match
<1> QED BY <1>1, <1>2, <1>3, <1>4, RequestOutcome

LEMMA TrackOutcome ==
  ASSUME RsuInv, NEW r \in Reqs, Track(r)
  PROVE  TaskOutcome
<1> DEFINE entry == [req[r] EXCEPT !.pc = "done", !.known = {}]
<1>1. req[r] \in Request /\ updated \in [Reqs -> 0..MaxNow]
  BY DEF RsuInv, TasksInv, TimerInv
<1>2. req[r].known \subseteq Reqs
  BY <1>1 DEF Request
<1>3. entry \in Request /\ entry.pc = "done" /\ entry.list = req[r].list /\ entry.bsm = req[r].bsm
  BY <1>1 DEF Request
<1>4. req' = [req EXCEPT ![r] = entry] /\ UNCHANGED <<heap, rsuList, reg, task, updated>>
  BY DEF Track
<1>5. bsmList' \in SUBSET Reqs
  BY <1>2 DEF Track, ToTrack
<1> HIDE DEF entry
<1> QED BY <1>1, <1>3, <1>4, <1>5, RequestOutcome

LEMMA SubmitOutcome ==
  ASSUME RsuInv, NEW r \in Reqs, Submit(r)
  PROVE  TaskOutcome
<1> DEFINE asked == [req[r] EXCEPT !.pc = "publish"]
           entry == [task[r] EXCEPT !.pc = "submitted"]
<1>1. /\ req \in [Reqs -> Request] /\ task \in [Reqs -> Task] /\ TaskFits(r) /\ Waiting(r)
      /\ req[r] \in Request /\ task[r] \in Task /\ updated \in [Reqs -> 0..MaxNow]
  BY DEF RsuInv, TasksInv, TimerInv, Submit, Waiting
<1>2. asked \in Request /\ asked.pc = "publish" /\ asked.list = req[r].list /\ asked.bsm = req[r].bsm
  BY <1>1 DEF Request
<1>3. /\ entry \in Task /\ entry.pc = "submitted" /\ entry.found = task[r].found
      /\ entry.tried = task[r].tried /\ entry.i = task[r].i
      /\ entry.due = task[r].due /\ entry.from = task[r].from
  BY <1>1 DEF Task
<1>4. req' = [req EXCEPT ![r] = asked] /\ task' = [task EXCEPT ![r] = entry]
      /\ UNCHANGED <<heap, rsuList, reg, bsmList, updated>>
  BY DEF Submit
<1> HIDE DEF asked, entry
<1>5. /\ req' \in [Reqs -> Request] /\ task' \in [Reqs -> Task] /\ req'[r] = asked /\ task'[r] = entry
      /\ \A q \in Reqs \ {r} : req'[q] = req[q] /\ task'[q] = task[q]
  BY <1>1, <1>2, <1>3, <1>4
<1>6. Passed(r, Len(heap[req[r].list].elems))' = Passed(r, Len(heap[req[r].list].elems)) /\ Lists' = Lists
  BY <1>2, <1>4, <1>5 DEF Passed, Lists
<1>7. TaskFits(r)'
  BY <1>1, <1>2, <1>3, <1>4, <1>5, <1>6 DEF TaskFits, Waiting, Unchanged
<1> QED BY <1>1, <1>4, <1>5, <1>7, TasksWrite DEF TaskOutcome

(* Steps that only write the task.                                            *)
LEMMA TaskWritten ==
  ASSUME RsuInv, NEW r \in Reqs, NEW entry \in Task, task' = [task EXCEPT ![r] = entry],
         UNCHANGED <<heap, rsuList, reg, req, bsmList, updated>>, TaskFits(r)'
  PROVE  TaskOutcome
<1>1. req \in [Reqs -> Request] /\ task \in [Reqs -> Task] /\ updated \in [Reqs -> 0..MaxNow]
  BY DEF RsuInv, TasksInv, TimerInv
<1>2. task' \in [Reqs -> Task] /\ \A q \in Reqs \ {r} : task'[q] = task[q]
  BY <1>1
<1> QED BY <1>1, <1>2, TasksWrite DEF TaskOutcome

(* What a task that has begun finds of its list.                              *)
LEMMA TaskList ==
  ASSUME RsuInv, NEW r \in Reqs, task[r].pc # "none"
  PROVE  /\ task[r] \in Task /\ task \in [Reqs -> Task] /\ TaskFits(r) /\ ~Waiting(r) /\ req[r].pc # "none"
         /\ req[r].list \in Lists /\ req[r].bsm \in Bsms /\ Along[req[r].bsm] \subseteq Ports
         /\ heap[req[r].list].changes \in Nat /\ Len(heap[req[r].list].elems) \in Nat
         /\ task[r].from \in Nat /\ task[r].changes \in Nat /\ task[r].i \in Nat
         /\ task[r].found \in Seq(Ports) /\ task[r].tried \subseteq Ports
<1>1. task \in [Reqs -> Task] /\ task[r] \in Task /\ TaskFits(r) /\ heap \in Seq(List)
  BY DEF RsuInv, TasksInv, ListsInv
<1>2. req[r].list \in Lists /\ req[r].bsm \in Bsms /\ ~Waiting(r) /\ req[r].pc # "none"
  BY <1>1 DEF TaskFits
<1>3. Along[req[r].bsm] \subseteq Ports
  BY <1>2, RsuAssumption
<1> QED BY <1>1, <1>2, <1>3, ElementOf DEF Task

LEMMA BeginOutcome ==
  ASSUME RsuInv, NEW r \in Reqs, Begin(r)
  PROVE  TaskOutcome
<1> DEFINE list == heap[req[r].list]
<1>0. UNCHANGED <<heap, rsuList, reg, req, bsmList, updated>> /\ task[r].pc = "submitted"
  BY DEF Begin
<1>1. /\ task[r] \in Task /\ task \in [Reqs -> Task] /\ TaskFits(r) /\ ~Waiting(r) /\ req[r].pc # "none"
      /\ req[r].list \in Lists /\ req[r].bsm \in Bsms /\ list.changes \in Nat /\ Len(list.elems) \in Nat
  BY <1>0, TaskList
<1>2. Lists' = Lists /\ \A n : Passed(r, n)' = Passed(r, n)
  BY <1>0 DEF Lists, Passed
<1>3. task[r].from <= list.changes /\ (Unchanged(r) => task[r].due = Passed(r, Len(list.elems)))
      /\ task[r].tried = {} /\ task[r].i = 0 /\ task[r].found = <<>>
  BY <1>0, <1>1 DEF TaskFits
<1>4. Passed(r, 0) = {}
  BY DEF Passed
<1>5. CASE list.elems = <<>>
  <2> DEFINE entry == [task[r] EXCEPT !.pc = "over"]
  <2>1. entry \in Task /\ entry.pc = "over" /\ entry.due = task[r].due /\ entry.from = task[r].from
        /\ entry.tried = task[r].tried
    BY <1>1 DEF Task
  <2>2. task' = [task EXCEPT ![r] = entry]
    BY <1>5 DEF Begin
  <2>3. task'[r] = entry
    BY <1>1, <2>2
  <2> HIDE DEF entry
  <2>4. Len(list.elems) = 0
    BY <1>5
  <2>5. Unchanged(r)' => entry.due = {}
    BY <1>0, <1>3, <1>4, <2>1, <2>3, <2>4 DEF Unchanged
  <2>6. TaskFits(r)'
    BY <1>0, <1>1, <1>2, <1>3, <2>1, <2>3, <2>5 DEF TaskFits, Waiting
  <2> QED BY <1>0, <2>1, <2>2, <2>6, TaskWritten
<1>6. CASE list.elems # <<>>
  <2> DEFINE entry == [task[r] EXCEPT !.pc = "identify", !.changes = list.changes]
  <2>1. /\ entry \in Task /\ entry.pc = "identify" /\ entry.due = task[r].due /\ entry.from = task[r].from
        /\ entry.i = task[r].i /\ entry.changes = list.changes
    BY <1>1 DEF Task
  <2>2. task' = [task EXCEPT ![r] = entry]
    BY <1>6 DEF Begin
  <2>3. task'[r] = entry
    BY <1>1, <2>2
  <2> HIDE DEF entry
  <2>4. Unchanged(r)' => Unchanged(r)
    BY <1>0, <2>1, <2>3 DEF Unchanged
  <2>5. TaskFits(r)'
    BY <1>0, <1>1, <1>2, <1>3, <1>4, <2>1, <2>3, <2>4 DEF TaskFits, Waiting
  <2> QED BY <1>0, <2>1, <2>2, <2>5, TaskWritten
<1> QED BY <1>5, <1>6

(* What one turn of the loop over the units adds.                             *)
LEMMA PassedOneMore ==
  ASSUME NEW r \in Reqs, NEW i \in Nat
  PROVE  LET port == reg[heap[req[r].list].elems[i + 1]].port IN
         Passed(r, i + 1) \subseteq Passed(r, i) \cup ({port} \cap Along[req[r].bsm])
<1>1. \A k \in 1..(i + 1) : k \in 1..i \/ k = i + 1
  OBVIOUS
<1> QED BY <1>1 DEF Passed

LEMMA AppendElements ==
  ASSUME NEW S, NEW s \in Seq(S), NEW e \in S
  PROVE  /\ Append(s, e) \in Seq(S)
         /\ {Append(s, e)[j] : j \in 1..Len(Append(s, e))} = {s[j] : j \in 1..Len(s)} \cup {e}
<1> DEFINE t == Append(s, e)
<1>1. t \in Seq(S) /\ Len(t) = Len(s) + 1 /\ t[Len(s) + 1] = e /\ Len(s) \in Nat
      /\ \A j \in 1..Len(s) : t[j] = s[j]
  OBVIOUS
<1> HIDE DEF t
<1>2. \A j \in 1..Len(t) : j \in 1..Len(s) \/ j = Len(s) + 1
  BY <1>1
<1>3. \A j \in 1..Len(s) : j \in 1..Len(t)
  BY <1>1
<1>4. Len(s) + 1 \in 1..Len(t)
  BY <1>1
<1>5. {t[j] : j \in 1..Len(t)} = {s[j] : j \in 1..Len(s)} \cup {e}
  BY <1>1, <1>2, <1>3, <1>4
<1> QED BY <1>1, <1>5 DEF t

LEMMA IdentifyOutcome ==
  ASSUME RsuInv, NEW r \in Reqs, Identify(r)
  PROVE  TaskOutcome
<1> DEFINE list == heap[req[r].list]
           i == task[r].i
           found == task[r].found
           port == reg[list.elems[i + 1]].port
<1>0. UNCHANGED <<heap, rsuList, reg, req, bsmList, updated>> /\ task[r].pc = "identify"
  BY DEF Identify
<1>1. /\ task[r] \in Task /\ task \in [Reqs -> Task] /\ TaskFits(r) /\ ~Waiting(r) /\ req[r].pc # "none"
      /\ req[r].list \in Lists /\ req[r].bsm \in Bsms /\ list.changes \in Nat /\ Len(list.elems) \in Nat
      /\ Along[req[r].bsm] \subseteq Ports
      /\ task[r].from \in Nat /\ task[r].changes \in Nat /\ i \in Nat /\ found \in Seq(Ports)
  BY <1>0, TaskList
<1>2. Lists' = Lists /\ \A n : Passed(r, n)' = Passed(r, n)
  BY <1>0 DEF Lists, Passed
<1>3. /\ task[r].from <= task[r].changes /\ task[r].changes <= list.changes /\ task[r].from <= list.changes
      /\ Unchanged(r) =>
           task[r].due = Passed(r, Len(list.elems)) /\ i <= Len(list.elems) /\ Passed(r, i) \subseteq Found(r)
  BY <1>0, <1>1 DEF TaskFits
<1>4. CASE i = Len(list.elems)
  <2> DEFINE entry == [task[r] EXCEPT !.pc = "forward", !.i = 0, !.changes = 0]
  <2>1. /\ entry \in Task /\ entry.pc = "forward" /\ entry.due = task[r].due /\ entry.from = task[r].from
        /\ entry.found = found
    BY <1>1 DEF Task
  <2>2. task' = [task EXCEPT ![r] = entry]
    BY <1>4 DEF Identify
  <2>3. task'[r] = entry
    BY <1>1, <2>2
  <2> HIDE DEF entry
  <2>4. Found(r)' = Found(r)
    BY <2>1, <2>3 DEF Found
  <2>5. Unchanged(r)' => Unchanged(r)
    BY <1>0, <2>1, <2>3 DEF Unchanged
  <2>6. Unchanged(r)' => task'[r].due \subseteq Found(r)' \cup task'[r].tried
    BY <1>3, <1>4, <2>1, <2>3, <2>4, <2>5
  <2>7. TaskFits(r)'
    BY <1>0, <1>1, <1>2, <1>3, <2>1, <2>3, <2>6 DEF TaskFits, Waiting
  <2> QED BY <1>0, <2>1, <2>2, <2>7, TaskWritten
<1>5. CASE i # Len(list.elems) /\ list.changes # task[r].changes
  <2> DEFINE nothing == <<>>
             entry == [task[r] EXCEPT !.pc = "over", !.i = 0, !.changes = 0, !.found = nothing]
  <2>0. nothing \in Seq(Ports)
    OBVIOUS
  <2>1. entry \in Task /\ entry.pc = "over" /\ entry.from = task[r].from
    <3> HIDE DEF nothing
    <3> QED BY <1>1, <2>0 DEF Task
  <2>2. task' = [task EXCEPT ![r] = entry]
    BY <1>5 DEF Identify
  <2>3. task'[r] = entry
    BY <1>1, <2>2
  <2> HIDE DEF entry
  <2>4. ~Unchanged(r)'
    BY <1>0, <1>1, <1>3, <1>5, <2>1, <2>3 DEF Unchanged
  <2>5. TaskFits(r)'
    BY <1>0, <1>1, <1>2, <1>3, <2>1, <2>3, <2>4 DEF TaskFits, Waiting
  <2> QED BY <1>0, <2>1, <2>2, <2>5, TaskWritten
<1>6. CASE i # Len(list.elems) /\ list.changes = task[r].changes
  <2> DEFINE next == IF port \in Along[req[r].bsm] THEN Append(found, port) ELSE found
             upto == i + 1
             entry == [task[r] EXCEPT !.i = upto, !.found = next]
  <2>1. task' = [task EXCEPT ![r] = entry]
    BY <1>6 DEF Identify
  <2>2. /\ next \in Seq(Ports)
        /\ {found[j] : j \in 1..Len(found)} \cup ({port} \cap Along[req[r].bsm])
             \subseteq {next[j] : j \in 1..Len(next)}
    <3> HIDE DEF found, port
    <3>1. CASE port \in Along[req[r].bsm]
      <4>1. port \in Ports /\ next = Append(found, port)
        BY <1>1, <3>1
      <4>2. /\ Append(found, port) \in Seq(Ports)
            /\ {Append(found, port)[j] : j \in 1..Len(Append(found, port))}
                 = {found[j] : j \in 1..Len(found)} \cup {port}
        BY <1>1, <4>1, AppendElements
      <4> HIDE DEF next
      <4> QED BY <3>1, <4>1, <4>2
    <3>2. CASE port \notin Along[req[r].bsm]
      BY <1>1, <3>2
    <3> QED BY <3>1, <3>2
  <2>3. upto \in Nat /\ upto = i + 1
    BY <1>1
  <2> HIDE DEF next, upto
  <2>4. /\ entry \in Task /\ entry.pc = task[r].pc /\ entry.due = task[r].due /\ entry.from = task[r].from
        /\ entry.changes = task[r].changes /\ entry.i = upto /\ entry.found = next
    BY <1>1, <2>2, <2>3 DEF Task
  <2>5. task'[r] = entry
    BY <1>1, <2>1
  <2> HIDE DEF entry
  <2>6. Unchanged(r)' => Unchanged(r)
    BY <1>0, <2>4, <2>5 DEF Unchanged
  <2>7. Found(r)' = {next[j] : j \in 1..Len(next)}
    BY <2>4, <2>5 DEF Found
  <2>8. ASSUME Unchanged(r)
        PROVE  upto <= Len(list.elems) /\ Passed(r, upto) \subseteq Found(r)'
    <3>1. i <= Len(list.elems) /\ Passed(r, i) \subseteq Found(r)
      BY <1>3, <2>8
    <3>2. upto <= Len(list.elems)
      BY <1>1, <1>6, <2>3, <3>1
    <3>3. Passed(r, i + 1) \subseteq Passed(r, i) \cup ({port} \cap Along[req[r].bsm])
      BY <1>1, PassedOneMore
    <3>4. Passed(r, upto) \subseteq Found(r) \cup ({port} \cap Along[req[r].bsm])
      BY <2>3, <3>1, <3>3
    <3> QED BY <2>2, <2>7, <3>2, <3>4 DEF Found
  <2>9. TaskFits(r)'
    BY <1>0, <1>1, <1>2, <1>3, <2>4, <2>5, <2>6, <2>8 DEF TaskFits, Waiting
  <2> QED BY <1>0, <2>1, <2>4, <2>9, TaskWritten
<1> QED BY <1>4, <1>5, <1>6

LEMMA HeadAndTail ==
  ASSUME NEW S, NEW s \in Seq(S), s # <<>>
  PROVE  /\ Head(s) \in S /\ Tail(s) \in Seq(S)
         /\ {s[j] : j \in 1..Len(s)} \subseteq {Head(s)} \cup {Tail(s)[j] : j \in 1..Len(Tail(s))}
<1> DEFINE t == Tail(s)
<1>1. Head(s) = s[1] /\ Head(s) \in S /\ t \in Seq(S) /\ Len(t) = Len(s) - 1 /\ Len(s) \in Nat
  OBVIOUS
<1>2. \A j \in 1..Len(t) : t[j] = s[j + 1]
  OBVIOUS
<1> HIDE DEF t
<1>3. ASSUME NEW j \in 1..Len(s) PROVE s[j] \in {Head(s)} \cup {t[n] : n \in 1..Len(t)}
  <2>1. CASE j = 1
    BY <1>1, <2>1
  <2>2. CASE j # 1
    <3>1. j - 1 \in 1..Len(t) /\ (j - 1) + 1 = j
      BY <1>1, <2>2
    <3>2. t[j - 1] = s[j]
      BY <1>2, <3>1
    <3> QED BY <3>1, <3>2
  <2> QED BY <2>1, <2>2
<1>4. {s[j] : j \in 1..Len(s)} \subseteq {Head(s)} \cup {t[j] : j \in 1..Len(t)}
  BY <1>3
<1> QED BY <1>1, <1>4 DEF t

LEMMA ForwardOutcome ==
  ASSUME RsuInv, NEW r \in Reqs, Forward(r)
  PROVE  TaskOutcome
<1> DEFINE list == heap[req[r].list]
           found == task[r].found
<1>0. UNCHANGED <<heap, rsuList, reg, req, bsmList, updated>> /\ task[r].pc = "forward"
  BY DEF Forward
<1>1. /\ task[r] \in Task /\ task \in [Reqs -> Task] /\ TaskFits(r) /\ ~Waiting(r) /\ req[r].pc # "none"
      /\ req[r].list \in Lists /\ req[r].bsm \in Bsms /\ task[r].from <= list.changes
      /\ found \in Seq(Ports) /\ task[r].tried \subseteq Ports
  BY <1>0, TaskList DEF TaskFits
<1>2. Lists' = Lists
  BY <1>0 DEF Lists
<1>3. Unchanged(r) => task[r].due \subseteq Found(r) \cup task[r].tried
  BY <1>0, <1>1 DEF TaskFits
<1>4. CASE found = <<>>
  <2> DEFINE entry == [task[r] EXCEPT !.pc = "over"]
  <2>1. entry \in Task /\ entry.pc = "over" /\ entry.due = task[r].due /\ entry.from = task[r].from
        /\ entry.tried = task[r].tried
    BY <1>1 DEF Task
  <2>2. task' = [task EXCEPT ![r] = entry]
    BY <1>4 DEF Forward
  <2>3. task'[r] = entry
    BY <1>1, <2>2
  <2> HIDE DEF entry
  <2>4. Found(r) = {}
    BY <1>4 DEF Found
  <2>5. Unchanged(r)' => task'[r].due \subseteq task'[r].tried
    BY <1>0, <1>3, <2>1, <2>3, <2>4 DEF Unchanged
  <2>6. TaskFits(r)'
    BY <1>0, <1>1, <1>2, <2>1, <2>3, <2>5 DEF TaskFits, Waiting
  <2> QED BY <1>0, <2>1, <2>2, <2>6, TaskWritten
<1>5. CASE found # <<>>
  <2> DEFINE tried == task[r].tried \cup {Head(found)}
             rest == Tail(found)
             entry == [task[r] EXCEPT !.tried = tried, !.found = rest]
  <2>1. task' = [task EXCEPT ![r] = entry]
    BY <1>5 DEF Forward, AfterHub
  <2>2. /\ Head(found) \in Ports /\ rest \in Seq(Ports)
        /\ {found[j] : j \in 1..Len(found)} \subseteq {Head(found)} \cup {rest[j] : j \in 1..Len(rest)}
    <3> HIDE DEF found
    <3> QED BY <1>1, <1>5, HeadAndTail
  <2>3. tried \subseteq Ports /\ task[r].tried \cup {Head(found)} = tried
    BY <1>1, <2>2
  <2> HIDE DEF tried, rest
  <2>4. /\ entry \in Task /\ entry.pc = "forward" /\ entry.due = task[r].due /\ entry.from = task[r].from
        /\ entry.tried = tried /\ entry.found = rest
    BY <1>0, <1>1, <2>2, <2>3 DEF Task
  <2>5. task'[r] = entry
    BY <1>1, <2>1
  <2> HIDE DEF entry
  <2>6. Found(r) \cup task[r].tried \subseteq Found(r)' \cup task'[r].tried
    BY <2>2, <2>3, <2>4, <2>5 DEF Found
  <2>7. Unchanged(r)' => task'[r].due \subseteq Found(r)' \cup task'[r].tried
    BY <1>0, <1>3, <2>4, <2>5, <2>6 DEF Unchanged
  <2>8. TaskFits(r)'
    BY <1>0, <1>1, <1>2, <2>4, <2>5, <2>7 DEF TaskFits, Waiting
  <2> QED BY <1>0, <2>1, <2>4, <2>8, TaskWritten
<1> QED BY <1>4, <1>5

(* A thread or a task of a request.                                           *)
RequestStep(r) ==
  \/ \E bsm \in Bsms : Ask(r, bsm)
  \/ Drop(r) \/ Look(r) \/ Match(r) \/ Submit(r) \/ Track(r) \/ Begin(r) \/ Identify(r) \/ Forward(r)

LEMMA RequestStepInv ==
  ASSUME RsuInv, NEW r \in Reqs, RequestStep(r)
  PROVE  RsuInv'
<1>1. TaskOutcome
  BY AskOutcome, DropOutcome, LookOutcome, MatchOutcome, SubmitOutcome, TrackOutcome, BeginOutcome,
     IdentifyOutcome, ForwardOutcome DEF RequestStep
<1>2. UNCHANGED <<heap, rsuList, now, reg, del, timer>>
  BY DEF RequestStep, Ask, Drop, Look, Match, Submit, Track, Begin, Identify, Forward
<1>3. HeapStep /\ EnteredStep /\ ListsInv' /\ RegistrationsInv'
  BY <1>2, SameLists
<1>4. DeletionsInv'
  BY <1>2, <1>3, CopyKept DEF RsuInv, DeletionsInv
<1>5. TimerInv'
  BY <1>1, <1>2 DEF TaskOutcome, RsuInv, TimerInv
<1> QED BY <1>1, <1>3, <1>4, <1>5 DEF RsuInv, TaskOutcome

-----------------------------------------------------------------------------
(* The timer and the clock.                                                   *)

TimerStep == TimerRuns \/ (\E r \in Reqs : TimerChecks(r)) \/ TimerPublishes \/ Tick

LEMMA TimerStepInv ==
  ASSUME RsuInv, TimerStep
  PROVE  RsuInv'
<1>1. /\ bsmList = Absent \/ bsmList \subseteq Reqs
      /\ now \in 0..MaxNow /\ updated \in [Reqs -> 0..MaxNow] /\ timer \in Timer
      /\ timer.todo \subseteq Reqs /\ timer.keep \subseteq Reqs /\ MaxNow \in Nat
  BY RsuAssumption DEF RsuInv, TimerInv, Timer
<1>2. UNCHANGED <<heap, rsuList, reg, del, req, task, updated>>
  BY DEF TimerStep, TimerRuns, TimerChecks, TimerPublishes, Tick
<1>3. TimerInv'
  <2>1. CASE TimerRuns
    BY <1>1, <1>2, <2>1 DEF TimerInv, TimerRuns, Timer
  <2>2. ASSUME NEW r \in Reqs, TimerChecks(r) PROVE TimerInv'
    BY <1>1, <1>2, <2>2 DEF TimerInv, TimerChecks, Timer
  <2>3. CASE TimerPublishes
    BY <1>1, <1>2, <2>3 DEF TimerInv, TimerPublishes, Timer
  <2>4. CASE Tick
    BY <1>1, <1>2, <2>4 DEF TimerInv, Tick
  <2> QED BY <2>1, <2>2, <2>3, <2>4 DEF TimerStep
<1>4. HeapStep /\ EnteredStep /\ ListsInv' /\ RegistrationsInv'
  BY <1>2, SameLists
<1>5. DeletionsInv'
  BY <1>2, <1>4, CopyKept DEF RsuInv, DeletionsInv
<1>6. TasksInv'
  BY <1>2, <1>4, TaskKept DEF RsuInv, TasksInv
<1> QED BY <1>3, <1>4, <1>5, <1>6 DEF RsuInv

-----------------------------------------------------------------------------
(* The invariant.                                                             *)

LEMMA NextSteps ==
  Next => \/ \E g \in Regs : RegisterStep(g)
          \/ \E d \in Dels : DeleteUnitStep(d)
          \/ \E r \in Reqs : RequestStep(r)
          \/ TimerStep
BY DEF Next, RegisterStep, DeleteUnitStep, RequestStep, TimerStep

LEMMA RsuInitInv == Init => RsuInv
<1> SUFFICES ASSUME Init PROVE RsuInv
  OBVIOUS
<1>1. ListsInv /\ RegistrationsInv
  BY DEF Init, ListsInv, RegistrationsInv, Lists, Registration
<1>2. DeletionsInv
  BY DEF Init, DeletionsInv, DeletionAt, Deletion, CopyFits, AllEntered
<1>3. TasksInv
  BY DEF Init, TasksInv, Request, Task, TaskFits, Waiting
<1>4. TimerInv
  BY RsuAssumption DEF Init, TimerInv, Timer
<1> QED BY <1>1, <1>2, <1>3, <1>4 DEF RsuInv

LEMMA RsuNextInv == RsuInv /\ [Next]_vars => RsuInv'
<1> SUFFICES ASSUME RsuInv, [Next]_vars PROVE RsuInv'
  OBVIOUS
<1>1. CASE Next
  BY <1>1, NextSteps, RegisterStepInv, DeleteUnitStepInv, RequestStepInv, TimerStepInv
<1>2. CASE UNCHANGED vars
  <2>1. UNCHANGED <<heap, rsuList, bsmList, now, updated, reg, del, req, task, timer>>
    BY <1>2 DEF vars
  <2>2. HeapStep /\ EnteredStep /\ ListsInv' /\ RegistrationsInv'
    BY <2>1, SameLists
  <2>3. DeletionsInv'
    BY <2>1, <2>2, CopyKept DEF RsuInv, DeletionsInv
  <2>4. TasksInv' /\ TimerInv'
    BY <2>1, <2>2, TaskKept DEF RsuInv, TasksInv, TimerInv
  <2> QED BY <2>2, <2>3, <2>4 DEF RsuInv
<1> QED BY <1>1, <1>2

LEMMA RsuInvariant == Spec => []RsuInv
BY RsuInitInv, RsuNextInv, PTL DEF Spec

(* The lists, the threads and the tasks keep their shape, however many of     *)
(* them there are and in whatever order they run (RSUServlet).                *)
THEOREM RsuTypeCorrect == Spec => []TypeOK
<1>1. RsuInv => TypeOK
  BY DEF RsuInv, ListsInv, RegistrationsInv, DeletionsInv, TasksInv, TimerInv, TypeOK
<1> QED BY <1>1, RsuInvariant, PTL

(* A task that is over has tried the hub of every unit along the route that   *)
(* was listed when its request came in, unless a registration changed that    *)
(* very list since (RSUServlet's BSM handler and its tasks).                  *)
THEOREM ServedCorrect == Spec => []ServedIfUnchanged
<1>1. RsuInv => ServedIfUnchanged
  BY DEF RsuInv, TasksInv, TaskFits, Unchanged, ServedIfUnchanged
<1> QED BY <1>1, RsuInvariant, PTL

-----------------------------------------------------------------------------
(* The list of BSM requests.                                                  *)

(* A step of the requests: one that has a task keeps it, and its BSM.         *)
TaskedStep ==
  \A q \in Reqs : task[q].pc # "none" => task'[q].pc # "none" /\ req'[q].bsm = req[q].bsm

TrackedNext(S) ==
  /\ \A q \in S : task'[q].pc # "none"
  /\ \A p, q \in S : req'[p].bsm = req'[q].bsm => p = q

LEMMA TrackedKept ==
  ASSUME TaskedStep, NEW S \in SUBSET Reqs, Tracked(S)
  PROVE  TrackedNext(S)
BY DEF TaskedStep, Tracked, TrackedNext

(* What one request is known by stays true while it does not move.            *)
LEMMA TrackFitsKept ==
  ASSUME RsuInv, TrackInv, TaskedStep, NEW r \in Reqs, req'[r] = req[r]
  PROVE  TrackFits(r)'
<1>1. req[r].known \subseteq Reqs /\ TrackFits(r)
  BY DEF RsuInv, TasksInv, Request, TrackInv
<1>2. TrackedNext(req[r].known)
  BY <1>1, TrackedKept DEF TrackFits
<1>3. Tracked(req[r].known)'
  BY <1>2 DEF TrackedNext, Tracked
<1>4. \A q \in req[r].known : req'[q].bsm = req[q].bsm
  BY <1>1 DEF TrackFits, Tracked, TaskedStep
<1>5. task[r].pc # "none" => task'[r].pc # "none"
  BY DEF TaskedStep
<1> QED BY <1>1, <1>3, <1>4, <1>5 DEF TrackFits, Waiting

(* An ignored request stays ignored for a reason.                             *)
LEMMA IgnoredKept ==
  ASSUME RsuInv, TrackInv, TaskedStep, NEW r \in Reqs, req'[r].ignored, req[r].ignored,
         req'[r].bsm = req[r].bsm
  PROVE  \E q \in Reqs \ {r} : req'[q].bsm = req'[r].bsm /\ task'[q].pc # "none"
BY DEF TrackInv, IgnoredWasProcessed, TaskedStep

(* Steps that leave the requests, their tasks and the two sets alone, or only *)
(* move what is tracked.                                                      *)
LEMMA TrackWrite ==
  ASSUME RsuInv, TrackInv, TaskedStep, NEW r \in Reqs,
         \A q \in Reqs \ {r} : req'[q] = req[q],
         bsmList' = bsmList \/ TrackedNext(bsmList'), timer' = timer, TrackFits(r)',
         req'[r].ignored => \E q \in Reqs \ {r} : req'[q].bsm = req'[r].bsm /\ task'[q].pc # "none"
  PROVE  TrackInv'
<1>1. \A q \in Reqs : TrackFits(q)'
  BY TrackFitsKept
<1>2. Tracked(timer.todo \cup timer.keep)'
  <2>1. timer.todo \cup timer.keep \in SUBSET Reqs
    BY DEF RsuInv, TimerInv, Timer
  <2>2. TrackedNext(timer.todo \cup timer.keep)
    BY <2>1, TrackedKept DEF TrackInv
  <2> QED BY <2>2 DEF TrackedNext, Tracked
<1>3. (bsmList # Absent => Tracked(bsmList))'
  <2>1. CASE bsmList' = bsmList /\ bsmList # Absent
    <3>1. bsmList \in SUBSET Reqs
      BY <2>1 DEF RsuInv, TimerInv
    <3>2. TrackedNext(bsmList)
      BY <2>1, <3>1, TrackedKept DEF TrackInv
    <3> QED BY <2>1, <3>2 DEF TrackedNext, Tracked
  <2>2. CASE TrackedNext(bsmList')
    BY <2>2 DEF TrackedNext, Tracked
  <2> QED BY <2>1, <2>2
<1>4. IgnoredWasProcessed'
  <2> SUFFICES ASSUME NEW x \in Reqs, req'[x].ignored
               PROVE  \E q \in Reqs \ {x} : req'[q].bsm = req'[x].bsm /\ task'[q].pc # "none"
    BY DEF IgnoredWasProcessed
  <2>1. CASE x = r
    BY <2>1
  <2>2. CASE x # r
    <3>1. req'[x] = req[x]
      BY <2>2
    <3> QED BY <3>1, IgnoredKept
  <2> QED BY <2>1, <2>2
<1> QED BY <1>1, <1>2, <1>3, <1>4 DEF TrackInv

(* Before its task is there, a request is not tracked.                        *)
LEMMA NoTaskYet ==
  ASSUME RsuInv, NEW r \in Reqs, req[r].pc = "none" \/ Waiting(r)
  PROVE  task[r].pc = "none" /\ \A S \in SUBSET Reqs : Tracked(S) => r \notin S
<1>1. task[r].pc = "none"
  BY DEF RsuInv, TasksInv, TaskFits
<1> QED BY <1>1 DEF Tracked

LEMMA AskTracks ==
  ASSUME RsuInv, TrackInv, NEW r \in Reqs, NEW bsm \in Bsms, Ask(r, bsm)
  PROVE  TrackInv'
<1>1. /\ req \in [Reqs -> Request] /\ task \in [Reqs -> Task] /\ req[r].pc = "none" /\ TrackFits(r)
      /\ req[r].known \subseteq Reqs /\ req[r] \in Request /\ task[r] \in Task
  BY DEF RsuInv, TasksInv, Ask, TrackInv, Request
<1>2. PICK some \in BOOLEAN :
        /\ req' = [req EXCEPT ![r] = [req[r] EXCEPT !.bsm = bsm, !.pc = IF some THEN "look" ELSE "done",
                                                    !.list = IF some THEN rsuList ELSE 0]]
  BY DEF Ask
<1>3. /\ \A q \in Reqs \ {r} : req'[q] = req[q]
      /\ req'[r].known = req[r].known /\ req'[r].ignored = req[r].ignored /\ req'[r].pc \in {"look", "done"}
  BY <1>1, <1>2 DEF Request
<1>4. \A q \in Reqs : task'[q].pc = task[q].pc
  BY <1>1 DEF Ask, Task
<1>5. task[r].pc = "none"
  BY <1>1, NoTaskYet
<1>6. TaskedStep
  BY <1>3, <1>4, <1>5 DEF TaskedStep
<1>7. TrackedNext(req[r].known)
  BY <1>1, <1>6, TrackedKept DEF TrackFits
<1>8. TrackFits(r)'
  BY <1>1, <1>3, <1>7 DEF TrackFits, TrackedNext, Tracked, Waiting
<1>9. ~req'[r].ignored
  BY <1>1, <1>3 DEF TrackFits
<1>10. bsmList' = bsmList /\ timer' = timer
  BY DEF Ask
<1> QED BY <1>3, <1>6, <1>8, <1>9, <1>10, TrackWrite

LEMMA DropTracks ==
  ASSUME RsuInv, TrackInv, NEW r \in Reqs, Drop(r)
  PROVE  TrackInv'
<1>1. req \in [Reqs -> Request] /\ TrackFits(r) /\ Waiting(r) /\ req[r].known \subseteq Reqs /\ req[r] \in Request
  BY DEF RsuInv, TasksInv, Drop, TrackInv, Waiting, Request
<1>2. /\ \A q \in Reqs \ {r} : req'[q] = req[q]
      /\ req'[r].known = req[r].known /\ req'[r].ignored = req[r].ignored /\ req'[r].pc = "done"
      /\ req'[r].bsm = req[r].bsm /\ task' = task /\ bsmList' = bsmList /\ timer' = timer
  BY <1>1 DEF Drop, Request
<1>3. TaskedStep
  BY <1>2 DEF TaskedStep
<1>4. TrackedNext(req[r].known)
  BY <1>1, <1>3, TrackedKept DEF TrackFits
<1>5. TrackFits(r)'
  BY <1>2, <1>4 DEF TrackFits, TrackedNext, Tracked, Waiting
<1>6. ~req'[r].ignored
  BY <1>1, <1>2 DEF TrackFits
<1> QED BY <1>2, <1>3, <1>5, <1>6, TrackWrite

LEMMA LookTracks ==
  ASSUME RsuInv, TrackInv, NEW r \in Reqs, Look(r)
  PROVE  TrackInv'
<1> DEFINE known == IF bsmList = Absent THEN {} ELSE bsmList
           entry == [req[r] EXCEPT !.pc = "match", !.known = known]
<1>1. /\ req \in [Reqs -> Request] /\ req[r] \in Request /\ TrackFits(r) /\ Waiting(r)
      /\ known \subseteq Reqs /\ Tracked(known)
  BY DEF RsuInv, TasksInv, TimerInv, Look, TrackInv, Waiting, Tracked
<1>2. req' = [req EXCEPT ![r] = entry] /\ task' = task /\ bsmList' = bsmList /\ timer' = timer
  BY DEF Look
<1> HIDE DEF known
<1>3. entry.pc = "match" /\ entry.known = known /\ entry.ignored = req[r].ignored /\ entry.bsm = req[r].bsm
  BY <1>1 DEF Request
<1>4. req'[r] = entry /\ \A q \in Reqs \ {r} : req'[q] = req[q]
  BY <1>1, <1>2
<1> HIDE DEF entry
<1>5. TaskedStep
  BY <1>2, <1>3, <1>4 DEF TaskedStep
<1>6. TrackedNext(known)
  BY <1>1, <1>5, TrackedKept
<1>7. ~req[r].ignored
  BY <1>1 DEF TrackFits
<1>8. TrackFits(r)'
  BY <1>3, <1>4, <1>6, <1>7 DEF TrackFits, TrackedNext, Tracked, Waiting
<1> QED BY <1>2, <1>3, <1>4, <1>5, <1>7, <1>8, TrackWrite

LEMMA MatchTracks ==
  ASSUME RsuInv, TrackInv, NEW r \in Reqs, Match(r)
  PROVE  TrackInv'
<1> DEFINE same == {q \in req[r].known : req[q].bsm = req[r].bsm}
<1>1. /\ req \in [Reqs -> Request] /\ req[r] \in Request /\ TrackFits(r) /\ Waiting(r)
      /\ req[r].known \subseteq Reqs /\ Tracked(req[r].known)
  BY DEF RsuInv, TasksInv, Match, TrackInv, Waiting, TrackFits, Request
<1>2. task' = task /\ bsmList' = bsmList /\ timer' = timer /\ \A q \in Reqs \ {r} : req'[q] = req[q]
  BY <1>1 DEF Match
<1>3. /\ req'[r].bsm = req[r].bsm /\ req'[r].known = req[r].known
      /\ \/ same = {} /\ req'[r].pc = "submit" /\ ~req'[r].ignored
         \/ same # {} /\ req'[r].pc = "publish" /\ req'[r].ignored
  BY MatchStep
<1>4. TaskedStep
  BY <1>2, <1>3 DEF TaskedStep
<1>5. TrackedNext(req[r].known)
  BY <1>1, <1>4, TrackedKept
<1>6. Tracked(req[r].known)'
  BY <1>3, <1>5 DEF TrackedNext, Tracked
<1>7. r \notin req[r].known
  BY <1>1, NoTaskYet
<1>8. TrackFits(r)'
  <2>1. CASE same = {} /\ req'[r].pc = "submit" /\ ~req'[r].ignored
    <3>1. \A q \in req'[r].known : req'[q].bsm # req'[r].bsm
      BY <1>1, <1>2, <1>3, <1>7, <2>1
    <3> QED BY <1>6, <2>1, <3>1 DEF TrackFits
  <2>2. CASE req'[r].pc = "publish" /\ req'[r].ignored
    BY <1>6, <2>2 DEF TrackFits, Waiting
  <2> QED BY <1>3, <2>1, <2>2
<1>9. ASSUME req'[r].ignored
      PROVE  \E q \in Reqs \ {r} : req'[q].bsm = req'[r].bsm /\ task'[q].pc # "none"
  <2>1. PICK q \in req[r].known : req[q].bsm = req[r].bsm
    BY <1>3, <1>9
  <2>2. q \in Reqs \ {r} /\ task[q].pc # "none"
    BY <1>1, <1>7 DEF Tracked
  <2> QED BY <1>2, <1>3, <2>1, <2>2
<1> QED BY <1>2, <1>4, <1>8, <1>9, TrackWrite

LEMMA SubmitTracks ==
  ASSUME RsuInv, TrackInv, NEW r \in Reqs, Submit(r)
  PROVE  TrackInv'
<1>1. /\ req \in [Reqs -> Request] /\ task \in [Reqs -> Task] /\ req[r] \in Request /\ task[r] \in Task
      /\ TrackFits(r) /\ Waiting(r) /\ req[r].pc = "submit"
      /\ req[r].known \subseteq Reqs /\ Tracked(req[r].known)
  BY DEF RsuInv, TasksInv, Submit, TrackInv, Waiting, TrackFits, Request
<1>2. /\ bsmList' = bsmList /\ timer' = timer /\ \A q \in Reqs \ {r} : req'[q] = req[q] /\ task'[q] = task[q]
      /\ req'[r].bsm = req[r].bsm /\ req'[r].known = req[r].known /\ req'[r].pc = "publish"
      /\ req'[r].ignored = req[r].ignored /\ task'[r].pc = "submitted"
  BY <1>1 DEF Submit, Request, Task
<1>3. TaskedStep
  BY <1>2 DEF TaskedStep
<1>4. TrackedNext(req[r].known)
  BY <1>1, <1>3, TrackedKept
<1>5. ~req[r].ignored /\ \A q \in req[r].known : req[q].bsm # req[r].bsm
  BY <1>1 DEF TrackFits
<1>6. \A q \in req[r].known : req'[q].bsm = req[q].bsm
  BY <1>1, <1>2
<1>7. TrackFits(r)'
  BY <1>2, <1>4, <1>5, <1>6 DEF TrackFits, TrackedNext, Tracked, Waiting
<1> QED BY <1>2, <1>3, <1>5, <1>7, TrackWrite

LEMMA TrackTracks ==
  ASSUME RsuInv, TrackInv, NEW r \in Reqs, Track(r)
  PROVE  TrackInv'
<1>1. /\ req \in [Reqs -> Request] /\ req[r] \in Request /\ TrackFits(r) /\ req[r].pc = "publish"
      /\ req[r].known \subseteq Reqs /\ Tracked(req[r].known)
  BY DEF RsuInv, TasksInv, Track, TrackInv, TrackFits, Request
<1>2. /\ timer' = timer /\ task' = task /\ \A q \in Reqs \ {r} : req'[q] = req[q]
      /\ req'[r].bsm = req[r].bsm /\ req'[r].known = {} /\ req'[r].pc = "done"
      /\ req'[r].ignored = req[r].ignored
  BY <1>1 DEF Track, Request
<1>3. TaskedStep
  BY <1>2 DEF TaskedStep
<1>4. Tracked(ToTrack(r)) /\ ToTrack(r) \in SUBSET Reqs
  <2>1. CASE req[r].ignored
    BY <1>1, <2>1 DEF ToTrack
  <2>2. CASE ~req[r].ignored
    <3>1. task[r].pc # "none" /\ \A q \in req[r].known : req[q].bsm # req[r].bsm
      BY <1>1, <2>2 DEF TrackFits
    <3>2. ToTrack(r) = req[r].known \cup {r}
      BY <2>2 DEF ToTrack
    <3>3. Tracked(req[r].known \cup {r})
      BY <1>1, <3>1 DEF Tracked
    <3> QED BY <1>1, <3>2, <3>3
  <2> QED BY <2>1, <2>2
<1>5. TrackedNext(bsmList')
  <2>1. TrackedNext(ToTrack(r)) /\ bsmList' = ToTrack(r)
    BY <1>3, <1>4, TrackedKept DEF Track
  <2> QED BY <2>1
<1>6. TrackFits(r)'
  BY <1>2 DEF TrackFits, Tracked, Waiting
<1>7. req'[r].ignored => \E q \in Reqs \ {r} : req'[q].bsm = req'[r].bsm /\ task'[q].pc # "none"
  BY <1>2, <1>3, IgnoredKept
<1> QED BY <1>2, <1>3, <1>5, <1>6, <1>7, TrackWrite

LEMMA TaskRunTracks ==
  ASSUME RsuInv, TrackInv, NEW r \in Reqs, Begin(r) \/ Identify(r) \/ Forward(r)
  PROVE  TrackInv'
<1>1. task \in [Reqs -> Task] /\ task[r] \in Task
  BY DEF RsuInv, TasksInv
<1>2. req' = req /\ bsmList' = bsmList /\ timer' = timer
  BY DEF Begin, Identify, Forward
<1>3. task'[r].pc # "none" /\ \A q \in Reqs \ {r} : task'[q] = task[q]
  <2>1. CASE Begin(r)
    BY <1>1, <2>1 DEF Begin, Task
  <2>2. CASE Identify(r)
    BY <1>1, <2>2 DEF Identify, Task
  <2>3. CASE Forward(r)
    BY <1>1, <2>3 DEF Forward, Task
  <2> QED BY <2>1, <2>2, <2>3
<1>4. TaskedStep
  BY <1>2, <1>3 DEF TaskedStep
<1>5. TrackFits(r)'
  BY <1>2, <1>4, TrackFitsKept
<1>6. req'[r].ignored => \E q \in Reqs \ {r} : req'[q].bsm = req'[r].bsm /\ task'[q].pc # "none"
  BY <1>2, <1>4, IgnoredKept
<1> QED BY <1>2, <1>4, <1>5, <1>6, TrackWrite

(* Steps that leave the requests alone.                                       *)
LEMMA RequestsKept ==
  ASSUME RsuInv, TrackInv, req' = req, task' = task,
         bsmList' # Absent => Tracked(bsmList'), Tracked(timer'.todo \cup timer'.keep)
  PROVE  TrackInv'
<1>1. TaskedStep
  BY DEF TaskedStep
<1>2. \A r \in Reqs : TrackFits(r)'
  BY <1>1, TrackFitsKept
<1> QED BY <1>2 DEF TrackInv, Tracked, IgnoredWasProcessed

LEMMA TimerTracks ==
  ASSUME RsuInv, TrackInv, TimerStep
  PROVE  TrackInv'
<1>1. req' = req /\ task' = task
  BY DEF TimerStep, TimerRuns, TimerChecks, TimerPublishes, Tick
<1>2. (bsmList # Absent => Tracked(bsmList)) /\ Tracked(timer.todo \cup timer.keep) /\ timer \in Timer
  BY DEF TrackInv, RsuInv, TimerInv
<1>3. CASE TimerRuns
  <2>1. timer'.todo \cup timer'.keep = bsmList /\ bsmList # Absent /\ bsmList' = bsmList
    BY <1>3 DEF TimerRuns
  <2> QED BY <1>1, <1>2, <2>1, RequestsKept
<1>4. ASSUME NEW r \in Reqs, TimerChecks(r) PROVE TrackInv'
  <2>1. timer'.todo \cup timer'.keep \subseteq timer.todo \cup timer.keep /\ bsmList' = bsmList
    BY <1>2, <1>4 DEF TimerChecks, Timer
  <2>2. Tracked(timer'.todo \cup timer'.keep)
    BY <1>2, <2>1 DEF Tracked
  <2> QED BY <1>1, <1>2, <2>1, <2>2, RequestsKept
<1>5. CASE TimerPublishes
  <2>1. bsmList' = timer.keep /\ timer'.todo \cup timer'.keep = {}
    BY <1>5 DEF TimerPublishes
  <2>2. Tracked(timer.keep) /\ Tracked({})
    BY <1>2 DEF Tracked
  <2> QED BY <1>1, <2>1, <2>2, RequestsKept
<1>6. CASE Tick
  <2>1. bsmList' = bsmList /\ timer' = timer
    BY <1>6 DEF Tick
  <2> QED BY <1>1, <1>2, <2>1, RequestsKept
<1> QED BY <1>3, <1>4, <1>5, <1>6 DEF TimerStep

LEMMA TrackInitInv == Init => TrackInv
<1> SUFFICES ASSUME Init PROVE TrackInv
  OBVIOUS
<1>1. Tracked({})
  BY DEF Tracked
<1>2. \A r \in Reqs : TrackFits(r)
  BY <1>1 DEF Init, TrackFits, Waiting
<1> QED BY <1>1, <1>2 DEF Init, TrackInv, IgnoredWasProcessed

LEMMA TrackNextInv == RsuInv /\ TrackInv /\ [Next]_vars => TrackInv'
<1> SUFFICES ASSUME RsuInv, TrackInv, [Next]_vars PROVE TrackInv'
  OBVIOUS
<1>0. (bsmList # Absent => Tracked(bsmList)) /\ Tracked(timer.todo \cup timer.keep)
  BY DEF TrackInv
<1>1. ASSUME NEW r \in Reqs, RequestStep(r) PROVE TrackInv'
  BY <1>1, AskTracks, DropTracks, LookTracks, MatchTracks, SubmitTracks, TrackTracks, TaskRunTracks
     DEF RequestStep
<1>2. CASE TimerStep
  BY <1>2, TimerTracks
<1>3. ASSUME NEW g \in Regs, RegisterStep(g) PROVE TrackInv'
  <2>1. req' = req /\ task' = task /\ bsmList' = bsmList /\ timer' = timer
    BY <1>3 DEF RegisterStep, Register, RegisterUnparsed, ScanList, AddUnit, PublishUnits
  <2> QED BY <1>0, <2>1, RequestsKept
<1>4. ASSUME NEW d \in Dels, DeleteUnitStep(d) PROVE TrackInv'
  <2>1. req' = req /\ task' = task /\ bsmList' = bsmList /\ timer' = timer
    BY <1>4 DEF DeleteUnitStep, Delete, CopyUnit, PublishCopy
  <2> QED BY <1>0, <2>1, RequestsKept
<1>5. CASE UNCHANGED vars
  <2>1. req' = req /\ task' = task /\ bsmList' = bsmList /\ timer' = timer
    BY <1>5 DEF vars
  <2> QED BY <1>0, <2>1, RequestsKept
<1> QED BY <1>1, <1>2, <1>3, <1>4, <1>5, NextSteps

LEMMA TrackInvariant == Spec => []TrackInv
BY RsuInvariant, TrackInitInv, TrackNextInv, PTL DEF Spec

(* However many requests for a BSM arrive, and however their threads and the  *)
(* timer overtake one another, the list holds the BSM once (RSUServlet's      *)
(* BSMReqList).                                                               *)
THEOREM TrackedOnceCorrect == Spec => []TrackedOnce
<1>1. TrackInv => TrackedOnce
  BY DEF TrackInv, Tracked, TrackedOnce
<1> QED BY <1>1, TrackInvariant, PTL

(* A request is ignored only when a task was started for its BSM on behalf of *)
(* another one.                                                               *)
THEOREM IgnoredCorrect == Spec => []IgnoredWasProcessed
<1>1. TrackInv => IgnoredWasProcessed
  BY DEF TrackInv
<1> QED BY <1>1, TrackInvariant, PTL

-----------------------------------------------------------------------------
(* One unit for each hub, while one registration works at a time.             *)

UniqueNext(elems) ==
  \A i, j \in 1..Len(elems) : reg'[elems[i]].port = reg'[elems[j]].port => i = j

LEMMA UniqueKept ==
  ASSUME EnteredStep, NEW elems \in Seq(Regs), AllEntered(elems), Unique(elems)
  PROVE  UniqueNext(elems)
<1>1. \A k \in 1..Len(elems) : elems[k] \in Regs
  OBVIOUS
<1>2. \A k \in 1..Len(elems) : reg'[elems[k]].port = reg[elems[k]].port
  BY <1>1 DEF EnteredStep, AllEntered
<1> QED BY <1>2 DEF Unique, UniqueNext

(* A list loses an element, or gains one whose port it does not have.         *)
LEMMA UniqueRemove ==
  ASSUME NEW elems \in Seq(Regs), NEW i \in 1..Len(elems), UniqueNext(elems)
  PROVE  UniqueNext(RemoveAt(elems, i))
<1> DEFINE new == RemoveAt(elems, i)
           old(k) == IF k < i THEN k ELSE k + 1
<1>0. Len(elems) \in Nat
  OBVIOUS
<1>1. /\ Len(new) = Len(elems) - 1
      /\ \A k \in 1..(i - 1) : new[k] = elems[k]
      /\ \A k \in i..(Len(elems) - 1) : new[k] = elems[k + 1]
  BY RemoveAtElements
<1> HIDE DEF new
<1>2. ASSUME NEW k \in 1..Len(new)
      PROVE  new[k] = elems[old(k)] /\ old(k) \in 1..Len(elems)
  <2>1. CASE k < i
    <3>1. k \in 1..(i - 1)
      BY <1>0, <1>1, <2>1
    <3> QED BY <1>0, <1>1, <2>1, <3>1
  <2>2. CASE ~(k < i)
    <3>1. k \in i..(Len(elems) - 1)
      BY <1>0, <1>1, <2>2
    <3> QED BY <1>0, <1>1, <2>2, <3>1
  <2> QED BY <2>1, <2>2
<1>3. ASSUME NEW a \in 1..Len(new), NEW b \in 1..Len(new), reg'[new[a]].port = reg'[new[b]].port
      PROVE  a = b
  <2>1. old(a) = old(b)
    <3> HIDE DEF old
    <3> QED BY <1>2, <1>3 DEF UniqueNext
  <2> QED BY <1>0, <1>1, <2>1
<1> QED BY <1>3 DEF UniqueNext, new

LEMMA UniqueAppend ==
  ASSUME NEW elems \in Seq(Regs), NEW g \in Regs, UniqueNext(elems),
         \A k \in 1..Len(elems) : reg'[elems[k]].port # reg'[g].port
  PROVE  UniqueNext(Append(elems, g))
<1> DEFINE new == Append(elems, g)
<1>1. /\ Len(new) = Len(elems) + 1 /\ Len(elems) \in Nat /\ new[Len(elems) + 1] = g
      /\ \A k \in 1..Len(elems) : new[k] = elems[k]
  OBVIOUS
<1> HIDE DEF new
<1>2. \A k \in 1..Len(new) : k \in 1..Len(elems) \/ k = Len(elems) + 1
  BY <1>1
<1>3. ASSUME NEW a \in 1..Len(new), NEW b \in 1..Len(new), reg'[new[a]].port = reg'[new[b]].port
      PROVE  a = b
  BY <1>1, <1>2, <1>3 DEF UniqueNext
<1> QED BY <1>3 DEF UniqueNext, new

(* The lists and copies a step leaves alone stay unique.                      *)
LEMMA ListsUnique ==
  ASSUME RsuInv, UniqueInv, EnteredStep
  PROVE  /\ \A l \in Lists : UniqueNext(heap[l].elems)
         /\ \A d \in Dels : UniqueNext(del[d].copy)
<1>1. ASSUME NEW l \in Lists PROVE UniqueNext(heap[l].elems)
  <2>1. heap[l].elems \in Seq(Regs) /\ AllEntered(heap[l].elems)
    BY ElementOf DEF RsuInv, ListsInv
  <2> QED BY <2>1, UniqueKept DEF UniqueInv
<1>2. ASSUME NEW d \in Dels PROVE UniqueNext(del[d].copy)
  <2>1. del[d].copy \in Seq(Regs) /\ AllEntered(del[d].copy)
    BY DEF RsuInv, DeletionsInv, CopyFits, Deletion
  <2> QED BY <2>1, UniqueKept DEF UniqueInv
<1> QED BY <1>1, <1>2

(* What the loop of a registration has behind it, in terms of the next state. *)
LoopNext(g) ==
  LET elems == heap'[reg'[g].list].elems IN
  /\ reg'[g].pc = "scan" =>
       \A k \in 1..Len(elems) : k < reg'[g].i => reg'[elems[k]].port # reg'[g].port
  /\ reg'[g].pc = "add" =>
       \A k \in 1..Len(elems) : reg'[elems[k]].port # reg'[g].port

LEMMA UniqueInvNext ==
  ASSUME \A l \in Lists' : UniqueNext(heap'[l].elems),
         \A d \in Dels : UniqueNext(del'[d].copy),
         \A g, h \in Regs :
           reg'[g].pc \notin {"none", "done"} /\ reg'[h].pc \notin {"none", "done"} => g = h,
         \A g \in Regs : LoopNext(g)
  PROVE  UniqueInv'
BY DEF UniqueInv, UniqueNext, Unique, LoopNext, Registering

(* A thread may start only when no other one registers.                       *)
LEMMA NobodyRegisters ==
  ASSUME MaxRegistering = 1, UniqueInv, Active(reg, {"done"}) < MaxRegistering,
         RegistrationsInv, NEW g \in Regs
  PROVE  ~Registering(g)
<1> DEFINE busy == {x \in DOMAIN reg : reg[x].pc \notin {"none"} \cup {"done"}}
<1>1. SUFFICES ASSUME Registering(g) PROVE FALSE
  OBVIOUS
<1>2. DOMAIN reg = Regs
  BY DEF RegistrationsInv
<1>3. busy = {g}
  BY <1>1, <1>2 DEF UniqueInv, Registering
<1>4. Cardinality(busy) = 1
  BY <1>3, FS_Singleton
<1>5. Active(reg, {"done"}) = Cardinality(busy)
  BY DEF Active
<1> QED BY <1>4, <1>5

(* A step of one registration.                                                *)
LEMMA RegistrationUnique ==
  ASSUME MaxRegistering = 1, RsuInv, UniqueInv, NEW g \in Regs, RegisterStep(g)
  PROVE  \A x, y \in Regs :
           reg'[x].pc \notin {"none", "done"} /\ reg'[y].pc \notin {"none", "done"} => x = y
<1>1. \A x \in Regs \ {g} : reg'[x] = reg[x] /\ ~Registering(x)
  <2>1. reg \in [Regs -> Registration] /\ RegistrationsInv
    BY DEF RsuInv, RegistrationsInv
  <2>2. \A x \in Regs \ {g} : reg'[x] = reg[x]
    BY <2>1 DEF RegisterStep, Register, RegisterUnparsed, ScanList, AddUnit, PublishUnits
  <2>3. CASE \E port \in Ports : Register(g, port)
    BY <2>1, <2>2, <2>3, NobodyRegisters DEF Register
  <2>4. CASE RegisterUnparsed(g)
    BY <2>1, <2>2, <2>4, NobodyRegisters DEF RegisterUnparsed
  <2>5. CASE ScanList(g) \/ AddUnit(g) \/ PublishUnits(g)
    <3>1. Registering(g)
      BY <2>5 DEF ScanList, AddUnit, PublishUnits, Registering
    <3> QED BY <2>2, <3>1 DEF UniqueInv
  <2> QED BY <2>3, <2>4, <2>5 DEF RegisterStep
<1> QED BY <1>1 DEF Registering

(* The loops of others are not under way.                                     *)
LEMMA OtherLoops ==
  ASSUME MaxRegistering = 1, RsuInv, UniqueInv, NEW g \in Regs, RegisterStep(g),
         reg'[g].pc \notin {"none", "done"}, NEW h \in Regs \ {g}
  PROVE  LoopNext(h)
BY RegistrationUnique DEF LoopNext

LEMMA RegisterUnique ==
  ASSUME MaxRegistering = 1, RsuInv, UniqueInv, NEW g \in Regs, NEW port \in Ports, Register(g, port)
  PROVE  UniqueInv'
<1>0. RegisterStep(g) /\ RegistrationOutcome /\ del' = del
  BY RegisterStepOutcome DEF RegisterStep, RsuInv, Register
<1>1. /\ \A l \in Lists : UniqueNext(heap[l].elems)
      /\ \A d \in Dels : UniqueNext(del'[d].copy)
  BY <1>0, ListsUnique DEF RegistrationOutcome
<1>2. reg \in [Regs -> Registration] /\ heap \in Seq(List) /\ Len(heap) \in Nat
  BY DEF RsuInv, RegistrationsInv, ListsInv
<1>3. CASE /\ heap' = Append(heap, [elems |-> <<>>, changes |-> 0])
           /\ reg' = [reg EXCEPT ![g] = [pc |-> "add", port |-> port, list |-> Len(heap'), i |-> 0]]
  <2> DEFINE new == [elems |-> <<>>, changes |-> 0]
  <2>1. new \in List /\ new.elems = <<>>
    BY DEF List
  <2>2. Len(heap') = Len(heap) + 1 /\ heap'[Len(heap')] = new /\ \A l \in Lists : heap'[l] = heap[l]
    <3> HIDE DEF new
    <3> QED BY <1>2, <1>3, <2>1, HeapAppend DEF new
  <2> HIDE DEF new
  <2>3. \A l \in Lists' : l \in Lists \/ heap'[l] = new
    BY <1>2, <2>2 DEF Lists
  <2>4. UniqueNext(new.elems)
    BY <2>1 DEF UniqueNext
  <2>5. \A l \in Lists' : UniqueNext(heap'[l].elems)
    BY <1>1, <2>2, <2>3, <2>4
  <2>6. reg'[g].pc = "add" /\ heap'[reg'[g].list].elems = <<>>
    BY <1>2, <1>3, <2>1, <2>2
  <2>7. LoopNext(g)
    BY <2>6 DEF LoopNext
  <2>8. \A h \in Regs : LoopNext(h)
    BY <1>0, <2>6, <2>7, OtherLoops
  <2> QED BY <1>0, <1>1, <2>5, <2>8, RegistrationUnique, UniqueInvNext
<1>4. CASE /\ heap' = heap
           /\ reg' = [reg EXCEPT ![g] = [pc |-> "scan", port |-> port, list |-> rsuList, i |-> 1]]
  <2>1. \A l \in Lists' : UniqueNext(heap'[l].elems)
    BY <1>1, <1>4 DEF Lists
  <2>2. reg'[g].pc = "scan" /\ reg'[g].i = 1
    BY <1>2, <1>4
  <2>3. LoopNext(g)
    BY <2>2 DEF LoopNext
  <2>4. \A h \in Regs : LoopNext(h)
    BY <1>0, <2>2, <2>3, OtherLoops
  <2> QED BY <1>0, <1>1, <2>1, <2>4, RegistrationUnique, UniqueInvNext
<1> QED BY <1>3, <1>4 DEF Register

LEMMA ScanListUnique ==
  ASSUME MaxRegistering = 1, RsuInv, UniqueInv, NEW g \in Regs, ScanList(g)
  PROVE  UniqueInv'
<1> DEFINE l == reg[g].list
           elems == heap[l].elems
           i == reg[g].i
<1>0. RegisterStep(g) /\ RegistrationOutcome /\ del' = del
  BY RegisterStepOutcome DEF RegisterStep, RsuInv, ScanList
<1>1. /\ \A m \in Lists : UniqueNext(heap[m].elems)
      /\ \A d \in Dels : UniqueNext(del'[d].copy)
  BY <1>0, ListsUnique DEF RegistrationOutcome
<1>2. /\ reg \in [Regs -> Registration] /\ ListsInv /\ RegistrationsInv /\ reg[g].pc = "scan" /\ l \in Lists
      /\ reg[g] \in Registration
  BY DEF RsuInv, RegistrationsInv, ListsInv, ScanList
<1>3. elems \in Seq(Regs) /\ Len(elems) \in Nat /\ i \in Nat
  BY <1>2, ElementOf DEF ListsInv, Registration
<1>4. \A k \in 1..Len(elems) : reg'[elems[k]].port = reg[elems[k]].port
  <2>1. \A k \in 1..Len(elems) : elems[k] \in Regs /\ Entered(elems[k])
    BY <1>2, ElementOf DEF ListsInv, AllEntered
  <2> QED BY <1>0, <2>1 DEF RegistrationOutcome, EnteredStep
<1>5. \A k \in 1..Len(elems) : k < i => reg[elems[k]].port # reg[g].port
  BY <1>2 DEF UniqueInv
<1>6. CASE i <= Len(elems)
  <2>1. i \in 1..Len(elems) /\ reg' = [reg EXCEPT ![g].i = i + 1]
    BY <1>2, <1>6, ScanStep
  <2>2. reg'[g].pc = "scan" /\ reg'[g].i = i + 1 /\ reg'[g].list = l /\ reg'[g].port = reg[g].port
    BY <1>2, <2>1 DEF Registration
  <2>3. CASE reg[elems[i]].port # reg[g].port /\ heap' = heap
    <3>1. \A m \in Lists' : UniqueNext(heap'[m].elems)
      BY <1>1, <2>3 DEF Lists
    <3>2. \A k \in 1..Len(elems) : k < i + 1 => reg'[elems[k]].port # reg[g].port
      <4>1. \A k \in 1..Len(elems) : k < i + 1 => k < i \/ k = i
        BY <1>3
      <4> QED BY <1>4, <1>5, <2>3, <4>1
    <3>3. LoopNext(g)
      BY <2>2, <2>3, <3>2 DEF LoopNext
    <3>4. \A h \in Regs : LoopNext(h)
      BY <1>0, <2>2, <3>3, OtherLoops
    <3> QED BY <1>0, <1>1, <3>1, <3>4, RegistrationUnique, UniqueInvNext
  <2>4. CASE /\ reg[elems[i]].port = reg[g].port /\ Len(heap') = Len(heap)
             /\ heap'[l].elems = RemoveAt(elems, i) /\ \A m \in Lists \ {l} : heap'[m] = heap[m]
    <3> DEFINE new == RemoveAt(elems, i)
    <3>1. /\ Len(new) = Len(elems) - 1
          /\ \A k \in 1..(i - 1) : new[k] = elems[k]
          /\ \A k \in i..(Len(elems) - 1) : new[k] = elems[k + 1]
          /\ UniqueNext(new)
      <4> HIDE DEF elems, i
      <4>1. UniqueNext(elems)
        BY <1>1, <1>2 DEF elems
      <4> QED BY <1>3, <2>1, <4>1, RemoveAtElements, UniqueRemove
    <3>2. Lists' = Lists /\ heap'[l].elems = new
      BY <2>4 DEF Lists
    <3> HIDE DEF new
    <3>3. \A m \in Lists' : UniqueNext(heap'[m].elems)
      BY <1>1, <2>4, <3>1, <3>2
    <3>4. ASSUME NEW k \in 1..Len(new), k < i + 1 PROVE reg'[new[k]].port # reg[g].port
      <4>1. CASE k < i
        <5>1. k \in 1..(i - 1) /\ k \in 1..Len(elems)
          BY <1>3, <3>1, <4>1
        <5> QED BY <1>4, <1>5, <3>1, <4>1, <5>1
      <4>2. CASE k = i
        <5>1. i \in i..(Len(elems) - 1) /\ i + 1 \in 1..Len(elems) /\ i + 1 # i
          BY <1>3, <2>1, <3>1, <4>2
        <5>2. new[k] = elems[i + 1]
          BY <3>1, <4>2, <5>1
        <5>3. reg[elems[i + 1]].port # reg[elems[i]].port
          BY <1>2, <2>1, <5>1 DEF UniqueInv, Unique
        <5> QED BY <1>4, <2>4, <5>1, <5>2, <5>3
      <4> QED BY <1>3, <3>1, <3>4, <4>1, <4>2
    <3>5. LoopNext(g)
      BY <2>2, <3>2, <3>4 DEF LoopNext
    <3>6. \A h \in Regs : LoopNext(h)
      BY <1>0, <2>2, <3>5, OtherLoops
    <3> QED BY <1>0, <1>1, <3>3, <3>6, RegistrationUnique, UniqueInvNext
  <2> QED BY <1>2, <1>6, <2>3, <2>4, ScanStep
<1>7. CASE ~(i <= Len(elems))
  <2>1. heap' = heap /\ reg' = [reg EXCEPT ![g] = [reg[g] EXCEPT !.pc = "add", !.i = 0]]
    BY <1>7 DEF ScanList, InLoop
  <2>2. reg'[g].pc = "add" /\ reg'[g].list = l /\ reg'[g].port = reg[g].port
    BY <1>2, <2>1 DEF Registration
  <2>3. \A m \in Lists' : UniqueNext(heap'[m].elems)
    BY <1>1, <2>1 DEF Lists
  <2>4. \A k \in 1..Len(elems) : reg'[elems[k]].port # reg[g].port
    BY <1>3, <1>4, <1>5, <1>7
  <2>5. LoopNext(g)
    BY <2>1, <2>2, <2>4 DEF LoopNext
  <2>6. \A h \in Regs : LoopNext(h)
    BY <1>0, <2>2, <2>5, OtherLoops
  <2> QED BY <1>0, <1>1, <2>3, <2>6, RegistrationUnique, UniqueInvNext
<1> QED BY <1>6, <1>7

LEMMA AddUnitUnique ==
  ASSUME MaxRegistering = 1, RsuInv, UniqueInv, NEW g \in Regs, AddUnit(g)
  PROVE  UniqueInv'
<1> DEFINE l == reg[g].list
           elems == heap[l].elems
<1>0. RegisterStep(g) /\ RegistrationOutcome /\ del' = del
  BY RegisterStepOutcome DEF RegisterStep, RsuInv, AddUnit
<1>1. /\ \A m \in Lists : UniqueNext(heap[m].elems)
      /\ \A d \in Dels : UniqueNext(del'[d].copy)
  BY <1>0, ListsUnique DEF RegistrationOutcome
<1>2. /\ reg \in [Regs -> Registration] /\ ListsInv /\ RegistrationsInv /\ reg[g].pc = "add" /\ l \in Lists
      /\ reg[g] \in Registration
  BY DEF RsuInv, RegistrationsInv, ListsInv, AddUnit
<1>3. /\ elems \in Seq(Regs) /\ heap'[l].elems = Append(elems, g)
      /\ Len(heap') = Len(heap) /\ \A m \in Lists \ {l} : heap'[m] = heap[m]
  BY <1>2, AddUnitStep
<1>4. \A k \in 1..Len(elems) : reg'[elems[k]].port = reg[elems[k]].port
  <2>1. \A k \in 1..Len(elems) : elems[k] \in Regs /\ Entered(elems[k])
    BY <1>2, ElementOf DEF ListsInv, AllEntered
  <2> QED BY <1>0, <2>1 DEF RegistrationOutcome, EnteredStep
<1>5. reg'[g].pc = "publish" /\ reg'[g].port = reg[g].port
  BY <1>2 DEF AddUnit, Registration
<1>6. \A k \in 1..Len(elems) : reg'[elems[k]].port # reg'[g].port
  BY <1>2, <1>4, <1>5 DEF UniqueInv
<1>7. UniqueNext(heap'[l].elems)
  <2> HIDE DEF elems
  <2>1. UniqueNext(elems)
    BY <1>1, <1>2 DEF elems
  <2> QED BY <1>3, <1>6, <2>1, UniqueAppend
<1>8. \A m \in Lists' : UniqueNext(heap'[m].elems)
  BY <1>1, <1>3, <1>7 DEF Lists
<1>9. LoopNext(g)
  BY <1>5 DEF LoopNext
<1>10. \A h \in Regs : LoopNext(h)
  BY <1>0, <1>5, <1>9, OtherLoops
<1> QED BY <1>0, <1>1, <1>8, <1>10, RegistrationUnique, UniqueInvNext

(* A step that leaves the heap alone, and no loop under way.                  *)
LEMMA PublishUnique ==
  ASSUME MaxRegistering = 1, RsuInv, UniqueInv, NEW g \in Regs,
         RegisterUnparsed(g) \/ PublishUnits(g)
  PROVE  UniqueInv'
<1>0. RegisterStep(g) /\ RegistrationOutcome /\ del' = del /\ heap' = heap
  BY RegisterStepOutcome DEF RegisterStep, RsuInv, RegisterUnparsed, PublishUnits
<1>1. /\ \A m \in Lists : UniqueNext(heap[m].elems)
      /\ \A d \in Dels : UniqueNext(del'[d].copy)
  BY <1>0, ListsUnique DEF RegistrationOutcome
<1>2. \A m \in Lists' : UniqueNext(heap'[m].elems)
  BY <1>0, <1>1 DEF Lists
<1>3. reg \in [Regs -> Registration] /\ reg[g] \in Registration /\ RegistrationsInv
  BY DEF RsuInv, RegistrationsInv
<1>4. reg'[g].pc \in {"publish", "done"} /\ \A h \in Regs \ {g} : reg'[h] = reg[h]
  BY <1>3 DEF RegisterUnparsed, PublishUnits, Registration
<1>5. \A h \in Regs \ {g} : ~Registering(h)
  <2>1. CASE RegisterUnparsed(g)
    BY <1>3, <2>1, NobodyRegisters DEF RegisterUnparsed
  <2>2. CASE PublishUnits(g)
    <3>1. Registering(g)
      BY <2>2 DEF PublishUnits, Registering
    <3> QED BY <3>1 DEF UniqueInv
  <2> QED BY <2>1, <2>2
<1>6. \A h \in Regs : LoopNext(h)
  BY <1>4, <1>5 DEF LoopNext, Registering
<1> QED BY <1>0, <1>1, <1>2, <1>6, RegistrationUnique, UniqueInvNext

(* Steps of others leave the loops what they have.                            *)
LEMMA LoopsKept ==
  ASSUME RsuInv, UniqueInv, reg' = reg, \A l \in Lists : heap'[l] = heap[l]
  PROVE  /\ \A g \in Regs : LoopNext(g)
         /\ \A g, h \in Regs :
              reg'[g].pc \notin {"none", "done"} /\ reg'[h].pc \notin {"none", "done"} => g = h
<1>1. \A g \in Regs : reg[g].pc \in {"scan", "add"} => heap'[reg[g].list] = heap[reg[g].list]
  BY DEF RsuInv, RegistrationsInv
<1>2. ASSUME NEW g \in Regs PROVE LoopNext(g)
  <2>1. CASE reg[g].pc \in {"scan", "add"}
    <3>1. heap'[reg'[g].list].elems = heap[reg[g].list].elems
      BY <1>1, <2>1
    <3> QED BY <3>1 DEF LoopNext, UniqueInv
  <2>2. CASE reg[g].pc \notin {"scan", "add"}
    BY <2>2 DEF LoopNext
  <2> QED BY <2>1, <2>2
<1>3. \A g, h \in Regs :
        reg'[g].pc \notin {"none", "done"} /\ reg'[h].pc \notin {"none", "done"} => g = h
  BY DEF UniqueInv, Registering
<1> QED BY <1>2, <1>3

LEMMA CopyUnitUnique ==
  ASSUME RsuInv, UniqueInv, NEW d \in Dels, CopyUnit(d)
  PROVE  UniqueInv'
<1> DEFINE elems == heap[del[d].list].elems
           copy == del[d].copy
           i == del[d].i
           u == elems[i + 1]
<1>0. heap' = heap /\ rsuList' = rsuList /\ reg' = reg /\ Lists' = Lists
  BY DEF CopyUnit, Lists
<1>1. /\ \A m \in Lists : UniqueNext(heap[m].elems)
      /\ \A e \in Dels : UniqueNext(del[e].copy)
  BY <1>0, SameLists, ListsUnique
<1>2. /\ del \in [Dels -> Deletion] /\ del[d] \in Deletion /\ CopyFits(d) /\ del[d].pc = "copy"
      /\ del[d].list \in Lists
  BY DEF RsuInv, DeletionsInv, CopyUnit, CopyFits
<1>3. UniqueNext(del'[d].copy) /\ \A e \in Dels \ {d} : del'[e] = del[e]
  <2>1. CASE del' = [del EXCEPT ![d] = [del[d] EXCEPT !.pc = "publish"]]
    <3>1. del'[d].copy = copy
      BY <1>2, <2>1 DEF Deletion
    <3> QED BY <1>1, <1>2, <2>1, <3>1
  <2>2. CASE del' = [del EXCEPT ![d] = DeletionAt("failed")]
    <3>1. del'[d].copy = <<>>
      BY <1>2, <2>2 DEF DeletionAt
    <3> QED BY <1>2, <2>2, <3>1 DEF UniqueNext
  <2>3. CASE del' = [del EXCEPT ![d] = [del[d] EXCEPT !.i = i + 1]]
    <3>1. del'[d].copy = copy
      BY <1>2, <2>3 DEF Deletion
    <3> QED BY <1>1, <1>2, <2>3, <3>1
  <2>4. CASE /\ i + 1 \in 1..Len(elems) /\ u \in Regs /\ heap[del[d].list].changes = del[d].changes
             /\ i \in Nat /\ copy \in Seq(Regs)
             /\ del' = [del EXCEPT ![d] = [del[d] EXCEPT !.i = i + 1, !.copy = Append(copy, u)]]
    <3>1. \A j \in 1..Len(copy) : \E k \in 1..i : copy[j] = elems[k]
      BY <1>2, <2>4 DEF CopyFits
    <3>2. \A k \in 1..i : k \in 1..Len(elems) /\ k # i + 1
      BY <2>4
    <3>3. \A k \in 1..i : reg[elems[k]].port # reg[u].port
      BY <1>2, <2>4, <3>2 DEF UniqueInv, Unique
    <3>4. \A j \in 1..Len(copy) : reg'[copy[j]].port # reg'[u].port
      BY <1>0, <3>1, <3>3
    <3>5. UniqueNext(Append(copy, u))
      <4>1. UniqueNext(copy)
        BY <1>1
      <4> HIDE DEF copy, u
      <4> QED BY <2>4, <3>4, <4>1, UniqueAppend
    <3>6. del'[d].copy = Append(copy, u)
      <4> DEFINE new == Append(copy, u)
                 upto == i + 1
      <4>1. del' = [del EXCEPT ![d] = [del[d] EXCEPT !.i = upto, !.copy = new]]
        BY <2>4
      <4> HIDE DEF new, upto
      <4>2. del'[d].copy = new
        BY <1>2, <4>1 DEF Deletion
      <4> QED BY <4>2 DEF new
    <3> QED BY <1>2, <2>4, <3>5, <3>6
  <2> QED BY <2>1, <2>2, <2>3, <2>4, CopyUnitStep
<1>4. \A e \in Dels : UniqueNext(del'[e].copy)
  BY <1>1, <1>3
<1>5. \A m \in Lists' : UniqueNext(heap'[m].elems)
  BY <1>0, <1>1
<1> QED BY <1>0, <1>4, <1>5, LoopsKept, UniqueInvNext

LEMMA PublishCopyUnique ==
  ASSUME RsuInv, UniqueInv, NEW d \in Dels, PublishCopy(d)
  PROVE  UniqueInv'
<1>1. /\ EnteredStep /\ Len(heap') = Len(heap) + 1 /\ heap'[Len(heap')].elems = del[d].copy
      /\ \A l \in Lists : heap'[l] = heap[l]
  BY PublishCopyStep
<1>2. /\ \A m \in Lists : UniqueNext(heap[m].elems)
      /\ \A e \in Dels : UniqueNext(del[e].copy)
  BY <1>1, ListsUnique
<1>3. Len(heap) \in Nat /\ reg' = reg /\ del \in [Dels -> Deletion]
  BY DEF RsuInv, ListsInv, DeletionsInv, PublishCopy
<1>4. \A m \in Lists' : m \in Lists \/ m = Len(heap')
  BY <1>1, <1>3 DEF Lists
<1>5. \A m \in Lists' : UniqueNext(heap'[m].elems)
  BY <1>1, <1>2, <1>4
<1>6. del'[d].copy = <<>> /\ \A e \in Dels \ {d} : del'[e] = del[e]
  BY <1>3 DEF PublishCopy, DeletionAt
<1>7. \A e \in Dels : UniqueNext(del'[e].copy)
  <2>1. UniqueNext(<<>>)
    BY DEF UniqueNext
  <2> QED BY <1>2, <1>6, <2>1
<1> QED BY <1>1, <1>3, <1>5, <1>7, LoopsKept, UniqueInvNext

LEMMA DeleteUnique ==
  ASSUME RsuInv, UniqueInv, NEW d \in Dels, NEW port \in Ports, Delete(d, port)
  PROVE  UniqueInv'
<1>0. heap' = heap /\ rsuList' = rsuList /\ reg' = reg /\ Lists' = Lists /\ del \in [Dels -> Deletion]
  BY DEF Delete, Lists, RsuInv, DeletionsInv
<1>1. /\ \A m \in Lists : UniqueNext(heap[m].elems)
      /\ \A e \in Dels : UniqueNext(del[e].copy)
  BY <1>0, SameLists, ListsUnique
<1>2. del'[d].copy = <<>> /\ \A e \in Dels \ {d} : del'[e] = del[e]
  BY <1>0 DEF Delete, DeletionAt
<1>3. \A e \in Dels : UniqueNext(del'[e].copy)
  <2>1. UniqueNext(<<>>)
    BY DEF UniqueNext
  <2> QED BY <1>1, <1>2, <2>1
<1>4. \A m \in Lists' : UniqueNext(heap'[m].elems)
  BY <1>0, <1>1
<1> QED BY <1>0, <1>3, <1>4, LoopsKept, UniqueInvNext

(* Steps that touch neither the lists nor the copies.                         *)
LEMMA OthersUnique ==
  ASSUME RsuInv, UniqueInv, UNCHANGED <<heap, rsuList, reg, del>>
  PROVE  UniqueInv'
<1>0. Lists' = Lists
  BY DEF Lists
<1>1. /\ \A m \in Lists : UniqueNext(heap[m].elems)
      /\ \A e \in Dels : UniqueNext(del[e].copy)
  BY SameLists, ListsUnique
<1> QED BY <1>0, <1>1, LoopsKept, UniqueInvNext

LEMMA UniqueInitInv == Init => UniqueInv
<1> SUFFICES ASSUME Init PROVE UniqueInv
  OBVIOUS
<1>1. Lists = {} /\ \A g \in Regs : reg[g].pc = "none"
  BY DEF Init, Lists
<1>2. \A d \in Dels : Unique(del[d].copy)
  BY DEF Init, DeletionAt, Unique
<1> QED BY <1>1, <1>2 DEF UniqueInv, Registering

LEMMA UniqueNextInv == MaxRegistering = 1 /\ RsuInv /\ UniqueInv /\ [Next]_vars => UniqueInv'
<1> SUFFICES ASSUME MaxRegistering = 1, RsuInv, UniqueInv, [Next]_vars PROVE UniqueInv'
  OBVIOUS
<1>1. ASSUME NEW g \in Regs, RegisterStep(g) PROVE UniqueInv'
  BY <1>1, RegisterUnique, ScanListUnique, AddUnitUnique, PublishUnique DEF RegisterStep
<1>2. ASSUME NEW d \in Dels, DeleteUnitStep(d) PROVE UniqueInv'
  BY <1>2, DeleteUnique, CopyUnitUnique, PublishCopyUnique DEF DeleteUnitStep
<1>3. ASSUME NEW r \in Reqs, RequestStep(r) PROVE UniqueInv'
  <2>1. UNCHANGED <<heap, rsuList, reg, del>>
    BY <1>3 DEF RequestStep, Ask, Drop, Look, Match, Submit, Track, Begin, Identify, Forward
  <2> QED BY <2>1, OthersUnique
<1>4. CASE TimerStep
  <2>1. UNCHANGED <<heap, rsuList, reg, del>>
    BY <1>4 DEF TimerStep, TimerRuns, TimerChecks, TimerPublishes, Tick
  <2> QED BY <2>1, OthersUnique
<1>5. CASE UNCHANGED vars
  <2>1. UNCHANGED <<heap, rsuList, reg, del>>
    BY <1>5 DEF vars
  <2> QED BY <2>1, OthersUnique
<1> QED BY <1>1, <1>2, <1>3, <1>4, <1>5, NextSteps

(* While registrations are handled one after another, the published list has  *)
(* one unit for a hub, for any number of hubs, units and registrations, and   *)
(* whatever deletions copy and publish meanwhile (RSUService.RegisteringRSU). *)
THEOREM RegistrySoundCorrect ==
  ASSUME MaxRegistering = 1
  PROVE  Spec => []RegistrySound
<1>1. MaxRegistering = 1
  OBVIOUS
<1>2. UniqueInv /\ RsuInv /\ [Next]_vars => UniqueInv'
  BY <1>1, UniqueNextInv
<1>3. RsuInv /\ UniqueInv => OnePerPort
  BY DEF RsuInv, ListsInv, UniqueInv, Unique, OnePerPort
<1> QED BY <1>2, <1>3, UniqueInitInv, RsuInvariant, RsuTypeCorrect, PTL DEF Spec, RegistrySound
=============================================================================

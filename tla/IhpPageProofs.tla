---------------------------- MODULE IhpPageProofs -----------------------------
(***************************************************************************)
(* What the harmonisation page keeps, for any number of users and any      *)
(* budget: one chain of polls, one user at work, and a corridor whose      *)
(* table, detectors and simulation belong together.                        *)
(***************************************************************************)
EXTENDS IhpPage, FiniteSetTheorems, WellFoundedInduction, TLAPS

Clicks == Max({b.clicks : b \in Budgets})
Saves == Max({b.saves : b \in Budgets})

Typed ==
  /\ TypeOK /\ IsFiniteSet(polls) /\ IsFiniteSet(calls)
  /\ Clicks \in Nat /\ Saves \in Nat /\ left.clicks <= Clicks /\ left.saves <= Saves

(* A page that is not open has nothing set and nothing under way.             *)
ClosedIsQuiet ==
  \A p \in Pages \ open :
    /\ timers[p] = NoTimer /\ \A q \in polls : q.page # p
    /\ p \notin admitted \cup held \cup covered
    /\ p = Mine => page = Closed /\ calls = {}

(* A chain is begun by opening a page or by a click.                          *)
ChainsBound ==
  \A p \in Pages : Chains(p) + (IF p = Mine THEN left.clicks ELSE 0) <= Clicks + 1

(* Who is let work, or is about to be told so, is the current user and, while *)
(* its page polls, is not forgotten.                                          *)
ToldSole(p) == \E q \in polls : q.page = p /\ q.at = "back" /\ q.sole
InCharge ==
  "silent" \notin marks =>
    \A p \in Pages : /\ p \in admitted \/ ToldSole(p) => p = current /\ p \in users
                     /\ p \in admitted => Chains(p) >= 1

(* An overlay hides what a timer or an answer is going to show again.         *)
CoverEnds ==
  "lost" \notin marks /\ Mine \in covered \ held =>
    page.hides > 0 \/ page.reloads > 0 \/ \E c \in calls : c.kind \in {"geo", "save"}

CallsKnown ==
  /\ \A c \in calls : /\ c.kind = "save" /\ c.at = "sent" => c.data # <<>>
                      /\ c.at = "lost" => "lost" \in marks
                      /\ c.at = "refused" /\ c.kind \in {"geo", "save"} => "refused" \in marks
  /\ Mine \in held /\ page.reloads > 0 => "uncovered" \in marks

(* A corridor is drawn, then saved, then loaded; until it is there the table  *)
(* is empty.                                                                  *)
Fetching == {c \in calls : c.kind \in {"geo", "save"}}
Table == IF geo = 0 THEN <<>> ELSE <<geo>>
CorridorInv ==
  "early" \notin marks =>
    /\ page.drawing => ~page.new /\ page.reloads = 0 /\ Fetching = {}
    /\ page.reloads > 0 => page.reloads = 1 /\ Fetching = {}
    /\ \A c, d \in Fetching : c = d
    /\ page.drawing \/ page.reloads > 0 \/ Fetching # {} => page.rows = <<>> /\ page.poly = <<>>
    /\ page.rows \in {<<>>, Table}
    /\ \A c \in calls : c.kind = "geo" /\ c.at = "done" => c.data = Table

TableLoaded ==
  {"lost", "refused", "early"} \cap marks = {} /\ Mine \in open =>
    page.drawing \/ page.reloads > 0 \/ Fetching # {} \/ page.rows = Table

UpdatesFit ==
  {"untabled", "early", "overtaken"} \cap marks = {} =>
    \A c \in calls : c.kind = "update" /\ c.at = "sent" =>
      /\ Fits(c.data) /\ c.data # <<>>
      /\ \A d \in calls : d.kind = "save" => d.at # "sent"

Launched == running \/ \E c \in calls : c.kind = "start" /\ c.at = "sent"
SavedAtRest ==
  {"hasty", "early"} \cap marks = {} =>
    /\ Launched => page.rows # <<>>
    /\ Told /\ page.new => ~Launched

Chained == ClosedIsQuiet /\ ChainsBound /\ OneChain /\ KeepsPolling /\ InCharge
Covers == HeldIsCovered /\ CoverEnds /\ CallsKnown
Corridors ==
  CorridorInv /\ TableLoaded /\ UpdatesFit /\ DetectorsFit /\ SavedAtRest /\ SavedWhileReady

PageInv == Typed /\ Chained /\ Covers /\ Corridors

-----------------------------------------------------------------------------
(* The numbers of the budget.                                                 *)

(* A finite set of numbers that is not empty has a greatest one.              *)
LEMMA HasMax ==
  ASSUME NEW S \in SUBSET Nat, IsFiniteSet(S), S # {}
  PROVE  Max(S) \in S /\ \A x \in S : x <= Max(S)
<1> DEFINE Topped(T) == \E m \in T : \A x \in T : x <= m
           Bad == {n \in Nat : \E T \in SUBSET Nat :
                     IsFiniteSet(T) /\ Cardinality(T) = n /\ T # {} /\ ~Topped(T)}
<1>1. Bad = {}
  <2> SUFFICES ASSUME Bad # {} PROVE FALSE
    OBVIOUS
  <2>1. PICK n \in Bad : \A k \in Bad : ~(<<k, n>> \in OpToRel(<, Nat))
    BY NatLessThanWellFounded, WFMin, Zenon
  <2>2. PICK T \in SUBSET Nat : IsFiniteSet(T) /\ Cardinality(T) = n /\ T # {} /\ ~Topped(T)
    OBVIOUS
  <2>3. PICK x \in T : TRUE
    BY <2>2
  <2> DEFINE U == T \ {x}
  <2>4. IsFiniteSet(U) /\ Cardinality(U) = n - 1 /\ Cardinality(U) \in Nat /\ n \in Nat
    BY <2>2, <2>3, FS_RemoveElement, FS_CardinalityType
  <2>5. <<n - 1, n>> \in OpToRel(<, Nat) /\ n - 1 \in Nat
    BY <2>4 DEF OpToRel
  <2>6. n - 1 \notin Bad
    BY <2>1, <2>5
  <2>7. U = {} \/ Topped(U)
    BY <2>4, <2>5, <2>6
  <2>8. CASE U = {}
    BY <2>2, <2>3, <2>8
  <2>9. CASE Topped(U)
    <3>1. PICK m \in U : \A y \in U : y <= m
      BY <2>9
    <3>2. CASE x <= m
      BY <2>2, <3>1, <3>2
    <3>3. CASE ~(x <= m)
      <4>1. \A y \in T : y <= x
        BY <2>2, <2>3, <3>1, <3>3
      <4> QED
        BY <2>2, <2>3, <4>1
    <3> QED
      BY <3>2, <3>3
  <2> QED
    BY <2>7, <2>8, <2>9
<1>2. Topped(S)
  <2>1. Cardinality(S) \in Nat
    BY FS_CardinalityType
  <2> QED
    BY <1>1, <2>1
<1> QED
  BY <1>2 DEF Max

(* So has any set of numbers a least one.                                     *)
LEMMA HasMin ==
  ASSUME NEW S \in SUBSET Nat, S # {}
  PROVE  Min(S) \in S
<1>1. PICK x \in S : \A y \in S : ~(<<y, x>> \in OpToRel(<, Nat))
  BY NatLessThanWellFounded, WFMin, Zenon
<1>2. \A y \in S : y \in Nat /\ x \in Nat /\ ~(y < x)
  BY <1>1 DEF OpToRel
<1>3. \A y \in S : x <= y
  BY <1>2
<1> QED
  BY <1>3 DEF Min

(* The largest of a budget.                                                   *)
LEMMA Budgeted ==
  ASSUME NEW b \in Budgets
  PROVE  Clicks \in Nat /\ Saves \in Nat /\ b.clicks <= Clicks /\ b.saves <= Saves
<1> DEFINE C == {x.clicks : x \in Budgets}
           S == {x.saves : x \in Budgets}
<1>0. \A x \in Budgets : x.clicks \in Nat /\ x.saves \in Nat
  BY PageAssumption DEF PageAssumption
<1>1. IsFiniteSet(C) /\ IsFiniteSet(S)
  <2> DEFINE f == [x \in Budgets |-> x.clicks]
             g == [x \in Budgets |-> x.saves]
  <2>1. f \in Surjection(Budgets, C) /\ g \in Surjection(Budgets, S)
    BY DEF Surjection
  <2> QED
    BY <2>1, FS_Surjection, PageAssumption DEF PageAssumption
<1>2. C \in SUBSET Nat /\ S \in SUBSET Nat /\ b.clicks \in C /\ b.saves \in S
  BY <1>0
<1>3. Clicks \in C /\ (\A x \in C : x <= Clicks) /\ Saves \in S /\ \A x \in S : x <= Saves
  BY <1>1, <1>2, HasMax DEF Clicks, Saves
<1> QED
  BY <1>2, <1>3

LEMMA SlotsAre ==
  ASSUME Clicks \in Nat
  PROVE  Slots = 1..(Clicks + 1) /\ Max(Slots) = Clicks + 1
<1>1. Slots = 1..(Clicks + 1)
  BY DEF Slots, Clicks
<1>2. Clicks + 1 \in Slots /\ \A x \in Slots : Clicks + 1 >= x
  BY <1>1
<1> QED
  BY <1>1, <1>2 DEF Max

LEMMA VersionsAre ==
  ASSUME Saves \in Nat
  PROVE  /\ Versions = 1..(Saves + 1) /\ 1 \in Versions
         /\ \A n \in Nat : n <= Saves => Newest(n) \in Versions
BY DEF Versions, Newest, Saves

-----------------------------------------------------------------------------
(* The chains of polls.                                                       *)
PollsOf(p) == {q \in polls : q.page = p}
ClickCalls == {c \in calls : c.kind \in {"start", "stop"}}
Ticking(p) == timers[p].orphans + (IF timers[p].known THEN 1 ELSE 0)
Clicking(p) == IF p = Mine THEN Cardinality(ClickCalls) ELSE 0
PollRecord == [page : Pages, n : Slots, at : {"sent", "back"}, running : BOOLEAN, sole : BOOLEAN]
CallRecord == [kind : {"start", "stop", "save", "update", "geo"}, n : Nat,
               at : {"sent", "done", "refused", "lost"}, data : Seq(Versions)]

LEMMA ChainsAre ==
  ASSUME Typed, NEW p \in Pages
  PROVE  /\ IsFiniteSet(PollsOf(p)) /\ Cardinality(PollsOf(p)) \in Nat
         /\ IsFiniteSet(ClickCalls) /\ Cardinality(ClickCalls) \in Nat
         /\ Ticking(p) \in Nat /\ Clicking(p) \in Nat
         /\ Chains(p) = Cardinality(PollsOf(p)) + Ticking(p) + Clicking(p)
<1>1. IsFiniteSet(PollsOf(p)) /\ IsFiniteSet(ClickCalls)
  BY FS_Subset DEF Typed, PollsOf, ClickCalls
<1>2. Cardinality(PollsOf(p)) \in Nat /\ Cardinality(ClickCalls) \in Nat
  BY <1>1, FS_CardinalityType
<1>3. timers[p].orphans \in Nat /\ timers[p].known \in BOOLEAN
  BY SlotsAre DEF Typed, TypeOK
<1>4. Ticking(p) \in Nat /\ Clicking(p) \in Nat
  BY <1>2, <1>3 DEF Ticking, Clicking
<1>5. Chains(p) = Cardinality(PollsOf(p)) + Ticking(p) + Clicking(p)
  BY <1>2, <1>3 DEF Chains, PollsOf, Ticking, Clicking, ClickCalls
<1> QED
  BY <1>1, <1>2, <1>4, <1>5

(* A page goes on polling if anything of its chain is there.                  *)
LEMMA ChainsSome ==
  ASSUME Typed, NEW p \in Pages
  PROVE  Chains(p) >= 1 <=> \/ PollsOf(p) # {} \/ timers[p].known \/ timers[p].orphans > 0
                            \/ p = Mine /\ ClickCalls # {}
<1>1. /\ Cardinality(PollsOf(p)) >= 1 <=> PollsOf(p) # {}
      /\ Cardinality(ClickCalls) >= 1 <=> ClickCalls # {}
  BY ChainsAre, FS_EmptySet
<1>2. Ticking(p) >= 1 <=> timers[p].known \/ timers[p].orphans > 0
  <2>1. timers[p].orphans \in Nat /\ timers[p].known \in BOOLEAN
    BY SlotsAre DEF Typed, TypeOK
  <2> QED
    BY <2>1 DEF Ticking
<1> QED
  BY <1>1, <1>2, ChainsAre DEF Clicking

(* There is a number left for the next poll.                                  *)
LEMMA PollFits ==
  ASSUME Typed, NEW p \in Pages, Cardinality(PollsOf(p)) <= Clicks
  PROVE  Poll(p) \in PollRecord /\ Poll(p).page = p /\ Poll(p).at = "sent"
<1> DEFINE used == {q.n : q \in PollsOf(p)}
           free == Slots \ used
<1>1. IsFiniteSet(used) /\ Cardinality(used) <= Cardinality(PollsOf(p))
  <2> DEFINE f == [q \in PollsOf(p) |-> q.n]
  <2>1. f \in Surjection(PollsOf(p), used)
    BY DEF Surjection
  <2> QED
    BY <2>1, FS_Surjection, ChainsAre
<1>2. Slots = 1..(Clicks + 1) /\ Clicks \in Nat
  BY SlotsAre DEF Typed
<1>3. free # {}
  <2> SUFFICES ASSUME free = {} PROVE FALSE
    OBVIOUS
  <2>1. Slots \in SUBSET used
    OBVIOUS
  <2>2. Cardinality(Slots) = Clicks + 1
    BY <1>2, FS_Interval
  <2>3. Cardinality(used) \in Nat /\ Cardinality(PollsOf(p)) \in Nat
    BY <1>1, ChainsAre, FS_CardinalityType
  <2>4. Cardinality(Slots) <= Cardinality(used)
    BY <1>1, <2>1, FS_Subset
  <2> QED
    BY <1>1, <1>2, <2>2, <2>3, <2>4
<1>4. Min(free) \in Slots
  BY <1>2, <1>3, HasMin
<1>5. {q.n : q \in {q \in polls : q.page = p}} = used
  BY DEF PollsOf
<1> QED
  BY <1>4, <1>5 DEF Poll, PollRecord

(* The same, of the next state as well.                                       *)
ChainFacts ==
  \A p \in Pages :
    /\ IsFiniteSet(PollsOf(p)) /\ Cardinality(PollsOf(p)) \in Nat
    /\ IsFiniteSet(ClickCalls) /\ Cardinality(ClickCalls) \in Nat
    /\ Ticking(p) \in Nat /\ Clicking(p) \in Nat
    /\ Chains(p) = Cardinality(PollsOf(p)) + Ticking(p) + Clicking(p)
    /\ Chains(p) >= 1 <=> \/ PollsOf(p) # {} \/ timers[p].known \/ timers[p].orphans > 0
                          \/ p = Mine /\ ClickCalls # {}

LEMMA ChainsKnown == Typed => ChainFacts
BY ChainsAre, ChainsSome DEF ChainFacts

LEMMA ChainsKnownNext == Typed' => ChainFacts'
<1>1. (Typed => ChainFacts)'
  BY ChainsKnown, PTL
<1> QED
  BY <1>1

-----------------------------------------------------------------------------
(* The initial states.                                                        *)
LEMMA PageInitial == Init => PageInv
<1> SUFFICES ASSUME Init PROVE PageInv
  OBVIOUS
<1>1. Clicks \in Nat /\ Saves \in Nat /\ left.clicks <= Clicks /\ left.saves <= Saves
  BY Budgeted DEF Init
<1>2. left \in [{"clicks", "saves", "updates", "opens", "fails"} -> Nat]
  BY PageAssumption DEF Init, PageAssumption
<1>3. TypeOK
  <2>1. geo \in Versions \cup {0} /\ file \in Seq(Versions \cup {0})
    <3>1. 1 \in Versions
      BY <1>1, VersionsAre
    <3>2. <<0>> \in Seq(Versions \cup {0}) /\ <<1>> \in Seq(Versions \cup {0})
      BY <3>1
    <3> QED
      BY <3>1, <3>2 DEF Init, None
  <2>2. timers \in [Pages -> [known : BOOLEAN, orphans : 0..Max(Slots)]]
    <3>1. 0 \in 0..Max(Slots)
      BY <1>1, SlotsAre
    <3> QED
      BY <3>1 DEF Init, NoTimer
  <2>3. page \in [start : BOOLEAN, stop : BOOLEAN, new : BOOLEAN, update : BOOLEAN, drawing : BOOLEAN,
                  poly : Seq(Versions), rows : Seq(Versions), hides : Nat, reloads : Nat]
    BY DEF Init, Closed
  <2> QED
    BY <1>2, <2>1, <2>2, <2>3 DEF Init, TypeOK
<1>4. Typed
  BY <1>1, <1>3, FS_EmptySet DEF Typed, Init
<1>5. \A p \in Pages : Chains(p) = 0
  <2> SUFFICES ASSUME NEW p \in Pages PROVE Chains(p) = 0
    OBVIOUS
  <2>1. PollsOf(p) = {} /\ ClickCalls = {} /\ ~timers[p].known /\ timers[p].orphans = 0
    BY DEF Init, PollsOf, ClickCalls, NoTimer
  <2> QED
    BY <1>4, <2>1, ChainsKnown, FS_EmptySet DEF ChainFacts, Ticking, Clicking
<1>6. ClosedIsQuiet /\ KeepsPolling /\ InCharge /\ HeldIsCovered /\ CoverEnds /\ CallsKnown
  BY DEF Init, ClosedIsQuiet, KeepsPolling, InCharge, ToldSole, HeldIsCovered, CoverEnds,
         CallsKnown, Closed
<1>7. ChainsBound /\ OneChain
  BY <1>1, <1>2, <1>5 DEF ChainsBound, OneChain
<1>8. CorridorInv /\ TableLoaded /\ UpdatesFit /\ SavedAtRest /\ SavedWhileReady
  BY DEF Init, CorridorInv, TableLoaded, UpdatesFit, SavedAtRest, SavedWhileReady, Fetching, Table,
         Launched, Told, Closed
<1>9. DetectorsFit
  BY DEF Init, DetectorsFit, Fits, None
<1> QED
  BY <1>4, <1>6, <1>7, <1>8, <1>9 DEF PageInv, Chained, Covers, Corridors

-----------------------------------------------------------------------------
(* What the steps are made of.                                                *)

(* There is a number for the next request.                                    *)
LEMMA CallFits ==
  ASSUME Typed, NEW kind \in {"start", "stop", "save", "update", "geo"}, NEW data \in Seq(Versions)
  PROVE  /\ Call(kind, data) \in CallRecord /\ Call(kind, data).kind = kind
         /\ Call(kind, data).at = "sent" /\ Call(kind, data).data = data
<1> DEFINE used == {c.n : c \in calls}
           free == (1..(Cardinality(calls) + 1)) \ used
<1>1. IsFiniteSet(used) /\ Cardinality(used) <= Cardinality(calls)
  <2> DEFINE f == [c \in calls |-> c.n]
  <2>1. f \in Surjection(calls, used)
    BY DEF Surjection
  <2> QED
    BY <2>1, FS_Surjection DEF Typed
<1>2. Cardinality(calls) \in Nat /\ Cardinality(used) \in Nat
  BY <1>1, FS_CardinalityType DEF Typed
<1>3. free # {}
  <2> SUFFICES ASSUME free = {} PROVE FALSE
    OBVIOUS
  <2> DEFINE all == 1..(Cardinality(calls) + 1)
  <2>1. all \in SUBSET used
    OBVIOUS
  <2>2. Cardinality(all) = Cardinality(calls) + 1
    BY <1>2, FS_Interval
  <2>3. Cardinality(all) <= Cardinality(used)
    BY <1>1, <2>1, FS_Subset
  <2> QED
    BY <1>1, <1>2, <2>2, <2>3
<1>4. Call(kind, data).n \in Nat
  BY <1>2, <1>3 DEF Call
<1> QED
  BY <1>4 DEF Call, CallRecord

Spendable == {"clicks", "saves", "updates", "opens", "fails"}

LEMMA Spending ==
  ASSUME Typed, NEW what \in Spendable, Spend(what)
  PROVE  /\ left' \in [Spendable -> Nat] /\ left'[what] = left[what] - 1
         /\ left.clicks \in Nat /\ left'.clicks \in Nat /\ left'.clicks <= left.clicks
         /\ left.saves \in Nat /\ left'.saves \in Nat /\ left'.saves <= left.saves
<1>1. left \in [Spendable -> Nat]
  BY DEF Typed, TypeOK, Spendable
<1>2. left' \in [Spendable -> Nat] /\ left'[what] = left[what] - 1 /\ \A x \in Spendable : left'[x] <= left[x]
  BY <1>1 DEF Spend
<1>3. "clicks" \in Spendable /\ "saves" \in Spendable
  BY DEF Spendable
<1> QED
  BY <1>1, <1>2, <1>3

(* A step that leaves no more chains keeps the bounds on them, and one that   *)
(* leaves some where some were keeps the pages polling.                       *)
Fewer == \A p \in Pages : Chains(p)' <= Chains(p)
Steady == \A p \in Pages : Chains(p)' <= Chains(p) /\ (Chains(p) >= 1 => Chains(p)' >= 1)

LEMMA FewerKeeps ==
  ASSUME Typed, Typed', ChainsBound, OneChain, Fewer, marks \subseteq marks', left'.clicks <= left.clicks
  PROVE  ChainsBound' /\ OneChain'
<1>1. \A p \in Pages : Chains(p) \in Nat
  BY ChainsKnown DEF ChainFacts
<1>2. \A p \in Pages : Chains(p)' \in Nat
  BY ChainsKnownNext DEF ChainFacts
<1>3. left.clicks \in Nat /\ left'.clicks \in Nat /\ Clicks \in Nat
  BY DEF Typed, TypeOK
<1>4. ChainsBound'
  <2> SUFFICES ASSUME NEW p \in Pages
               PROVE  (Chains(p) + (IF p = Mine THEN left.clicks ELSE 0) <= Clicks + 1)'
    BY DEF ChainsBound
  <2>1. Chains(p) + (IF p = Mine THEN left.clicks ELSE 0) <= Clicks + 1
    BY DEF ChainsBound
  <2>2. Chains(p)' <= Chains(p) /\ Chains(p) \in Nat /\ Chains(p)' \in Nat
    BY <1>1, <1>2 DEF Fewer
  <2> QED
    BY <1>3, <2>1, <2>2
<1>5. OneChain'
  <2> SUFFICES ASSUME "overlap" \notin marks', NEW p \in Pages
               PROVE  Chains(p)' <= 1
    BY DEF OneChain
  <2>1. Chains(p) <= 1
    BY DEF OneChain
  <2> QED
    BY <1>1, <1>2, <2>1 DEF Fewer
<1> QED
  BY <1>4, <1>5

LEMMA SteadyKeeps ==
  ASSUME Typed, Typed', ChainsBound, OneChain, KeepsPolling, Steady,
         \A p \in open' : p \in open /\ (p \in held => p \in held'),
         marks \subseteq marks', left'.clicks <= left.clicks
  PROVE  ChainsBound' /\ OneChain' /\ KeepsPolling'
<1>1. Fewer
  BY DEF Steady, Fewer
<1>2. ChainsBound' /\ OneChain'
  BY <1>1, FewerKeeps
<1>3. KeepsPolling'
  <2>1. open' \subseteq Pages
    BY DEF Typed, TypeOK
  <2> QED
    BY <2>1 DEF KeepsPolling, Steady
<1> QED
  BY <1>2, <1>3

(* What the chains are made of, in this state and in the next.                *)
LEMMA ChainsNow ==
  ASSUME Typed, NEW p \in Pages
  PROVE  /\ Chains(p) = Cardinality(PollsOf(p)) + Ticking(p) + Clicking(p) /\ Chains(p) \in Nat
         /\ IsFiniteSet(PollsOf(p)) /\ Cardinality(PollsOf(p)) \in Nat
         /\ Cardinality(PollsOf(p)) = 0 <=> PollsOf(p) = {}
         /\ IsFiniteSet(ClickCalls) /\ Cardinality(ClickCalls) \in Nat
         /\ Cardinality(ClickCalls) = 0 <=> ClickCalls = {}
         /\ Ticking(p) \in Nat /\ Clicking(p) \in Nat
BY ChainsKnown, FS_EmptySet DEF ChainFacts

LEMMA ChainsNext ==
  ASSUME Typed', NEW p \in Pages
  PROVE  /\ Chains(p)' = Cardinality(PollsOf(p)') + Ticking(p)' + Clicking(p)' /\ Chains(p)' \in Nat
         /\ IsFiniteSet(PollsOf(p)') /\ Cardinality(PollsOf(p)') \in Nat
         /\ Cardinality(PollsOf(p)') = 0 <=> PollsOf(p)' = {}
         /\ IsFiniteSet(ClickCalls') /\ Cardinality(ClickCalls') \in Nat
         /\ Cardinality(ClickCalls') = 0 <=> ClickCalls' = {}
         /\ Ticking(p)' \in Nat /\ Clicking(p)' \in Nat
<1>1. /\ Chains(p)' = (Cardinality(PollsOf(p)) + Ticking(p) + Clicking(p))'
      /\ IsFiniteSet(PollsOf(p)') /\ IsFiniteSet(ClickCalls')
      /\ Ticking(p)' \in Nat /\ Clicking(p)' \in Nat
  BY ChainsKnownNext DEF ChainFacts
<1> QED
  BY <1>1, FS_EmptySet, FS_CardinalityType

LEMMA ChainsSame ==
  ASSUME UNCHANGED polling, ClickCalls' = ClickCalls
  PROVE  \A p \in Pages : Chains(p)' = Chains(p)
BY DEF polling, Chains, ClickCalls

LEMMA InChargeSame ==
  ASSUME Typed, Typed', InCharge, Steady, marks \subseteq marks',
         users' = users, current' = current, admitted' \subseteq admitted,
         \A q \in polls' : q.at = "back" => q \in polls
  PROVE  InCharge'
<1> SUFFICES ASSUME "silent" \notin marks', NEW p \in Pages
             PROVE  /\ p \in admitted' \/ ToldSole(p)' => p = current' /\ p \in users'
                    /\ p \in admitted' => Chains(p)' >= 1
  BY DEF InCharge
<1>1. ToldSole(p)' => ToldSole(p)
  BY DEF ToldSole
<1> QED
  BY <1>1 DEF InCharge, Steady

(* A closed page that stays closed keeps nothing.                             *)
LEMMA QuietKeeps ==
  ASSUME ClosedIsQuiet, open \subseteq open',
         \A p \in Pages \ open : /\ timers'[p] = timers[p] /\ \A q \in polls' : q.page = p => q \in polls
                                 /\ p \in admitted' => p \in admitted
                                 /\ p \in held' => p \in held
                                 /\ p \in covered' => p \in covered,
         Mine \notin open => UNCHANGED <<page, calls>>
  PROVE  ClosedIsQuiet'
<1> SUFFICES ASSUME NEW p \in Pages \ open', p \notin open
             PROVE  /\ timers'[p] = NoTimer /\ \A q \in polls' : q.page # p
                    /\ p \notin admitted' \cup held' \cup covered'
                    /\ p = Mine => page' = Closed /\ calls' = {}
  BY DEF ClosedIsQuiet
<1> QED
  BY DEF ClosedIsQuiet

LEMMA LeftIs == Typed => left.clicks \in Nat /\ left.clicks <= left.clicks
BY DEF Typed, TypeOK

LEMMA CoversSame ==
  ASSUME Covers, UNCHANGED <<held, covered, calls>>, marks \subseteq marks',
         page'.hides = page.hides, page'.reloads = page.reloads
  PROVE  Covers'
BY DEF Covers, HeldIsCovered, CoverEnds, CallsKnown

LEMMA CorridorsSame ==
  ASSUME Corridors, UNCHANGED <<service, calls>>, marks \subseteq marks',
         "swapped" \in marks' => "swapped" \in marks, Mine \in open' => Mine \in open,
         page'.poly = page.poly, page'.rows = page.rows, page'.drawing = page.drawing,
         page'.reloads = page.reloads, page'.new => page.new \/ ~page.drawing,
         Told' /\ page'.new => Told /\ page.new
  PROVE  Corridors'
<1>1. CorridorInv'
  BY DEF service, Corridors, CorridorInv, Fetching, Table
<1>2. TableLoaded'
  BY DEF service, Corridors, TableLoaded, Fetching, Table
<1>3. UpdatesFit' /\ DetectorsFit'
  BY DEF service, Corridors, UpdatesFit, DetectorsFit, Fits
<1>4. SavedAtRest' /\ SavedWhileReady'
  BY DEF service, Corridors, SavedAtRest, SavedWhileReady, Launched
<1> QED
  BY <1>1, <1>2, <1>3, <1>4 DEF Corridors

-----------------------------------------------------------------------------
(* The polls.                                                                 *)
LEMMA LapseKeeps == ASSUME PageInv, NEW p \in Pages, Lapse(p) PROVE PageInv'
<1>1. Typed'
  BY DEF PageInv, Typed, TypeOK, Lapse, service, polling
<1>2. Steady
  <2>1. UNCHANGED polling /\ ClickCalls' = ClickCalls
    BY DEF Lapse, ClickCalls
  <2>2. \A x \in Pages : Chains(x) \in Nat
    BY ChainsKnown DEF PageInv, ChainFacts
  <2> QED
    BY <2>1, <2>2, ChainsSame DEF Steady
<1>3. ChainsBound' /\ OneChain' /\ KeepsPolling'
  BY <1>1, <1>2, SteadyKeeps, LeftIs DEF PageInv, Chained, Lapse
<1>4. ClosedIsQuiet'
  BY QuietKeeps DEF PageInv, Chained, Lapse, polling
<1>5. InCharge'
  <2> SUFFICES ASSUME "silent" \notin marks', NEW x \in Pages
               PROVE  /\ x \in admitted' \/ ToldSole(x)' => x = current' /\ x \in users'
                      /\ x \in admitted' => Chains(x)' >= 1
    BY DEF InCharge
  <2>1. UNCHANGED <<polls, admitted, current, marks>> /\ users' = users \ {p} /\ Chains(p) = 0
    BY DEF Lapse, polling
  <2>2. x \in admitted => Chains(x) >= 1 /\ Chains(x)' >= 1
    BY <1>2, <2>1 DEF PageInv, Chained, InCharge, Steady
  <2>3. ToldSole(x) => Chains(x) >= 1
    BY ChainsKnown DEF PageInv, ChainFacts, ToldSole, PollsOf
  <2>4. ToldSole(x)' <=> ToldSole(x)
    BY <2>1 DEF ToldSole
  <2> QED
    BY <2>1, <2>2, <2>3, <2>4 DEF PageInv, Chained, InCharge
<1>6. Covers'
  BY CoversSame DEF PageInv, Lapse
<1>7. Corridors'
  BY CorridorsSame DEF PageInv, Lapse, Told
<1> QED
  BY <1>1, <1>3, <1>4, <1>5, <1>6, <1>7 DEF PageInv, Chained

LEMMA StatusKeeps == ASSUME PageInv, NEW q \in polls, Status(q) PROVE PageInv'
<1> DEFINE r == [q EXCEPT !.at = "back", !.running = running, !.sole = (current' = q.page)]
<1>0. /\ UNCHANGED <<service, open, admitted, held, covered, timers, page, calls, left, marks>>
      /\ users' = users \cup {q.page} /\ current' = CurrentUser(q.page, users')
      /\ polls' = (polls \ {q}) \cup {r}
  BY DEF Status
<1>1. q \in PollRecord /\ r \in PollRecord /\ r.page = q.page /\ r.sole = (current' = q.page)
  <2>1. q \in PollRecord /\ running \in BOOLEAN
    BY DEF PageInv, Typed, TypeOK, PollRecord
  <2> QED
    BY <2>1 DEF PollRecord
<1> HIDE DEF r
<1>2. Typed'
  <2>1. polls' \subseteq PollRecord /\ users' \subseteq Pages /\ current' \in Pages \cup {Nobody}
    BY <1>0, <1>1 DEF PageInv, Typed, TypeOK, PollRecord, CurrentUser
  <2>2. IsFiniteSet(polls')
    BY <1>0, FS_AddElement, FS_RemoveElement DEF PageInv, Typed
  <2> QED
    BY <1>0, <2>1, <2>2 DEF PageInv, Typed, TypeOK, service, PollRecord
<1>3. Steady
  <2> SUFFICES ASSUME NEW p \in Pages
               PROVE  Chains(p)' <= Chains(p) /\ (Chains(p) >= 1 => Chains(p)' >= 1)
    BY DEF Steady
  <2>1. Ticking(p)' = Ticking(p) /\ Clicking(p)' = Clicking(p)
    BY <1>0 DEF Ticking, Clicking, ClickCalls
  <2>2. \/ PollsOf(p)' = PollsOf(p)
        \/ PollsOf(p)' = (PollsOf(p) \ {q}) \cup {r} /\ q \in PollsOf(p)
    BY <1>0, <1>1 DEF PollsOf
  <2>3. Cardinality(PollsOf(p)') <= Cardinality(PollsOf(p)) /\ (PollsOf(p) # {} => PollsOf(p)' # {})
    <3>1. IsFiniteSet(PollsOf(p)) /\ Cardinality(PollsOf(p)) \in Nat
      BY ChainsKnown DEF PageInv, ChainFacts
    <3>2. CASE PollsOf(p)' = (PollsOf(p) \ {q}) \cup {r} /\ q \in PollsOf(p)
      <4>1. /\ IsFiniteSet(PollsOf(p) \ {q})
            /\ Cardinality(PollsOf(p) \ {q}) = Cardinality(PollsOf(p)) - 1
        BY <3>1, <3>2, FS_RemoveElement
      <4>2. \/ Cardinality(PollsOf(p)') = Cardinality(PollsOf(p) \ {q}) + 1
            \/ Cardinality(PollsOf(p)') = Cardinality(PollsOf(p) \ {q})
        BY <3>2, <4>1, FS_AddElement
      <4> QED
        BY <3>1, <3>2, <4>1, <4>2
    <3> QED
      BY <2>2, <3>1, <3>2
  <2>4. /\ Chains(p) = Cardinality(PollsOf(p)) + Ticking(p) + Clicking(p)
        /\ Cardinality(PollsOf(p)) \in Nat /\ Ticking(p) \in Nat /\ Clicking(p) \in Nat
        /\ Cardinality(PollsOf(p)) = 0 <=> PollsOf(p) = {}
    BY ChainsKnown, FS_EmptySet DEF PageInv, ChainFacts
  <2>5. /\ Chains(p)' = Cardinality(PollsOf(p)') + Ticking(p)' + Clicking(p)'
        /\ Cardinality(PollsOf(p)') \in Nat
        /\ Cardinality(PollsOf(p)') = 0 <=> PollsOf(p)' = {}
    <3>1. Chains(p)' = (Cardinality(PollsOf(p)) + Ticking(p) + Clicking(p))' /\ IsFiniteSet(PollsOf(p)')
      BY <1>2, ChainsKnownNext DEF ChainFacts
    <3> QED
      BY <3>1, FS_EmptySet, FS_CardinalityType
  <2> QED
    BY <2>1, <2>3, <2>4, <2>5
<1>4. ChainsBound' /\ OneChain' /\ KeepsPolling'
  BY <1>0, <1>2, <1>3, SteadyKeeps, LeftIs DEF PageInv, Chained
<1>5. ClosedIsQuiet'
  <2>1. \A p \in Pages \ open : \A x \in polls' : x.page # p
    BY <1>0, <1>1 DEF PageInv, Chained, ClosedIsQuiet
  <2> QED
    BY <1>0, <2>1, QuietKeeps DEF PageInv, Chained
<1>6. InCharge'
  <2> SUFFICES ASSUME "silent" \notin marks', NEW p \in Pages
               PROVE  /\ p \in admitted' \/ ToldSole(p)' => p = current' /\ p \in users'
                      /\ p \in admitted' => Chains(p)' >= 1
    BY DEF InCharge
  <2>1. p \in admitted \/ ToldSole(p) => p = current /\ p \in users
    BY <1>0 DEF PageInv, Chained, InCharge
  <2>2. ToldSole(p)' => ToldSole(p) \/ (p = current' /\ p = q.page)
    BY <1>0, <1>1 DEF ToldSole
  <2>3. p \in users /\ p = current => p = current'
    BY <1>0 DEF CurrentUser
  <2>4. p \in admitted' => Chains(p)' >= 1
    BY <1>0, <1>3 DEF PageInv, Chained, InCharge, Steady
  <2> QED
    BY <1>0, <2>1, <2>2, <2>3, <2>4
<1>7. Covers'
  BY <1>0, CoversSame DEF PageInv
<1>8. Corridors'
  BY <1>0, CorridorsSame DEF PageInv, Told
<1> QED
  BY <1>2, <1>4, <1>5, <1>6, <1>7, <1>8 DEF PageInv, Chained

(* A poll more makes one chain more at most.                                  *)
LEMMA PollAdded ==
  ASSUME Typed, NEW p \in Pages, Poll(p).page = p, polls' = polls \cup {Poll(p)}
  PROVE  /\ PollsOf(p)' # {} /\ Cardinality(PollsOf(p)') <= Cardinality(PollsOf(p)) + 1
         /\ \A x \in Pages \ {p} : PollsOf(x)' = PollsOf(x)
<1> DEFINE r == Poll(p)
<1>1. r.page = p
  OBVIOUS
<1> HIDE DEF r
<1>2. PollsOf(p)' = PollsOf(p) \cup {r} /\ \A x \in Pages \ {p} : PollsOf(x)' = PollsOf(x)
  <2>1. polls' = polls \cup {r}
    BY DEF r
  <2> QED
    BY <1>1, <2>1 DEF PollsOf
<1>3. IsFiniteSet(PollsOf(p)) /\ Cardinality(PollsOf(p)) \in Nat
  BY ChainsNow
<1>4. Cardinality(PollsOf(p) \cup {r}) <= Cardinality(PollsOf(p)) + 1
  BY <1>3, FS_AddElement
<1> QED
  BY <1>2, <1>4

LEMMA TimerFiresKeeps == ASSUME PageInv, NEW p \in Pages, TimerFires(p) PROVE PageInv'
<1> DEFINE t == timers[p]
<1>0. /\ UNCHANGED <<service, presence, held, covered, page, calls, left, marks>>
      /\ polls' = polls \cup {Poll(p)}
  BY DEF TimerFires
<1>1. PICK after \in Fired(t) : timers' = [timers EXCEPT ![p] = after]
  BY DEF TimerFires
<1>2. t \in [known : BOOLEAN, orphans : 0..(Clicks + 1)] /\ Clicks \in Nat
  BY SlotsAre DEF PageInv, Typed, TypeOK
<1>3. /\ after \in [known : BOOLEAN, orphans : 0..(Clicks + 1)]
      /\ Ticking(p) = t.orphans + (IF t.known THEN 1 ELSE 0)
      /\ after.orphans + (IF after.known THEN 1 ELSE 0) = Ticking(p) - 1
  <2>0. /\ t.known \in BOOLEAN /\ t.orphans \in 0..(Clicks + 1)
        /\ Ticking(p) = t.orphans + (IF t.known THEN 1 ELSE 0)
    BY <1>2 DEF Ticking
  <2>1. CASE t.known /\ after = [t EXCEPT !.known = FALSE]
    <3>1. after = [known |-> FALSE, orphans |-> t.orphans]
      BY <1>2, <2>1
    <3>2. after \in [known : BOOLEAN, orphans : 0..(Clicks + 1)]
      BY <2>0, <3>1
    <3>3. after.orphans = t.orphans /\ after.known = FALSE /\ t.known = TRUE
      BY <2>1, <3>1
    <3>4. after.orphans + (IF after.known THEN 1 ELSE 0) = Ticking(p) - 1
      BY <1>2, <2>0, <3>3
    <3> QED
      BY <2>0, <3>2, <3>4
  <2>2. CASE t.orphans > 0 /\ after = [t EXCEPT !.orphans = @ - 1]
    <3>1. after = [known |-> t.known, orphans |-> t.orphans - 1]
      BY <1>2, <2>2
    <3>2. t.orphans - 1 \in 0..(Clicks + 1)
      BY <1>2, <2>0, <2>2
    <3> QED
      BY <1>2, <2>0, <2>2, <3>1, <3>2
  <2>3. (t.known /\ after = [t EXCEPT !.known = FALSE]) \/ (t.orphans > 0 /\ after = [t EXCEPT !.orphans = @ - 1])
    BY <1>1 DEF Fired
  <2> QED
    BY <2>1, <2>2, <2>3
<1>4. timers \in [Pages -> [known : BOOLEAN, orphans : 0..(Clicks + 1)]]
  BY SlotsAre DEF PageInv, Typed, TypeOK
<1>5. /\ timers' \in [Pages -> [known : BOOLEAN, orphans : 0..(Clicks + 1)]]
      /\ timers'[p] = after /\ \A x \in Pages \ {p} : timers'[x] = timers[x]
  BY <1>1, <1>3, <1>4
<1>6. Ticking(p)' = Ticking(p) - 1 /\ \A x \in Pages \ {p} : Ticking(x)' = Ticking(x)
  BY <1>3, <1>5 DEF Ticking
<1>7. \A x \in Pages : Clicking(x)' = Clicking(x)
  BY <1>0 DEF Clicking, ClickCalls
<1>8. Cardinality(PollsOf(p)) <= Clicks
  <2>1. left.clicks \in Nat
    BY LeftIs DEF PageInv
  <2>2. Chains(p) + (IF p = Mine THEN left.clicks ELSE 0) <= Clicks + 1
    BY DEF PageInv, Chained, ChainsBound
  <2>3. Typed
    BY DEF PageInv
  <2>4. Ticking(p) >= 1
    BY <1>2, <1>3
  <2> QED
    BY <1>2, <2>1, <2>2, <2>3, <2>4, ChainsNow
<1>9. Poll(p) \in PollRecord /\ Poll(p).page = p /\ Poll(p).at = "sent"
  BY <1>8, PollFits DEF PageInv
<1>10. Typed'
  <2>1. polls' \subseteq PollRecord
    BY <1>0, <1>9 DEF PageInv, Typed, TypeOK, PollRecord
  <2>2. IsFiniteSet(polls')
    BY <1>0, FS_AddElement DEF PageInv, Typed
  <2>3. timers' \in [Pages -> [known : BOOLEAN, orphans : 0..Max(Slots)]]
    BY <1>2, <1>5, SlotsAre
  <2> QED
    BY <1>0, <2>1, <2>2, <2>3 DEF PageInv, Typed, TypeOK, service, presence, PollRecord
<1>11. Typed
  BY DEF PageInv
<1>12. Steady
  <2> SUFFICES ASSUME NEW x \in Pages
               PROVE  Chains(x)' <= Chains(x) /\ (Chains(x) >= 1 => Chains(x)' >= 1)
    BY DEF Steady
  <2>1. CASE x = p
    <3>1. PollsOf(p)' # {} /\ Cardinality(PollsOf(p)') <= Cardinality(PollsOf(p)) + 1
      BY <1>0, <1>9, <1>11, PollAdded
    <3> QED
      BY <1>6, <1>7, <1>10, <1>11, <2>1, <3>1, ChainsNow, ChainsNext
  <2>2. CASE x # p
    <3>1. PollsOf(x)' = PollsOf(x)
      BY <1>0, <1>9, <1>11, <2>2, PollAdded
    <3> QED
      BY <1>6, <1>7, <1>10, <1>11, <2>2, <3>1, ChainsNow, ChainsNext
  <2> QED
    BY <2>1, <2>2
<1>13. ChainsBound' /\ OneChain' /\ KeepsPolling'
  BY <1>0, <1>10, <1>12, SteadyKeeps, LeftIs DEF PageInv, Chained, presence
<1>14. p \in open
  <2>1. Ticking(p) >= 1
    BY <1>2, <1>3
  <2>2. timers[p] # NoTimer
    BY <2>1 DEF Ticking, NoTimer
  <2> QED
    BY <2>2 DEF PageInv, Chained, ClosedIsQuiet
<1>15. ClosedIsQuiet'
  <2>1. \A x \in polls' : x \in polls \/ x.page = p
    BY <1>0, <1>9
  <2> QED
    BY <1>0, <1>5, <1>14, <2>1, QuietKeeps DEF PageInv, Chained, presence
<1>16. InCharge'
  BY <1>0, <1>9, <1>10, <1>12, InChargeSame DEF PageInv, Chained, presence
<1>17. Covers'
  BY <1>0, CoversSame DEF PageInv
<1>18. Corridors'
  BY <1>0, CorridorsSame DEF PageInv, Told, presence
<1> QED
  BY <1>10, <1>13, <1>15, <1>16, <1>17, <1>18 DEF PageInv, Chained

(* A poll less makes one chain less.                                          *)
LEMMA PollRemoved ==
  ASSUME Typed, NEW q \in polls, polls' = polls \ {q}
  PROVE  /\ q.page \in Pages /\ Cardinality(PollsOf(q.page)') = Cardinality(PollsOf(q.page)) - 1
         /\ \A x \in Pages \ {q.page} : PollsOf(x)' = PollsOf(x)
<1>1. q.page \in Pages
  BY DEF Typed, TypeOK
<1>2. PollsOf(q.page)' = PollsOf(q.page) \ {q} /\ q \in PollsOf(q.page)
  BY DEF PollsOf
<1>3. IsFiniteSet(PollsOf(q.page))
  BY <1>1, ChainsNow
<1>4. Cardinality(PollsOf(q.page) \ {q}) = Cardinality(PollsOf(q.page)) - 1
  BY <1>2, <1>3, FS_RemoveElement
<1>5. \A x \in Pages \ {q.page} : PollsOf(x)' = PollsOf(x)
  BY DEF PollsOf
<1> QED
  BY <1>1, <1>2, <1>4, <1>5

LEMMA PollFailsKeeps == ASSUME PageInv, NEW q \in polls, PollFails(q) PROVE PageInv'
<1>0. /\ UNCHANGED <<service, presence, held, covered, timers, page, calls>>
      /\ polls' = polls \ {q} /\ marks' = marks \cup {"silent"} /\ Spend("fails")
  BY DEF PollFails
<1>1. Typed
  BY DEF PageInv
<1>2. left' \in [Spendable -> Nat] /\ left'.clicks <= left.clicks /\ left'.saves <= left.saves
  BY <1>0, <1>1, Spending DEF Spendable
<1>3. Typed'
  <2>1. polls' \subseteq polls /\ IsFiniteSet(polls')
    BY <1>0, <1>1, FS_Subset DEF Typed
  <2>2. left'.clicks <= Clicks /\ left'.saves <= Saves
    <3>1. left.clicks \in Nat /\ left.saves \in Nat /\ left'.clicks \in Nat /\ left'.saves \in Nat
      BY <1>0, <1>1, Spending DEF Spendable
    <3> QED
      BY <1>1, <1>2, <3>1 DEF Typed
  <2>3. TypeOK'
    BY <1>0, <1>1, <1>2, <2>1 DEF Typed, TypeOK, service, presence, Spendable
  <2> QED
    BY <1>0, <1>1, <2>1, <2>2, <2>3 DEF Typed
<1>4. Fewer
  <2> SUFFICES ASSUME NEW x \in Pages PROVE Chains(x)' <= Chains(x)
    BY DEF Fewer
  <2>1. Ticking(x)' = Ticking(x) /\ Clicking(x)' = Clicking(x)
    BY <1>0 DEF Ticking, Clicking, ClickCalls
  <2>2. \/ Cardinality(PollsOf(x)') = Cardinality(PollsOf(x)) - 1
        \/ Cardinality(PollsOf(x)') = Cardinality(PollsOf(x))
    BY <1>0, <1>1, PollRemoved
  <2> QED
    BY <1>1, <1>3, <2>1, <2>2, ChainsNow, ChainsNext
<1>5. ChainsBound' /\ OneChain'
  BY <1>0, <1>1, <1>2, <1>3, <1>4, FewerKeeps DEF PageInv, Chained
<1>6. KeepsPolling' /\ InCharge'
  BY <1>0 DEF KeepsPolling, InCharge
<1>7. ClosedIsQuiet'
  BY <1>0, QuietKeeps DEF PageInv, Chained, presence
<1>8. Covers'
  BY <1>0, CoversSame DEF PageInv
<1>9. Corridors'
  BY <1>0, CorridorsSame DEF PageInv, Told, presence
<1> QED
  BY <1>3, <1>5, <1>6, <1>7, <1>8, <1>9 DEF PageInv, Chained

LEMMA PollDoneKeeps == ASSUME PageInv, NEW q \in polls, PollDone(q) PROVE PageInv'
<1> DEFINE p == q.page
<1>0. /\ UNCHANGED <<service, users, current, open, calls, left>>
      /\ q.at = "back" /\ polls' = polls \ {q}
      /\ page' = IF p = Mine THEN DisableEntities(q.running) ELSE page
  BY DEF PollDone
<1>t. Typed
  BY DEF PageInv
<1>1. \/ /\ q.sole /\ admitted' = admitted \cup {p} /\ timers' = [timers EXCEPT ![p] = SetTimer(@)]
         /\ UNCHANGED <<held, covered, marks>>
      \/ /\ ~q.sole /\ admitted' = admitted \ {p} /\ held' = held \cup {p} /\ covered' = covered \cup {p}
         /\ Mark(p = Mine /\ page.reloads > 0, "uncovered") /\ timers' = timers
  BY DEF PollDone
<1>2. /\ p \in Pages /\ q.running \in BOOLEAN
      /\ Cardinality(PollsOf(p)') = Cardinality(PollsOf(p)) - 1
      /\ \A x \in Pages \ {p} : PollsOf(x)' = PollsOf(x)
  BY <1>0, <1>t, PollRemoved DEF Typed, TypeOK
<1>q. Cardinality(PollsOf(p)) >= 1
  <2>1. PollsOf(p) # {}
    BY DEF PollsOf
  <2> QED
    BY <1>t, <1>2, <2>1, ChainsNow
<1>3. /\ timers \in [Pages -> [known : BOOLEAN, orphans : 0..(Clicks + 1)]] /\ Clicks \in Nat
      /\ timers[p] \in [known : BOOLEAN, orphans : 0..(Clicks + 1)]
  BY <1>t, <1>2, SlotsAre DEF Typed, TypeOK
<1>4. p \in open
  BY <1>2 DEF PageInv, Chained, ClosedIsQuiet
<1>5. \A x \in Pages : Clicking(x)' = Clicking(x)
  BY <1>0 DEF Clicking, ClickCalls
<1>6. timers[p].orphans + (IF timers[p].known THEN 1 ELSE 0) <= Clicks
  <2>1. left.clicks \in Nat
    BY <1>t, LeftIs
  <2>2. Chains(p) + (IF p = Mine THEN left.clicks ELSE 0) <= Clicks + 1
    BY <1>2 DEF PageInv, Chained, ChainsBound
  <2>4. Ticking(p) <= Clicks
    BY <1>t, <1>q, <1>2, <1>3, <2>1, <2>2, ChainsNow
  <2> QED
    BY <2>4 DEF Ticking
<1>7. /\ timers' \in [Pages -> [known : BOOLEAN, orphans : 0..(Clicks + 1)]]
      /\ \A x \in Pages \ {p} : timers'[x] = timers[x]
      /\ q.sole => Ticking(p)' = Ticking(p) + 1 /\ timers'[p].known
      /\ ~q.sole => timers' = timers
  <2>1. CASE q.sole
    <3>1. timers' = [timers EXCEPT ![p] = SetTimer(@)]
      BY <1>1, <2>1
    <3>2. SetTimer(timers[p]) = [known |-> TRUE,
                                 orphans |-> timers[p].orphans + (IF timers[p].known THEN 1 ELSE 0)]
      BY DEF SetTimer
    <3>3. timers[p].orphans + (IF timers[p].known THEN 1 ELSE 0) \in 0..(Clicks + 1)
      BY <1>3, <1>6
    <3>4. SetTimer(timers[p]) \in [known : BOOLEAN, orphans : 0..(Clicks + 1)]
      BY <3>2, <3>3
    <3>5. timers'[p] = SetTimer(timers[p]) /\ \A x \in Pages \ {p} : timers'[x] = timers[x]
      BY <1>2, <1>3, <3>1
    <3>6. timers'[p].known = TRUE /\ timers'[p].orphans = Ticking(p) /\ Ticking(p) \in Nat
      BY <1>t, <1>2, <3>2, <3>5, ChainsNow DEF Ticking
    <3>7. Ticking(p)' = Ticking(p) + 1
      BY <3>6 DEF Ticking
    <3> QED
      BY <1>3, <2>1, <3>1, <3>4, <3>5, <3>6, <3>7
  <2>2. CASE ~q.sole
    BY <1>1, <1>3, <2>2
  <2> QED
    BY <2>1, <2>2
<1>8. page' \in [start : BOOLEAN, stop : BOOLEAN, new : BOOLEAN, update : BOOLEAN, drawing : BOOLEAN,
                 poly : Seq(Versions), rows : Seq(Versions), hides : Nat, reloads : Nat]
      /\ page'.poly = page.poly /\ page'.rows = page.rows /\ page'.drawing = page.drawing
      /\ page'.reloads = page.reloads /\ page'.hides = page.hides
      /\ (page'.new => page.new \/ ~page.drawing) /\ (Told' /\ page'.new => Told /\ page.new)
  <2>1. page \in [start : BOOLEAN, stop : BOOLEAN, new : BOOLEAN, update : BOOLEAN, drawing : BOOLEAN,
                  poly : Seq(Versions), rows : Seq(Versions), hides : Nat, reloads : Nat]
    BY <1>t DEF Typed, TypeOK
  <2> QED
    BY <1>0, <1>2, <2>1 DEF DisableEntities, Told
<1>9. marks \subseteq marks' /\ marks' \subseteq marks \cup {"uncovered"}
      /\ (~q.sole /\ p = Mine /\ page.reloads > 0 => "uncovered" \in marks')
  BY <1>1 DEF Mark
<1>10. Typed'
  <2>1. IsFiniteSet(polls') /\ polls' \subseteq polls
    BY <1>0, <1>t, FS_Subset DEF Typed
  <2>2. {open, admitted, held, covered}' \subseteq SUBSET Pages
    BY <1>0, <1>1, <1>2, <1>t DEF Typed, TypeOK
  <2>3. timers' \in [Pages -> [known : BOOLEAN, orphans : 0..Max(Slots)]]
    BY <1>3, <1>7, SlotsAre
  <2>4. marks' \subseteq {"overlap", "silent", "hasty", "swapped", "untabled", "overtaken",
                          "early", "lost", "refused", "uncovered"}
    BY <1>9, <1>t DEF Typed, TypeOK
  <2>5. TypeOK'
    BY <1>0, <1>t, <1>8, <2>1, <2>2, <2>3, <2>4 DEF Typed, TypeOK, service
  <2> QED
    BY <1>0, <1>t, <2>1, <2>5 DEF Typed
<1>11. /\ \A x \in Pages \ {p} : Chains(x)' = Chains(x)
       /\ Chains(p)' <= Chains(p) /\ (q.sole => Chains(p)' = Chains(p) /\ Chains(p) >= 1)
  <2>1. \A x \in Pages \ {p} : Chains(x)' = Chains(x)
    <3> SUFFICES ASSUME NEW x \in Pages \ {p} PROVE Chains(x)' = Chains(x)
      OBVIOUS
    <3>1. Ticking(x)' = Ticking(x)
      BY <1>7 DEF Ticking
    <3> QED
      BY <1>t, <1>2, <1>5, <1>10, <3>1, ChainsNow, ChainsNext
  <2>3. ~q.sole => Ticking(p)' = Ticking(p)
    BY <1>7 DEF Ticking
  <2>4. Chains(p)' <= Chains(p) /\ (q.sole => Chains(p)' = Chains(p) /\ Chains(p) >= 1)
    BY <1>t, <1>q, <1>2, <1>5, <1>7, <1>10, <2>3, ChainsNow, ChainsNext
  <2> QED
    BY <2>1, <2>4
<1>12. ChainsBound' /\ OneChain'
  <2>1. Fewer
    <3>1. \A x \in Pages : Chains(x) \in Nat
      BY <1>t, ChainsNow
    <3> QED
      BY <1>11, <3>1 DEF Fewer
  <2> QED
    BY <1>0, <1>t, <1>9, <1>10, <2>1, FewerKeeps, LeftIs DEF PageInv, Chained
<1>13. KeepsPolling'
  <2>1. open \subseteq Pages
    BY <1>t DEF Typed, TypeOK
  <2> QED
    BY <1>0, <1>1, <1>9, <1>11, <2>1 DEF PageInv, Chained, KeepsPolling
<1>14. ClosedIsQuiet'
  BY <1>0, <1>1, <1>4, <1>7, QuietKeeps DEF PageInv, Chained
<1>15. InCharge'
  <2> SUFFICES ASSUME "silent" \notin marks', NEW x \in Pages
               PROVE  /\ x \in admitted' \/ ToldSole(x)' => x = current' /\ x \in users'
                      /\ x \in admitted' => Chains(x)' >= 1
    BY DEF InCharge
  <2>1. ToldSole(x)' => ToldSole(x)
    BY <1>0 DEF ToldSole
  <2>2. x \in admitted' => x \in admitted \/ (x = p /\ ToldSole(x))
    BY <1>0, <1>1 DEF ToldSole
  <2>3. /\ x \in admitted \/ ToldSole(x) => x = current /\ x \in users
        /\ x \in admitted => Chains(x) >= 1
    BY <1>9 DEF PageInv, Chained, InCharge
  <2>4. x \in admitted' => Chains(x)' >= 1
    BY <1>1, <1>11, <2>3
  <2> QED
    BY <1>0, <2>1, <2>2, <2>3, <2>4
<1>16. Covers'
  <2>1. HeldIsCovered'
    BY <1>1, <1>9 DEF PageInv, Covers, HeldIsCovered
  <2>2. CoverEnds'
    BY <1>0, <1>1, <1>8, <1>9 DEF PageInv, Covers, CoverEnds
  <2>3. CallsKnown'
    BY <1>0, <1>1, <1>8, <1>9 DEF PageInv, Covers, CallsKnown
  <2> QED
    BY <2>1, <2>2, <2>3 DEF Covers
<1>17. Corridors'
  BY <1>0, <1>8, <1>9, CorridorsSame DEF PageInv
<1> QED
  BY <1>10, <1>12, <1>13, <1>14, <1>15, <1>16, <1>17 DEF PageInv, Chained

(* A page opens.                                                              *)
LEMMA OpenKeeps == ASSUME PageInv, NEW p \in Pages, Open(p) PROVE PageInv'
<1>0. /\ UNCHANGED <<service, users, current, admitted, held, timers, page, marks>>
      /\ p \notin open /\ open' = open \cup {p} /\ polls' = polls \cup {Poll(p)} /\ Spend("opens")
      /\ p = Mine => covered' = covered \cup {p} /\ calls' = {Call("geo", <<>>)}
      /\ p # Mine => UNCHANGED <<covered, calls>>
  BY DEF Open
<1>1. Typed
  BY DEF PageInv
<1>2. /\ timers[p] = NoTimer /\ PollsOf(p) = {}
      /\ p \notin admitted \cup held \cup covered
      /\ p = Mine => page = Closed /\ calls = {}
  BY <1>0 DEF PageInv, Chained, ClosedIsQuiet, PollsOf
<1>3. /\ left' \in [Spendable -> Nat] /\ left'.clicks <= left.clicks /\ left'.saves <= left.saves
      /\ left.clicks \in Nat /\ left'.clicks \in Nat /\ left.saves \in Nat /\ left'.saves \in Nat
  BY <1>0, <1>1, Spending DEF Spendable
<1>4. Poll(p) \in PollRecord /\ Poll(p).page = p /\ Poll(p).at = "sent"
  <2>1. Cardinality(PollsOf(p)) <= Clicks
    BY <1>1, <1>2, FS_EmptySet DEF Typed
  <2> QED
    BY <1>1, <2>1, PollFits
<1> DEFINE c == Call("geo", <<>>)
<1>5. c \in CallRecord /\ c.kind = "geo" /\ c.at = "sent"
  <2>1. <<>> \in Seq(Versions)
    OBVIOUS
  <2> QED
    BY <1>1, <2>1, CallFits
<1>6. p = Mine => calls' = {c}
  BY <1>0
<1> HIDE DEF c
<1>7. Typed'
  <2>1. polls' \subseteq PollRecord /\ IsFiniteSet(polls')
    BY <1>0, <1>1, <1>4, FS_AddElement DEF Typed, TypeOK, PollRecord
  <2>2. calls' \subseteq CallRecord /\ IsFiniteSet(calls')
    <3>1. CASE p = Mine
      BY <1>5, <1>6, <3>1, FS_Singleton
    <3>2. CASE p # Mine
      BY <1>0, <1>1, <3>2 DEF Typed, TypeOK, CallRecord
    <3> QED
      BY <3>1, <3>2
  <2>3. {open, admitted, held, covered}' \subseteq SUBSET Pages
    BY <1>0, <1>1 DEF Typed, TypeOK
  <2>4. left'.clicks <= Clicks /\ left'.saves <= Saves
    BY <1>1, <1>3 DEF Typed
  <2>5. TypeOK'
    BY <1>0, <1>1, <1>3, <2>1, <2>2, <2>3 DEF Typed, TypeOK, service, Spendable, PollRecord, CallRecord
  <2> QED
    BY <1>1, <2>1, <2>2, <2>4, <2>5 DEF Typed
<1>8. ClickCalls' = ClickCalls
  BY <1>0, <1>2, <1>5, <1>6 DEF ClickCalls
<1>9. \A x \in Pages : Ticking(x)' = Ticking(x) /\ Clicking(x)' = Clicking(x)
  BY <1>0, <1>8 DEF Ticking, Clicking
<1>10. Chains(p) = 0 /\ Chains(p)' = 1 /\ \A x \in Pages \ {p} : Chains(x)' = Chains(x)
  <2>1. Ticking(p) = 0
    BY <1>2 DEF Ticking, NoTimer
  <2>2. Clicking(p) = 0
    BY <1>1, <1>2, ChainsNow DEF Clicking, ClickCalls
  <2>3. PollsOf(p)' # {} /\ Cardinality(PollsOf(p)') <= Cardinality(PollsOf(p)) + 1
    BY <1>0, <1>1, <1>4, PollAdded
  <2>4. Chains(p) = 0 /\ Chains(p)' = 1
    <3>1. Cardinality(PollsOf(p)) = 0
      BY <1>1, <1>2, ChainsNow
    <3>2. Cardinality(PollsOf(p)') = 1
      BY <1>7, <2>3, <3>1, ChainsNext
    <3>3. Ticking(p)' = 0 /\ Clicking(p)' = 0
      BY <1>9, <2>1, <2>2
    <3>4. Chains(p) = Cardinality(PollsOf(p)) + Ticking(p) + Clicking(p)
      BY <1>1, ChainsNow
    <3>5. Chains(p)' = Cardinality(PollsOf(p)') + Ticking(p)' + Clicking(p)'
      BY <1>7, ChainsNext
    <3> QED
      BY <2>1, <2>2, <3>1, <3>2, <3>3, <3>4, <3>5
  <2>5. \A x \in Pages \ {p} : PollsOf(x)' = PollsOf(x)
    BY <1>0, <1>1, <1>4, PollAdded
  <2> QED
    BY <1>1, <1>7, <1>9, <2>4, <2>5, ChainsNow, ChainsNext
<1>11. ChainsBound' /\ OneChain'
  <2>1. ChainsBound'
    <3> SUFFICES ASSUME NEW x \in Pages
                 PROVE  (Chains(x) + (IF x = Mine THEN left.clicks ELSE 0) <= Clicks + 1)'
      BY DEF ChainsBound
    <3>1. Chains(x) + (IF x = Mine THEN left.clicks ELSE 0) <= Clicks + 1
      BY DEF PageInv, Chained, ChainsBound
    <3>2. Chains(x) \in Nat /\ Clicks \in Nat /\ left'.clicks <= Clicks
      BY <1>1, <1>7, ChainsNow DEF Typed
    <3> QED
      BY <1>3, <1>10, <3>1, <3>2
  <2>2. OneChain'
    BY <1>0, <1>10 DEF PageInv, Chained, OneChain
  <2> QED
    BY <2>1, <2>2
<1>12. KeepsPolling'
  <2>1. open \subseteq Pages
    BY <1>1 DEF Typed, TypeOK
  <2> QED
    BY <1>0, <1>10, <2>1 DEF PageInv, Chained, KeepsPolling
<1>13. ClosedIsQuiet'
  <2>1. \A x \in polls' : x \in polls \/ x.page = p
    BY <1>0, <1>4
  <2> QED
    BY <1>0, <2>1 DEF PageInv, Chained, ClosedIsQuiet
<1>14. InCharge'
  BY <1>0, <1>4, <1>2, <1>10 DEF PageInv, Chained, InCharge, ToldSole
<1>15. Covers'
  BY <1>0, <1>2, <1>5, <1>6 DEF PageInv, Covers, HeldIsCovered, CoverEnds, CallsKnown, Closed
<1>16. Corridors'
  <2>1. CASE p # Mine
    BY <1>0, <2>1, CorridorsSame DEF PageInv, Told
  <2>2. CASE p = Mine
    <3>1. ~page.drawing /\ page.reloads = 0 /\ page.rows = <<>> /\ page.poly = <<>>
      BY <1>2, <2>2 DEF Closed
    <3>2. Fetching' = {c}
      BY <1>5, <1>6, <2>2 DEF Fetching
    <3>3. CorridorInv'
      BY <1>0, <1>5, <1>6, <2>2, <3>1, <3>2 DEF CorridorInv
    <3>4. TableLoaded' /\ UpdatesFit'
      BY <1>0, <1>5, <1>6, <2>2, <3>2 DEF TableLoaded, UpdatesFit
    <3>5. DetectorsFit' /\ SavedWhileReady'
      BY <1>0 DEF PageInv, Corridors, DetectorsFit, SavedWhileReady, Fits, service
    <3>6. SavedAtRest'
      BY <1>0, <1>5, <1>6, <2>2, <3>1
         DEF PageInv, Corridors, SavedAtRest, Launched, Told, service
    <3> QED
      BY <3>3, <3>4, <3>5, <3>6 DEF Corridors
  <2> QED
    BY <2>1, <2>2
<1> QED
  BY <1>7, <1>11, <1>12, <1>13, <1>14, <1>15, <1>16 DEF PageInv, Chained

(* A page is left.                                                            *)
LEMMA LeaveKeeps == ASSUME PageInv, NEW p \in Pages, Leave(p) PROVE PageInv'
<1>0. /\ UNCHANGED <<service, users, current, page, calls, left, marks>>
      /\ p \in open /\ p # Mine /\ open' = open \ {p} /\ admitted' = admitted \ {p}
      /\ held' = held \ {p} /\ covered' = covered \ {p}
      /\ timers' = [timers EXCEPT ![p] = NoTimer] /\ polls' = {q \in polls : q.page # p}
  BY DEF Leave
<1>1. Typed
  BY DEF PageInv
<1>2. timers \in [Pages -> [known : BOOLEAN, orphans : 0..Max(Slots)]] /\ 0 \in 0..Max(Slots)
  BY <1>1, SlotsAre DEF Typed, TypeOK
<1>3. /\ timers' \in [Pages -> [known : BOOLEAN, orphans : 0..Max(Slots)]]
      /\ timers'[p] = NoTimer /\ \A x \in Pages \ {p} : timers'[x] = timers[x]
  BY <1>0, <1>2 DEF NoTimer
<1>4. Typed'
  <2>1. polls' \subseteq polls /\ IsFiniteSet(polls')
    BY <1>0, <1>1, FS_Subset DEF Typed
  <2>2. {open, admitted, held, covered}' \subseteq SUBSET Pages
    BY <1>0, <1>1 DEF Typed, TypeOK
  <2>3. TypeOK'
    BY <1>0, <1>1, <1>3, <2>1, <2>2 DEF Typed, TypeOK, service
  <2> QED
    BY <1>0, <1>1, <2>1, <2>3 DEF Typed
<1>5. Chains(p)' = 0 /\ \A x \in Pages \ {p} : Chains(x)' = Chains(x)
  <2>1. \A x \in Pages : Clicking(x)' = Clicking(x)
    BY <1>0 DEF Clicking, ClickCalls
  <2>2. PollsOf(p)' = {} /\ Ticking(p)' = 0 /\ Clicking(p)' = 0
    BY <1>0, <1>3 DEF PollsOf, Ticking, NoTimer, Clicking
  <2>3. \A x \in Pages \ {p} : PollsOf(x)' = PollsOf(x) /\ Ticking(x)' = Ticking(x)
    BY <1>0, <1>3 DEF PollsOf, Ticking
  <2> QED
    BY <1>1, <1>4, <2>1, <2>2, <2>3, ChainsNow, ChainsNext
<1>6. ChainsBound' /\ OneChain'
  <2>1. \A x \in Pages : Chains(x) \in Nat
    BY <1>1, ChainsNow
  <2>2. Fewer
    BY <1>5, <2>1 DEF Fewer
  <2> QED
    BY <1>0, <1>1, <1>4, <2>2, FewerKeeps, LeftIs DEF PageInv, Chained
<1>7. KeepsPolling' /\ ClosedIsQuiet'
  <2>1. open \subseteq Pages
    BY <1>1 DEF Typed, TypeOK
  <2>2. KeepsPolling'
    BY <1>0, <1>5, <2>1 DEF PageInv, Chained, KeepsPolling
  <2>3. ClosedIsQuiet'
    BY <1>0, <1>3 DEF PageInv, Chained, ClosedIsQuiet
  <2> QED
    BY <2>2, <2>3
<1>8. InCharge'
  BY <1>0, <1>5 DEF PageInv, Chained, InCharge, ToldSole
<1>9. Covers'
  BY <1>0 DEF PageInv, Covers, HeldIsCovered, CoverEnds, CallsKnown
<1>10. Corridors'
  BY <1>0, CorridorsSame DEF PageInv, Told
<1> QED
  BY <1>4, <1>6, <1>7, <1>8, <1>9, <1>10 DEF PageInv, Chained

-----------------------------------------------------------------------------
(* The buttons.                                                               *)

(* What leaves the polls alone leaves the chains.                             *)
LEMMA PollsUntouched ==
  ASSUME Typed, Chained, Typed', UNCHANGED <<presence, held, polling>>, Mine \in open,
         Cardinality(ClickCalls') <= Cardinality(ClickCalls), ClickCalls # {} => ClickCalls' # {},
         \A p \in Pages \ {Mine} : p \in covered' => p \in covered,
         marks \subseteq marks', left'.clicks <= left.clicks
  PROVE  Chained'
<1>0. UNCHANGED <<users, current, open, admitted, held, timers, polls>>
  BY DEF presence, polling
<1>1. Steady
  <2> SUFFICES ASSUME NEW x \in Pages
               PROVE  Chains(x)' <= Chains(x) /\ (Chains(x) >= 1 => Chains(x)' >= 1)
    BY DEF Steady
  <2>1. PollsOf(x)' = PollsOf(x) /\ Ticking(x)' = Ticking(x)
    BY <1>0 DEF PollsOf, Ticking
  <2>2. Clicking(x)' <= Clicking(x) /\ (Clicking(x) >= 1 => Clicking(x)' >= 1)
    <3>1. Clicking(x) = IF x = Mine THEN Cardinality(ClickCalls) ELSE 0
      BY DEF Clicking
    <3>2. Clicking(x)' = IF x = Mine THEN Cardinality(ClickCalls') ELSE 0
      BY DEF Clicking
    <3>3. /\ Cardinality(ClickCalls) \in Nat /\ Cardinality(ClickCalls') \in Nat
          /\ Cardinality(ClickCalls) = 0 <=> ClickCalls = {}
          /\ Cardinality(ClickCalls') = 0 <=> ClickCalls' = {}
      BY ChainsNow, ChainsNext
    <3> QED
      BY <3>1, <3>2, <3>3
  <2>3. /\ Chains(x) = Cardinality(PollsOf(x)) + Ticking(x) + Clicking(x)
        /\ Cardinality(PollsOf(x)) \in Nat /\ Ticking(x) \in Nat /\ Clicking(x) \in Nat
    BY ChainsNow
  <2>4. Chains(x)' = Cardinality(PollsOf(x)') + Ticking(x)' + Clicking(x)' /\ Clicking(x)' \in Nat
    BY ChainsNext
  <2> QED
    BY <2>1, <2>2, <2>3, <2>4
<1>2. ChainsBound' /\ OneChain' /\ KeepsPolling'
  BY <1>0, <1>1, SteadyKeeps DEF Chained
<1>3. ClosedIsQuiet'
  BY <1>0, QuietKeeps DEF Chained
<1>4. InCharge'
  BY <1>0, <1>1, InChargeSame DEF Chained
<1> QED
  BY <1>2, <1>3, <1>4 DEF Chained

LEMMA ClickKeeps ==
  ASSUME PageInv, NEW kind \in {"start", "stop"}, Usable, Click(kind), UNCHANGED <<covered, page>>,
         kind = "start" => page.start /\ page.rows # <<>>
  PROVE  PageInv'
<1> DEFINE c == Call(kind, <<>>)
<1>1. c \in CallRecord /\ c.kind = kind /\ c.at = "sent"
  <2>1. <<>> \in Seq(Versions)
    OBVIOUS
  <2>2. kind \in {"start", "stop", "save", "update", "geo"} /\ Typed
    BY DEF PageInv
  <2> DEFINE data == <<>>
  <2>3. data \in Seq(Versions)
    BY <2>1
  <2> HIDE DEF data
  <2>4. /\ Call(kind, data) \in CallRecord /\ Call(kind, data).kind = kind
        /\ Call(kind, data).at = "sent"
    BY <2>2, <2>3, CallFits
  <2> QED
    BY <2>4 DEF data
<1>0. /\ UNCHANGED <<service, presence, held, polls, covered, page>>
      /\ timers' = [timers EXCEPT ![Mine] = ClearTimer(@)] /\ calls' = calls \cup {c}
      /\ marks \subseteq marks' /\ marks' \subseteq marks \cup {"overlap", "hasty"} /\ Spend("clicks")
      /\ "overlap" \notin marks' => ~Polling /\ timers[Mine].orphans = 0 /\ ~(timers[Mine].orphans > 0)
                                    /\ \A d \in calls : d.kind \notin {"start", "stop"}
  <2>1. timers[Mine].orphans \in Nat
    BY PageAssumption, SlotsAre DEF PageInv, Typed, TypeOK, PageAssumption
  <2> QED
    BY <2>1 DEF Click
<1> HIDE DEF c
<1>2. Typed /\ Mine \in open /\ Mine \in Pages
  BY PageAssumption DEF PageInv, Usable, PageAssumption
<1>3. /\ left' \in [Spendable -> Nat] /\ left'.clicks = left.clicks - 1 /\ left'.saves <= left.saves
      /\ left.clicks \in Nat /\ left'.clicks \in Nat /\ left.saves \in Nat /\ left'.saves \in Nat
  BY <1>0, <1>2, Spending DEF Spendable
<1>4. timers \in [Pages -> [known : BOOLEAN, orphans : 0..Max(Slots)]]
  BY <1>2 DEF Typed, TypeOK
<1>5. /\ timers' \in [Pages -> [known : BOOLEAN, orphans : 0..Max(Slots)]]
      /\ timers'[Mine].known = FALSE /\ timers'[Mine].orphans = timers[Mine].orphans
      /\ \A x \in Pages \ {Mine} : timers'[x] = timers[x]
  BY <1>0, <1>2, <1>4 DEF ClearTimer
<1>6. Typed'
  <2>1. calls' \subseteq CallRecord /\ IsFiniteSet(calls')
    BY <1>0, <1>1, <1>2, FS_AddElement DEF Typed, TypeOK, CallRecord
  <2>2. left'.clicks <= Clicks /\ left'.saves <= Saves
    BY <1>2, <1>3 DEF Typed
  <2>3. marks' \subseteq {"overlap", "silent", "hasty", "swapped", "untabled", "overtaken",
                          "early", "lost", "refused", "uncovered"}
    BY <1>0, <1>2 DEF Typed, TypeOK
  <2>4. TypeOK'
    <3>1. UNCHANGED <<running, geo, file, users, current, open, admitted, held, covered, polls, page>>
      BY <1>0 DEF service, presence
    <3>2. TypeOK
      BY <1>2 DEF Typed
    <3> QED
      BY <1>3, <1>5, <2>1, <2>3, <3>1, <3>2 DEF TypeOK, Spendable, CallRecord
  <2> QED
    BY <1>0, <1>2, <2>1, <2>2, <2>4 DEF Typed
<1>7. ClickCalls' = ClickCalls \cup {c}
  BY <1>0, <1>1 DEF ClickCalls
<1>8. /\ Cardinality(ClickCalls') <= Cardinality(ClickCalls) + 1
      /\ Cardinality(ClickCalls') >= 1
  <2>1. IsFiniteSet(ClickCalls) /\ Cardinality(ClickCalls) \in Nat
    BY <1>2, ChainsNow
  <2>2. Cardinality(ClickCalls \cup {c}) \in {Cardinality(ClickCalls), Cardinality(ClickCalls) + 1}
    BY <2>1, FS_AddElement
  <2>3. Cardinality(ClickCalls') \in Nat /\ (Cardinality(ClickCalls') = 0 <=> ClickCalls' = {})
    BY <1>2, <1>6, ChainsNext
  <2> QED
    BY <1>7, <2>1, <2>2, <2>3
<1>9. Ticking(Mine)' = timers[Mine].orphans /\ Ticking(Mine)' <= Ticking(Mine)
  <2>1. timers[Mine].orphans \in Nat /\ timers[Mine].known \in BOOLEAN
    BY <1>2, SlotsAre DEF Typed, TypeOK
  <2> QED
    BY <1>5, <2>1 DEF Ticking
<1>10. Clicking(Mine) = Cardinality(ClickCalls) /\ Clicking(Mine)' = Cardinality(ClickCalls')
  BY DEF Clicking
<1>11. Chains(Mine)' <= Chains(Mine) + 1 /\ Chains(Mine)' >= 1
  <2>1. PollsOf(Mine)' = PollsOf(Mine)
    BY <1>0 DEF PollsOf
  <2>2. /\ Chains(Mine) = Cardinality(PollsOf(Mine)) + Ticking(Mine) + Clicking(Mine)
        /\ Cardinality(PollsOf(Mine)) \in Nat /\ Ticking(Mine) \in Nat /\ Clicking(Mine) \in Nat
    BY <1>2, ChainsNow
  <2>3. /\ Chains(Mine)' = Cardinality(PollsOf(Mine)') + Ticking(Mine)' + Clicking(Mine)'
        /\ Ticking(Mine)' \in Nat /\ Clicking(Mine)' \in Nat
    BY <1>2, <1>6, ChainsNext
  <2> QED
    BY <1>8, <1>9, <1>10, <2>1, <2>2, <2>3
<1>12. \A x \in Pages \ {Mine} : Chains(x)' = Chains(x)
  <2> SUFFICES ASSUME NEW x \in Pages \ {Mine} PROVE Chains(x)' = Chains(x)
    OBVIOUS
  <2>1. PollsOf(x)' = PollsOf(x) /\ Ticking(x)' = Ticking(x) /\ Clicking(x)' = Clicking(x)
    BY <1>0, <1>5 DEF PollsOf, Ticking, Clicking
  <2> QED
    BY <1>2, <1>6, <2>1, ChainsNow, ChainsNext
<1>13. ChainsBound'
  <2> SUFFICES ASSUME NEW x \in Pages
               PROVE  (Chains(x) + (IF x = Mine THEN left.clicks ELSE 0) <= Clicks + 1)'
    BY DEF ChainsBound
  <2>1. Chains(x) + (IF x = Mine THEN left.clicks ELSE 0) <= Clicks + 1
    BY DEF PageInv, Chained, ChainsBound
  <2>2. Chains(x) \in Nat /\ Chains(x)' \in Nat /\ Clicks \in Nat
    BY <1>2, <1>6, ChainsNow, ChainsNext DEF Typed
  <2> QED
    BY <1>3, <1>11, <1>12, <2>1, <2>2
<1>14. OneChain'
  <2> SUFFICES ASSUME "overlap" \notin marks', NEW x \in Pages PROVE Chains(x)' <= 1
    BY DEF OneChain
  <2>1. CASE x # Mine
    BY <1>0, <1>12, <2>1 DEF PageInv, Chained, OneChain
  <2>2. CASE x = Mine
    <3>1. PollsOf(Mine) = {} /\ ClickCalls = {} /\ timers[Mine].orphans = 0
      BY <1>0 DEF PollsOf, Polling, ClickCalls
    <3>2. PollsOf(Mine)' = {}
      BY <1>0, <3>1 DEF PollsOf
    <3>3. Cardinality(ClickCalls) = 0 /\ Cardinality(PollsOf(Mine)') = 0
      BY <1>2, <1>6, <3>1, <3>2, ChainsNow, ChainsNext
    <3>4. Chains(Mine)' = Cardinality(PollsOf(Mine)') + Ticking(Mine)' + Clicking(Mine)'
          /\ Cardinality(ClickCalls') \in Nat
      BY <1>2, <1>6, ChainsNext
    <3> QED
      BY <1>8, <1>9, <1>10, <2>2, <3>1, <3>3, <3>4
  <2> QED
    BY <2>1, <2>2
<1>15. KeepsPolling'
  <2>1. open \subseteq Pages
    BY <1>2 DEF Typed, TypeOK
  <2> QED
    BY <1>0, <1>11, <1>12, <2>1 DEF PageInv, Chained, KeepsPolling, presence
<1>16. ClosedIsQuiet'
  BY <1>0, <1>2, <1>5, QuietKeeps DEF PageInv, Chained, presence
<1>17. InCharge'
  BY <1>0, <1>11, <1>12 DEF PageInv, Chained, InCharge, ToldSole, presence
<1>18. Covers'
  BY <1>0, <1>1 DEF PageInv, Covers, HeldIsCovered, CoverEnds, CallsKnown
<1>19. Corridors'
  <2>1. Fetching' = Fetching
    BY <1>0, <1>1 DEF Fetching
  <2>2. CorridorInv'
    BY <1>0, <1>1, <2>1 DEF PageInv, Corridors, CorridorInv, Table, service
  <2>3. TableLoaded'
    BY <1>0, <2>1 DEF PageInv, Corridors, TableLoaded, Table, service, presence
  <2>4. UpdatesFit' /\ DetectorsFit'
    BY <1>0, <1>1 DEF PageInv, Corridors, UpdatesFit, DetectorsFit, Fits, service
  <2>5. SavedAtRest' /\ SavedWhileReady'
    BY <1>0, <1>1 DEF PageInv, Corridors, SavedAtRest, SavedWhileReady, Launched, Told, service
  <2> QED
    BY <2>2, <2>3, <2>4, <2>5 DEF Corridors
<1> QED
  BY <1>6, <1>13, <1>14, <1>15, <1>16, <1>17, <1>18, <1>19 DEF PageInv, Chained

PageRecord ==
  [start : BOOLEAN, stop : BOOLEAN, new : BOOLEAN, update : BOOLEAN, drawing : BOOLEAN,
   poly : Seq(Versions), rows : Seq(Versions), hides : Nat, reloads : Nat]

LEMMA StopSimKeeps == ASSUME PageInv, StopSim PROVE PageInv'
BY ClickKeeps DEF StopSim

LEMMA StartSimKeeps == ASSUME PageInv, StartSim PROVE PageInv'
<1>1. CASE page.rows # <<>> /\ Click("start") /\ UNCHANGED <<covered, page>>
  BY <1>1, ClickKeeps DEF StartSim
<1>2. CASE /\ page.rows = <<>> /\ covered' = covered \cup {Mine}
           /\ page' = [page EXCEPT !.start = FALSE, !.hides = @ + 1]
           /\ UNCHANGED <<service, presence, held, polling, calls, left, marks>>
  <2>1. Typed /\ Mine \in open /\ Mine \in Pages /\ page \in PageRecord
    BY PageAssumption DEF PageInv, Usable, PageAssumption, StartSim, Typed, TypeOK, PageRecord
  <2>2. /\ page' \in PageRecord /\ page'.start = FALSE /\ page'.hides = page.hides + 1 /\ page.hides \in Nat
        /\ page'.stop = page.stop /\ page'.new = page.new /\ page'.drawing = page.drawing
        /\ page'.poly = page.poly /\ page'.rows = page.rows /\ page'.reloads = page.reloads
    <3>1. page' = [page EXCEPT !.start = FALSE, !.hides = page.hides + 1] /\ page.hides \in Nat
      BY <1>2, <2>1 DEF PageRecord
    <3>2. page.hides + 1 \in Nat
      BY <3>1
    <3> QED
      BY <2>1, <3>1, <3>2 DEF PageRecord
  <2>3. UNCHANGED <<running, geo, file, users, current, open, admitted, held, timers, polls>>
    BY <1>2 DEF service, presence, polling
  <2>4. Typed'
    BY <1>2, <2>1, <2>2, <2>3 DEF Typed, TypeOK, PageRecord
  <2>5. Chained'
    <3>1. ClickCalls' = ClickCalls
      BY <1>2 DEF ClickCalls
    <3>2. Cardinality(ClickCalls) \in Nat
      BY <2>1, ChainsNow
    <3> QED
      BY <1>2, <2>1, <2>4, <3>1, <3>2, PollsUntouched, LeftIs DEF PageInv
  <2>6. Covers'
    BY <1>2, <2>2 DEF PageInv, Covers, HeldIsCovered, CoverEnds, CallsKnown
  <2>7. CorridorInv' /\ TableLoaded'
    BY <1>2, <2>2, <2>3 DEF PageInv, Corridors, CorridorInv, TableLoaded, Fetching, Table
  <2>8. UpdatesFit' /\ DetectorsFit' /\ SavedWhileReady'
    BY <1>2, <2>3 DEF PageInv, Corridors, UpdatesFit, DetectorsFit, SavedWhileReady, Fits
  <2>9. SavedAtRest'
    BY <1>2, <2>2, <2>3 DEF PageInv, Corridors, SavedAtRest, Launched
  <2> QED
    BY <2>4, <2>5, <2>6, <2>7, <2>8, <2>9 DEF PageInv, Corridors
<1> QED
  BY <1>1, <1>2 DEF StartSim

LEMMA NewCorridorKeeps == ASSUME PageInv, NewCorridor PROVE PageInv'
<1>0. /\ UNCHANGED <<service, presence, held, covered, polling, calls, left>>
      /\ page' = [page EXCEPT !.poly = <<>>, !.rows = <<>>, !.drawing = TRUE,
                              !.new = FALSE, !.start = FALSE, !.update = FALSE]
      /\ page.new /\ marks \subseteq marks' /\ marks' \subseteq marks \cup {"hasty", "early"}
      /\ "hasty" \notin marks' => Told \/ (~running /\ \A c \in calls : c.kind # "start")
      /\ "early" \notin marks' => ~(page.reloads > 0) /\ \A c \in calls : c.kind \notin {"geo", "save"}
  BY DEF NewCorridor, Emptied
<1>1. Typed /\ Mine \in open /\ Mine \in Pages /\ page \in PageRecord
  BY PageAssumption DEF PageInv, Usable, PageAssumption, NewCorridor, Typed, TypeOK, PageRecord
<1>2. /\ page' \in PageRecord /\ page'.poly = <<>> /\ page'.rows = <<>> /\ page'.drawing = TRUE
      /\ page'.new = FALSE /\ page'.hides = page.hides /\ page'.reloads = page.reloads /\ page.reloads \in Nat
  <2>1. <<>> \in Seq(Versions)
    OBVIOUS
  <2> QED
    BY <1>0, <1>1, <2>1 DEF PageRecord
<1>3. UNCHANGED <<running, geo, file, users, current, open, admitted, held, timers, polls>>
  BY <1>0 DEF service, presence, polling
<1>4. Typed'
  <2>1. marks' \subseteq {"overlap", "silent", "hasty", "swapped", "untabled", "overtaken",
                          "early", "lost", "refused", "uncovered"}
    BY <1>0, <1>1 DEF Typed, TypeOK
  <2> QED
    BY <1>0, <1>1, <1>2, <1>3, <2>1 DEF Typed, TypeOK, PageRecord
<1>5. Chained'
  <2>1. ClickCalls' = ClickCalls
    BY <1>0 DEF ClickCalls
  <2>2. Cardinality(ClickCalls) \in Nat
    BY <1>1, ChainsNow
  <2> QED
    BY <1>0, <1>1, <1>4, <2>1, <2>2, PollsUntouched, LeftIs DEF PageInv
<1>6. Covers'
  BY <1>0, <1>2, CoversSame DEF PageInv
<1>7. CorridorInv' /\ TableLoaded'
  <2>1. "early" \notin marks' => Fetching = {} /\ Fetching' = {} /\ page.reloads = 0
    BY <1>0, <1>2 DEF Fetching
  <2>2. "early" \notin marks' => \A c \in calls' : c.kind = "geo" /\ c.at = "done" => c.data = Table'
    BY <1>0
  <2> QED
    BY <1>2, <2>1, <2>2 DEF CorridorInv, TableLoaded
<1>8. UpdatesFit' /\ DetectorsFit' /\ SavedWhileReady'
  BY <1>0, <1>3 DEF PageInv, Corridors, UpdatesFit, DetectorsFit, SavedWhileReady, Fits
<1>9. SavedAtRest'
  BY <1>0, <1>2, <1>3 DEF PageInv, Corridors, SavedAtRest, Launched
<1> QED
  BY <1>4, <1>5, <1>6, <1>7, <1>8, <1>9 DEF PageInv, Corridors

LEMMA SaveCorridorKeeps == ASSUME PageInv, SaveCorridor PROVE PageInv'
<1> DEFINE data == <<Newest(left'.saves)>>
           c == Call("save", data)
<1>1. Typed /\ Mine \in open /\ Mine \in Pages /\ page \in PageRecord /\ page.drawing /\ Spend("saves")
  BY PageAssumption
     DEF PageInv, Usable, PageAssumption, SaveCorridor, Typed, TypeOK, PageRecord
<1>2. /\ left' \in [Spendable -> Nat] /\ left'.clicks <= left.clicks /\ left'.saves <= left.saves
      /\ left.clicks \in Nat /\ left'.clicks \in Nat /\ left.saves \in Nat /\ left'.saves \in Nat
  BY <1>1, Spending DEF Spendable
<1>3. left'.clicks <= Clicks /\ left'.saves <= Saves /\ Clicks \in Nat /\ Saves \in Nat
  BY <1>1, <1>2 DEF Typed
<1>4. data \in Seq(Versions) /\ data # <<>>
  <2>1. Newest(left'.saves) \in Versions
    BY <1>2, <1>3, VersionsAre
  <2> QED
    BY <2>1
<1> HIDE DEF data
<1>5. c \in CallRecord /\ c.kind = "save" /\ c.at = "sent" /\ c.data # <<>>
  BY <1>1, <1>4, CallFits
<1>0. /\ UNCHANGED <<service, presence, held, polling>>
      /\ page' = [page EXCEPT !.new = TRUE, !.start = TRUE, !.update = TRUE, !.drawing = FALSE]
      /\ covered' = covered \cup {Mine} /\ calls' = calls \cup {c}
      /\ marks \subseteq marks' /\ marks' \subseteq marks \cup {"overtaken"}
      /\ "overtaken" \notin marks' => \A d \in calls : d.kind # "update"
  BY DEF SaveCorridor, Mark, data
<1> HIDE DEF c
<1>6. /\ page' \in PageRecord /\ page'.poly = page.poly /\ page'.rows = page.rows
      /\ page'.drawing = FALSE /\ page'.start = TRUE
      /\ page'.hides = page.hides /\ page'.reloads = page.reloads
  BY <1>0, <1>1 DEF PageRecord
<1>7. UNCHANGED <<running, geo, file, users, current, open, admitted, held, timers, polls>>
  BY <1>0 DEF service, presence, polling
<1>8. Typed'
  <2>1. calls' \subseteq CallRecord /\ IsFiniteSet(calls')
    BY <1>0, <1>1, <1>5, FS_AddElement DEF Typed, TypeOK, CallRecord
  <2>2. marks' \subseteq {"overlap", "silent", "hasty", "swapped", "untabled", "overtaken",
                          "early", "lost", "refused", "uncovered"}
    BY <1>0, <1>1 DEF Typed, TypeOK
  <2>3. covered' \subseteq Pages
    BY <1>0, <1>1 DEF Typed, TypeOK
  <2>4. TypeOK'
    BY <1>1, <1>2, <1>6, <1>7, <2>1, <2>2, <2>3 DEF Typed, TypeOK, PageRecord, CallRecord, Spendable
  <2> QED
    BY <1>1, <1>3, <1>7, <2>1, <2>4 DEF Typed
<1>9. Chained'
  <2>1. ClickCalls' = ClickCalls
    BY <1>0, <1>5 DEF ClickCalls
  <2>2. Cardinality(ClickCalls) \in Nat
    BY <1>1, ChainsNow
  <2> QED
    BY <1>0, <1>1, <1>2, <1>8, <2>1, <2>2, PollsUntouched DEF PageInv
<1>10. Covers'
  BY <1>0, <1>5, <1>6, <1>7 DEF PageInv, Covers, HeldIsCovered, CoverEnds, CallsKnown
<1>11. Fetching' = Fetching \cup {c}
  BY <1>0, <1>5 DEF Fetching
<1>12. "early" \notin marks' =>
         /\ page.reloads = 0 /\ Fetching = {} /\ page.rows = <<>> /\ page.poly = <<>>
         /\ \A d \in calls : d.kind = "geo" /\ d.at = "done" => d.data = Table
  BY <1>0, <1>1 DEF PageInv, Corridors, CorridorInv
<1>13. CorridorInv'
  <2>1. Table' = Table
    BY <1>7 DEF Table
  <2>2. "early" \notin marks' =>
          \A d \in calls' : d.kind = "geo" /\ d.at = "done" => d.data = Table'
    BY <1>0, <1>5, <1>12, <2>1
  <2> QED
    BY <1>6, <1>11, <1>12, <2>2 DEF CorridorInv
<1>14. TableLoaded'
  BY <1>11 DEF TableLoaded
<1>15. UpdatesFit'
  BY <1>0, <1>5 DEF UpdatesFit
<1>16. DetectorsFit' /\ SavedWhileReady'
  BY <1>0, <1>7 DEF PageInv, Corridors, DetectorsFit, SavedWhileReady, Fits
<1>17. SavedAtRest'
  BY <1>0, <1>5, <1>6, <1>7, <1>12 DEF PageInv, Corridors, SavedAtRest, Launched, Told
<1> QED
  BY <1>8, <1>9, <1>10, <1>13, <1>14, <1>15, <1>16, <1>17 DEF PageInv, Corridors

LEMMA UpdateDetectorsKeeps == ASSUME PageInv, UpdateDetectors PROVE PageInv'
<1> DEFINE c == Call("update", page.rows)
<1>1. Typed /\ Mine \in open /\ Mine \in Pages /\ page.rows \in Seq(Versions) /\ Spend("updates")
  BY PageAssumption DEF PageInv, Usable, PageAssumption, UpdateDetectors, Typed, TypeOK
<1>2. /\ left' \in [Spendable -> Nat] /\ left'.clicks <= left.clicks /\ left'.saves <= left.saves
      /\ left.clicks \in Nat /\ left'.clicks \in Nat /\ left.saves \in Nat /\ left'.saves \in Nat
  BY <1>1, Spending DEF Spendable
<1>3. left'.clicks <= Clicks /\ left'.saves <= Saves
  BY <1>1, <1>2 DEF Typed
<1>4. c \in CallRecord /\ c.kind = "update" /\ c.at = "sent" /\ c.data = page.rows
  BY <1>1, CallFits
<1>0. /\ UNCHANGED <<service, presence, held, covered, polling, page>> /\ calls' = calls \cup {c}
      /\ marks \subseteq marks' /\ marks' \subseteq marks \cup {"untabled"}
      /\ "untabled" \notin marks' => page.rows # <<>>
  BY DEF UpdateDetectors, Mark
<1> HIDE DEF c
<1>5. UNCHANGED <<running, geo, file, users, current, open, admitted, held, timers, polls>>
  BY <1>0 DEF service, presence, polling
<1>6. Typed'
  <2>1. calls' \subseteq CallRecord /\ IsFiniteSet(calls')
    BY <1>0, <1>1, <1>4, FS_AddElement DEF Typed, TypeOK, CallRecord
  <2>2. marks' \subseteq {"overlap", "silent", "hasty", "swapped", "untabled", "overtaken",
                          "early", "lost", "refused", "uncovered"}
    BY <1>0, <1>1 DEF Typed, TypeOK
  <2>3. TypeOK'
    BY <1>0, <1>1, <1>2, <1>5, <2>1, <2>2 DEF Typed, TypeOK, CallRecord, Spendable
  <2> QED
    BY <1>1, <1>3, <1>5, <2>1, <2>3 DEF Typed
<1>7. Chained'
  <2>1. ClickCalls' = ClickCalls
    BY <1>0, <1>4 DEF ClickCalls
  <2>2. Cardinality(ClickCalls) \in Nat
    BY <1>1, ChainsNow
  <2> QED
    BY <1>0, <1>1, <1>2, <1>6, <2>1, <2>2, PollsUntouched DEF PageInv
<1>8. Covers'
  BY <1>0, <1>4 DEF PageInv, Covers, HeldIsCovered, CoverEnds, CallsKnown
<1>9. Fetching' = Fetching
  BY <1>0, <1>4 DEF Fetching
<1>10. CorridorInv' /\ TableLoaded'
  BY <1>0, <1>4, <1>5, <1>9 DEF PageInv, Corridors, CorridorInv, TableLoaded, Table
<1>11. UpdatesFit'
  <2> SUFFICES ASSUME {"untabled", "early", "overtaken"} \cap marks' = {},
                      NEW d \in calls', d.kind = "update", d.at = "sent"
               PROVE  Fits(d.data)' /\ d.data # <<>> /\ \A e \in calls' : e.kind = "save" => e.at # "sent"
    BY DEF UpdatesFit
  <2>1. {"untabled", "early", "overtaken"} \cap marks = {} /\ page.rows # <<>>
    BY <1>0
  <2>2. page.rows = Table /\ Fetching = {}
    BY <2>1 DEF PageInv, Corridors, CorridorInv
  <2>3. Fits(page.rows)
    BY <2>1, <2>2 DEF Fits, Table
  <2>4. \A e \in calls' : e.kind # "save"
    BY <1>0, <1>4, <2>2 DEF Fetching
  <2>5. CASE d = c
    BY <1>4, <1>5, <2>1, <2>3, <2>4, <2>5 DEF Fits
  <2>6. CASE d \in calls
    BY <1>5, <2>1, <2>4, <2>6 DEF PageInv, Corridors, UpdatesFit, Fits
  <2> QED
    BY <1>0, <2>5, <2>6
<1>12. DetectorsFit' /\ SavedWhileReady'
  BY <1>0, <1>5 DEF PageInv, Corridors, DetectorsFit, SavedWhileReady, Fits
<1>13. SavedAtRest'
  BY <1>0, <1>4, <1>5 DEF PageInv, Corridors, SavedAtRest, Launched, Told
<1> QED
  BY <1>6, <1>7, <1>8, <1>10, <1>11, <1>12, <1>13 DEF PageInv, Corridors

-----------------------------------------------------------------------------
(* The requests served or failed.                                             *)

(* A request answered is the same request in another place.                   *)
LEMMA BackIs ==
  ASSUME Typed, NEW c \in calls, NEW at \in {"sent", "done", "refused", "lost"},
         NEW data \in Seq(Versions), Back(c, at, data)
  PROVE  /\ \E b \in CallRecord : /\ b.kind = c.kind /\ b.at = at /\ b.data = data
                                  /\ calls' = (calls \ {c}) \cup {b}
         /\ calls' \subseteq CallRecord /\ IsFiniteSet(calls')
         /\ Cardinality(ClickCalls') <= Cardinality(ClickCalls)
         /\ ClickCalls # {} => ClickCalls' # {}
<1> DEFINE b == [c EXCEPT !.at = at, !.data = data]
<1>1. calls \subseteq CallRecord /\ IsFiniteSet(calls)
  BY DEF Typed, TypeOK, CallRecord
<1>2. b \in CallRecord /\ b.kind = c.kind /\ b.at = at /\ b.data = data
  BY <1>1 DEF CallRecord
<1>3. calls' = (calls \ {c}) \cup {b}
  BY DEF Back
<1> HIDE DEF b
<1>4. calls' \subseteq CallRecord /\ IsFiniteSet(calls')
  BY <1>1, <1>2, <1>3, FS_RemoveElement, FS_AddElement
<1>5. IsFiniteSet(ClickCalls) /\ Cardinality(ClickCalls) \in Nat
  BY ChainsAre, PageAssumption DEF PageAssumption
<1>6. CASE c.kind \in {"start", "stop"}
  <2>1. c \in ClickCalls /\ ClickCalls' = (ClickCalls \ {c}) \cup {b}
    BY <1>2, <1>3, <1>6 DEF ClickCalls
  <2>2. /\ IsFiniteSet(ClickCalls \ {c})
        /\ Cardinality(ClickCalls \ {c}) = Cardinality(ClickCalls) - 1
    BY <1>5, <2>1, FS_RemoveElement
  <2>3. \/ Cardinality(ClickCalls') = Cardinality(ClickCalls \ {c}) + 1
        \/ Cardinality(ClickCalls') = Cardinality(ClickCalls \ {c})
    BY <2>1, <2>2, FS_AddElement
  <2> QED
    BY <1>2, <1>3, <1>4, <1>5, <2>1, <2>2, <2>3
<1>7. CASE c.kind \notin {"start", "stop"}
  <2>1. ClickCalls' = ClickCalls
    BY <1>2, <1>3, <1>7 DEF ClickCalls
  <2> QED
    BY <1>2, <1>3, <1>4, <1>5, <2>1
<1> QED
  BY <1>6, <1>7

LEMMA ServeKeeps == ASSUME PageInv, NEW c \in calls, Serve(c) PROVE PageInv'
<1>1. Typed /\ c \in CallRecord /\ c.at = "sent" /\ Mine \in open /\ Mine \in Pages
  BY PageAssumption
     DEF PageAssumption, PageInv, Typed, TypeOK, CallRecord, Serve, Chained, ClosedIsQuiet
<1>2. UNCHANGED <<presence, held, covered, polling, page, left>>
  BY DEF Serve
<1>3. UNCHANGED <<users, current, open, admitted, timers, polls>>
  BY <1>2 DEF presence, polling
<1>4. <<>> \in Seq(Versions) /\ Table \in Seq(Versions) /\ running \in BOOLEAN
      /\ geo \in Versions \cup {0} /\ file \in Seq(Versions \cup {0})
  BY <1>1 DEF Table, Typed, TypeOK
<1>5. \E at \in {"done", "refused"}, data \in Seq(Versions) :
        /\ Back(c, at, data)
        /\ c.kind = "geo" => at = "done" /\ data = Table
        /\ c.kind = "save" => at = "done"
  <2>1. CASE c.kind = "geo"
    BY <1>4, <2>1 DEF Serve, Table
  <2>2. CASE c.kind = "save"
    BY <1>4, <2>2 DEF Serve
  <2>3. CASE c.kind \in {"start", "stop", "update"}
    BY <1>4, <2>3 DEF Serve
  <2> QED
    BY <1>1, <2>1, <2>2, <2>3 DEF CallRecord
<1>6. PICK at \in {"done", "refused"}, data \in Seq(Versions) :
        /\ Back(c, at, data)
        /\ c.kind = "geo" => at = "done" /\ data = Table
        /\ c.kind = "save" => at = "done"
  BY <1>5
<1>7. PICK b \in CallRecord : /\ b.kind = c.kind /\ b.at = at /\ b.data = data
                              /\ calls' = (calls \ {c}) \cup {b}
  BY <1>1, <1>6, BackIs
<1>8. /\ calls' \subseteq CallRecord /\ IsFiniteSet(calls')
      /\ Cardinality(ClickCalls') <= Cardinality(ClickCalls)
      /\ ClickCalls # {} => ClickCalls' # {}
  BY <1>1, <1>6, BackIs
<1>9. /\ c.kind = "start" => running' = TRUE /\ UNCHANGED <<geo, file, marks>>
      /\ c.kind = "stop" => running' = FALSE /\ UNCHANGED <<geo, file, marks>>
      /\ c.kind = "save" => /\ geo' = c.data[1] /\ file' = None /\ running' = running
                            /\ Mark(running, "swapped")
      /\ c.kind = "update" => file' = c.data /\ UNCHANGED <<running, geo, marks>>
      /\ c.kind = "geo" => UNCHANGED <<running, geo, file, marks>>
  BY DEF Serve, service, NewFile
<1>10. marks \subseteq marks' /\ marks' \subseteq marks \cup {"swapped"}
  BY <1>1, <1>9 DEF Mark, CallRecord
<1>11. c.kind = "save" => c.data[1] \in Versions
  BY <1>1 DEF PageInv, Covers, CallsKnown, CallRecord
<1>12. running' \in BOOLEAN /\ geo' \in Versions \cup {0} /\ file' \in Seq(Versions \cup {0})
  <2>1. None \in Seq(Versions \cup {0})
    BY DEF None
  <2>2. c.data \in Seq(Versions \cup {0})
    BY <1>1 DEF CallRecord
  <2> QED
    BY <1>1, <1>4, <1>9, <1>11, <2>1, <2>2 DEF CallRecord
<1>13. Typed'
  <2>1. marks' \subseteq {"overlap", "silent", "hasty", "swapped", "untabled", "overtaken",
                          "early", "lost", "refused", "uncovered"}
    BY <1>1, <1>10 DEF Typed, TypeOK
  <2>2. TypeOK'
    BY <1>1, <1>2, <1>3, <1>8, <1>12, <2>1 DEF Typed, TypeOK, CallRecord
  <2> QED
    BY <1>1, <1>2, <1>3, <1>8, <2>2 DEF Typed
<1>14. Chained'
  BY <1>1, <1>2, <1>8, <1>10, <1>13, PollsUntouched, LeftIs DEF PageInv
<1>15. Covers'
  BY <1>1, <1>2, <1>6, <1>7, <1>10 DEF PageInv, Covers, HeldIsCovered, CoverEnds, CallsKnown
<1>16. Fetching' # {} <=> Fetching # {}
  BY <1>1, <1>7 DEF Fetching
<1>17. c.kind \notin {"geo", "save"} => Fetching' = Fetching
  BY <1>7 DEF Fetching
<1>18. c.kind \in {"geo", "save"} /\ "early" \notin marks => Fetching = {c} /\ Fetching' = {b}
  <2> SUFFICES ASSUME c.kind \in {"geo", "save"}, "early" \notin marks
               PROVE  Fetching = {c} /\ Fetching' = {b}
    OBVIOUS
  <2>1. Fetching = {c}
    BY DEF PageInv, Corridors, CorridorInv, Fetching
  <2> QED
    BY <1>7, <2>1 DEF Fetching
<1>19. c.kind # "save" => Table' = Table
  BY <1>1, <1>9 DEF Table, CallRecord
<1>20. CorridorInv'
  <2> SUFFICES ASSUME "early" \notin marks' PROVE CorridorInv'
    BY DEF CorridorInv
  <2>0. "early" \notin marks /\ page' = page
    BY <1>2, <1>10
  <2>1. CASE c.kind \in {"geo", "save"}
    <3>1. page.rows = <<>> /\ page.poly = <<>> /\ ~page.drawing /\ ~(page.reloads > 0)
      BY <1>18, <2>0, <2>1 DEF PageInv, Corridors, CorridorInv
    <3>2. \A d \in calls' : d.kind = "geo" /\ d.at = "done" => d.data = Table'
      <4> SUFFICES ASSUME NEW d \in calls', d.kind = "geo", d.at = "done" PROVE d.data = Table'
        OBVIOUS
      <4>1. d = b
        BY <1>18, <2>0, <2>1 DEF Fetching
      <4> QED
        BY <1>6, <1>7, <1>19, <4>1
    <3>3. \A x, y \in Fetching' : x = y
      BY <1>18, <2>0, <2>1
    <3> QED
      BY <2>0, <3>1, <3>2, <3>3 DEF CorridorInv
  <2>2. CASE c.kind \notin {"geo", "save"}
    BY <1>7, <1>17, <1>19, <2>0, <2>2 DEF PageInv, Corridors, CorridorInv
  <2> QED
    BY <2>1, <2>2
<1>21. TableLoaded'
  <2>1. CASE c.kind = "save"
    BY <1>7, <2>1 DEF TableLoaded, Fetching
  <2>2. CASE c.kind # "save"
    BY <1>2, <1>3, <1>10, <1>16, <1>19, <2>2 DEF PageInv, Corridors, TableLoaded
  <2> QED
    BY <2>1, <2>2
<1>22. UpdatesFit'
  <2> SUFFICES ASSUME {"untabled", "early", "overtaken"} \cap marks' = {},
                      NEW d \in calls', d.kind = "update", d.at = "sent"
               PROVE  Fits(d.data)' /\ d.data # <<>> /\ \A e \in calls' : e.kind = "save" => e.at # "sent"
    BY DEF UpdatesFit
  <2>1. {"untabled", "early", "overtaken"} \cap marks = {} /\ d \in calls
    BY <1>6, <1>7, <1>10
  <2>2. Fits(d.data) /\ d.data # <<>> /\ \A e \in calls : e.kind = "save" => e.at # "sent"
    BY <2>1 DEF PageInv, Corridors, UpdatesFit
  <2>3. geo' = geo
    BY <1>1, <1>9, <2>2 DEF CallRecord
  <2> QED
    BY <1>6, <1>7, <2>2, <2>3 DEF Fits
<1>23. DetectorsFit'
  <2>1. CASE c.kind = "save"
    BY <1>9, <2>1 DEF DetectorsFit
  <2>2. CASE c.kind = "update"
    BY <1>1, <1>9, <1>10, <2>2 DEF PageInv, Corridors, UpdatesFit, DetectorsFit, Fits
  <2>3. CASE c.kind \in {"start", "stop", "geo"}
    BY <1>9, <2>3 DEF PageInv, Corridors, DetectorsFit, Fits
  <2> QED
    BY <1>1, <2>1, <2>2, <2>3 DEF CallRecord
<1>24. Launched' => Launched
  BY <1>1, <1>6, <1>7, <1>9 DEF Launched, CallRecord
<1>25. SavedAtRest'
  BY <1>2, <1>10, <1>24 DEF PageInv, Corridors, SavedAtRest, Told
<1>26. SavedWhileReady'
  <2>1. CASE c.kind = "save" /\ running
    <3>1. "early" \notin marks => page.rows = <<>>
      BY <2>1 DEF PageInv, Corridors, CorridorInv, Fetching
    <3>2. {"hasty", "early"} \cap marks = {} => page.rows # <<>>
      BY <2>1 DEF PageInv, Corridors, SavedAtRest, Launched
    <3> QED
      BY <1>10, <3>1, <3>2 DEF SavedWhileReady
  <2>2. CASE ~(c.kind = "save" /\ running)
    <3>1. marks' = marks
      BY <1>1, <1>9, <2>2 DEF Mark, CallRecord
    <3> QED
      BY <3>1 DEF PageInv, Corridors, SavedWhileReady
  <2> QED
    BY <2>1, <2>2
<1> QED
  BY <1>13, <1>14, <1>15, <1>20, <1>21, <1>22, <1>23, <1>25, <1>26 DEF PageInv, Corridors

LEMMA FailKeeps ==
  ASSUME PageInv, NEW c \in calls, NEW how \in {"refused", "lost"}, Fail(c, how)
  PROVE  PageInv'
<1>1. Typed /\ c \in CallRecord /\ Mine \in open
  BY PageAssumption DEF PageAssumption, PageInv, Typed, TypeOK, CallRecord, Chained, ClosedIsQuiet
<1>0. /\ UNCHANGED <<service, presence, held, covered, polling, page>>
      /\ marks' = marks \cup {how} /\ Spend("fails") /\ Back(c, how, <<>>)
  BY DEF Fail
<1>2. /\ left' \in [Spendable -> Nat] /\ left'.clicks <= left.clicks /\ left'.saves <= left.saves
      /\ left.clicks \in Nat /\ left'.clicks \in Nat /\ left.saves \in Nat /\ left'.saves \in Nat
  BY <1>0, <1>1, Spending DEF Spendable
<1>3. left'.clicks <= Clicks /\ left'.saves <= Saves
  BY <1>1, <1>2 DEF Typed
<1>4. UNCHANGED <<running, geo, file, users, current, open, admitted, timers, polls>>
  BY <1>0 DEF service, presence, polling
<1> DEFINE data == <<>>
<1>5. data \in Seq(Versions) /\ how \in {"sent", "done", "refused", "lost"} /\ Back(c, how, data)
  BY <1>0
<1> HIDE DEF data
<1>6. PICK b \in CallRecord : /\ b.kind = c.kind /\ b.at = how /\ b.data = data
                              /\ calls' = (calls \ {c}) \cup {b}
  BY <1>1, <1>5, BackIs
<1>7. /\ calls' \subseteq CallRecord /\ IsFiniteSet(calls')
      /\ Cardinality(ClickCalls') <= Cardinality(ClickCalls)
      /\ ClickCalls # {} => ClickCalls' # {}
  BY <1>1, <1>5, BackIs
<1>8. Typed'
  <2>1. marks' \subseteq {"overlap", "silent", "hasty", "swapped", "untabled", "overtaken",
                          "early", "lost", "refused", "uncovered"}
    BY <1>0, <1>1 DEF Typed, TypeOK
  <2>2. TypeOK'
    BY <1>0, <1>1, <1>2, <1>4, <1>7, <2>1 DEF Typed, TypeOK, CallRecord, Spendable
  <2> QED
    BY <1>1, <1>3, <1>4, <1>7, <2>2 DEF Typed
<1>9. Chained'
  BY <1>0, <1>1, <1>2, <1>7, <1>8, PollsUntouched DEF PageInv
<1>10. Covers'
  BY <1>0, <1>1, <1>6 DEF PageInv, Covers, HeldIsCovered, CoverEnds, CallsKnown
<1>11. /\ Fetching' # {} <=> Fetching # {}
       /\ c.kind \in {"geo", "save"} => Fetching' = (Fetching \ {c}) \cup {b} /\ c \in Fetching
       /\ c.kind \notin {"geo", "save"} => Fetching' = Fetching
  BY <1>6 DEF Fetching
<1>12. CorridorInv'
  <2> SUFFICES ASSUME "early" \notin marks' PROVE CorridorInv'
    BY DEF CorridorInv
  <2>1. "early" \notin marks /\ page' = page /\ Table' = Table
    BY <1>0, <1>4 DEF Table
  <2>2. \A x, y \in Fetching : x = y
    BY <2>1 DEF PageInv, Corridors, CorridorInv
  <2>3. \A x, y \in Fetching' : x = y
    BY <1>11, <2>2
  <2>4. \A d \in calls' : d.kind = "geo" /\ d.at = "done" => d.data = Table'
    BY <1>6, <2>1 DEF PageInv, Corridors, CorridorInv
  <2>5. page.drawing => ~page.new /\ page.reloads = 0 /\ Fetching' = {}
    BY <1>11, <2>1 DEF PageInv, Corridors, CorridorInv
  <2>6. page.reloads > 0 => page.reloads = 1 /\ Fetching' = {}
    BY <1>11, <2>1 DEF PageInv, Corridors, CorridorInv
  <2>7. page.drawing \/ page.reloads > 0 \/ Fetching' # {} => page.rows = <<>> /\ page.poly = <<>>
    BY <1>11, <2>1 DEF PageInv, Corridors, CorridorInv
  <2>8. page.rows \in {<<>>, Table}
    BY <2>1 DEF PageInv, Corridors, CorridorInv
  <2> QED
    BY <2>1, <2>3, <2>4, <2>5, <2>6, <2>7, <2>8 DEF CorridorInv
<1>13. TableLoaded'
  BY <1>0 DEF TableLoaded
<1>14. UpdatesFit'
  BY <1>0, <1>4, <1>6 DEF PageInv, Corridors, UpdatesFit, Fits
<1>15. DetectorsFit' /\ SavedWhileReady'
  BY <1>0, <1>4 DEF PageInv, Corridors, DetectorsFit, SavedWhileReady, Fits
<1>16. Launched' => Launched
  BY <1>4, <1>6 DEF Launched
<1>17. SavedAtRest'
  BY <1>0, <1>16 DEF PageInv, Corridors, SavedAtRest, Told
<1> QED
  BY <1>8, <1>9, <1>10, <1>12, <1>13, <1>14, <1>15, <1>17 DEF PageInv, Corridors

-----------------------------------------------------------------------------
(* The answers.                                                               *)
LEMMA ClickAnsweredKeeps == ASSUME PageInv, NEW c \in calls, ClickAnswered(c) PROVE PageInv'
<1>0. /\ UNCHANGED <<service, presence, held, covered, timers, page, left, marks>>
      /\ c.kind \in {"start", "stop"} /\ c.at # "sent" /\ calls' = calls \ {c}
      /\ polls' = polls \cup {Poll(Mine)}
  BY DEF ClickAnswered, AfterClick
<1>1. Typed /\ Mine \in open /\ Mine \in Pages
  BY PageAssumption DEF PageAssumption, PageInv, Chained, ClosedIsQuiet
<1>2. UNCHANGED <<running, geo, file, users, current, open, admitted>>
  BY <1>0 DEF service, presence
<1>3. IsFiniteSet(ClickCalls) /\ Cardinality(ClickCalls) \in Nat /\ c \in ClickCalls
  BY <1>0, <1>1, ChainsNow DEF ClickCalls
<1>4. ClickCalls' = ClickCalls \ {c}
  BY <1>0 DEF ClickCalls
<1>5. Cardinality(ClickCalls') = Cardinality(ClickCalls) - 1 /\ Cardinality(ClickCalls) >= 1
  <2>1. Cardinality(ClickCalls \ {c}) = Cardinality(ClickCalls) - 1
    BY <1>3, FS_RemoveElement
  <2>2. Cardinality(ClickCalls) # 0
    BY <1>1, <1>3, ChainsNow
  <2> QED
    BY <1>3, <1>4, <2>1, <2>2
<1>6. Cardinality(PollsOf(Mine)) <= Clicks
  <2>1. left.clicks \in Nat /\ Clicks \in Nat
    BY <1>1, LeftIs DEF Typed
  <2>2. Chains(Mine) + left.clicks <= Clicks + 1
    BY <1>1 DEF PageInv, Chained, ChainsBound
  <2>3. Clicking(Mine) = Cardinality(ClickCalls)
    BY DEF Clicking
  <2>4. /\ Chains(Mine) = Cardinality(PollsOf(Mine)) + Ticking(Mine) + Clicking(Mine)
        /\ Cardinality(PollsOf(Mine)) \in Nat /\ Ticking(Mine) \in Nat
    BY <1>1, ChainsNow
  <2> QED
    BY <1>3, <1>5, <2>1, <2>2, <2>3, <2>4
<1>7. Poll(Mine) \in PollRecord /\ Poll(Mine).page = Mine /\ Poll(Mine).at = "sent"
  BY <1>1, <1>6, PollFits
<1>8. Typed'
  <2>1. polls' \subseteq PollRecord /\ IsFiniteSet(polls')
    BY <1>0, <1>1, <1>7, FS_AddElement DEF Typed, TypeOK, PollRecord
  <2>2. calls' \subseteq calls /\ IsFiniteSet(calls')
    BY <1>0, <1>1, FS_Subset DEF Typed
  <2>3. TypeOK'
    BY <1>0, <1>1, <1>2, <2>1, <2>2 DEF Typed, TypeOK, PollRecord
  <2> QED
    BY <1>0, <1>1, <2>1, <2>2, <2>3 DEF Typed
<1>9. Steady
  <2> SUFFICES ASSUME NEW x \in Pages
               PROVE  Chains(x)' <= Chains(x) /\ (Chains(x) >= 1 => Chains(x)' >= 1)
    BY DEF Steady
  <2>1. Ticking(x)' = Ticking(x)
    BY <1>0 DEF Ticking
  <2>2. CASE x = Mine
    <3>1. PollsOf(Mine)' # {} /\ Cardinality(PollsOf(Mine)') <= Cardinality(PollsOf(Mine)) + 1
      BY <1>0, <1>1, <1>7, PollAdded
    <3>2. Clicking(Mine) = Cardinality(ClickCalls) /\ Clicking(Mine)' = Cardinality(ClickCalls')
      BY DEF Clicking
    <3> QED
      BY <1>1, <1>5, <1>8, <2>1, <2>2, <3>1, <3>2, ChainsNow, ChainsNext
  <2>3. CASE x # Mine
    <3>1. PollsOf(x)' = PollsOf(x)
      BY <1>0, <1>1, <1>7, <2>3, PollAdded
    <3>2. Clicking(x) = 0 /\ Clicking(x)' = 0
      BY <2>3 DEF Clicking
    <3> QED
      BY <1>1, <1>8, <2>1, <3>1, <3>2, ChainsNow, ChainsNext
  <2> QED
    BY <2>2, <2>3
<1>10. ChainsBound' /\ OneChain' /\ KeepsPolling'
  BY <1>0, <1>1, <1>2, <1>8, <1>9, SteadyKeeps, LeftIs DEF PageInv, Chained
<1>11. ClosedIsQuiet'
  <2>1. \A x \in polls' : x \in polls \/ x.page = Mine
    BY <1>0, <1>7
  <2> QED
    BY <1>0, <1>1, <1>2, <2>1, QuietKeeps DEF PageInv, Chained
<1>12. InCharge'
  BY <1>0, <1>1, <1>2, <1>7, <1>8, <1>9, InChargeSame DEF PageInv, Chained
<1>13. Covers'
  BY <1>0 DEF PageInv, Covers, HeldIsCovered, CoverEnds, CallsKnown
<1>14. Fetching' = Fetching
  BY <1>0 DEF Fetching
<1>15. CorridorInv' /\ TableLoaded'
  BY <1>0, <1>2, <1>14 DEF PageInv, Corridors, CorridorInv, TableLoaded, Table
<1>16. UpdatesFit' /\ DetectorsFit' /\ SavedWhileReady'
  BY <1>0, <1>2 DEF PageInv, Corridors, UpdatesFit, DetectorsFit, SavedWhileReady, Fits
<1>17. SavedAtRest'
  BY <1>0, <1>2 DEF PageInv, Corridors, SavedAtRest, Launched, Told
<1> QED
  BY <1>8, <1>10, <1>11, <1>12, <1>13, <1>15, <1>16, <1>17 DEF PageInv, Chained, Corridors

LEMMA SaveAnsweredKeeps == ASSUME PageInv, NEW c \in calls, SaveAnswered(c) PROVE PageInv'
<1>0. /\ UNCHANGED <<service, presence, held, polling, left>>
      /\ c.kind = "save" /\ c.at # "sent" /\ calls' = calls \ {c}
      /\ c.at = "done" => page' = [page EXCEPT !.reloads = @ + 1]
      /\ c.at = "refused" => page' = [page EXCEPT !.hides = @ + 1]
      /\ c.at = "lost" => page' = page /\ covered' = covered
      /\ c.at # "lost" => covered' = covered \cup {Mine}
      /\ marks \subseteq marks' /\ marks' \subseteq marks \cup {"uncovered"}
      /\ c.at = "done" /\ Mine \in held => "uncovered" \in marks'
  BY DEF SaveAnswered, HidesLater, Show, Mark
<1>1. /\ Typed /\ Mine \in open /\ Mine \in Pages /\ c \in CallRecord /\ page \in PageRecord
      /\ page.hides \in Nat /\ page.reloads \in Nat
  BY PageAssumption
     DEF PageAssumption, PageInv, Chained, ClosedIsQuiet, Typed, TypeOK, CallRecord, PageRecord
<1>2. UNCHANGED <<running, geo, file, users, current, open, admitted, timers, polls>>
  BY <1>0 DEF service, presence, polling
<1>3. c.at \in {"done", "refused", "lost"}
  BY <1>0, <1>1 DEF CallRecord
<1>4. /\ page' \in PageRecord /\ page'.start = page.start /\ page'.stop = page.stop
      /\ page'.new = page.new /\ page'.drawing = page.drawing
      /\ page'.poly = page.poly /\ page'.rows = page.rows
      /\ page'.reloads = page.reloads + (IF c.at = "done" THEN 1 ELSE 0)
      /\ page'.hides = page.hides + (IF c.at = "refused" THEN 1 ELSE 0)
  <2>1. page.hides + 1 \in Nat /\ page.reloads + 1 \in Nat
    BY <1>1
  <2>2. CASE c.at = "done"
    BY <1>0, <1>1, <2>1, <2>2 DEF PageRecord
  <2>3. CASE c.at = "refused"
    BY <1>0, <1>1, <2>1, <2>3 DEF PageRecord
  <2>4. CASE c.at = "lost"
    BY <1>0, <1>1, <2>4
  <2> QED
    BY <1>3, <2>2, <2>3, <2>4
<1>5. Typed'
  <2>1. calls' \subseteq calls /\ IsFiniteSet(calls')
    BY <1>0, <1>1, FS_Subset DEF Typed
  <2>2. marks' \subseteq {"overlap", "silent", "hasty", "swapped", "untabled", "overtaken",
                          "early", "lost", "refused", "uncovered"}
    BY <1>0, <1>1 DEF Typed, TypeOK
  <2>3. covered' \subseteq Pages
    BY <1>0, <1>1 DEF Typed, TypeOK
  <2>4. TypeOK'
    <3>1. held' = held /\ left' = left /\ page' \in PageRecord
      BY <1>0, <1>4
    <3>2. TypeOK
      BY <1>1 DEF Typed
    <3> QED
      BY <1>2, <2>1, <2>2, <2>3, <3>1, <3>2 DEF TypeOK, PageRecord
  <2> QED
    BY <1>0, <1>1, <1>2, <2>1, <2>4 DEF Typed
<1>6. Chained'
  <2>1. ClickCalls' = ClickCalls
    BY <1>0 DEF ClickCalls
  <2>2. Cardinality(ClickCalls) \in Nat
    BY <1>1, ChainsNow
  <2> QED
    BY <1>0, <1>1, <1>5, <2>1, <2>2, PollsUntouched, LeftIs DEF PageInv
<1>7. Covers'
  <2>1. HeldIsCovered'
    BY <1>0 DEF PageInv, Covers, HeldIsCovered
  <2>2. CoverEnds'
    BY <1>0, <1>1, <1>3, <1>4 DEF PageInv, Covers, CoverEnds, CallsKnown
  <2>3. CallsKnown'
    BY <1>0, <1>1, <1>4 DEF PageInv, Covers, CallsKnown
  <2> QED
    BY <2>1, <2>2, <2>3 DEF Covers
<1>8. "early" \notin marks =>
        /\ Fetching = {c} /\ Fetching' = {} /\ ~page.drawing /\ page.reloads = 0
        /\ page.rows = <<>> /\ page.poly = <<>>
  <2> SUFFICES ASSUME "early" \notin marks
               PROVE  /\ Fetching = {c} /\ Fetching' = {} /\ ~page.drawing /\ page.reloads = 0
                      /\ page.rows = <<>> /\ page.poly = <<>>
    OBVIOUS
  <2>1. c \in Fetching
    BY <1>0 DEF Fetching
  <2>2. Fetching = {c}
    BY <2>1 DEF PageInv, Corridors, CorridorInv
  <2>3. Fetching' = {}
    BY <1>0, <2>2 DEF Fetching
  <2> QED
    BY <1>1, <2>2, <2>3 DEF PageInv, Corridors, CorridorInv
<1>9. CorridorInv'
  <2>1. "early" \notin marks' => \A d \in calls' : d.kind = "geo" /\ d.at = "done" => d.data = Table'
    BY <1>0, <1>8 DEF Fetching
  <2> QED
    BY <1>0, <1>4, <1>8, <2>1 DEF CorridorInv
<1>10. TableLoaded'
  BY <1>0, <1>1, <1>3, <1>4 DEF PageInv, Covers, CallsKnown, TableLoaded
<1>11. UpdatesFit' /\ DetectorsFit' /\ SavedWhileReady'
  BY <1>0, <1>2 DEF PageInv, Corridors, UpdatesFit, DetectorsFit, SavedWhileReady, Fits
<1>12. SavedAtRest'
  BY <1>0, <1>2, <1>4 DEF PageInv, Corridors, SavedAtRest, Launched, Told
<1> QED
  BY <1>5, <1>6, <1>7, <1>9, <1>10, <1>11, <1>12 DEF PageInv, Corridors

LEMMA UpdateAnsweredKeeps == ASSUME PageInv, NEW c \in calls, UpdateAnswered(c) PROVE PageInv'
<1>0. /\ UNCHANGED <<service, presence, held, polling, left, marks>>
      /\ c.kind = "update" /\ c.at # "sent" /\ calls' = calls \ {c}
      /\ \/ page' = [page EXCEPT !.start = TRUE, !.hides = @ + 1] /\ covered' = covered \cup {Mine}
         \/ page' = page /\ covered' = covered
  BY DEF UpdateAnswered, Show
<1>1. /\ Typed /\ Mine \in open /\ Mine \in Pages /\ page \in PageRecord /\ page.hides \in Nat
  BY PageAssumption DEF PageAssumption, PageInv, Chained, ClosedIsQuiet, Typed, TypeOK, PageRecord
<1>2. UNCHANGED <<running, geo, file, users, current, open, admitted, timers, polls>>
  BY <1>0 DEF service, presence, polling
<1>3. /\ page' \in PageRecord /\ page'.stop = page.stop /\ (page'.start \/ page'.start = page.start)
      /\ page'.new = page.new /\ page'.drawing = page.drawing
      /\ page'.poly = page.poly /\ page'.rows = page.rows /\ page'.reloads = page.reloads
      /\ \/ page'.hides = page.hides /\ covered' = covered
         \/ page'.hides = page.hides + 1 /\ covered' = covered \cup {Mine}
  <2>1. page.hides + 1 \in Nat
    BY <1>1
  <2>2. CASE page' = [page EXCEPT !.start = TRUE, !.hides = @ + 1] /\ covered' = covered \cup {Mine}
    <3>1. page' = [page EXCEPT !.start = TRUE, !.hides = page.hides + 1]
      BY <1>1, <2>2 DEF PageRecord
    <3> QED
      BY <1>1, <2>1, <2>2, <3>1 DEF PageRecord
  <2>3. CASE page' = page /\ covered' = covered
    BY <1>1, <2>3
  <2> QED
    BY <1>0, <2>2, <2>3
<1>4. Typed'
  <2>1. calls' \subseteq calls /\ IsFiniteSet(calls')
    BY <1>0, <1>1, FS_Subset DEF Typed
  <2>2. covered' \subseteq Pages
    BY <1>1, <1>3 DEF Typed, TypeOK
  <2>3. TypeOK'
    <3>1. held' = held /\ left' = left /\ marks' = marks /\ page' \in PageRecord
      BY <1>0, <1>3
    <3>2. TypeOK
      BY <1>1 DEF Typed
    <3> QED
      BY <1>2, <2>1, <2>2, <3>1, <3>2 DEF TypeOK, PageRecord
  <2> QED
    BY <1>0, <1>1, <1>2, <2>1, <2>3 DEF Typed
<1>5. Chained'
  <2>1. ClickCalls' = ClickCalls
    BY <1>0 DEF ClickCalls
  <2>2. Cardinality(ClickCalls) \in Nat
    BY <1>1, ChainsNow
  <2> QED
    BY <1>0, <1>1, <1>3, <1>4, <2>1, <2>2, PollsUntouched, LeftIs DEF PageInv
<1>6. Covers'
  BY <1>0, <1>1, <1>3 DEF PageInv, Covers, HeldIsCovered, CoverEnds, CallsKnown
<1>7. Fetching' = Fetching
  BY <1>0 DEF Fetching
<1>8. CorridorInv' /\ TableLoaded'
  BY <1>0, <1>2, <1>3, <1>7 DEF PageInv, Corridors, CorridorInv, TableLoaded, Table
<1>9. UpdatesFit' /\ DetectorsFit' /\ SavedWhileReady'
  BY <1>0, <1>2 DEF PageInv, Corridors, UpdatesFit, DetectorsFit, SavedWhileReady, Fits
<1>10. SavedAtRest'
  BY <1>0, <1>2, <1>3 DEF PageInv, Corridors, SavedAtRest, Launched, Told
<1> QED
  BY <1>4, <1>5, <1>6, <1>8, <1>9, <1>10 DEF PageInv, Corridors

LEMMA GeoAnsweredKeeps == ASSUME PageInv, NEW c \in calls, GeoAnswered(c) PROVE PageInv'
<1>0. /\ UNCHANGED <<service, presence, held, polling, left, marks>>
      /\ c.kind = "geo" /\ c.at # "sent" /\ calls' = calls \ {c} /\ covered' = covered \cup {Mine}
      /\ c.at = "done" => page' = [page EXCEPT !.poly = @ \o c.data, !.hides = @ + 1,
                                               !.rows = @ \o (page.poly \o c.data)]
      /\ c.at # "done" => page' = [page EXCEPT !.hides = @ + 1]
  BY DEF GeoAnswered, Show, CreateDetectorList
<1>1. /\ Typed /\ Mine \in open /\ Mine \in Pages /\ c \in CallRecord /\ page \in PageRecord
      /\ page.hides \in Nat /\ page.hides + 1 \in Nat /\ page.reloads \in Nat
      /\ page.rows \in Seq(Versions) /\ page.poly \in Seq(Versions) /\ c.data \in Seq(Versions)
  <2>1. Typed /\ Mine \in open /\ Mine \in Pages
    BY PageAssumption DEF PageAssumption, PageInv, Chained, ClosedIsQuiet
  <2>2. c \in CallRecord /\ page \in PageRecord
    BY <2>1 DEF Typed, TypeOK, CallRecord, PageRecord
  <2>3. page.hides \in Nat /\ page.reloads \in Nat
    BY <2>2 DEF PageRecord
  <2>4. page.rows \in Seq(Versions) /\ page.poly \in Seq(Versions) /\ c.data \in Seq(Versions)
    BY <2>2 DEF PageRecord, CallRecord
  <2> QED
    BY <2>1, <2>2, <2>3, <2>4
<1>2. UNCHANGED <<running, geo, file, users, current, open, admitted, timers, polls>>
  BY <1>0 DEF service, presence, polling
<1> DEFINE poly == page.poly \o c.data
           rows == page.rows \o poly
<1>3. poly \in Seq(Versions) /\ rows \in Seq(Versions)
  BY <1>1
<1>4. c.at = "done" => page' = [page EXCEPT !.poly = poly, !.hides = page.hides + 1, !.rows = rows]
  BY <1>0, <1>1 DEF PageRecord
<1>5. "early" \notin marks =>
        /\ Fetching = {c} /\ Fetching' = {} /\ ~page.drawing /\ page.reloads = 0
        /\ page.rows = <<>> /\ page.poly = <<>> /\ (c.at = "done" => c.data = Table)
  <2> SUFFICES ASSUME "early" \notin marks
               PROVE  /\ Fetching = {c} /\ Fetching' = {} /\ ~page.drawing /\ page.reloads = 0
                      /\ page.rows = <<>> /\ page.poly = <<>> /\ (c.at = "done" => c.data = Table)
    OBVIOUS
  <2>1. c \in Fetching
    BY <1>0 DEF Fetching
  <2>2. Fetching = {c}
    BY <2>1 DEF PageInv, Corridors, CorridorInv
  <2>3. Fetching' = {}
    BY <1>0, <2>2 DEF Fetching
  <2> QED
    BY <1>0, <1>1, <2>2, <2>3 DEF PageInv, Corridors, CorridorInv
<1>6. "early" \notin marks /\ c.at = "done" => rows = Table
  <2>1. Table \in Seq(Versions) /\ <<>> \o (<<>> \o Table) = Table
    BY <1>1 DEF Table, Typed, TypeOK
  <2> QED
    BY <1>5, <2>1
<1> HIDE DEF poly, rows
<1>7. /\ page' \in PageRecord /\ page'.start = page.start /\ page'.stop = page.stop
      /\ page'.new = page.new /\ page'.drawing = page.drawing /\ page'.reloads = page.reloads
      /\ page'.hides = page.hides + 1
      /\ c.at = "done" => page'.rows = rows
      /\ c.at # "done" => page'.rows = page.rows
  <2>1. CASE c.at = "done"
    BY <1>1, <1>3, <1>4, <2>1 DEF PageRecord
  <2>2. CASE c.at # "done"
    <3>1. page' = [page EXCEPT !.hides = page.hides + 1]
      BY <1>0, <1>1, <2>2 DEF PageRecord
    <3> QED
      BY <1>1, <2>2, <3>1 DEF PageRecord
  <2> QED
    BY <2>1, <2>2
<1>8. Typed'
  <2>1. calls' \subseteq calls /\ IsFiniteSet(calls')
    BY <1>0, <1>1, FS_Subset DEF Typed
  <2>2. covered' \subseteq Pages
    BY <1>0, <1>1 DEF Typed, TypeOK
  <2>3. TypeOK'
    <3>1. held' = held /\ left' = left /\ marks' = marks /\ page' \in PageRecord
      BY <1>0, <1>7
    <3>2. TypeOK
      BY <1>1 DEF Typed
    <3> QED
      BY <1>2, <2>1, <2>2, <3>1, <3>2 DEF TypeOK, PageRecord
  <2> QED
    BY <1>0, <1>1, <1>2, <2>1, <2>3 DEF Typed
<1>9. Chained'
  <2>1. ClickCalls' = ClickCalls
    BY <1>0 DEF ClickCalls
  <2>2. Cardinality(ClickCalls) \in Nat
    BY <1>1, ChainsNow
  <2> QED
    BY <1>0, <1>1, <1>8, <2>1, <2>2, PollsUntouched, LeftIs DEF PageInv
<1>10. Covers'
  BY <1>0, <1>1, <1>7 DEF PageInv, Covers, HeldIsCovered, CoverEnds, CallsKnown
<1>11. Table' = Table
  BY <1>2 DEF Table
<1>12. CorridorInv'
  <2>1. "early" \notin marks' => \A d \in calls' : d.kind = "geo" /\ d.at = "done" => d.data = Table'
    BY <1>0, <1>5 DEF Fetching
  <2>2. "early" \notin marks' => page'.rows \in {<<>>, Table'}
    BY <1>0, <1>5, <1>6, <1>7, <1>11
  <2> QED
    BY <1>0, <1>5, <1>7, <2>1, <2>2 DEF CorridorInv
<1>13. TableLoaded'
  <2>1. {"lost", "refused", "early"} \cap marks = {} => c.at = "done"
    BY <1>0, <1>1 DEF PageInv, Covers, CallsKnown, CallRecord
  <2> QED
    BY <1>0, <1>6, <1>7, <1>11, <2>1 DEF TableLoaded
<1>14. UpdatesFit' /\ DetectorsFit' /\ SavedWhileReady'
  BY <1>0, <1>2 DEF PageInv, Corridors, UpdatesFit, DetectorsFit, SavedWhileReady, Fits
<1>15. SavedAtRest'
  <2>1. Launched' <=> Launched
    BY <1>0, <1>2 DEF Launched
  <2>2. {"hasty", "early"} \cap marks = {} => ~Launched
    BY <1>5 DEF PageInv, Corridors, SavedAtRest
  <2> QED
    BY <1>0, <2>1, <2>2 DEF SavedAtRest
<1> QED
  BY <1>8, <1>9, <1>10, <1>12, <1>13, <1>14, <1>15 DEF PageInv, Corridors

-----------------------------------------------------------------------------
(* The timers of the page.                                                    *)
LEMMA HideKeeps == ASSUME PageInv, Hide PROVE PageInv'
<1>0. /\ UNCHANGED <<service, presence, held, polling, calls, left, marks>>
      /\ page.hides > 0 /\ page' = [page EXCEPT !.hides = @ - 1]
      /\ Mine \notin held => covered' = covered \ {Mine}
      /\ Mine \in held => covered' = covered
  BY DEF Hide, TimeoutPageoverlay
<1>1. /\ Typed /\ Mine \in Pages /\ page \in PageRecord /\ page.hides \in Nat
  BY PageAssumption DEF PageAssumption, PageInv, Typed, TypeOK, PageRecord
<1>2. Mine \in open
  BY <1>0, <1>1 DEF PageInv, Chained, ClosedIsQuiet, Closed
<1>3. UNCHANGED <<running, geo, file, users, current, open, admitted, timers, polls>>
  BY <1>0 DEF service, presence, polling
<1>4. /\ page' \in PageRecord /\ page'.start = page.start /\ page'.stop = page.stop
      /\ page'.new = page.new /\ page'.drawing = page.drawing
      /\ page'.poly = page.poly /\ page'.rows = page.rows /\ page'.reloads = page.reloads
  <2>1. page' = [page EXCEPT !.hides = page.hides - 1]
    BY <1>0, <1>1 DEF PageRecord
  <2>2. page.hides - 1 \in Nat
    BY <1>0, <1>1
  <2> QED
    BY <1>1, <2>1, <2>2 DEF PageRecord
<1>5. covered' \subseteq covered
  BY <1>0
<1>6. Typed'
  <2>1. TypeOK /\ covered' \subseteq Pages /\ held' = held /\ calls' = calls /\ left' = left /\ marks' = marks
    BY <1>0, <1>1, <1>5 DEF Typed, TypeOK
  <2>2. TypeOK'
    BY <1>3, <1>4, <2>1 DEF TypeOK, PageRecord
  <2> QED
    BY <1>1, <1>3, <2>1, <2>2 DEF Typed
<1>7. Chained'
  <2>1. ClickCalls' = ClickCalls
    BY <1>0 DEF ClickCalls
  <2>2. Cardinality(ClickCalls) \in Nat
    BY <1>1, ChainsNow
  <2> QED
    BY <1>0, <1>1, <1>2, <1>5, <1>6, <2>1, <2>2, PollsUntouched, LeftIs DEF PageInv
<1>8. Covers'
  BY <1>0, <1>4 DEF PageInv, Covers, HeldIsCovered, CoverEnds, CallsKnown
<1>9. Corridors'
  BY <1>0, <1>3, <1>4, CorridorsSame DEF PageInv, Told
<1> QED
  BY <1>6, <1>7, <1>8, <1>9 DEF PageInv

LEMMA ReloadKeeps == ASSUME PageInv, Reload PROVE PageInv'
<1> DEFINE data == <<>>
           c == Call("geo", data)
<1>1. /\ Typed /\ Mine \in Pages /\ page \in PageRecord /\ page.reloads \in Nat
  BY PageAssumption DEF PageAssumption, PageInv, Typed, TypeOK, PageRecord
<1>2. data \in Seq(Versions)
  OBVIOUS
<1>0. /\ UNCHANGED <<service, presence, held, polling, left, marks>>
      /\ page.reloads > 0 /\ page' = [page EXCEPT !.reloads = @ - 1] /\ calls' = calls \cup {c}
      /\ Mine \notin held => covered' = covered \cup {Mine}
      /\ Mine \in held => covered' = covered \ {Mine}
  BY DEF Reload
<1> HIDE DEF data
<1>3. c \in CallRecord /\ c.kind = "geo" /\ c.at = "sent"
  BY <1>1, <1>2, CallFits
<1> HIDE DEF c
<1>4. Mine \in open
  BY <1>0, <1>1 DEF PageInv, Chained, ClosedIsQuiet, Closed
<1>5. UNCHANGED <<running, geo, file, users, current, open, admitted, timers, polls>>
  BY <1>0 DEF service, presence, polling
<1>6. /\ page' \in PageRecord /\ page'.start = page.start /\ page'.stop = page.stop
      /\ page'.new = page.new /\ page'.drawing = page.drawing /\ page'.hides = page.hides
      /\ page'.poly = page.poly /\ page'.rows = page.rows /\ page'.reloads = page.reloads - 1
  <2>1. page' = [page EXCEPT !.reloads = page.reloads - 1]
    BY <1>0, <1>1 DEF PageRecord
  <2>2. page.reloads - 1 \in Nat
    BY <1>0, <1>1
  <2> QED
    BY <1>1, <2>1, <2>2 DEF PageRecord
<1>7. Typed'
  <2>1. TypeOK /\ covered' \subseteq Pages /\ held' = held /\ left' = left /\ marks' = marks
    BY <1>0, <1>1 DEF Typed, TypeOK
  <2>2. calls' \subseteq CallRecord /\ IsFiniteSet(calls')
    BY <1>0, <1>1, <1>3, FS_AddElement DEF Typed, TypeOK, CallRecord
  <2>3. TypeOK'
    BY <1>5, <1>6, <2>1, <2>2 DEF TypeOK, PageRecord, CallRecord
  <2> QED
    BY <1>1, <1>5, <2>1, <2>2, <2>3 DEF Typed
<1>8. Chained'
  <2>1. ClickCalls' = ClickCalls
    BY <1>0, <1>3 DEF ClickCalls
  <2>2. Cardinality(ClickCalls) \in Nat
    BY <1>1, ChainsNow
  <2> QED
    BY <1>0, <1>1, <1>4, <1>7, <2>1, <2>2, PollsUntouched, LeftIs DEF PageInv
<1>9. Covers'
  <2>1. HeldIsCovered'
    BY <1>0 DEF PageInv, Covers, HeldIsCovered, CallsKnown
  <2>2. CoverEnds'
    BY <1>0, <1>3 DEF CoverEnds
  <2>3. CallsKnown'
    BY <1>0, <1>3 DEF PageInv, Covers, CallsKnown
  <2> QED
    BY <2>1, <2>2, <2>3 DEF Covers
<1>10. Fetching' = Fetching \cup {c}
  BY <1>0, <1>3 DEF Fetching
<1>11. CorridorInv'
  <2>1. Table' = Table
    BY <1>5 DEF Table
  <2>2. "early" \notin marks => /\ Fetching = {} /\ page.reloads = 1 /\ ~page.drawing
                                /\ page.rows = <<>> /\ page.poly = <<>>
    BY <1>0, <1>1 DEF PageInv, Corridors, CorridorInv
  <2>3. "early" \notin marks => \A d \in calls' : d.kind = "geo" /\ d.at = "done" => d.data = Table'
    BY <1>0, <1>3, <2>2 DEF Fetching
  <2> QED
    BY <1>0, <1>6, <1>10, <2>2, <2>3 DEF CorridorInv
<1>12. TableLoaded'
  BY <1>10 DEF TableLoaded
<1>13. UpdatesFit' /\ DetectorsFit' /\ SavedWhileReady'
  BY <1>0, <1>3, <1>5 DEF PageInv, Corridors, UpdatesFit, DetectorsFit, SavedWhileReady, Fits
<1>14. SavedAtRest'
  BY <1>0, <1>3, <1>5, <1>6 DEF PageInv, Corridors, SavedAtRest, Launched, Told
<1> QED
  BY <1>7, <1>8, <1>9, <1>11, <1>12, <1>13, <1>14 DEF PageInv, Corridors

-----------------------------------------------------------------------------
(* What the page keeps.                                                       *)
LEMMA PageStep == PageInv /\ [Next]_vars => PageInv'
<1> SUFFICES ASSUME PageInv, [Next]_vars PROVE PageInv'
  OBVIOUS
<1>1. ASSUME NEW p \in Pages, Open(p) PROVE PageInv'
  BY <1>1, OpenKeeps
<1>2. ASSUME NEW p \in Pages, Leave(p) PROVE PageInv'
  BY <1>2, LeaveKeeps
<1>3. ASSUME NEW p \in Pages, Lapse(p) PROVE PageInv'
  BY <1>3, LapseKeeps
<1>4. ASSUME NEW p \in Pages, TimerFires(p) PROVE PageInv'
  BY <1>4, TimerFiresKeeps
<1>5. ASSUME NEW q \in polls, Status(q) PROVE PageInv'
  BY <1>5, StatusKeeps
<1>6. ASSUME NEW q \in polls, PollDone(q) PROVE PageInv'
  BY <1>6, PollDoneKeeps
<1>7. ASSUME NEW q \in polls, PollFails(q) PROVE PageInv'
  BY <1>7, PollFailsKeeps
<1>8. ASSUME StartSim \/ StopSim \/ NewCorridor \/ SaveCorridor \/ UpdateDetectors PROVE PageInv'
  BY <1>8, StartSimKeeps, StopSimKeeps, NewCorridorKeeps, SaveCorridorKeeps, UpdateDetectorsKeeps
<1>9. ASSUME NEW c \in calls, Serve(c) PROVE PageInv'
  BY <1>9, ServeKeeps
<1>10. ASSUME NEW c \in calls, NEW how \in {"refused", "lost"}, Fail(c, how) PROVE PageInv'
  BY <1>10, FailKeeps
<1>11. ASSUME NEW c \in calls, Answered(c) PROVE PageInv'
  BY <1>11, ClickAnsweredKeeps, SaveAnsweredKeeps, UpdateAnsweredKeeps, GeoAnsweredKeeps DEF Answered
<1>12. ASSUME Hide \/ Reload PROVE PageInv'
  BY <1>12, HideKeeps, ReloadKeeps
<1>13. CASE UNCHANGED vars
  <2>1. /\ UNCHANGED <<service, presence, polling, held, covered, page, calls, left, marks>>
        /\ UNCHANGED <<running, geo, file, users, current, open, admitted, timers, polls>>
    BY <1>13 DEF vars, service, presence, polling
  <2>2. Typed'
    BY <2>1 DEF PageInv, Typed, TypeOK
  <2>3. \A p \in Pages : Chains(p)' = Chains(p)
    <3>1. ClickCalls' = ClickCalls
      BY <2>1 DEF ClickCalls
    <3> QED
      BY <2>1, <3>1, ChainsSame
  <2>4. Steady
    BY <2>3, ChainsNow DEF PageInv, Steady
  <2>5. ChainsBound' /\ OneChain' /\ KeepsPolling'
    BY <2>1, <2>2, <2>4, SteadyKeeps, LeftIs DEF PageInv, Chained
  <2>6. ClosedIsQuiet' /\ InCharge'
    BY <2>1, <2>2, <2>4, QuietKeeps, InChargeSame DEF PageInv, Chained
  <2>7. Covers' /\ Corridors'
    BY <2>1, CoversSame, CorridorsSame DEF PageInv, Told
  <2> QED
    BY <2>2, <2>5, <2>6, <2>7 DEF PageInv, Chained
<1> QED
  BY <1>1, <1>2, <1>3, <1>4, <1>5, <1>6, <1>7, <1>8, <1>9, <1>10, <1>11, <1>12, <1>13 DEF Next

LEMMA PageSafe == Spec => []PageInv
<1> QED
  BY PageInitial, PageStep, PTL DEF Spec

(* A page that is open and may work asks for the status, in one chain.        *)
THEOREM PollsOnceCorrect == Spec => []PollsOnce
<1>1. PageInv => PollsOnce
  BY DEF PageInv, Typed, Chained, PollsOnce
<1> QED
  BY <1>1, PageSafe, PTL

(* One user at most is let work, the pages told of another are covered, and   *)
(* the page of the one at work is not covered for good.                       *)
THEOREM OneAtWorkCorrect == Spec => []OneAtWork
<1>1. PageInv => OneAtWork
  <2> SUFFICES ASSUME PageInv PROVE OneAtWork
    OBVIOUS
  <2>1. OneInCharge
    <3> SUFFICES ASSUME "silent" \notin marks PROVE Cardinality(admitted) <= 1
      BY DEF OneInCharge
    <3>1. admitted \in SUBSET {current}
      BY DEF PageInv, Typed, TypeOK, Chained, InCharge
    <3>2. IsFiniteSet({current}) /\ Cardinality({current}) = 1
      BY FS_Singleton
    <3> QED
      BY <3>1, <3>2, FS_Subset
  <2>2. OverlayLifts
    BY DEF PageInv, Covers, CoverEnds, OverlayLifts
  <2> QED
    BY <2>1, <2>2 DEF PageInv, Covers, OneAtWork
<1> QED
  BY <1>1, PageSafe, PTL

(* Corridor, detector file, table and simulation stay those of one another.   *)
THEOREM CorridorKeptCorrect == Spec => []CorridorKept
<1>1. PageInv => CorridorKept
  <2> SUFFICES ASSUME PageInv PROVE CorridorKept
    OBVIOUS
  <2>1. TableIsCorridor
    BY DEF PageInv, Corridors, TableLoaded, TableIsCorridor, Fetching, Table
  <2> QED
    BY <2>1 DEF PageInv, Corridors, CorridorKept
<1> QED
  BY <1>1, PageSafe, PTL
===============================================================================

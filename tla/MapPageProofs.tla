---------------------------- MODULE MapPageProofs ----------------------------
(***************************************************************************)
(* Proofs about the control map (MapPage).  Whatever the user does, the     *)
(* variables keep their types (MapTyped).  As long as no mode was left while *)
(* something was under way, the handlers, the dialogs, the overlays, the     *)
(* requests and the timers of a mode go together (Hands), at most one request *)
(* of each kind but loads is not answered and it is about what is selected   *)
(* (Data).  From the moment a mode was left too early the second half says    *)
(* nothing: so do the properties.  What is counted (PageCounted) holds        *)
(* whatever the user does: the queue stands for loads under way and failed,   *)
(* and each timer goes back to something the user asked for.                  *)
(***************************************************************************)
EXTENDS MapPage, FiniteSetTheorems, WellFoundedInduction, TLAPS

Reqs == BagToSet(flight)
Kinds == {"load", "edit", "delete", "lane", "add"}
Feature == [ctrl : Ctrls, type : Types, gone : BOOLEAN]

(* What a request names, by its kind.                                         *)
GoodAsk(r) ==
  /\ r.what \in Kinds
  /\ r.what = "load" => r.type \in Types /\ r.of \in Tiles
  /\ r.what \in {"edit", "delete"} => r.ctrl \in Ctrls
  /\ r.what = "lane" => r.of \in Lanes

(* The types of the variables the handlers depend on.                         *)
MapTyped ==
  /\ mode \in Modes /\ clicks \in [Dialogs -> Nat] /\ timers \in [Dialogs -> Nat]
  /\ dlg \subseteq Dialogs /\ cover \subseteq Dialogs
  /\ lane \in Lanes \cup {None} /\ lanes \in [Lanes -> {"unknown", "processing", "known"}]
  /\ addType \in Types \cup {None} /\ loadType \in Types \cup {None}
  /\ features \in Seq(Feature) /\ on \subseteq DOMAIN features
  /\ selected \in {None} \cup DOMAIN features
  /\ tiles \in [Types -> SUBSET Tiles] /\ view \in Views
  /\ live \subseteq Ctrls /\ IsFiniteSet(live)
  /\ \A r \in Reqs : GoodAsk(r) /\ flight[r] \in Nat \ {0}
  /\ "LoadCtrls" \in listening => loadType \in Types

(* A dialog is open, and a request under way, in the mode they belong to only. *)
Placed ==
  /\ "edit" \in dlg => mode \in {"add", "edit"}
  /\ "delete" \in dlg => mode = "delete"
  /\ Underway("edit") => mode = "edit"
  /\ Underway("delete") => mode = "delete"
  /\ Underway("add") \/ Underway("lane") => mode = "add"

(* An overlay is up from the request to the timer that its answer sets.       *)
Covered ==
  /\ cover \subseteq dlg
  /\ "edit" \in cover <=> Underway("edit") \/ Underway("add") \/ timers["edit"] = 1
  /\ "delete" \in cover <=> Underway("delete") \/ timers["delete"] = 1
  /\ Underway("edit") \/ Underway("add") => timers["edit"] = 0
  /\ Underway("delete") => timers["delete"] = 0
  /\ timers["edit"] \in {0, 1} /\ timers["delete"] \in {0, 1}

(* Edit mode: the dialog is open on a feature, or a click is awaited, or the   *)
(* escape key has closed the dialog.                                          *)
EditMode ==
  mode = "edit" =>
    \/ "edit" \in dlg /\ "Hover" \notin listening /\ clicks["edit"] = 0 /\ selected # None
    \/ "edit" \notin dlg /\ "Hover" \in listening /\ clicks["edit"] = 1 /\ selected = None
    \/ "edit" \notin dlg /\ "Hover" \notin listening /\ clicks["edit"] = 0 /\ "escape" \in marks

(* Delete mode: the answer puts the click back before the timer closes the     *)
(* dialog, in between the click may open it again.                            *)
DeleteMode ==
  mode = "delete" =>
    /\ "delete" \in dlg <=> selected # None
    /\ \/ "Hover" \in listening /\ clicks["delete"] = 1 /\ ("delete" \in dlg => timers["delete"] = 1)
       \/ /\ "Hover" \notin listening /\ clicks["delete"] = 0
          /\ "delete" \in dlg \/ {"cancel", "reopen"} \cap marks # {}
          /\ timers["delete"] = 1 => "reopen" \in marks

Waits == "StartLanePoly" \in listening \/ "EndLanePoly" \in listening
OnKnown == lane # None /\ lanes[lane] = "known"

(* Add mode: a click, the geometry of a lane or an answer is awaited.         *)
AddMode ==
  mode = "add" =>
    /\ Underway("lane") => ~Waits
    /\ "EndLanePoly" \in listening => OnKnown
    /\ "edit" \in dlg /\ timers["edit"] = 0 => ~Waits /\ ~Underway("lane") /\ OnKnown
    /\ addType = None => ~Waits /\ ~Underway("lane") /\ "edit" \notin dlg
    /\ addType # None /\ ("edit" \notin dlg \/ timers["edit"] = 1)
         => \/ Waits \/ \E l \in Lanes : lanes[l] = "processing"
            \/ {"escape", "reopen", "refused"} \cap marks # {}

NoneElse == mode \notin Dialogs => selected = None

Hands == Placed /\ Covered /\ EditMode /\ DeleteMode /\ AddMode /\ NoneElse /\ OwnListeners

(* One request of each kind but loads.                                        *)
SoleCalls ==
  \A r \in Reqs : r.what # "load" => flight[r] = 1 /\ \A q \in Reqs : q.what = r.what => q = r

(* It is about what is selected.                                              *)
Aimed ==
  \A r \in Reqs :
    /\ r.what \in {"edit", "delete"} => selected # None /\ r.ctrl = features[selected].ctrl
    /\ r.what = "lane" => r.of = lane

(* What is loaded, on and edited has the type chosen.                         *)
OneType ==
  "retype" \in marks \/
    /\ \A r \in Reqs : r.what = "load" => r.type = loadType
    /\ \A i \in on : features[i].type = loadType
    /\ mode = "edit" /\ "edit" \in dlg => features[selected].type = loadType
    /\ \A r \in Reqs : r.what = "edit" => r.type = TypeOf[r.ctrl]

FeatureTypes == \A i \in DOMAIN features : features[i].type = TypeOf[features[i].ctrl]

(* Until an addition each tile is loaded once for each type, after which the   *)
(* controls in it are there, once, and emptied when they are deleted.         *)
Asked(type, tile) == \E r \in Reqs : r.what = "load" /\ r.type = type /\ r.of = tile
Once ==
  "added" \in marks \/
    /\ ~reload
    /\ \A r \in Reqs : r.what = "load" =>
         /\ flight[r] = 1 /\ r.of \in tiles[r.type]
         /\ r = Ask("load", r.type, None, r.of)
    /\ \A i \in DOMAIN features :
         LET c == features[i].ctrl IN
         /\ TileOf[c] \in tiles[features[i].type] /\ ~Asked(features[i].type, TileOf[c])
         /\ features[i].gone => c \notin live
         /\ \A j \in DOMAIN features : features[j].ctrl = c => i = j
    /\ mode = "edit" /\ "edit" \in dlg => ~features[selected].gone

Data == SoleCalls /\ Aimed /\ OneType /\ FeatureTypes /\ Once

MapInv == MapTyped /\ (Hasty \/ (Hands /\ Data))

-----------------------------------------------------------------------------
(* Requests sent and answered.                                                *)

(* What a set of requests, each sent once, adds to those under way.           *)
LEMMA BagAdded ==
  ASSUME NEW B, NEW S
  PROVE  /\ BagToSet(B (+) SetToBag(S)) = BagToSet(B) \cup S
         /\ \A x \in BagToSet(B) \cup S :
              (B (+) SetToBag(S))[x] = (IF x \in BagToSet(B) THEN B[x] ELSE 0) + (IF x \in S THEN 1 ELSE 0)
<1> DEFINE C == SetToBag(S)
<1>1. DOMAIN C = S /\ \A x \in S : C[x] = 1
  BY DEF SetToBag
<1> HIDE DEF C
<1>2. B (+) C = [e \in (DOMAIN B) \cup (DOMAIN C) |->
             (IF e \in DOMAIN B THEN B[e] ELSE 0) + (IF e \in DOMAIN C THEN C[e] ELSE 0)]
  BY DEF (+)
<1>3. BagToSet(B (+) C) = BagToSet(B) \cup S
  BY <1>1, <1>2 DEF BagToSet
<1>4. \A x \in BagToSet(B) \cup S :
              (B (+) C)[x] = (IF x \in BagToSet(B) THEN B[x] ELSE 0) + (IF x \in S THEN 1 ELSE 0)
  BY <1>1, <1>2 DEF BagToSet
<1> QED BY <1>3, <1>4 DEF C

(* What an answer takes from the requests under way.                          *)
LEMMA BagTook ==
  ASSUME NEW B, NEW r \in BagToSet(B), \A x \in BagToSet(B) : B[x] \in Nat \ {0}
  PROVE  /\ BagToSet(B (-) SetToBag({r})) = (IF B[r] = 1 THEN BagToSet(B) \ {r} ELSE BagToSet(B))
         /\ \A x \in BagToSet(B) : x # r => (B (-) SetToBag({r}))[x] = B[x]
         /\ B[r] # 1 => (B (-) SetToBag({r}))[r] = B[r] - 1
<1> DEFINE C == SetToBag({r})
           D == [e \in DOMAIN B |-> IF e \in DOMAIN C THEN B[e] - C[e] ELSE B[e]]
<1>1. DOMAIN C = {r} /\ C[r] = 1
  BY DEF SetToBag
<1> HIDE DEF C
<1>2. B (-) C = [e \in {d \in DOMAIN D : D[d] > 0} |-> D[e]]
  BY DEF (-)
<1>3. DOMAIN D = DOMAIN B /\ D[r] = B[r] - 1 /\ \A x \in DOMAIN B : x # r => D[x] = B[x]
  BY <1>1 DEF BagToSet
<1> HIDE DEF D
<1>4. {d \in DOMAIN D : D[d] > 0} = (IF B[r] = 1 THEN BagToSet(B) \ {r} ELSE BagToSet(B))
  BY <1>3 DEF BagToSet
<1>5. BagToSet(B (-) C) = (IF B[r] = 1 THEN BagToSet(B) \ {r} ELSE BagToSet(B))
  BY <1>2, <1>4 DEF BagToSet
<1>6. \A x \in BagToSet(B (-) C) : (B (-) C)[x] = D[x]
  BY <1>2 DEF BagToSet
<1>7. BagToSet(B) = DOMAIN B
  BY DEF BagToSet
<1> QED BY <1>3, <1>5, <1>6, <1>7 DEF C

(* After an answer the other requests are as they were.                       *)
LEMMA TookFlight ==
  ASSUME MapTyped, NEW r \in Reqs, flight' = Took(r)
  PROVE  /\ Reqs' = (IF flight[r] = 1 THEN Reqs \ {r} ELSE Reqs)
         /\ \A q \in Reqs : q # r => flight'[q] = flight[q]
         /\ flight[r] # 1 => flight'[r] = flight[r] - 1
<1>1. \A x \in BagToSet(flight) : flight[x] \in Nat \ {0}
  BY DEF MapTyped, Reqs
<1> QED BY <1>1, BagTook DEF Reqs, Took

(* The requests under way after some were sent.                               *)
LEMMA SentFlight ==
  ASSUME NEW S, flight' = flight (+) SetToBag(S)
  PROVE  /\ Reqs' = Reqs \cup S
         /\ \A q \in Reqs \cup S :
              flight'[q] = (IF q \in Reqs THEN flight[q] ELSE 0) + (IF q \in S THEN 1 ELSE 0)
BY BagAdded DEF Reqs

(* Requests stay well formed when one is answered.                            *)
LEMMA TookTyped ==
  ASSUME MapTyped, NEW r \in Reqs, flight' = Took(r)
  PROVE  \A q \in Reqs' : GoodAsk(q) /\ flight'[q] \in Nat \ {0}
<1>1. \A q \in Reqs : GoodAsk(q) /\ flight[q] \in Nat \ {0}
  BY DEF MapTyped
<1> QED BY <1>1, TookFlight

(* And when some are sent.                                                    *)
LEMMA SentTyped ==
  ASSUME MapTyped, NEW S, flight' = flight (+) SetToBag(S), \A q \in S : GoodAsk(q)
  PROVE  \A q \in Reqs' : GoodAsk(q) /\ flight'[q] \in Nat \ {0}
<1>1. \A q \in Reqs : GoodAsk(q) /\ flight[q] \in Nat \ {0}
  BY DEF MapTyped
<1> QED BY <1>1, SentFlight

(* The answer to the only request of a kind leaves none of that kind.         *)
LEMMA TookCall ==
  ASSUME MapTyped, SoleCalls, NEW r \in Reqs, r.what # "load", flight' = Took(r)
  PROVE  /\ Reqs' = Reqs \ {r} /\ \A q \in Reqs' : flight'[q] = flight[q]
         /\ Underway(r.what) /\ ~Underway(r.what)'
         /\ \A w \in Kinds : w # r.what => (Underway(w)' <=> Underway(w))
         /\ SoleCalls'
<1>1. flight[r] = 1 /\ \A q \in Reqs : q.what = r.what => q = r
  BY DEF SoleCalls
<1>2. Reqs' = Reqs \ {r} /\ \A q \in Reqs' : flight'[q] = flight[q]
  BY <1>1, TookFlight
<1>3. SoleCalls'
  BY <1>2 DEF SoleCalls
<1> QED BY <1>1, <1>2, <1>3 DEF Underway, Reqs

(* The answer to a load leaves the other kinds alone.                         *)
LEMMA TookLoad ==
  ASSUME MapTyped, NEW r \in Reqs, r.what = "load", flight' = Took(r)
  PROVE  /\ Reqs' \subseteq Reqs
         /\ \A w \in Kinds : w # "load" => (Underway(w)' <=> Underway(w))
         /\ \A q \in Reqs' : q.what # "load" => flight'[q] = flight[q]
         /\ SoleCalls => SoleCalls'
<1>1. Reqs' \subseteq Reqs /\ Reqs \ {r} \subseteq Reqs'
  BY TookFlight
<1>2. \A q \in Reqs' : q.what # "load" => flight'[q] = flight[q]
  BY <1>1, TookFlight
<1>3. ASSUME SoleCalls PROVE SoleCalls'
  BY <1>1, <1>2, <1>3 DEF SoleCalls
<1>4. \A w \in Kinds : w # "load" => (Underway(w)' <=> Underway(w))
  BY <1>1 DEF Underway, Reqs
<1> QED BY <1>1, <1>2, <1>3, <1>4

(* A request of a kind that was not under way is the only one.                *)
LEMMA SentCall ==
  ASSUME MapTyped, SoleCalls, NEW r, r.what # "load", ~Underway(r.what),
         flight' = flight (+) SetToBag({r})
  PROVE  /\ Reqs' = Reqs \cup {r} /\ r \notin Reqs
         /\ \A q \in Reqs : flight'[q] = flight[q]
         /\ Underway(r.what)'
         /\ \A w \in Kinds : w # r.what => (Underway(w)' <=> Underway(w))
         /\ SoleCalls'
<1>1. \A q \in Reqs : q.what # r.what
  BY DEF Underway, Reqs
<1>2. Reqs' = Reqs \cup {r} /\ flight'[r] = 1
  <2>1. r \in Reqs \cup {r} /\ r \notin Reqs /\ r \in {r}
    BY <1>1
  <2>2. /\ Reqs' = Reqs \cup {r}
        /\ \A q \in Reqs \cup {r} :
             flight'[q] = (IF q \in Reqs THEN flight[q] ELSE 0) + (IF q \in {r} THEN 1 ELSE 0)
    BY SentFlight
  <2> QED BY <2>1, <2>2
<1>3. \A q \in Reqs : flight[q] \in Nat
  BY DEF MapTyped
<1>4. \A q \in Reqs : flight'[q] = flight[q]
  <2>1. \A q \in Reqs : q \in Reqs \cup {r} /\ q \notin {r}
    BY <1>1
  <2>2. \A q \in Reqs \cup {r} :
          flight'[q] = (IF q \in Reqs THEN flight[q] ELSE 0) + (IF q \in {r} THEN 1 ELSE 0)
    BY SentFlight
  <2> QED BY <1>3, <2>1, <2>2
<1>5. SoleCalls'
  <2> SUFFICES ASSUME NEW p \in Reqs', p.what # "load", NEW q \in Reqs', q.what = p.what
               PROVE  flight'[p] = 1 /\ q = p
    BY <1>2, Zenon DEF SoleCalls
  <2>1. CASE p = r
    BY <1>1, <1>2, <2>1
  <2>2. CASE p \in Reqs
    BY <1>1, <1>2, <1>4, <2>2 DEF SoleCalls
  <2> QED BY <1>2, <2>1, <2>2
<1> QED BY <1>1, <1>2, <1>4, <1>5 DEF Underway, Reqs

(* Loads leave the other kinds alone.                                         *)
LEMMA SentLoads ==
  ASSUME MapTyped, NEW S, \A q \in S : q.what = "load", flight' = flight (+) SetToBag(S)
  PROVE  /\ Reqs' = Reqs \cup S
         /\ \A w \in Kinds : w # "load" => (Underway(w)' <=> Underway(w))
         /\ SoleCalls => SoleCalls'
<1>1. Reqs' = Reqs \cup S
  BY SentFlight
<1>2. \A q \in Reqs : flight[q] \in Nat
  BY DEF MapTyped
<1>3. \A q \in Reqs : q.what # "load" => flight'[q] = flight[q]
  BY <1>2, SentFlight
<1>4. ASSUME SoleCalls PROVE SoleCalls'
  BY <1>1, <1>3, <1>4 DEF SoleCalls
<1>5. \A w \in Kinds : w # "load" => (Underway(w)' <=> Underway(w))
  BY <1>1 DEF Underway, Reqs
<1> QED BY <1>1, <1>4, <1>5

(* Where no request is sent or answered.                                      *)
LEMMA SameFlight ==
  ASSUME flight' = flight
  PROVE  Reqs' = Reqs /\ (\A w \in Kinds : Underway(w)' <=> Underway(w)) /\ (SoleCalls => SoleCalls')
BY DEF Reqs, Underway, SoleCalls

(* Nobody is cut short: nothing is under way and no timer runs.               *)
LEMMA NothingUnderway ==
  ASSUME MapTyped, ~CuttingShort
  PROVE  /\ \A w \in Kinds : ~Underway(w)
         /\ timers["edit"] = 0 /\ timers["delete"] = 0 /\ Reqs = {}
<1>1. timers["edit"] \in Nat /\ timers["delete"] \in Nat
  BY DEF MapTyped, Dialogs
<1>2. /\ ~Underway("add") /\ ~Underway("edit") /\ ~Underway("delete")
      /\ ~(timers["edit"] > 0) /\ ~(timers["delete"] > 0)
  BY DEF CuttingShort, Outstanding, DialogOf
<1>3. \A w \in Kinds : ~Underway(w)
  BY <1>2 DEF CuttingShort, Kinds
<1>4. Reqs = {}
  BY <1>3 DEF MapTyped, GoodAsk, Underway, Reqs
<1> QED BY <1>1, <1>2, <1>3, <1>4

(* A dialog that is not closed early has nothing to come.                     *)
LEMMA NothingEarly ==
  ASSUME MapTyped, NEW d \in Dialogs, ~Early(d)
  PROVE  /\ timers[d] = 0
         /\ d = "edit" => ~Underway("edit") /\ ~Underway("add")
         /\ d = "delete" => ~Underway("delete")
<1>1. timers[d] \in Nat
  BY DEF MapTyped
<1>2. \A m \in {"add", "edit", "delete"} : DialogOf(m) = d => ~Underway(m) /\ ~(timers[DialogOf(m)] > 0)
  BY DEF Early, Outstanding
<1>3. DialogOf("add") = "edit" /\ DialogOf("edit") = "edit" /\ DialogOf("delete") = "delete"
  BY DEF DialogOf
<1> QED BY <1>1, <1>2, <1>3 DEF Dialogs

-----------------------------------------------------------------------------
(* Types.                                                                     *)

(* The sequence of a finite set has each of its members once.                 *)
LEMMA SeqOfSet ==
  ASSUME NEW S, IsFiniteSet(S)
  PROVE  /\ Cardinality(S) \in Nat
         /\ SetToSeq(S) \in [1..Cardinality(S) -> S]
         /\ \A a, b \in 1..Cardinality(S) : SetToSeq(S)[a] = SetToSeq(S)[b] => a = b
<1>1. Cardinality(S) \in Nat /\ ExistsBijection(1..Cardinality(S), S)
  BY FS_CardinalityType
<1>2. PICK f : f \in Bijection(1..Cardinality(S), S)
  BY <1>1 DEF ExistsBijection
<1>3. f \in [1..Cardinality(S) -> S] /\ IsInjective(f)
  BY <1>2 DEF Bijection, Injection, IsInjective
<1>4. SetToSeq(S) \in [1..Cardinality(S) -> S] /\ IsInjective(SetToSeq(S))
  BY <1>3 DEF SetToSeq
<1>5. \A a, b \in 1..Cardinality(S) : SetToSeq(S)[a] = SetToSeq(S)[b] => a = b
  BY <1>4 DEF IsInjective
<1> QED BY <1>1, <1>4, <1>5

(* What a load brings: the controls in force of its type in its tile.         *)
Found(r) == {c \in live : TypeOf[c] = r.type /\ TileOf[c] = r.of}
Brought(r) == LET found == SetToSeq(Found(r))
              IN [k \in DOMAIN found |-> [ctrl |-> found[k], type |-> r.type, gone |-> FALSE]]

(* They are features of that type, each control once.                         *)
LEMMA BroughtFeatures ==
  ASSUME MapTyped, NEW r, r.type \in Types
  PROVE  /\ Brought(r) \in Seq(Feature)
         /\ \A k \in DOMAIN Brought(r) :
              /\ Brought(r)[k].ctrl \in Found(r) /\ Brought(r)[k].type = r.type /\ ~Brought(r)[k].gone
              /\ \A j \in DOMAIN Brought(r) : Brought(r)[j].ctrl = Brought(r)[k].ctrl => j = k
<1> DEFINE n == Cardinality(Found(r))
           found == SetToSeq(Found(r))
<1>1. IsFiniteSet(Found(r))
  BY FS_Subset DEF MapTyped, Found
<1>2. /\ n \in Nat /\ found \in [1..n -> Found(r)]
      /\ \A a, b \in 1..n : found[a] = found[b] => a = b
  BY <1>1, SeqOfSet
<1>3. Found(r) \subseteq Ctrls
  BY DEF Found, MapTyped
<1>4. Brought(r) = [k \in 1..n |-> [ctrl |-> found[k], type |-> r.type, gone |-> FALSE]]
  BY <1>2 DEF Brought
<1> HIDE DEF n, found
<1>5. Brought(r) \in [1..n -> Feature]
  BY <1>2, <1>3, <1>4 DEF Feature
<1>6. Brought(r) \in Seq(Feature)
  BY <1>2, <1>5, SMT
<1> QED BY <1>2, <1>4, <1>6

(* What the answer to a load does to the features.                            *)
LEMMA DoneLoadBrings ==
  ASSUME MapTyped, NEW r \in Reqs, DoneLoadCtrls(r)
  PROVE  /\ features' = features \o Brought(r)
         /\ features' \in Seq(Feature) /\ Len(features') = Len(features) + Len(Brought(r))
         /\ \A i \in DOMAIN features : i \in DOMAIN features' /\ features'[i] = features[i]
         /\ \A i \in DOMAIN features' : i \notin DOMAIN features =>
              i - Len(features) \in DOMAIN Brought(r) /\ features'[i] = Brought(r)[i - Len(features)]
<1>1. r.type \in Types
  BY DEF DoneLoadCtrls, MapTyped, GoodAsk
<1>2. features \in Seq(Feature) /\ Brought(r) \in Seq(Feature)
  BY <1>1, BroughtFeatures DEF MapTyped
<1>3. features' = features \o Brought(r)
  BY DEF DoneLoadCtrls, Brought, Found
<1> QED BY <1>2, <1>3

(* What is known of a feature.                                                *)
LEMMA FeatureAt ==
  ASSUME MapTyped, NEW i \in DOMAIN features
  PROVE  /\ features[i] \in Feature /\ features[i].ctrl \in Ctrls /\ features[i].type \in Types
         /\ i \in 1..Len(features) /\ i \in Nat /\ i # None
<1>1. features \in Seq(Feature) /\ features[i] \in Feature /\ i \in 1..Len(features)
  BY DEF MapTyped
<1>2. i # None
  BY <1>1, MapAssumption DEF MapAssumption
<1> QED BY <1>1, <1>2 DEF Feature

(* A feature is changed in place.                                             *)
LEMMA FeatureChanged ==
  ASSUME MapTyped, NEW i \in DOMAIN features, NEW f \in Feature,
         features' = [features EXCEPT ![i] = f]
  PROVE  /\ features' \in Seq(Feature) /\ DOMAIN features' = DOMAIN features /\ Len(features') = Len(features)
         /\ features'[i] = f /\ \A j \in DOMAIN features : j # i => features'[j] = features[j]
<1>1. features \in Seq(Feature)
  BY DEF MapTyped
<1> QED BY <1>1

(* The answers to an edit and a deletion change what is selected.             *)
LEMMA SelectedChanged ==
  ASSUME MapTyped, selected # None
  PROVE  /\ \A c \in Ctrls : features' = [features EXCEPT ![selected].ctrl = c] =>
              /\ features' \in Seq(Feature) /\ DOMAIN features' = DOMAIN features
              /\ features'[selected] = [features[selected] EXCEPT !.ctrl = c]
              /\ \A j \in DOMAIN features : j # selected => features'[j] = features[j]
         /\ features' = [features EXCEPT ![selected].gone = TRUE] =>
              /\ features' \in Seq(Feature) /\ DOMAIN features' = DOMAIN features
              /\ features'[selected] = [features[selected] EXCEPT !.gone = TRUE]
              /\ \A j \in DOMAIN features : j # selected => features'[j] = features[j]
<1>1. selected \in DOMAIN features /\ features[selected] \in Feature
  BY FeatureAt DEF MapTyped
<1>2. ASSUME NEW c \in Ctrls PROVE [features[selected] EXCEPT !.ctrl = c] \in Feature
  BY <1>1 DEF Feature
<1>3. [features[selected] EXCEPT !.gone = TRUE] \in Feature
  BY <1>1 DEF Feature
<1>4. ASSUME NEW c \in Ctrls, features' = [features EXCEPT ![selected].ctrl = c]
      PROVE  features' = [features EXCEPT ![selected] = [features[selected] EXCEPT !.ctrl = c]]
  BY <1>4
<1>5. ASSUME features' = [features EXCEPT ![selected].gone = TRUE]
      PROVE  features' = [features EXCEPT ![selected] = [features[selected] EXCEPT !.gone = TRUE]]
  BY <1>5
<1> QED BY <1>1, <1>2, <1>3, <1>4, <1>5, FeatureChanged

(* Every step keeps the types.                                                *)
LEMMA MapTypedStep ==
  ASSUME MapTyped, [Next]_vars
  PROVE  MapTyped'
<1>1. ASSUME UNCHANGED vars PROVE MapTyped'
  BY <1>1, SameFlight DEF MapTyped, Reqs, handlers, screen, adding, loading, shown, net, vars
<1>2. ASSUME Leave PROVE MapTyped'
  BY <1>2, SameFlight
    DEF MapTyped, Reqs, handlers, screen, adding, loading, shown, net, Leave, ResetMode,
        ResetListeners, OffFirst, ResetAllLayers, Modes, Dialogs, PlainClicks, PlainMoves
<1>3. ASSUME FirstWx PROVE MapTyped'
  BY <1>3, SameFlight DEF MapTyped, Reqs, handlers, screen, adding, loading, shown, net, FirstWx
<1>4. ASSUME EndWx PROVE MapTyped'
  BY <1>4, SameFlight
    DEF MapTyped, Reqs, handlers, screen, adding, loading, shown, net, EndWx, ResetMode,
        ResetListeners, Modes
<1>5. ASSUME CancelEdit PROVE MapTyped'
  BY <1>5, SameFlight
    DEF MapTyped, Reqs, handlers, screen, adding, loading, shown, net, CancelEdit,
        CloseEditDialog, Deselect, BackToEdit, Dialogs
<1>6. ASSUME CancelAdd PROVE MapTyped'
  BY <1>6, SameFlight
    DEF MapTyped, Reqs, handlers, screen, adding, loading, shown, net, CancelAdd, CloseEditDialog,
        Deselect, BackToEdit, Redraw, Dialogs
<1>7. ASSUME EscapeEdit PROVE MapTyped'
  BY <1>7, SameFlight DEF MapTyped, Reqs, handlers, screen, adding, loading, shown, net, EscapeEdit
<1>8. ASSUME CancelDelete PROVE MapTyped'
  BY <1>8, SameFlight
    DEF MapTyped, Reqs, handlers, screen, adding, loading, shown, net, CancelDelete,
        CloseDeleteDialog, Deselect
<1>9. ASSUME EndEdit PROVE MapTyped'
  BY <1>9, SameFlight
    DEF MapTyped, Reqs, handlers, screen, adding, loading, shown, net, EndEdit, CloseEditDialog,
        Deselect, BackToEdit, Dialogs
<1>10. ASSUME EndDelete PROVE MapTyped'
  BY <1>10, SameFlight
    DEF MapTyped, Reqs, handlers, screen, adding, loading, shown, net, EndDelete,
        CloseDeleteDialog, Deselect, Dialogs
<1>11. ASSUME EndLanePoly PROVE MapTyped'
  BY <1>11, SameFlight
    DEF MapTyped, Reqs, handlers, screen, adding, loading, shown, net, EndLanePoly, Dialogs
<1>12. ASSUME NEW m \in Modes, Start(m) PROVE MapTyped'
  BY <1>12, SameFlight
    DEF MapTyped, Reqs, handlers, screen, adding, loading, shown, net, Start, HandlersOf,
        OffFirst, ResetListeners, ResetAllLayers, Modes, Dialogs
<1>13. ASSUME NEW f \in on, ClickEdit(f) PROVE MapTyped'
  BY <1>13, SameFlight
    DEF MapTyped, Reqs, handlers, screen, adding, loading, shown, net, ClickEdit, Select,
        OffFirst, Dialogs
<1>14. ASSUME NEW f \in on, ClickDelete(f) PROVE MapTyped'
  BY <1>14, SameFlight
    DEF MapTyped, Reqs, handlers, screen, adding, loading, shown, net, ClickDelete, Select,
        OffFirst, Dialogs
<1>15. ASSUME NEW t \in Types, SetType(t) PROVE MapTyped'
  BY <1>15, SameFlight
    DEF MapTyped, Reqs, handlers, screen, adding, loading, shown, net, SetType, Redraw
<1>16. ASSUME SaveEdit, selected # None PROVE MapTyped'
  <2>1. flight' = flight \/ flight' = flight (+) SetToBag({Ask("edit", loadType, features[selected].ctrl, None)})
    BY <1>16 DEF SaveEdit, Send
  <2>2. \A q \in {Ask("edit", loadType, features[selected].ctrl, None)} : GoodAsk(q)
    <3>1. features[selected].ctrl \in Ctrls
      BY <1>16, FeatureAt DEF MapTyped
    <3> QED BY <3>1 DEF GoodAsk, Ask, Kinds
  <2>3. \A q \in Reqs' : GoodAsk(q) /\ flight'[q] \in Nat \ {0}
    BY <2>1, <2>2, SentTyped, SameFlight DEF MapTyped, Reqs
  <2> QED BY <1>16, <2>3
    DEF MapTyped, handlers, screen, adding, loading, shown, net, SaveEdit, Cover, Send, Dialogs
<1>17. ASSUME SaveEdit, selected = None PROVE MapTyped'
  BY <1>17, SameFlight
    DEF MapTyped, Reqs, handlers, screen, adding, loading, shown, net, SaveEdit, Cover, Dialogs
<1>18. ASSUME DeleteControl, selected # None PROVE MapTyped'
  <2>1. flight' = flight \/ flight' = flight (+) SetToBag({Ask("delete", None, features[selected].ctrl, None)})
    BY <1>18 DEF DeleteControl, Send
  <2>2. \A q \in {Ask("delete", None, features[selected].ctrl, None)} : GoodAsk(q)
    <3>1. features[selected].ctrl \in Ctrls
      BY <1>18, FeatureAt DEF MapTyped
    <3> QED BY <3>1 DEF GoodAsk, Ask, Kinds
  <2>3. \A q \in Reqs' : GoodAsk(q) /\ flight'[q] \in Nat \ {0}
    BY <2>1, <2>2, SentTyped, SameFlight DEF MapTyped, Reqs
  <2> QED BY <1>18, <2>3
    DEF MapTyped, handlers, screen, adding, loading, shown, net, DeleteControl, Cover, Send, Dialogs
<1>19. ASSUME DeleteControl, selected = None PROVE MapTyped'
  BY <1>19, SameFlight
    DEF MapTyped, Reqs, handlers, screen, adding, loading, shown, net, DeleteControl, Cover, Dialogs
<1>20. ASSUME AddControl, flight' # flight PROVE MapTyped'
  <2>1. flight' = flight \/ flight' = flight (+) SetToBag({Ask("add", addType, None, lane)})
    BY <1>20 DEF AddControl, Send
  <2>2. \A q \in {Ask("add", addType, None, lane)} : GoodAsk(q)
    BY <1>20, FeatureAt, MapAssumption DEF MapTyped, GoodAsk, Ask, Kinds
  <2>3. \A q \in Reqs' : GoodAsk(q) /\ flight'[q] \in Nat \ {0}
    BY <2>1, <2>2, SentTyped, SameFlight DEF MapTyped, Reqs
  <2> QED BY <1>20, <2>3
    DEF MapTyped, handlers, screen, adding, loading, shown, net, AddControl, Cover, Send, Dialogs
<1>21. ASSUME AddControl, flight' = flight PROVE MapTyped'
  BY <1>21, SameFlight
    DEF MapTyped, Reqs, handlers, screen, adding, loading, shown, net, AddControl, Cover, Send,
        Dialogs
<1>22. ASSUME NEW l \in Lanes, StartLanePoly(l) PROVE MapTyped'
  <2>1. flight' = flight \/ flight' = flight (+) SetToBag({Ask("lane", None, None, l)})
    BY <1>22 DEF StartLanePoly
  <2>2. \A q \in {Ask("lane", None, None, l)} : GoodAsk(q)
    BY <1>22, FeatureAt, MapAssumption DEF MapTyped, GoodAsk, Ask, Kinds
  <2>3. \A q \in Reqs' : GoodAsk(q) /\ flight'[q] \in Nat \ {0}
    BY <2>1, <2>2, SentTyped, SameFlight DEF MapTyped, Reqs
  <2> QED BY <1>22, <2>3
    DEF MapTyped, handlers, screen, adding, loading, shown, net, StartLanePoly, Redraw, Ask
<1>23. ASSUME NEW t \in Types, StartLoadCtrls(t) PROVE MapTyped'
  <2>1. flight' = flight \/ flight' = flight (+) SetToBag({Ask("load", t, None, tile) : tile \in (IF reload THEN view ELSE view \ tiles[t])})
    BY <1>23 DEF StartLoadCtrls, LoadCtrls
  <2>2. \A q \in {Ask("load", t, None, tile) : tile \in (IF reload THEN view ELSE view \ tiles[t])} : GoodAsk(q)
    BY <1>23, FeatureAt, MapAssumption DEF MapTyped, GoodAsk, Ask, Kinds, MapAssumption
  <2>3. \A q \in Reqs' : GoodAsk(q) /\ flight'[q] \in Nat \ {0}
    BY <2>1, <2>2, SentTyped, SameFlight DEF MapTyped, Reqs
  <2>4. tiles' \in [Types -> SUBSET Tiles]
    <3>1. view \subseteq Tiles
      BY MapAssumption DEF MapAssumption, MapTyped
    <3> QED BY <1>23, <3>1 DEF StartLoadCtrls, LoadCtrls, Flagged, MapTyped
  <2> QED BY <1>23, <2>3, <2>4
    DEF MapTyped, handlers, screen, adding, loading, shown, net, StartLoadCtrls, TurnedOn
<1>24. ASSUME NEW w \in Views, DragEnd(w), "LoadCtrls" \in listening PROVE MapTyped'
  <2>1. flight' = flight \/ flight' = flight (+) SetToBag({Ask("load", loadType, None, tile) : tile \in (IF reload THEN w ELSE w \ tiles[loadType])})
    BY <1>24 DEF DragEnd, LoadCtrls
  <2>2. \A q \in {Ask("load", loadType, None, tile) : tile \in (IF reload THEN w ELSE w \ tiles[loadType])} : GoodAsk(q)
    BY <1>24, FeatureAt, MapAssumption DEF MapTyped, GoodAsk, Ask, Kinds, MapAssumption
  <2>3. \A q \in Reqs' : GoodAsk(q) /\ flight'[q] \in Nat \ {0}
    BY <2>1, <2>2, SentTyped, SameFlight DEF MapTyped, Reqs
  <2>4. tiles' \in [Types -> SUBSET Tiles]
    <3>1. w \subseteq Tiles
      BY MapAssumption DEF MapAssumption, MapTyped
    <3> QED BY <1>24, <3>1 DEF DragEnd, LoadCtrls, Flagged, MapTyped
  <2> QED BY <1>24, <2>3, <2>4
    DEF MapTyped, handlers, screen, adding, loading, shown, net, DragEnd, LoadCtrls
<1>25. ASSUME NEW w \in Views, DragEnd(w), "LoadCtrls" \notin listening PROVE MapTyped'
  BY <1>25, SameFlight DEF MapTyped, Reqs, handlers, screen, adding, loading, shown, net, DragEnd
<1>26. ASSUME NEW r \in Reqs, FailLoadCtrls(r) PROVE MapTyped'
  <2>1. \A q \in Reqs' : GoodAsk(q) /\ flight'[q] \in Nat \ {0}
    BY <1>26, TookTyped DEF FailLoadCtrls
  <2>2. GoodAsk(r)
    BY DEF MapTyped
  <2> QED BY <1>26, <2>1, <2>2
    DEF MapTyped, handlers, screen, adding, loading, shown, net, GoodAsk, FailLoadCtrls
<1>27. ASSUME NEW r \in Reqs, DoneLoadCtrls(r) PROVE MapTyped'
  <2>1. \A q \in Reqs' : GoodAsk(q) /\ flight'[q] \in Nat \ {0}
    BY <1>27, TookTyped DEF DoneLoadCtrls
  <2>2. GoodAsk(r)
    BY DEF MapTyped
  <2>3. features' \in Seq(Feature) /\ \A i \in DOMAIN features : i \in DOMAIN features'
    BY <1>27, DoneLoadBrings
  <2>4. on' \subseteq DOMAIN features'
    BY <1>27, <2>3 DEF DoneLoadCtrls, MapTyped
  <2> QED BY <1>27, <2>1, <2>2, <2>3, <2>4
    DEF MapTyped, handlers, screen, adding, loading, shown, net, GoodAsk, DoneLoadCtrls
<1>28. ASSUME NEW r \in Reqs, DoneSaveEdit(r) PROVE MapTyped'
  <2>1. \A q \in Reqs' : GoodAsk(q) /\ flight'[q] \in Nat \ {0}
    BY <1>28, TookTyped DEF DoneSaveEdit
  <2>2. GoodAsk(r)
    BY DEF MapTyped
  <2>3. IsFiniteSet(live') /\ live' \subseteq Ctrls
    BY <1>28, <2>2, FS_AddElement DEF DoneSaveEdit, MapTyped, GoodAsk
  <2>4. features' \in Seq(Feature) /\ DOMAIN features' = DOMAIN features
    BY <1>28, <2>2, SelectedChanged DEF DoneSaveEdit, MapTyped, GoodAsk, Answered
  <2> QED BY <1>28, <2>1, <2>2, <2>3, <2>4
    DEF MapTyped, handlers, screen, adding, loading, shown, net, GoodAsk, DoneSaveEdit, SetTimer,
        Dialogs, Answered, Feature
<1>29. ASSUME NEW r \in Reqs, FailSaveEdit(r) PROVE MapTyped'
  <2>1. \A q \in Reqs' : GoodAsk(q) /\ flight'[q] \in Nat \ {0}
    BY <1>29, TookTyped DEF FailSaveEdit
  <2>2. GoodAsk(r)
    BY DEF MapTyped
  <2> QED BY <1>29, <2>1, <2>2
    DEF MapTyped, handlers, screen, adding, loading, shown, net, GoodAsk, FailSaveEdit, SetTimer,
        Dialogs
<1>30. ASSUME NEW r \in Reqs, DoneDeleteControl(r) PROVE MapTyped'
  <2>1. \A q \in Reqs' : GoodAsk(q) /\ flight'[q] \in Nat \ {0}
    BY <1>30, TookTyped DEF DoneDeleteControl
  <2>2. GoodAsk(r)
    BY DEF MapTyped
  <2>3. IsFiniteSet(live') /\ live' \subseteq Ctrls
    BY <1>30, FS_Subset DEF DoneDeleteControl, MapTyped
  <2>4. features' \in Seq(Feature) /\ DOMAIN features' = DOMAIN features
    BY <1>30, SelectedChanged DEF DoneDeleteControl, MapTyped, Answered
  <2> QED BY <1>30, <2>1, <2>2, <2>3, <2>4
    DEF MapTyped, handlers, screen, adding, loading, shown, net, GoodAsk, DoneDeleteControl,
        SetTimer, Rearm, Dialogs
<1>31. ASSUME NEW r \in Reqs, FailDeleteControl(r) PROVE MapTyped'
  <2>1. \A q \in Reqs' : GoodAsk(q) /\ flight'[q] \in Nat \ {0}
    BY <1>31, TookTyped DEF FailDeleteControl
  <2>2. GoodAsk(r)
    BY DEF MapTyped
  <2> QED BY <1>31, <2>1, <2>2
    DEF MapTyped, handlers, screen, adding, loading, shown, net, GoodAsk, FailDeleteControl,
        SetTimer, Rearm, Dialogs
<1>32. ASSUME NEW r \in Reqs, GeoSuccess(r) PROVE MapTyped'
  <2>1. \A q \in Reqs' : GoodAsk(q) /\ flight'[q] \in Nat \ {0}
    BY <1>32, TookTyped DEF GeoSuccess
  <2>2. GoodAsk(r)
    BY DEF MapTyped
  <2> QED BY <1>32, <2>1, <2>2
    DEF MapTyped, handlers, screen, adding, loading, shown, net, GoodAsk, GeoSuccess
<1>33. ASSUME NEW r \in Reqs, FailLane(r) PROVE MapTyped'
  <2>1. \A q \in Reqs' : GoodAsk(q) /\ flight'[q] \in Nat \ {0}
    BY <1>33, TookTyped DEF FailLane
  <2>2. GoodAsk(r)
    BY DEF MapTyped
  <2> QED BY <1>33, <2>1, <2>2
    DEF MapTyped, handlers, screen, adding, loading, shown, net, GoodAsk, FailLane
<1>34. ASSUME NEW r \in Reqs, DoneAddControl(r) PROVE MapTyped'
  <2>1. \A q \in Reqs' : GoodAsk(q) /\ flight'[q] \in Nat \ {0}
    BY <1>34, TookTyped DEF DoneAddControl
  <2>2. GoodAsk(r)
    BY DEF MapTyped
  <2>3. IsFiniteSet(live') /\ live' \subseteq Ctrls
    BY <1>34, FS_AddElement DEF DoneAddControl, MapTyped, Nameable
  <2> QED BY <1>34, <2>1, <2>2, <2>3
    DEF MapTyped, handlers, screen, adding, loading, shown, net, GoodAsk, DoneAddControl,
        SetTimer, Dialogs, Redraw
<1>35. ASSUME NEW r \in Reqs, FailAddControl(r) PROVE MapTyped'
  <2>1. \A q \in Reqs' : GoodAsk(q) /\ flight'[q] \in Nat \ {0}
    BY <1>35, TookTyped DEF FailAddControl
  <2>2. GoodAsk(r)
    BY DEF MapTyped
  <2> QED BY <1>35, <2>1, <2>2
    DEF MapTyped, handlers, screen, adding, loading, shown, net, GoodAsk, FailAddControl,
        SetTimer, Dialogs
<1> QED
  BY <1>1, <1>2, <1>3, <1>4, <1>5, <1>6, <1>7, <1>8, <1>9, <1>10, <1>11, <1>12, <1>13, <1>14,
     <1>15, <1>16, <1>17, <1>18, <1>19, <1>20, <1>21, <1>22, <1>23, <1>24, <1>25, <1>26, <1>27, <1>28, <1>29, <1>30, <1>31, <1>32, <1>33, <1>34, <1>35
  DEF Next, User, Answer, ModeButtons, Weather, Loading, EditDialog, DeleteDialog, Drawing,
      AnswerLoad, AnswerEdit, AnswerDelete, AnswerLane, AnswerAdd, Reqs

-----------------------------------------------------------------------------
(* The handlers, the dialogs and the timers of a mode go together.            *)

(* Loads sent leave the other requests alone.                                 *)
LEMMA LoadsSent ==
  ASSUME MapTyped, NEW type, NEW window, LoadCtrls(type, window)
  PROVE  \A w \in Kinds : w # "load" => (Underway(w)' <=> Underway(w))
<1> DEFINE S == {Ask("load", type, None, tile) : tile \in (IF reload THEN window ELSE window \ tiles[type])}
<1>1. flight' = flight (+) SetToBag(S)
  BY DEF LoadCtrls
<1>2. \A q \in S : q.what = "load"
  BY DEF Ask
<1> QED BY <1>1, <1>2, SentLoads

(* Leaving a mode with nothing under way.                                   *)
LEMMA HandsLeave ==
  ASSUME MapTyped, Hands, SoleCalls, ~Hasty', Leave
  PROVE  Hands'
<1>1. /\ mode \in Modes /\ clicks \in [Dialogs -> Nat] /\ timers \in [Dialogs -> Nat]
      /\ dlg \subseteq Dialogs /\ lanes \in [Lanes -> {"unknown", "processing", "known"}]
  BY DEF MapTyped
<1>2. ~Hasty /\ ~CuttingShort /\ marks' = marks
  BY DEF Leave, Marked, Hasty
<1>3. (\A w \in Kinds : ~Underway(w) /\ ~Underway(w)') /\ timers["edit"] = 0 /\ timers["delete"] = 0
  BY <1>2, NothingUnderway, SameFlight DEF Leave, net
<1> QED BY <1>1, <1>2, <1>3
  DEF Hands, Placed, Covered, EditMode, DeleteMode, AddMode, NoneElse, OwnListeners, Waits,
      OnKnown, Hasty, Kinds, handlers, screen, adding, loading, shown, net, Modes, Dialogs, Leave, ResetMode, ResetListeners, OffFirst, ResetAllLayers, PlainClicks, PlainMoves

(* Starting one.                                                            *)
LEMMA HandsStart ==
  ASSUME MapTyped, Hands, SoleCalls, ~Hasty', NEW m \in Modes \ {"nohandlers"}, Start(m)
  PROVE  Hands'
<1>1. /\ mode \in Modes /\ clicks \in [Dialogs -> Nat] /\ timers \in [Dialogs -> Nat]
      /\ dlg \subseteq Dialogs /\ lanes \in [Lanes -> {"unknown", "processing", "known"}]
  BY DEF MapTyped
<1>2. ~Hasty /\ ~CuttingShort /\ marks' = marks
  BY DEF Start, Marked, Hasty
<1>3. (\A w \in Kinds : ~Underway(w) /\ ~Underway(w)') /\ timers["edit"] = 0 /\ timers["delete"] = 0
  BY <1>2, NothingUnderway, SameFlight DEF Start, net
<1> QED BY <1>1, <1>2, <1>3
  DEF Hands, Placed, Covered, EditMode, DeleteMode, AddMode, NoneElse, OwnListeners, Waits,
      OnKnown, Hasty, Kinds, handlers, screen, adding, loading, shown, net, Modes, Dialogs, Start, HandlersOf, ResetListeners, OffFirst, ResetAllLayers, PlainClicks, PlainMoves

(* The first click of a weather polygon.                                    *)
LEMMA HandsFirstWx ==
  ASSUME MapTyped, Hands, SoleCalls, ~Hasty', FirstWx
  PROVE  Hands'
<1>1. /\ mode \in Modes /\ clicks \in [Dialogs -> Nat] /\ timers \in [Dialogs -> Nat]
      /\ dlg \subseteq Dialogs /\ lanes \in [Lanes -> {"unknown", "processing", "known"}]
  BY DEF MapTyped
<1>2. ~Hasty /\ marks \subseteq marks'
  BY DEF FirstWx, Hasty
<1>3. \A w \in Kinds : Underway(w)' <=> Underway(w)
  BY SameFlight DEF FirstWx, net
<1> QED BY <1>1, <1>2, <1>3
  DEF Hands, Placed, Covered, EditMode, DeleteMode, AddMode, NoneElse, OwnListeners, Waits,
      OnKnown, Hasty, Kinds, handlers, screen, adding, loading, shown, net, Modes, Dialogs, FirstWx, SoleClick, PlainClicks

(* The second.                                                              *)
LEMMA HandsEndWx ==
  ASSUME MapTyped, Hands, SoleCalls, ~Hasty', EndWx
  PROVE  Hands'
<1>1. /\ mode \in Modes /\ clicks \in [Dialogs -> Nat] /\ timers \in [Dialogs -> Nat]
      /\ dlg \subseteq Dialogs /\ lanes \in [Lanes -> {"unknown", "processing", "known"}]
  BY DEF MapTyped
<1>2. ~Hasty /\ ~CuttingShort /\ marks' = marks
  BY DEF EndWx, Marked, Hasty
<1>3. (\A w \in Kinds : ~Underway(w) /\ ~Underway(w)') /\ timers["edit"] = 0 /\ timers["delete"] = 0
  BY <1>2, NothingUnderway, SameFlight DEF EndWx, net
<1> QED BY <1>1, <1>2, <1>3
  DEF Hands, Placed, Covered, EditMode, DeleteMode, AddMode, NoneElse, OwnListeners, Waits,
      OnKnown, Hasty, Kinds, handlers, screen, adding, loading, shown, net, Modes, Dialogs, EndWx, SoleClick, PlainClicks, ResetMode, ResetListeners

(* Choosing a type to load.                                                 *)
LEMMA HandsStartLoadCtrls ==
  ASSUME MapTyped, Hands, SoleCalls, ~Hasty', NEW t \in Types, StartLoadCtrls(t)
  PROVE  Hands'
<1>1. /\ mode \in Modes /\ clicks \in [Dialogs -> Nat] /\ timers \in [Dialogs -> Nat]
      /\ dlg \subseteq Dialogs /\ lanes \in [Lanes -> {"unknown", "processing", "known"}]
  BY DEF MapTyped
<1>2. ~Hasty /\ marks \subseteq marks'
  BY DEF StartLoadCtrls, Hasty, Marked
<1>3. \A w \in Kinds : w # "load" => (Underway(w)' <=> Underway(w))
  BY LoadsSent DEF StartLoadCtrls
<1> QED BY <1>1, <1>2, <1>3
  DEF Hands, Placed, Covered, EditMode, DeleteMode, AddMode, NoneElse, OwnListeners, Waits,
      OnKnown, Hasty, Kinds, handlers, screen, adding, loading, shown, net, Modes, Dialogs, StartLoadCtrls

(* Moving the window.                                                       *)
LEMMA HandsDragEnd ==
  ASSUME MapTyped, Hands, SoleCalls, ~Hasty', NEW w \in Views, DragEnd(w)
  PROVE  Hands'
<1>1. /\ mode \in Modes /\ clicks \in [Dialogs -> Nat] /\ timers \in [Dialogs -> Nat]
      /\ dlg \subseteq Dialogs /\ lanes \in [Lanes -> {"unknown", "processing", "known"}]
  BY DEF MapTyped
<1>2. ~Hasty /\ marks \subseteq marks'
  BY DEF DragEnd, Hasty
<1>3. \A k \in Kinds : k # "load" => (Underway(k)' <=> Underway(k))
  BY LoadsSent, SameFlight DEF DragEnd
<1> QED BY <1>1, <1>2, <1>3
  DEF Hands, Placed, Covered, EditMode, DeleteMode, AddMode, NoneElse, OwnListeners, Waits,
      OnKnown, Hasty, Kinds, handlers, screen, adding, loading, shown, net, Modes, Dialogs, DragEnd

(* The answer to a load.                                                    *)
LEMMA HandsDoneLoadCtrls ==
  ASSUME MapTyped, Hands, SoleCalls, ~Hasty', NEW r \in Reqs, DoneLoadCtrls(r)
  PROVE  Hands'
<1>1. /\ mode \in Modes /\ clicks \in [Dialogs -> Nat] /\ timers \in [Dialogs -> Nat]
      /\ dlg \subseteq Dialogs /\ lanes \in [Lanes -> {"unknown", "processing", "known"}]
  BY DEF MapTyped
<1>2. ~Hasty /\ marks \subseteq marks'
  BY DEF DoneLoadCtrls, Hasty
<1>3. \A w \in Kinds : w # "load" => (Underway(w)' <=> Underway(w))
  BY TookLoad DEF DoneLoadCtrls
<1> QED BY <1>1, <1>2, <1>3
  DEF Hands, Placed, Covered, EditMode, DeleteMode, AddMode, NoneElse, OwnListeners, Waits,
      OnKnown, Hasty, Kinds, handlers, screen, adding, loading, shown, net, Modes, Dialogs, DoneLoadCtrls

(* A load that fails.                                                       *)
LEMMA HandsFailLoadCtrls ==
  ASSUME MapTyped, Hands, SoleCalls, ~Hasty', NEW r \in Reqs, FailLoadCtrls(r)
  PROVE  Hands'
<1>1. /\ mode \in Modes /\ clicks \in [Dialogs -> Nat] /\ timers \in [Dialogs -> Nat]
      /\ dlg \subseteq Dialogs /\ lanes \in [Lanes -> {"unknown", "processing", "known"}]
  BY DEF MapTyped
<1>2. ~Hasty /\ marks \subseteq marks'
  BY DEF FailLoadCtrls, Hasty
<1>3. \A w \in Kinds : w # "load" => (Underway(w)' <=> Underway(w))
  BY TookLoad DEF FailLoadCtrls
<1> QED BY <1>1, <1>2, <1>3
  DEF Hands, Placed, Covered, EditMode, DeleteMode, AddMode, NoneElse, OwnListeners, Waits,
      OnKnown, Hasty, Kinds, handlers, screen, adding, loading, shown, net, Modes, Dialogs, FailLoadCtrls

(* Opening the edit dialog.                                                 *)
LEMMA HandsClickEdit ==
  ASSUME MapTyped, Hands, SoleCalls, ~Hasty', NEW f \in on, ClickEdit(f)
  PROVE  Hands'
<1>1. /\ mode \in Modes /\ clicks \in [Dialogs -> Nat] /\ timers \in [Dialogs -> Nat]
      /\ dlg \subseteq Dialogs /\ lanes \in [Lanes -> {"unknown", "processing", "known"}]
  BY DEF MapTyped
<1>2. ~Hasty /\ marks \subseteq marks'
  BY DEF ClickEdit, Hasty
<1>3. f # None /\ \A w \in Kinds : Underway(w)' <=> Underway(w)
  BY SameFlight, FeatureAt DEF ClickEdit, net, MapTyped
<1>4. mode = "edit" /\ clicks["edit"] = 1 /\ clicks'["edit"] = 0
  <2>1. clicks["edit"] \in Nat /\ clicks["edit"] > 0 /\ clicks' = [clicks EXCEPT !["edit"] = IF @ > 0 THEN @ - 1 ELSE 0]
    BY <1>1 DEF ClickEdit, OffFirst, Dialogs
  <2>2. clicks["edit"] <= (IF mode = "edit" THEN 1 ELSE 0)
    BY <1>2 DEF Hands, OwnListeners, Dialogs
  <2> QED BY <1>1, <2>1, <2>2 DEF Dialogs
<1>10. Placed'
  BY <1>1, <1>2, <1>3
    DEF Hands, Placed, Covered, EditMode, DeleteMode, AddMode, NoneElse, OwnListeners, Waits,
        OnKnown, Hasty, Kinds, handlers, screen, adding, loading, shown, net, Modes, Dialogs, ClickEdit, Select, OffFirst, PlainClicks
<1>11. Covered'
  BY <1>1, <1>2, <1>3
    DEF Hands, Placed, Covered, EditMode, DeleteMode, AddMode, NoneElse, OwnListeners, Waits,
        OnKnown, Hasty, Kinds, handlers, screen, adding, loading, shown, net, Modes, Dialogs, ClickEdit, Select, OffFirst, PlainClicks
<1>12. EditMode'
  BY <1>1, <1>2, <1>3, <1>4
    DEF Hands, Covered, Placed, EditMode, ClickEdit, Select, net, Hasty, Dialogs
<1>13. DeleteMode'
  BY <1>1, <1>2, <1>3
    DEF Hands, Placed, Covered, EditMode, DeleteMode, AddMode, NoneElse, OwnListeners, Waits,
        OnKnown, Hasty, Kinds, handlers, screen, adding, loading, shown, net, Modes, Dialogs, ClickEdit, Select, OffFirst, PlainClicks
<1>14. AddMode'
  BY <1>1, <1>2, <1>3
    DEF Hands, Placed, Covered, EditMode, DeleteMode, AddMode, NoneElse, OwnListeners, Waits,
        OnKnown, Hasty, Kinds, handlers, screen, adding, loading, shown, net, Modes, Dialogs, ClickEdit, Select, OffFirst, PlainClicks
<1>15. NoneElse'
  BY <1>1, <1>2, <1>3
    DEF Hands, Placed, Covered, EditMode, DeleteMode, AddMode, NoneElse, OwnListeners, Waits,
        OnKnown, Hasty, Kinds, handlers, screen, adding, loading, shown, net, Modes, Dialogs, ClickEdit, Select, OffFirst, PlainClicks
<1>16. OwnListeners'
  BY <1>1, <1>2, <1>3
    DEF Hands, Placed, Covered, EditMode, DeleteMode, AddMode, NoneElse, OwnListeners, Waits,
        OnKnown, Hasty, Kinds, handlers, screen, adding, loading, shown, net, Modes, Dialogs, ClickEdit, Select, OffFirst, PlainClicks
<1> QED BY <1>10, <1>11, <1>12, <1>13, <1>14, <1>15, <1>16 DEF Hands

(* Opening the delete dialog.                                               *)
LEMMA HandsClickDelete ==
  ASSUME MapTyped, Hands, SoleCalls, ~Hasty', NEW f \in on, ClickDelete(f)
  PROVE  Hands'
<1>1. /\ mode \in Modes /\ clicks \in [Dialogs -> Nat] /\ timers \in [Dialogs -> Nat]
      /\ dlg \subseteq Dialogs /\ lanes \in [Lanes -> {"unknown", "processing", "known"}]
  BY DEF MapTyped
<1>2. ~Hasty /\ marks \subseteq marks'
  BY DEF ClickDelete, Hasty
<1>3. f # None /\ \A w \in Kinds : Underway(w)' <=> Underway(w)
  BY SameFlight, FeatureAt DEF ClickDelete, net, MapTyped
<1>4. mode = "delete" /\ clicks["delete"] = 1 /\ clicks'["delete"] = 0
  <2>1. clicks["delete"] \in Nat /\ clicks["delete"] > 0 /\ clicks' = [clicks EXCEPT !["delete"] = IF @ > 0 THEN @ - 1 ELSE 0]
    BY <1>1 DEF ClickDelete, OffFirst, Dialogs
  <2>2. clicks["delete"] <= (IF mode = "delete" THEN 1 ELSE 0)
    BY <1>2 DEF Hands, OwnListeners, Dialogs
  <2> QED BY <1>1, <2>1, <2>2 DEF Dialogs
<1>10. Placed'
  BY <1>1, <1>2, <1>3
    DEF Hands, Placed, Covered, EditMode, DeleteMode, AddMode, NoneElse, OwnListeners, Waits,
        OnKnown, Hasty, Kinds, handlers, screen, adding, loading, shown, net, Modes, Dialogs, ClickDelete, Select, OffFirst, PlainClicks
<1>11. Covered'
  BY <1>1, <1>2, <1>3
    DEF Hands, Placed, Covered, EditMode, DeleteMode, AddMode, NoneElse, OwnListeners, Waits,
        OnKnown, Hasty, Kinds, handlers, screen, adding, loading, shown, net, Modes, Dialogs, ClickDelete, Select, OffFirst, PlainClicks
<1>12. EditMode'
  BY <1>1, <1>2, <1>3
    DEF Hands, Placed, Covered, EditMode, DeleteMode, AddMode, NoneElse, OwnListeners, Waits,
        OnKnown, Hasty, Kinds, handlers, screen, adding, loading, shown, net, Modes, Dialogs, ClickDelete, Select, OffFirst, PlainClicks
<1>13. DeleteMode'
  BY <1>1, <1>2, <1>3, <1>4
    DEF Hands, Covered, Placed, DeleteMode, ClickDelete, Select, net, Hasty, Dialogs
<1>14. AddMode'
  BY <1>1, <1>2, <1>3
    DEF Hands, Placed, Covered, EditMode, DeleteMode, AddMode, NoneElse, OwnListeners, Waits,
        OnKnown, Hasty, Kinds, handlers, screen, adding, loading, shown, net, Modes, Dialogs, ClickDelete, Select, OffFirst, PlainClicks
<1>15. NoneElse'
  BY <1>1, <1>2, <1>3
    DEF Hands, Placed, Covered, EditMode, DeleteMode, AddMode, NoneElse, OwnListeners, Waits,
        OnKnown, Hasty, Kinds, handlers, screen, adding, loading, shown, net, Modes, Dialogs, ClickDelete, Select, OffFirst, PlainClicks
<1>16. OwnListeners'
  BY <1>1, <1>2, <1>3
    DEF Hands, Placed, Covered, EditMode, DeleteMode, AddMode, NoneElse, OwnListeners, Waits,
        OnKnown, Hasty, Kinds, handlers, screen, adding, loading, shown, net, Modes, Dialogs, ClickDelete, Select, OffFirst, PlainClicks
<1> QED BY <1>10, <1>11, <1>12, <1>13, <1>14, <1>15, <1>16 DEF Hands

(* Cancelling an edit.                                                      *)
LEMMA HandsCancelEdit ==
  ASSUME MapTyped, Hands, SoleCalls, ~Hasty', CancelEdit
  PROVE  Hands'
<1>1. /\ mode \in Modes /\ clicks \in [Dialogs -> Nat] /\ timers \in [Dialogs -> Nat]
      /\ dlg \subseteq Dialogs /\ lanes \in [Lanes -> {"unknown", "processing", "known"}]
  BY DEF MapTyped
<1>2. ~Hasty /\ ~Early("edit") /\ marks' = marks
  BY DEF CancelEdit, Marked, Hasty
<1>3. /\ timers["edit"] = 0 /\ ~Underway("edit") /\ ~Underway("add") /\ \A w \in Kinds : Underway(w)' <=> Underway(w)
  BY <1>2, NothingEarly, SameFlight DEF CancelEdit, net, Dialogs
<1> QED BY <1>1, <1>2, <1>3
  DEF Hands, Placed, Covered, EditMode, DeleteMode, AddMode, NoneElse, OwnListeners, Waits,
      OnKnown, Hasty, Kinds, handlers, screen, adding, loading, shown, net, Modes, Dialogs, CancelEdit, CloseEditDialog, Deselect, BackToEdit, Redraw

(* Cancelling an addition.                                                  *)
LEMMA HandsCancelAdd ==
  ASSUME MapTyped, Hands, SoleCalls, ~Hasty', CancelAdd
  PROVE  Hands'
<1>1. /\ mode \in Modes /\ clicks \in [Dialogs -> Nat] /\ timers \in [Dialogs -> Nat]
      /\ dlg \subseteq Dialogs /\ lanes \in [Lanes -> {"unknown", "processing", "known"}]
  BY DEF MapTyped
<1>2. ~Hasty /\ ~Early("edit") /\ marks' = marks
  BY DEF CancelAdd, Marked, Hasty
<1>3. /\ timers["edit"] = 0 /\ ~Underway("edit") /\ ~Underway("add") /\ \A w \in Kinds : Underway(w)' <=> Underway(w)
  BY <1>2, NothingEarly, SameFlight DEF CancelAdd, net, Dialogs
<1> QED BY <1>1, <1>2, <1>3
  DEF Hands, Placed, Covered, EditMode, DeleteMode, AddMode, NoneElse, OwnListeners, Waits,
      OnKnown, Hasty, Kinds, handlers, screen, adding, loading, shown, net, Modes, Dialogs, CancelAdd, CloseEditDialog, Deselect, BackToEdit, Redraw

(* The escape key.                                                          *)
LEMMA HandsEscapeEdit ==
  ASSUME MapTyped, Hands, SoleCalls, ~Hasty', EscapeEdit
  PROVE  Hands'
<1>1. /\ mode \in Modes /\ clicks \in [Dialogs -> Nat] /\ timers \in [Dialogs -> Nat]
      /\ dlg \subseteq Dialogs /\ lanes \in [Lanes -> {"unknown", "processing", "known"}]
  BY DEF MapTyped
<1>2. ~Hasty /\ ~Early("edit") /\ marks' = marks \cup {"escape"}
  BY DEF EscapeEdit, Marked, Hasty
<1>3. /\ timers["edit"] = 0 /\ ~Underway("edit") /\ ~Underway("add") /\ \A w \in Kinds : Underway(w)' <=> Underway(w)
  BY <1>2, NothingEarly, SameFlight DEF EscapeEdit, net, Dialogs
<1> QED BY <1>1, <1>2, <1>3
  DEF Hands, Placed, Covered, EditMode, DeleteMode, AddMode, NoneElse, OwnListeners, Waits,
      OnKnown, Hasty, Kinds, handlers, screen, adding, loading, shown, net, Modes, Dialogs, EscapeEdit

(* Cancelling a deletion.                                                   *)
LEMMA HandsCancelDelete ==
  ASSUME MapTyped, Hands, SoleCalls, ~Hasty', CancelDelete
  PROVE  Hands'
<1>1. /\ mode \in Modes /\ clicks \in [Dialogs -> Nat] /\ timers \in [Dialogs -> Nat]
      /\ dlg \subseteq Dialogs /\ lanes \in [Lanes -> {"unknown", "processing", "known"}]
  BY DEF MapTyped
<1>2. ~Hasty /\ ~Early("delete") /\ marks' = marks \cup {"cancel"}
  BY DEF CancelDelete, Marked, Hasty
<1>3. /\ timers["delete"] = 0 /\ ~Underway("delete") /\ \A w \in Kinds : Underway(w)' <=> Underway(w)
  BY <1>2, NothingEarly, SameFlight DEF CancelDelete, net, Dialogs
<1> QED BY <1>1, <1>2, <1>3
  DEF Hands, Placed, Covered, EditMode, DeleteMode, AddMode, NoneElse, OwnListeners, Waits,
      OnKnown, Hasty, Kinds, handlers, screen, adding, loading, shown, net, Modes, Dialogs, CancelDelete, CloseDeleteDialog, Deselect

(* The timer of the edit dialog.                                            *)
LEMMA HandsEndEdit ==
  ASSUME MapTyped, Hands, SoleCalls, ~Hasty', EndEdit
  PROVE  Hands'
<1>1. /\ mode \in Modes /\ clicks \in [Dialogs -> Nat] /\ timers \in [Dialogs -> Nat]
      /\ dlg \subseteq Dialogs /\ lanes \in [Lanes -> {"unknown", "processing", "known"}]
  BY DEF MapTyped
<1>2. ~Hasty /\ marks \subseteq marks'
  BY DEF EndEdit, Hasty
<1>3. \A w \in Kinds : Underway(w)' <=> Underway(w)
  BY SameFlight DEF EndEdit, net
<1> QED BY <1>1, <1>2, <1>3
  DEF Hands, Placed, Covered, EditMode, DeleteMode, AddMode, NoneElse, OwnListeners, Waits,
      OnKnown, Hasty, Kinds, handlers, screen, adding, loading, shown, net, Modes, Dialogs, EndEdit, CloseEditDialog, Deselect, BackToEdit, Redraw

(* The timer of the delete dialog.                                          *)
LEMMA HandsEndDelete ==
  ASSUME MapTyped, Hands, SoleCalls, ~Hasty', EndDelete
  PROVE  Hands'
<1>1. /\ mode \in Modes /\ clicks \in [Dialogs -> Nat] /\ timers \in [Dialogs -> Nat]
      /\ dlg \subseteq Dialogs /\ lanes \in [Lanes -> {"unknown", "processing", "known"}]
  BY DEF MapTyped
<1>2. ~Hasty /\ marks \subseteq marks'
  BY DEF EndDelete, Hasty
<1>3. \A w \in Kinds : Underway(w)' <=> Underway(w)
  BY SameFlight DEF EndDelete, net
<1> QED BY <1>1, <1>2, <1>3
  DEF Hands, Placed, Covered, EditMode, DeleteMode, AddMode, NoneElse, OwnListeners, Waits,
      OnKnown, Hasty, Kinds, handlers, screen, adding, loading, shown, net, Modes, Dialogs, EndDelete, CloseDeleteDialog, Deselect

(* An edit that was made.                                                   *)
LEMMA HandsDoneSaveEdit ==
  ASSUME MapTyped, Hands, SoleCalls, ~Hasty', NEW r \in Reqs, DoneSaveEdit(r)
  PROVE  Hands'
<1>1. /\ mode \in Modes /\ clicks \in [Dialogs -> Nat] /\ timers \in [Dialogs -> Nat]
      /\ dlg \subseteq Dialogs /\ lanes \in [Lanes -> {"unknown", "processing", "known"}]
  BY DEF MapTyped
<1>2. ~Hasty /\ marks \subseteq marks'
  BY DEF DoneSaveEdit, Hasty
<1>3. /\ Underway("edit") /\ ~Underway("edit")' /\ \A w \in Kinds : w # "edit" => (Underway(w)' <=> Underway(w))
  BY TookCall DEF DoneSaveEdit
<1> QED BY <1>1, <1>2, <1>3
  DEF Hands, Placed, Covered, EditMode, DeleteMode, AddMode, NoneElse, OwnListeners, Waits,
      OnKnown, Hasty, Kinds, handlers, screen, adding, loading, shown, net, Modes, Dialogs, DoneSaveEdit, SetTimer

(* An edit that failed.                                                     *)
LEMMA HandsFailSaveEdit ==
  ASSUME MapTyped, Hands, SoleCalls, ~Hasty', NEW r \in Reqs, FailSaveEdit(r)
  PROVE  Hands'
<1>1. /\ mode \in Modes /\ clicks \in [Dialogs -> Nat] /\ timers \in [Dialogs -> Nat]
      /\ dlg \subseteq Dialogs /\ lanes \in [Lanes -> {"unknown", "processing", "known"}]
  BY DEF MapTyped
<1>2. ~Hasty /\ marks \subseteq marks'
  BY DEF FailSaveEdit, Hasty
<1>3. /\ Underway("edit") /\ ~Underway("edit")' /\ \A w \in Kinds : w # "edit" => (Underway(w)' <=> Underway(w))
  BY TookCall DEF FailSaveEdit
<1> QED BY <1>1, <1>2, <1>3
  DEF Hands, Placed, Covered, EditMode, DeleteMode, AddMode, NoneElse, OwnListeners, Waits,
      OnKnown, Hasty, Kinds, handlers, screen, adding, loading, shown, net, Modes, Dialogs, FailSaveEdit, SetTimer

(* A deletion that was made.                                                *)
LEMMA HandsDoneDeleteControl ==
  ASSUME MapTyped, Hands, SoleCalls, ~Hasty', NEW r \in Reqs, DoneDeleteControl(r)
  PROVE  Hands'
<1>1. /\ mode \in Modes /\ clicks \in [Dialogs -> Nat] /\ timers \in [Dialogs -> Nat]
      /\ dlg \subseteq Dialogs /\ lanes \in [Lanes -> {"unknown", "processing", "known"}]
  BY DEF MapTyped
<1>2. ~Hasty /\ marks \subseteq marks'
  BY DEF DoneDeleteControl, Hasty
<1>3. /\ Underway("delete") /\ ~Underway("delete")' /\ \A w \in Kinds : w # "delete" => (Underway(w)' <=> Underway(w))
  BY TookCall DEF DoneDeleteControl
<1> QED BY <1>1, <1>2, <1>3
  DEF Hands, Placed, Covered, EditMode, DeleteMode, AddMode, NoneElse, OwnListeners, Waits,
      OnKnown, Hasty, Kinds, handlers, screen, adding, loading, shown, net, Modes, Dialogs, DoneDeleteControl, SetTimer, Rearm

(* A deletion that failed.                                                  *)
LEMMA HandsFailDeleteControl ==
  ASSUME MapTyped, Hands, SoleCalls, ~Hasty', NEW r \in Reqs, FailDeleteControl(r)
  PROVE  Hands'
<1>1. /\ mode \in Modes /\ clicks \in [Dialogs -> Nat] /\ timers \in [Dialogs -> Nat]
      /\ dlg \subseteq Dialogs /\ lanes \in [Lanes -> {"unknown", "processing", "known"}]
  BY DEF MapTyped
<1>2. ~Hasty /\ marks \subseteq marks'
  BY DEF FailDeleteControl, Hasty
<1>3. /\ Underway("delete") /\ ~Underway("delete")' /\ \A w \in Kinds : w # "delete" => (Underway(w)' <=> Underway(w))
  BY TookCall DEF FailDeleteControl
<1> QED BY <1>1, <1>2, <1>3
  DEF Hands, Placed, Covered, EditMode, DeleteMode, AddMode, NoneElse, OwnListeners, Waits,
      OnKnown, Hasty, Kinds, handlers, screen, adding, loading, shown, net, Modes, Dialogs, FailDeleteControl, SetTimer, Rearm

(* The geometry of a lane.                                                  *)
LEMMA HandsGeoSuccess ==
  ASSUME MapTyped, Hands, SoleCalls, ~Hasty', NEW r \in Reqs, Aimed, GeoSuccess(r)
  PROVE  Hands'
<1>1. /\ mode \in Modes /\ clicks \in [Dialogs -> Nat] /\ timers \in [Dialogs -> Nat]
      /\ dlg \subseteq Dialogs /\ lanes \in [Lanes -> {"unknown", "processing", "known"}]
  BY DEF MapTyped
<1>2. ~Hasty /\ marks \subseteq marks'
  BY DEF GeoSuccess, Hasty
<1>3. /\ Underway("lane") /\ ~Underway("lane")' /\ \A w \in Kinds : w # "lane" => (Underway(w)' <=> Underway(w))
  BY TookCall DEF GeoSuccess
<1>4. lane = r.of /\ lane \in Lanes /\ lane # None /\ lanes'[lane] = "known" /\ lane' = lane
  BY <1>1, MapAssumption DEF GeoSuccess, Aimed, MapTyped, GoodAsk, MapAssumption
<1> QED BY <1>1, <1>2, <1>3, <1>4
  DEF Hands, Placed, Covered, EditMode, DeleteMode, AddMode, NoneElse, OwnListeners, Waits,
      OnKnown, Hasty, Kinds, handlers, screen, adding, loading, shown, net, Modes, Dialogs, GeoSuccess, Aimed, GoodAsk

(* A lane without geometry.                                                 *)
LEMMA HandsFailLane ==
  ASSUME MapTyped, Hands, SoleCalls, ~Hasty', NEW r \in Reqs, FailLane(r)
  PROVE  Hands'
<1>1. /\ mode \in Modes /\ clicks \in [Dialogs -> Nat] /\ timers \in [Dialogs -> Nat]
      /\ dlg \subseteq Dialogs /\ lanes \in [Lanes -> {"unknown", "processing", "known"}]
  BY DEF MapTyped
<1>2. ~Hasty /\ marks \subseteq marks'
  BY DEF FailLane, Hasty
<1>3. /\ Underway("lane") /\ ~Underway("lane")' /\ \A w \in Kinds : w # "lane" => (Underway(w)' <=> Underway(w))
  BY TookCall DEF FailLane
<1> QED BY <1>1, <1>2, <1>3
  DEF Hands, Placed, Covered, EditMode, DeleteMode, AddMode, NoneElse, OwnListeners, Waits,
      OnKnown, Hasty, Kinds, handlers, screen, adding, loading, shown, net, Modes, Dialogs, FailLane

(* An addition that was made.                                               *)
LEMMA HandsDoneAddControl ==
  ASSUME MapTyped, Hands, SoleCalls, ~Hasty', NEW r \in Reqs, DoneAddControl(r)
  PROVE  Hands'
<1>1. /\ mode \in Modes /\ clicks \in [Dialogs -> Nat] /\ timers \in [Dialogs -> Nat]
      /\ dlg \subseteq Dialogs /\ lanes \in [Lanes -> {"unknown", "processing", "known"}]
  BY DEF MapTyped
<1>2. ~Hasty /\ marks \subseteq marks'
  BY DEF DoneAddControl, Hasty
<1>3. /\ Underway("add") /\ ~Underway("add")' /\ \A w \in Kinds : w # "add" => (Underway(w)' <=> Underway(w))
  BY TookCall DEF DoneAddControl
<1> QED BY <1>1, <1>2, <1>3
  DEF Hands, Placed, Covered, EditMode, DeleteMode, AddMode, NoneElse, OwnListeners, Waits,
      OnKnown, Hasty, Kinds, handlers, screen, adding, loading, shown, net, Modes, Dialogs, DoneAddControl, SetTimer, Redraw

(* An addition that failed.                                                 *)
LEMMA HandsFailAddControl ==
  ASSUME MapTyped, Hands, SoleCalls, ~Hasty', NEW r \in Reqs, FailAddControl(r)
  PROVE  Hands'
<1>1. /\ mode \in Modes /\ clicks \in [Dialogs -> Nat] /\ timers \in [Dialogs -> Nat]
      /\ dlg \subseteq Dialogs /\ lanes \in [Lanes -> {"unknown", "processing", "known"}]
  BY DEF MapTyped
<1>2. ~Hasty /\ marks \subseteq marks'
  BY DEF FailAddControl, Hasty
<1>3. /\ Underway("add") /\ ~Underway("add")' /\ \A w \in Kinds : w # "add" => (Underway(w)' <=> Underway(w))
  BY TookCall DEF FailAddControl
<1> QED BY <1>1, <1>2, <1>3
  DEF Hands, Placed, Covered, EditMode, DeleteMode, AddMode, NoneElse, OwnListeners, Waits,
      OnKnown, Hasty, Kinds, handlers, screen, adding, loading, shown, net, Modes, Dialogs, FailAddControl, SetTimer

(* Saving an edit.                                                          *)
LEMMA HandsSaveEdit ==
  ASSUME MapTyped, Hands, SoleCalls, ~Hasty', selected # None, SaveEdit
  PROVE  Hands'
<1>1. /\ mode \in Modes /\ clicks \in [Dialogs -> Nat] /\ timers \in [Dialogs -> Nat]
      /\ dlg \subseteq Dialogs /\ lanes \in [Lanes -> {"unknown", "processing", "known"}]
  BY DEF MapTyped
<1>2. ~Hasty /\ marks \subseteq marks'
  BY DEF SaveEdit, Hasty
<1>3. /\ ~Underway("edit") /\ Underway("edit")' /\ \A w \in Kinds : w # "edit" => (Underway(w)' <=> Underway(w))
  <2>1. ~Underway("edit")
    BY DEF SaveEdit, Cover, Hands, Covered
  <2>2. flight' = flight (+) SetToBag({Ask("edit", loadType, features[selected].ctrl, None)}) /\ (Ask("edit", loadType, features[selected].ctrl, None)).what = "edit"
    BY DEF SaveEdit, Send, Ask
  <2> QED BY <2>1, <2>2, SentCall
<1> QED BY <1>1, <1>2, <1>3
  DEF Hands, Placed, Covered, EditMode, DeleteMode, AddMode, NoneElse, OwnListeners, Waits,
      OnKnown, Hasty, Kinds, handlers, screen, adding, loading, shown, net, Modes, Dialogs, SaveEdit, Cover

(* Asking for a deletion.                                                   *)
LEMMA HandsDeleteControl ==
  ASSUME MapTyped, Hands, SoleCalls, ~Hasty', selected # None, DeleteControl
  PROVE  Hands'
<1>1. /\ mode \in Modes /\ clicks \in [Dialogs -> Nat] /\ timers \in [Dialogs -> Nat]
      /\ dlg \subseteq Dialogs /\ lanes \in [Lanes -> {"unknown", "processing", "known"}]
  BY DEF MapTyped
<1>2. ~Hasty /\ marks \subseteq marks'
  BY DEF DeleteControl, Hasty
<1>3. /\ ~Underway("delete") /\ Underway("delete")' /\ \A w \in Kinds : w # "delete" => (Underway(w)' <=> Underway(w))
  <2>1. ~Underway("delete")
    BY DEF DeleteControl, Cover, Hands, Covered
  <2>2. flight' = flight (+) SetToBag({Ask("delete", None, features[selected].ctrl, None)}) /\ (Ask("delete", None, features[selected].ctrl, None)).what = "delete"
    BY DEF DeleteControl, Send, Ask
  <2> QED BY <2>1, <2>2, SentCall
<1> QED BY <1>1, <1>2, <1>3
  DEF Hands, Placed, Covered, EditMode, DeleteMode, AddMode, NoneElse, OwnListeners, Waits,
      OnKnown, Hasty, Kinds, handlers, screen, adding, loading, shown, net, Modes, Dialogs, DeleteControl, Cover

(* Asking for an addition.                                                  *)
LEMMA HandsAddControl ==
  ASSUME MapTyped, Hands, SoleCalls, ~Hasty', lane # None, lanes[lane] = "known", AddControl
  PROVE  Hands'
<1>1. /\ mode \in Modes /\ clicks \in [Dialogs -> Nat] /\ timers \in [Dialogs -> Nat]
      /\ dlg \subseteq Dialogs /\ lanes \in [Lanes -> {"unknown", "processing", "known"}]
  BY DEF MapTyped
<1>2. ~Hasty /\ marks \subseteq marks'
  BY DEF AddControl, Hasty
<1>3. /\ ~Underway("add") /\ Underway("add")' /\ \A w \in Kinds : w # "add" => (Underway(w)' <=> Underway(w))
  <2>1. ~Underway("add")
    BY DEF AddControl, Cover, Hands, Covered
  <2>2. flight' = flight (+) SetToBag({Ask("add", addType, None, lane)}) /\ (Ask("add", addType, None, lane)).what = "add"
    BY DEF AddControl, Send, Ask
  <2> QED BY <2>1, <2>2, SentCall
<1> QED BY <1>1, <1>2, <1>3
  DEF Hands, Placed, Covered, EditMode, DeleteMode, AddMode, NoneElse, OwnListeners, Waits,
      OnKnown, Hasty, Kinds, handlers, screen, adding, loading, shown, net, Modes, Dialogs, AddControl, Cover

(* Choosing the type to draw.                                               *)
LEMMA HandsSetType ==
  ASSUME MapTyped, Hands, SoleCalls, ~Hasty', NEW t \in Types, SetType(t)
  PROVE  Hands'
<1>1. /\ mode \in Modes /\ clicks \in [Dialogs -> Nat] /\ timers \in [Dialogs -> Nat]
      /\ dlg \subseteq Dialogs /\ lanes \in [Lanes -> {"unknown", "processing", "known"}]
  BY DEF MapTyped
<1>2. ~Hasty /\ marks \subseteq marks'
  BY DEF SetType, Hasty
<1>3. t # None /\ \A w \in Kinds : Underway(w)' <=> Underway(w)
  BY SameFlight, MapAssumption DEF SetType, net, MapAssumption
<1> QED BY <1>1, <1>2, <1>3
  DEF Hands, Placed, Covered, EditMode, DeleteMode, AddMode, NoneElse, OwnListeners, Waits,
      OnKnown, Hasty, Kinds, handlers, screen, adding, loading, shown, net, Modes, Dialogs, SetType, Redraw

(* The second click on a lane.                                              *)
LEMMA HandsEndLanePoly ==
  ASSUME MapTyped, Hands, SoleCalls, ~Hasty', EndLanePoly
  PROVE  Hands'
<1>1. /\ mode \in Modes /\ clicks \in [Dialogs -> Nat] /\ timers \in [Dialogs -> Nat]
      /\ dlg \subseteq Dialogs /\ lanes \in [Lanes -> {"unknown", "processing", "known"}]
  BY DEF MapTyped
<1>2. ~Hasty /\ marks \subseteq marks'
  BY DEF EndLanePoly, Hasty
<1>3. \A w \in Kinds : Underway(w)' <=> Underway(w)
  BY SameFlight DEF EndLanePoly, net
<1> QED BY <1>1, <1>2, <1>3
  DEF Hands, Placed, Covered, EditMode, DeleteMode, AddMode, NoneElse, OwnListeners, Waits,
      OnKnown, Hasty, Kinds, handlers, screen, adding, loading, shown, net, Modes, Dialogs, EndLanePoly, SoleClick, PlainClicks

(* The first click on a lane that is known or asked for.                    *)
LEMMA HandsStartLaneKnown ==
  ASSUME MapTyped, Hands, SoleCalls, ~Hasty', NEW l \in Lanes, lanes[l] # "unknown",
         StartLanePoly(l)
  PROVE  Hands'
<1>1. /\ mode \in Modes /\ clicks \in [Dialogs -> Nat] /\ timers \in [Dialogs -> Nat]
      /\ dlg \subseteq Dialogs /\ lanes \in [Lanes -> {"unknown", "processing", "known"}]
  BY DEF MapTyped
<1>2. ~Hasty /\ marks \subseteq marks'
  BY DEF StartLanePoly, Hasty
<1>3. l # None /\ \A w \in Kinds : Underway(w)' <=> Underway(w)
  BY SameFlight, MapAssumption DEF StartLanePoly, net, MapAssumption
<1> QED BY <1>1, <1>2, <1>3
  DEF Hands, Placed, Covered, EditMode, DeleteMode, AddMode, NoneElse, OwnListeners, Waits,
      OnKnown, Hasty, Kinds, handlers, screen, adding, loading, shown, net, Modes, Dialogs, StartLanePoly, SoleClick, PlainClicks, Redraw

(* And on one that is not.                                                  *)
LEMMA HandsStartLaneAsked ==
  ASSUME MapTyped, Hands, SoleCalls, ~Hasty', NEW l \in Lanes, lanes[l] = "unknown",
         StartLanePoly(l)
  PROVE  Hands'
<1>1. /\ mode \in Modes /\ clicks \in [Dialogs -> Nat] /\ timers \in [Dialogs -> Nat]
      /\ dlg \subseteq Dialogs /\ lanes \in [Lanes -> {"unknown", "processing", "known"}]
  BY DEF MapTyped
<1>2. ~Hasty /\ marks \subseteq marks'
  BY DEF StartLanePoly, Hasty
<1>3. /\ ~Underway("lane") /\ Underway("lane")' /\ \A w \in Kinds : w # "lane" => (Underway(w)' <=> Underway(w))
  <2>1. ~Underway("lane")
    BY DEF StartLanePoly, SoleClick, Hands, Placed, AddMode, Waits, OwnListeners, PlainClicks
  <2>2. flight' = flight (+) SetToBag({Ask("lane", None, None, l)}) /\ (Ask("lane", None, None, l)).what = "lane"
    BY DEF StartLanePoly, Send, Ask
  <2> QED BY <2>1, <2>2, SentCall
<1> QED BY <1>1, <1>2, <1>3
  DEF Hands, Placed, Covered, EditMode, DeleteMode, AddMode, NoneElse, OwnListeners, Waits,
      OnKnown, Hasty, Kinds, handlers, screen, adding, loading, shown, net, Modes, Dialogs, StartLanePoly, SoleClick, PlainClicks, Redraw

-----------------------------------------------------------------------------
(* What the requests are about, and what is on the map.                       *)

(* Steps that leave the features: what is left to show about the requests and  *)
(* the selection.                                                             *)
LEMMA DataKept ==
  ASSUME MapTyped, Data, SoleCalls', marks \subseteq marks',
         UNCHANGED <<features, loadType, tiles>>,
         on' \subseteq on,
         "added" \in marks' \/ (reload' = reload /\
           \A i \in DOMAIN features : features[i].gone /\ features[i].ctrl \notin live => features[i].ctrl \notin live'),
         \A q \in Reqs' : q.what = "load" => q \in Reqs /\ ("added" \in marks \/ flight'[q] = flight[q]),
         \A q \in Reqs' : q.what \in {"edit", "delete"} => selected' # None /\ q.ctrl = features[selected'].ctrl,
         \A q \in Reqs' : q.what = "lane" => q.of = lane',
         \A q \in Reqs' : q.what = "edit" => q \in Reqs \/ q.type = TypeOf[q.ctrl] \/ "retype" \in marks,
         mode' = "edit" /\ "edit" \in dlg' =>
           \/ mode = "edit" /\ "edit" \in dlg /\ selected' = selected
           \/ selected' \in on /\ ~features[selected'].gone
  PROVE  Data'
<1>1. Aimed'
  BY Zenon DEF Aimed
<1>2. OneType'
  <2> SUFFICES ASSUME "retype" \notin marks' PROVE OneType'
    BY DEF OneType
  <2>1. /\ \A r \in Reqs : r.what = "load" => r.type = loadType
        /\ \A i \in on : features[i].type = loadType
        /\ mode = "edit" /\ "edit" \in dlg => features[selected].type = loadType
        /\ \A r \in Reqs : r.what = "edit" => r.type = TypeOf[r.ctrl]
        /\ "retype" \notin marks
    BY DEF Data, OneType
  <2> QED BY <2>1 DEF OneType
<1>3. FeatureTypes'
  BY DEF Data, FeatureTypes
<1>4. Once'
  <2> SUFFICES ASSUME "added" \notin marks' PROVE Once'
    BY DEF Once
  <2>1. "added" \notin marks /\ ~reload' /\ tiles' = tiles /\ features' = features
    BY DEF Data, Once
  <2>2. \A r \in Reqs' : r.what = "load" =>
         /\ flight'[r] = 1 /\ r.of \in tiles[r.type] /\ r = Ask("load", r.type, None, r.of)
    BY <2>1 DEF Data, Once
  <2>3. ASSUME NEW i \in DOMAIN features
        PROVE  LET c == features[i].ctrl IN
               /\ TileOf[c] \in tiles[features[i].type] /\ ~Asked(features[i].type, TileOf[c])'
               /\ features[i].gone => c \notin live'
               /\ \A j \in DOMAIN features : features[j].ctrl = c => i = j
    <3>1. LET c == features[i].ctrl IN
               /\ TileOf[c] \in tiles[features[i].type] /\ ~Asked(features[i].type, TileOf[c])
               /\ features[i].gone => c \notin live
               /\ \A j \in DOMAIN features : features[j].ctrl = c => i = j
      BY <2>1 DEF Data, Once
    <3> QED BY <2>1, <3>1 DEF Asked
  <2>4. mode' = "edit" /\ "edit" \in dlg' => ~features[selected'].gone
    BY <2>1 DEF Data, Once
  <2>5. \A i \in DOMAIN features : ~Asked(features[i].type, TileOf[features[i].ctrl])'
    BY <2>3
  <2>6. (\A i \in DOMAIN features : ~Asked(features[i].type, TileOf[features[i].ctrl]))'
    BY <2>1, <2>5 DEF Asked
  <2> QED BY <2>1, <2>2, <2>3, <2>4, <2>6 DEF Once
<1> QED BY <1>1, <1>2, <1>3, <1>4 DEF Data

(* Steps that send and answer nothing.                                        *)
LEMMA DataQuiet ==
  ASSUME MapTyped, Data, marks \subseteq marks',
         UNCHANGED <<features, loadType, tiles, flight, reload, live>>,
         on' \subseteq on,
         selected' = selected \/ (~Underway("edit") /\ ~Underway("delete")),
         lane' = lane \/ ~Underway("lane"),
         mode' = "edit" /\ "edit" \in dlg' =>
           \/ mode = "edit" /\ "edit" \in dlg /\ selected' = selected
           \/ selected' \in on /\ ~features[selected'].gone
  PROVE  Data'
<1>1. Reqs' = Reqs /\ SoleCalls'
  BY SameFlight DEF Data
<1>2. \A q \in Reqs : q.what \in {"edit", "delete"} => selected' # None /\ q.ctrl = features[selected'].ctrl
  BY DEF Data, Aimed, Underway, Reqs
<1>3. \A q \in Reqs : q.what = "lane" => q.of = lane'
  BY DEF Data, Aimed, Underway, Reqs
<1> QED BY <1>1, <1>2, <1>3, DataKept

(* Answers that change no feature.                                            *)
LEMMA DataAnswered ==
  ASSUME MapTyped, Data, NEW r \in Reqs, flight' = Took(r),
         marks \subseteq marks', UNCHANGED <<features, on, loadType, tiles, selected, lane, mode, dlg>>,
         "added" \in marks' \/ (reload' = reload /\
           \A i \in DOMAIN features : features[i].gone /\ features[i].ctrl \notin live => features[i].ctrl \notin live')
  PROVE  Data'
<1>1. Reqs' \subseteq Reqs /\ SoleCalls'
  <2>1. CASE r.what = "load"
    BY <2>1, TookLoad DEF Data
  <2>2. CASE r.what # "load"
    BY <2>2, TookCall DEF Data
  <2> QED BY <2>1, <2>2
<1>2. \A q \in Reqs' : q.what = "load" => "added" \in marks \/ flight'[q] = flight[q]
  <2> SUFFICES ASSUME NEW q \in Reqs', q.what = "load", "added" \notin marks PROVE flight'[q] = flight[q]
    OBVIOUS
  <2>1. flight[q] = 1
    BY <1>1 DEF Data, Once
  <2>2. q # r
    BY <2>1, TookFlight
  <2> QED BY <1>1, <2>2, TookFlight
<1>3. \A q \in Reqs' : q.what \in {"edit", "delete"} => selected' # None /\ q.ctrl = features[selected'].ctrl
  BY <1>1 DEF Data, Aimed
<1>4. \A q \in Reqs' : q.what = "lane" => q.of = lane'
  BY <1>1 DEF Data, Aimed
<1> QED BY <1>1, <1>2, <1>3, <1>4, DataKept

(* A request sent about what is selected.                                     *)
LEMMA DataSent ==
  ASSUME MapTyped, Data, NEW r, r.what # "load", ~Underway(r.what),
         flight' = flight (+) SetToBag({r}),
         marks \subseteq marks', UNCHANGED <<features, on, loadType, tiles, reload, live, selected, mode, dlg>>,
         lane' = lane \/ ~Underway("lane"),
         r.what \in {"edit", "delete"} => selected # None /\ r.ctrl = features[selected].ctrl,
         r.what = "lane" => r.of = lane',
         r.what = "edit" => r.type = TypeOf[r.ctrl] \/ "retype" \in marks
  PROVE  Data'
<1>1. Reqs' = Reqs \cup {r} /\ SoleCalls' /\ \A q \in Reqs : flight'[q] = flight[q]
  BY SentCall DEF Data
<1>2. \A q \in Reqs' : q.what = "load" => q \in Reqs /\ flight'[q] = flight[q]
  BY <1>1
<1>3. \A q \in Reqs' : q.what \in {"edit", "delete"} => selected' # None /\ q.ctrl = features[selected'].ctrl
  BY <1>1 DEF Data, Aimed
<1>4. \A q \in Reqs' : q.what = "lane" => q.of = lane'
  BY <1>1 DEF Data, Aimed, Underway, Reqs
<1>5. \A q \in Reqs' : q.what = "edit" => q \in Reqs \/ q.type = TypeOf[q.ctrl] \/ "retype" \in marks
  BY <1>1
<1> QED BY <1>1, <1>2, <1>3, <1>4, <1>5, DataKept

(* Tiles asked for: none twice, and none that features come from.             *)
LEMMA LoadsOnce ==
  ASSUME MapTyped, Data, NEW type \in Types, NEW window, LoadCtrls(type, window),
         marks \subseteq marks',
         UNCHANGED <<features, live, mode, dlg, selected>>
  PROVE  Once'
<1> DEFINE S == {Ask("load", type, None, tile) : tile \in (IF reload THEN window ELSE window \ tiles[type])}
<1> SUFFICES ASSUME "added" \notin marks' PROVE Once'
  BY DEF Once
<1>1. "added" \notin marks /\ ~reload /\ ~reload'
  BY DEF Data, Once, LoadCtrls
<1>2. Reqs' = Reqs \cup S /\ \A q \in Reqs \cup S :
         flight'[q] = (IF q \in Reqs THEN flight[q] ELSE 0) + (IF q \in S THEN 1 ELSE 0)
  BY SentFlight DEF LoadCtrls
<1>3. /\ tiles' \in [Types -> SUBSET (Tiles \cup window)] /\ tiles'[type] = tiles[type] \cup window
      /\ \A t \in Types : tiles[t] \subseteq tiles'[t]
  BY DEF LoadCtrls, Flagged, MapTyped
<1>4. \A r \in Reqs : r.what = "load" =>
         flight[r] = 1 /\ r.of \in tiles[r.type] /\ r = Ask("load", r.type, None, r.of) /\ r.type \in Types
  BY <1>1 DEF Data, Once, MapTyped, GoodAsk
<1>5. \A r \in S : r.what = "load" /\ r.type = type /\ r.of \in window /\ r.of \notin tiles[type]
                   /\ r = Ask("load", r.type, None, r.of)
  BY <1>1 DEF Ask
<1> HIDE DEF S
<1>6. \A r \in Reqs' : r.what = "load" =>
         /\ flight'[r] = 1 /\ r.of \in tiles'[r.type] /\ r = Ask("load", r.type, None, r.of)
  <2> SUFFICES ASSUME NEW r \in Reqs', r.what = "load"
               PROVE  flight'[r] = 1 /\ r.of \in tiles'[r.type] /\ r = Ask("load", r.type, None, r.of)
    OBVIOUS
  <2>1. CASE r \in Reqs
    <3>1. r \notin S
      BY <1>4, <1>5, <2>1
    <3> QED BY <1>2, <1>3, <1>4, <2>1, <3>1
  <2>2. CASE r \notin Reqs
    <3>1. r \in S
      BY <1>2, <2>2
    <3> QED BY <1>2, <1>3, <1>5, <2>2, <3>1
  <2> QED BY <2>1, <2>2
<1>7. ASSUME NEW i \in DOMAIN features
      PROVE  LET c == features[i].ctrl IN
             /\ TileOf[c] \in tiles'[features[i].type] /\ ~Asked(features[i].type, TileOf[c])'
             /\ features[i].gone => c \notin live
             /\ \A j \in DOMAIN features : features[j].ctrl = c => i = j
  <2>1. LET c == features[i].ctrl IN
             /\ TileOf[c] \in tiles[features[i].type] /\ ~Asked(features[i].type, TileOf[c])
             /\ features[i].gone => c \notin live
             /\ \A j \in DOMAIN features : features[j].ctrl = c => i = j
    BY <1>1 DEF Data, Once
  <2>2. features[i].type \in Types
    BY FeatureAt
  <2> QED BY <1>2, <1>3, <1>5, <2>1, <2>2 DEF Asked
<1>8. mode' = "edit" /\ "edit" \in dlg' => ~features'[selected'].gone
  BY <1>1 DEF Data, Once
<1> QED BY <1>1, <1>6, <1>7, <1>8 DEF Once

(* Loads are asked for.                                                       *)
LEMMA DataLoads ==
  ASSUME MapTyped, Data, NEW type \in Types, NEW window, LoadCtrls(type, window),
         marks \subseteq marks',
         UNCHANGED <<features, live, mode, dlg, selected, lane>>,
         OneType'
  PROVE  Data'
<1> DEFINE S == {Ask("load", type, None, tile) : tile \in (IF reload THEN window ELSE window \ tiles[type])}
<1>1. flight' = flight (+) SetToBag(S) /\ \A q \in S : q.what = "load"
  BY DEF LoadCtrls, Ask
<1> HIDE DEF S
<1>2. Reqs' = Reqs \cup S /\ SoleCalls'
  BY <1>1, SentLoads DEF Data
<1>3. Aimed'
  BY <1>1, <1>2 DEF Data, Aimed
<1>4. FeatureTypes'
  BY DEF Data, FeatureTypes
<1> QED BY <1>2, <1>3, <1>4, LoadsOnce DEF Data

(* Choosing a type.                                                           *)
LEMMA DataStartLoadCtrls ==
  ASSUME MapTyped, Hands, Data, ~Hasty', NEW t \in Types, StartLoadCtrls(t)
  PROVE  Data'
<1> DEFINE S == {Ask("load", t, None, tile) : tile \in (IF reload THEN view ELSE view \ tiles[t])}
<1>1. LoadCtrls(t, view) /\ marks \subseteq marks' /\ UNCHANGED <<features, live, mode, dlg, selected, lane>>
  BY DEF StartLoadCtrls, Marked, adding
<1>2. OneType'
  <2> SUFFICES ASSUME "retype" \notin marks' PROVE OneType'
    BY DEF OneType
  <2>1. dlg = {} /\ ~Underway("load") /\ "retype" \notin marks /\ loadType' = t
    BY DEF StartLoadCtrls, Marked
  <2>2. flight' = flight (+) SetToBag(S)
    BY <1>1 DEF LoadCtrls
  <2>3. \A q \in S : q.what = "load" /\ q.type = t
    BY DEF Ask
  <2> HIDE DEF S
  <2>4. Reqs' = Reqs \cup S
    BY <2>2, SentFlight
  <2>5. /\ \A r \in Reqs : r.what # "load"
        /\ \A r \in Reqs : r.what = "edit" => r.type = TypeOf[r.ctrl]
    BY <2>1 DEF Data, OneType, Underway, Reqs
  <2>6. \A i \in on' : features'[i].type = t
    BY <1>1 DEF StartLoadCtrls, TurnedOn
  <2> QED BY <1>1, <2>1, <2>3, <2>4, <2>5, <2>6 DEF OneType
<1> QED BY <1>1, <1>2, DataLoads

(* Moving the window.                                                         *)
LEMMA DataDragEnd ==
  ASSUME MapTyped, Hands, Data, ~Hasty', NEW w \in Views, DragEnd(w)
  PROVE  Data'
<1>1. CASE "LoadCtrls" \notin listening
  BY <1>1, DataQuiet DEF DragEnd, handlers, adding, shown, loading
<1>2. CASE "LoadCtrls" \in listening
  <2> DEFINE S == {Ask("load", loadType, None, tile) : tile \in (IF reload THEN w ELSE w \ tiles[loadType])}
  <2>1. /\ LoadCtrls(loadType, w) /\ marks \subseteq marks' /\ loadType \in Types
        /\ UNCHANGED <<features, on, loadType, live, mode, dlg, selected, lane, marks>>
    BY <1>2 DEF DragEnd, adding, handlers, shown, MapTyped
  <2>2. flight' = flight (+) SetToBag(S)
    BY <2>1 DEF LoadCtrls
  <2>3. \A q \in S : q.what = "load" /\ q.type = loadType
    BY DEF Ask
  <2> HIDE DEF S
  <2>4. Reqs' = Reqs \cup S
    BY <2>2, SentFlight
  <2>5. OneType'
    BY <2>1, <2>3, <2>4 DEF Data, OneType
  <2> QED BY <2>1, <2>5, DataLoads
<1> QED BY <1>1, <1>2

(* The answer to a load.                                                      *)
LEMMA DataDoneLoadCtrls ==
  ASSUME MapTyped, Hands, Data, ~Hasty', NEW r \in Reqs, DoneLoadCtrls(r)
  PROVE  Data'
<1> DEFINE n == Len(features)
           B == Brought(r)
<1>1. /\ r.what = "load" /\ flight' = Took(r) /\ marks' = marks
      /\ UNCHANGED <<loadType, tiles, live, selected, mode, dlg, lane>>
      /\ reload' = (reload /\ queue' # 0)
      /\ on' = on \cup {i \in DOMAIN features' : features'[i].type = r.type}
  BY DEF DoneLoadCtrls, handlers, adding
<1>2. r.type \in Types /\ n \in Nat /\ DOMAIN features = 1..n /\ on \subseteq DOMAIN features
      /\ selected \in {None} \cup DOMAIN features
  BY <1>1 DEF MapTyped, GoodAsk
<1>3. /\ \A k \in DOMAIN B :
              /\ B[k].ctrl \in Found(r) /\ B[k].type = r.type /\ ~B[k].gone
              /\ \A j \in DOMAIN B : B[j].ctrl = B[k].ctrl => j = k
  BY <1>2, BroughtFeatures
<1>4. /\ \A i \in DOMAIN features : i \in DOMAIN features' /\ features'[i] = features[i]
      /\ \A i \in DOMAIN features' : i \notin DOMAIN features =>
              i - n \in DOMAIN B /\ features'[i] = B[i - n]
      /\ features' \in Seq(Feature)
  BY DoneLoadBrings
<1> HIDE DEF n, B
<1>5. Reqs' \subseteq Reqs /\ SoleCalls'
  BY <1>1, TookLoad DEF Data
<1>6. Aimed'
  <2> SUFFICES ASSUME NEW q \in Reqs'
               PROVE  /\ q.what \in {"edit", "delete"} => selected' # None /\ q.ctrl = features'[selected'].ctrl
                      /\ q.what = "lane" => q.of = lane'
    BY Zenon DEF Aimed
  <2>1. /\ q.what \in {"edit", "delete"} => selected # None /\ q.ctrl = features[selected].ctrl
        /\ q.what = "lane" => q.of = lane
    BY <1>5 DEF Data, Aimed
  <2> QED BY <1>1, <1>2, <1>4, <2>1
<1>7. OneType'
  <2> SUFFICES ASSUME "retype" \notin marks' PROVE OneType'
    BY DEF OneType
  <2>1. /\ \A q \in Reqs : q.what = "load" => q.type = loadType
        /\ \A i \in on : features[i].type = loadType
        /\ mode = "edit" /\ "edit" \in dlg => features[selected].type = loadType
        /\ \A q \in Reqs : q.what = "edit" => q.type = TypeOf[q.ctrl]
    BY <1>1 DEF Data, OneType
  <2>2. r.type = loadType
    BY <1>1, <2>1
  <2>3. \A i \in on' : features'[i].type = loadType
    BY <1>1, <1>2, <1>4, <2>1, <2>2
  <2>4. mode = "edit" /\ "edit" \in dlg => selected \in DOMAIN features
    BY <1>2 DEF Hands, EditMode
  <2> QED BY <1>1, <1>4, <1>5, <2>1, <2>3, <2>4 DEF OneType
<1>8. FeatureTypes'
  <2> SUFFICES ASSUME NEW i \in DOMAIN features' PROVE features'[i].type = TypeOf[features'[i].ctrl]
    BY DEF FeatureTypes
  <2>1. CASE i \in DOMAIN features
    BY <1>4, <2>1 DEF Data, FeatureTypes
  <2>2. CASE i \notin DOMAIN features
    BY <1>3, <1>4, <2>2 DEF Found
  <2> QED BY <2>1, <2>2
<1>9. Once'
  <2> SUFFICES ASSUME "added" \notin marks' PROVE Once'
    BY DEF Once
  <2>1. "added" \notin marks /\ ~reload /\ ~reload'
    BY <1>1 DEF Data, Once
  <2>2. \A q \in Reqs : q.what = "load" =>
           flight[q] = 1 /\ q.of \in tiles[q.type] /\ q = Ask("load", q.type, None, q.of)
    BY <2>1 DEF Data, Once
  <2>3. Reqs' = Reqs \ {r} /\ \A q \in Reqs' : flight'[q] = flight[q]
    BY <1>1, <2>2, TookFlight
  <2>4. \A i \in DOMAIN features :
           LET c == features[i].ctrl IN
           /\ TileOf[c] \in tiles[features[i].type] /\ ~Asked(features[i].type, TileOf[c])
           /\ features[i].gone => c \notin live
           /\ \A j \in DOMAIN features : features[j].ctrl = c => i = j
    BY <2>1 DEF Data, Once
  <2>5. \A i \in DOMAIN features : features[i].type = TypeOf[features[i].ctrl]
    BY DEF Data, FeatureTypes
  <2>6. \A i \in DOMAIN features, k \in DOMAIN B : features[i].ctrl # B[k].ctrl
    <3> SUFFICES ASSUME NEW i \in DOMAIN features, NEW k \in DOMAIN B, features[i].ctrl = B[k].ctrl
                 PROVE  FALSE
      OBVIOUS
    <3>1. features[i].type = r.type /\ TileOf[features[i].ctrl] = r.of
      BY <1>3, <2>5 DEF Found
    <3>2. Asked(features[i].type, TileOf[features[i].ctrl])
      BY <1>1, <3>1 DEF Asked
    <3> QED BY <2>4, <3>2
  <2>7. ~Asked(r.type, r.of)'
    <3>1. (r.type)' = r.type /\ (r.of)' = r.of
      OBVIOUS
    <3>2. \A q \in Reqs' : ~(q.what = "load" /\ q.type = r.type /\ q.of = r.of)
      BY <1>1, <2>2, <2>3
    <3> QED BY <3>2 DEF Asked
  <2>8. ASSUME NEW i \in DOMAIN features'
        PROVE  LET c == features'[i].ctrl IN
               /\ TileOf[c] \in tiles'[features'[i].type] /\ ~Asked(features[i].type, TileOf[features[i].ctrl])'
               /\ features'[i].gone => c \notin live'
               /\ \A j \in DOMAIN features' : features'[j].ctrl = c => i = j
    <3>1. CASE i \in DOMAIN features
      <4>1. features'[i] = features[i] /\ ~Asked(features[i].type, TileOf[features[i].ctrl])
        BY <1>4, <2>4, <3>1
      <4>2. ~Asked(features[i].type, TileOf[features[i].ctrl])'
        BY <2>3, <4>1 DEF Asked
      <4>3. \A j \in DOMAIN features' : features'[j].ctrl = features[i].ctrl => i = j
        BY <1>4, <2>4, <2>6, <3>1
      <4> QED BY <1>1, <2>4, <3>1, <4>1, <4>2, <4>3
    <3>2. CASE i \notin DOMAIN features
      <4>1. /\ i - n \in DOMAIN B /\ features'[i] = B[i - n] /\ features'[i].type = r.type
            /\ features'[i].ctrl \in Found(r) /\ ~features'[i].gone /\ i \in Nat
        BY <1>3, <1>4, <3>2
      <4>2. TileOf[features'[i].ctrl] = r.of /\ r.of \in tiles[r.type]
        BY <1>1, <2>2, <4>1 DEF Found
      <4>3. ~Asked(features[i].type, TileOf[features[i].ctrl])'
        BY <2>7, <4>1, <4>2 DEF Asked
      <4>4. ASSUME NEW j \in DOMAIN features', features'[j].ctrl = features'[i].ctrl PROVE i = j
        <5>1. j \notin DOMAIN features
          BY <1>4, <2>6, <4>1, <4>4
        <5>2. j - n \in DOMAIN B /\ features'[j] = B[j - n] /\ j \in Nat
          BY <1>4, <5>1
        <5>3. i - n = j - n
          BY <1>3, <4>1, <4>4, <5>2
        <5> QED BY <1>2, <4>1, <5>2, <5>3
      <4> QED BY <1>1, <4>1, <4>2, <4>3, <4>4
    <3> QED BY <3>1, <3>2
  <2>9. mode' = "edit" /\ "edit" \in dlg' => ~features'[selected'].gone
    <3>1. mode = "edit" /\ "edit" \in dlg => selected \in DOMAIN features /\ ~features[selected].gone
      BY <1>2, <2>1 DEF Hands, EditMode, Data, Once
    <3> QED BY <1>1, <1>4, <3>1
  <2>10. \A q \in Reqs' : q.what = "load" =>
           flight'[q] = 1 /\ q.of \in tiles'[q.type] /\ q = Ask("load", q.type, None, q.of)
    BY <1>1, <2>2, <2>3
  <2>11. (\A i \in DOMAIN features : ~Asked(features[i].type, TileOf[features[i].ctrl]))'
    BY <2>8
  <2> QED BY <2>1, <2>8, <2>9, <2>10, <2>11 DEF Once
<1> QED BY <1>5, <1>6, <1>7, <1>8, <1>9 DEF Data

(* What was hasty stays on record.                                           *)
LEMMA HastyStays ==
  ASSUME marks \subseteq marks', ~Hasty'
  PROVE  ~Hasty
BY DEF Hasty

(* Leaving a mode.                                                            *)
LEMMA DataLeave ==
  ASSUME MapTyped, Hands, Data, ~Hasty', Leave
  PROVE  Data'
<1>1. /\ ~CuttingShort /\ marks \subseteq marks' /\ on' \subseteq on /\ ~("edit" \in dlg')
      /\ UNCHANGED <<features, loadType, tiles, flight, reload, live, lane>>
  BY DEF Leave, Marked, Hasty, ResetAllLayers, ResetMode, handlers, screen, adding, loading,
     shown, net
<1>2. ~Underway("edit") /\ ~Underway("delete")
  BY <1>1, NothingUnderway DEF Kinds
<1> QED BY <1>1, <1>2, DataQuiet

(* Starting one.                                                              *)
LEMMA DataStart ==
  ASSUME MapTyped, Hands, Data, ~Hasty', NEW m \in Modes \ {"nohandlers"}, Start(m)
  PROVE  Data'
<1>1. /\ ~CuttingShort /\ marks \subseteq marks' /\ on' \subseteq on /\ ~("edit" \in dlg')
      /\ UNCHANGED <<features, loadType, tiles, flight, reload, live, lane>>
  BY DEF Start, Marked, Hasty, ResetAllLayers, ResetMode, handlers, screen, adding, loading,
     shown, net
<1>2. ~Underway("edit") /\ ~Underway("delete")
  BY <1>1, NothingUnderway DEF Kinds
<1> QED BY <1>1, <1>2, DataQuiet

(* The end of a polygon.                                                      *)
LEMMA DataEndWx ==
  ASSUME MapTyped, Hands, Data, ~Hasty', EndWx
  PROVE  Data'
<1>1. /\ ~CuttingShort /\ marks \subseteq marks' /\ on' \subseteq on /\ mode' # "edit"
      /\ UNCHANGED <<features, loadType, tiles, flight, reload, live, lane>>
  BY DEF EndWx, Marked, Hasty, ResetAllLayers, ResetMode, handlers, screen, adding, loading,
     shown, net
<1>2. ~Underway("edit") /\ ~Underway("delete")
  BY <1>1, NothingUnderway DEF Kinds
<1> QED BY <1>1, <1>2, DataQuiet

(* The start of a polygon.                                                    *)
LEMMA DataFirstWx ==
  ASSUME MapTyped, Hands, Data, ~Hasty', FirstWx
  PROVE  Data'
<1>1. UNCHANGED <<features, on, loadType, tiles, flight, reload, live, lane, mode>> /\ UNCHANGED <<selected, marks, dlg>>
  BY DEF FirstWx, handlers, screen, adding, loading, shown, net
<1> QED BY <1>1, DataQuiet

(* Cancelling an edit.                                                        *)
LEMMA DataCancelEdit ==
  ASSUME MapTyped, Hands, Data, ~Hasty', CancelEdit
  PROVE  Data'
<1>1. /\ UNCHANGED <<features, on, loadType, tiles, flight, reload, live, lane, mode>> /\ ~Early("edit") /\ marks \subseteq marks'
      /\ "edit" \notin dlg' /\ mode = "edit"
  BY DEF CancelEdit, CloseEditDialog, Deselect, Marked, Hasty, handlers, screen, adding, loading,
     shown, net
<1>2. ~Underway("edit") /\ ~Underway("delete") /\ (mode' # "edit" \/ "edit" \notin dlg')
  BY <1>1, NothingEarly DEF Hands, Placed, Dialogs
<1> QED BY <1>1, <1>2, DataQuiet

(* Cancelling an addition.                                                    *)
LEMMA DataCancelAdd ==
  ASSUME MapTyped, Hands, Data, ~Hasty', CancelAdd
  PROVE  Data'
<1>1. /\ UNCHANGED <<features, on, loadType, tiles, flight, reload, live, lane, mode>> /\ ~Early("edit") /\ marks \subseteq marks'
      /\ mode = "add"
  BY DEF CancelAdd, CloseEditDialog, Deselect, Marked, Hasty, handlers, screen, adding, loading,
     shown, net
<1>2. ~Underway("edit") /\ ~Underway("delete") /\ (mode' # "edit" \/ "edit" \notin dlg')
  BY <1>1, NothingEarly DEF Hands, Placed, Dialogs
<1> QED BY <1>1, <1>2, DataQuiet

(* Cancelling a deletion.                                                     *)
LEMMA DataCancelDelete ==
  ASSUME MapTyped, Hands, Data, ~Hasty', CancelDelete
  PROVE  Data'
<1>1. /\ UNCHANGED <<features, on, loadType, tiles, flight, reload, live, lane, mode>> /\ ~Early("delete") /\ marks \subseteq marks'
      /\ "delete" \in dlg
  BY DEF CancelDelete, CloseDeleteDialog, Deselect, Marked, Hasty, handlers, screen, adding,
     loading, shown, net
<1>2. ~Underway("edit") /\ ~Underway("delete") /\ (mode' # "edit" \/ "edit" \notin dlg')
  BY <1>1, NothingEarly DEF Hands, Placed, Dialogs
<1> QED BY <1>1, <1>2, DataQuiet

(* The escape key.                                                            *)
LEMMA DataEscapeEdit ==
  ASSUME MapTyped, Hands, Data, ~Hasty', EscapeEdit
  PROVE  Data'
<1>1. UNCHANGED <<features, on, loadType, tiles, flight, reload, live, lane, mode>> /\ UNCHANGED selected /\ marks \subseteq marks' /\ dlg' \subseteq dlg
  BY DEF EscapeEdit, Marked, handlers, screen, adding, loading, shown, net
<1> QED BY <1>1, DataQuiet

(* The timer of the edit dialog.                                              *)
LEMMA DataEndEdit ==
  ASSUME MapTyped, Hands, Data, ~Hasty', EndEdit
  PROVE  Data'
<1>1. /\ UNCHANGED <<features, on, loadType, tiles, flight, reload, live, lane, mode>> /\ timers["edit"] > 0 /\ marks' = marks
      /\ dlg' = dlg \ {"edit"}
  BY DEF EndEdit, CloseEditDialog, Deselect, handlers, screen, adding, loading, shown, net
<1>2. timers["edit"] = 1
  BY <1>1 DEF Hands, Covered
<1>3. ~Underway("edit") /\ ~Underway("delete") /\ (mode' # "edit" \/ "edit" \notin dlg')
  BY <1>1, <1>2 DEF Hands, Placed, Covered
<1> QED BY <1>1, <1>3, DataQuiet

(* The timer of the delete dialog.                                            *)
LEMMA DataEndDelete ==
  ASSUME MapTyped, Hands, Data, ~Hasty', EndDelete
  PROVE  Data'
<1>1. /\ UNCHANGED <<features, on, loadType, tiles, flight, reload, live, lane, mode>> /\ timers["delete"] > 0 /\ marks' = marks
      /\ dlg' = dlg \ {"delete"}
  BY DEF EndDelete, CloseDeleteDialog, Deselect, handlers, screen, adding, loading, shown, net
<1>2. timers["delete"] = 1
  BY <1>1 DEF Hands, Covered
<1>3. ~Underway("edit") /\ ~Underway("delete") /\ (mode' # "edit" \/ "edit" \notin dlg')
  BY <1>1, <1>2 DEF Hands, Placed, Covered
<1> QED BY <1>1, <1>3, DataQuiet

(* The second click on a lane.                                                *)
LEMMA DataEndLanePoly ==
  ASSUME MapTyped, Hands, Data, ~Hasty', EndLanePoly
  PROVE  Data'
<1>1. /\ UNCHANGED <<features, on, loadType, tiles, flight, reload, live, lane, mode>> /\ UNCHANGED selected /\ marks \subseteq marks'
      /\ "EndLanePoly" \in listening
  BY DEF EndLanePoly, SoleClick, handlers, screen, adding, loading, shown, net
<1>2. mode # "edit"
  BY <1>1, HastyStays DEF Hands, OwnListeners, Hasty
<1> QED BY <1>1, <1>2, DataQuiet

(* Choosing the type to draw.                                                 *)
LEMMA DataSetType ==
  ASSUME MapTyped, Hands, Data, ~Hasty', NEW t \in Types, SetType(t)
  PROVE  Data'
<1>1. UNCHANGED <<features, on, loadType, tiles, flight, reload, live, lane, mode>> /\ UNCHANGED <<selected, marks, dlg>>
  BY DEF SetType, handlers, screen, adding, loading, shown, net
<1> QED BY <1>1, DataQuiet

(* Opening the edit dialog: on a feature that is there.                       *)
LEMMA DataClickEdit ==
  ASSUME MapTyped, Hands, Data, ~Hasty', NEW f \in on, ClickEdit(f)
  PROVE  Data'
<1>1. /\ UNCHANGED <<features, on, loadType, tiles, flight, reload, live, lane, mode>> /\ selected' = f /\ ~features[f].gone /\ marks' = marks
      /\ "Hover" \in listening /\ clicks["edit"] > 0
  BY DEF ClickEdit, Select, handlers, screen, adding, loading, shown, net
<1>2. clicks["edit"] \in Nat /\ clicks["edit"] <= (IF mode = "edit" THEN 1 ELSE 0)
  BY <1>1, HastyStays DEF Hands, OwnListeners, MapTyped, Dialogs
<1>3. mode = "edit" /\ "edit" \notin dlg
  BY <1>1, <1>2 DEF Hands, EditMode
<1>4. ~Underway("edit") /\ ~Underway("delete")
  BY <1>1, <1>3 DEF Hands, Placed, Covered
<1> QED BY <1>1, <1>4, DataQuiet

(* Opening the delete dialog.                                                 *)
LEMMA DataClickDelete ==
  ASSUME MapTyped, Hands, Data, ~Hasty', NEW f \in on, ClickDelete(f)
  PROVE  Data'
<1>1. /\ UNCHANGED <<features, on, loadType, tiles, flight, reload, live, lane, mode>> /\ selected' = f /\ marks \subseteq marks'
      /\ "Hover" \in listening /\ clicks["delete"] > 0
  BY DEF ClickDelete, Select, handlers, screen, adding, loading, shown, net
<1>2. clicks["delete"] \in Nat /\ clicks["delete"] <= (IF mode = "delete" THEN 1 ELSE 0)
  BY <1>1, HastyStays DEF Hands, OwnListeners, MapTyped, Dialogs
<1>3. mode = "delete" /\ ("delete" \in dlg => timers["delete"] = 1)
  BY <1>1, <1>2 DEF Hands, DeleteMode
<1>4. ~Underway("edit") /\ ~Underway("delete")
  BY <1>1, <1>3 DEF Hands, Placed, Covered
<1> QED BY <1>1, <1>3, <1>4, DataQuiet

(* Saving an edit, with the type of its control.                              *)
LEMMA DataSaveEdit ==
  ASSUME MapTyped, Hands, Data, ~Hasty', selected # None, SaveEdit
  PROVE  Data'
<1> DEFINE q == Ask("edit", loadType, features[selected].ctrl, None)
<1>1. /\ flight' = flight (+) SetToBag({q}) /\ q.what = "edit" /\ marks' = marks
      /\ UNCHANGED <<features, on, loadType, tiles, reload, live, selected, mode, dlg>>
  BY DEF SaveEdit, Send, Ask, handlers, screen, adding, loading, shown, net
<1>2. ~Underway("edit") /\ lane' = lane /\ mode = "edit" /\ "edit" \in dlg
  BY DEF SaveEdit, adding, Cover, Hands, Covered
<1>3. q.ctrl = features[selected].ctrl /\ (q.type = TypeOf[q.ctrl] \/ "retype" \in marks)
  BY <1>2, FeatureAt DEF Ask, Data, OneType, FeatureTypes, MapTyped
<1> QED BY <1>1, <1>2, <1>3, DataSent

(* Asking for a deletion.                                                     *)
LEMMA DataDeleteControl ==
  ASSUME MapTyped, Hands, Data, ~Hasty', selected # None, DeleteControl
  PROVE  Data'
<1> DEFINE q == Ask("delete", None, features[selected].ctrl, None)
<1>1. /\ flight' = flight (+) SetToBag({q}) /\ q.what = "delete" /\ marks' = marks
      /\ UNCHANGED <<features, on, loadType, tiles, reload, live, selected, mode, dlg>>
  BY DEF DeleteControl, Send, Ask, handlers, screen, adding, loading, shown, net
<1>2. ~Underway("delete") /\ lane' = lane
  BY DEF DeleteControl, adding, Cover, Hands, Covered
<1>3. q.ctrl = features[selected].ctrl
  BY DEF Ask
<1> QED BY <1>1, <1>2, <1>3, DataSent

(* Asking for an addition.                                                    *)
LEMMA DataAddControl ==
  ASSUME MapTyped, Hands, Data, ~Hasty', lane # None, lanes[lane] = "known", AddControl
  PROVE  Data'
<1> DEFINE q == Ask("add", addType, None, lane)
<1>1. /\ flight' = flight (+) SetToBag({q}) /\ q.what = "add" /\ marks' = marks
      /\ UNCHANGED <<features, on, loadType, tiles, reload, live, selected, mode, dlg>>
  BY DEF AddControl, Send, Ask, handlers, screen, adding, loading, shown, net
<1>2. ~Underway("add") /\ lane' = lane
  BY DEF AddControl, adding, Cover, Hands, Covered
<1>3. q.of = lane
  BY DEF Ask
<1> QED BY <1>1, <1>2, <1>3, DataSent

(* The first click on a lane that is not known.                               *)
LEMMA DataStartLaneAsked ==
  ASSUME MapTyped, Hands, Data, ~Hasty', NEW l \in Lanes, lanes[l] = "unknown", StartLanePoly(l)
  PROVE  Data'
<1> DEFINE q == Ask("lane", None, None, l)
<1>1. /\ flight' = flight (+) SetToBag({q}) /\ q.what = "lane" /\ marks' = marks
      /\ UNCHANGED <<features, on, loadType, tiles, reload, live, selected, mode, dlg>>
  BY DEF StartLanePoly, Send, Ask, handlers, screen, adding, loading, shown, net
<1>2. ~Underway("lane") /\ lane' = l
  BY HastyStays DEF StartLanePoly, SoleClick, Hands, Placed, AddMode, Waits, OwnListeners
<1>3. q.of = l
  BY DEF Ask
<1> QED BY <1>1, <1>2, <1>3, DataSent

(* The first click on a lane that is known or asked for.                      *)
LEMMA DataStartLaneKnown ==
  ASSUME MapTyped, Hands, Data, ~Hasty', NEW l \in Lanes, lanes[l] # "unknown", StartLanePoly(l)
  PROVE  Data'
<1>1. /\ UNCHANGED <<features, on, loadType, tiles, flight, reload, live, selected, mode, dlg, marks>>
      /\ "StartLanePoly" \in listening
  BY DEF StartLanePoly, SoleClick, handlers, screen, adding, loading, shown, net
<1>2. ~Underway("lane")
  BY <1>1, HastyStays DEF Hands, Placed, AddMode, Waits, OwnListeners
<1> QED BY <1>1, <1>2, DataQuiet

(* A load that fails.                                                         *)
LEMMA DataFailLoadCtrls ==
  ASSUME MapTyped, Hands, Data, ~Hasty', NEW r \in Reqs, FailLoadCtrls(r)
  PROVE  Data'
<1>1. /\ flight' = Took(r) /\ marks \subseteq marks'
      /\ UNCHANGED <<features, on, loadType, tiles, selected, lane, mode, dlg, reload, live>>
  BY DEF FailLoadCtrls, handlers, screen, adding, loading, shown, net
<1> QED BY <1>1, DataAnswered

(* An edit that fails.                                                        *)
LEMMA DataFailSaveEdit ==
  ASSUME MapTyped, Hands, Data, ~Hasty', NEW r \in Reqs, FailSaveEdit(r)
  PROVE  Data'
<1>1. /\ flight' = Took(r) /\ marks \subseteq marks'
      /\ UNCHANGED <<features, on, loadType, tiles, selected, lane, mode, dlg, reload, live>>
  BY DEF FailSaveEdit, handlers, screen, adding, loading, shown, net
<1> QED BY <1>1, DataAnswered

(* A deletion that fails.                                                     *)
LEMMA DataFailDeleteControl ==
  ASSUME MapTyped, Hands, Data, ~Hasty', NEW r \in Reqs, FailDeleteControl(r)
  PROVE  Data'
<1>1. /\ flight' = Took(r) /\ marks \subseteq marks'
      /\ UNCHANGED <<features, on, loadType, tiles, selected, lane, mode, dlg, reload, live>>
  BY DEF FailDeleteControl, handlers, screen, adding, loading, shown, net
<1> QED BY <1>1, DataAnswered

(* The geometry of a lane.                                                    *)
LEMMA DataGeoSuccess ==
  ASSUME MapTyped, Hands, Data, ~Hasty', NEW r \in Reqs, GeoSuccess(r)
  PROVE  Data'
<1>1. /\ flight' = Took(r) /\ marks \subseteq marks'
      /\ UNCHANGED <<features, on, loadType, tiles, selected, lane, mode, dlg, reload, live>>
  BY DEF GeoSuccess, handlers, screen, adding, loading, shown, net
<1> QED BY <1>1, DataAnswered

(* A lane without geometry.                                                   *)
LEMMA DataFailLane ==
  ASSUME MapTyped, Hands, Data, ~Hasty', NEW r \in Reqs, FailLane(r)
  PROVE  Data'
<1>1. /\ flight' = Took(r) /\ marks \subseteq marks'
      /\ UNCHANGED <<features, on, loadType, tiles, selected, lane, mode, dlg, reload, live>>
  BY DEF FailLane, handlers, screen, adding, loading, shown, net
<1> QED BY <1>1, DataAnswered

(* An addition that fails.                                                    *)
LEMMA DataFailAddControl ==
  ASSUME MapTyped, Hands, Data, ~Hasty', NEW r \in Reqs, FailAddControl(r)
  PROVE  Data'
<1>1. /\ flight' = Took(r) /\ marks \subseteq marks'
      /\ UNCHANGED <<features, on, loadType, tiles, selected, lane, mode, dlg, reload, live>>
  BY DEF FailAddControl, handlers, screen, adding, loading, shown, net
<1> QED BY <1>1, DataAnswered

(* An addition that was made.                                                 *)
LEMMA DataDoneAddControl ==
  ASSUME MapTyped, Hands, Data, ~Hasty', NEW r \in Reqs, DoneAddControl(r)
  PROVE  Data'
<1>1. /\ flight' = Took(r) /\ marks \subseteq marks' /\ "added" \in marks'
      /\ UNCHANGED <<features, on, loadType, tiles, selected, lane, mode, dlg>>
  BY DEF DoneAddControl, handlers, screen, adding, loading, shown, net
<1> QED BY <1>1, DataAnswered

(* The answer to an edit: written to the feature it was asked for.            *)
LEMMA DataDoneSaveEdit ==
  ASSUME MapTyped, Hands, Data, ~Hasty', NEW r \in Reqs, DoneSaveEdit(r)
  PROVE  Data'
<1>1. /\ flight' = Took(r) /\ r.what = "edit" /\ marks' = marks
      /\ UNCHANGED <<on, loadType, tiles, selected, lane, mode, dlg, reload>> /\ live' = live \cup {r.ctrl}
      /\ selected # None => features' = [features EXCEPT ![selected].ctrl = r.ctrl]
  BY DEF DoneSaveEdit, Answered, handlers, screen, adding, loading, shown, net
<1>2. selected # None /\ r.ctrl = features[selected].ctrl /\ selected \in DOMAIN features
  BY <1>1 DEF Data, Aimed, MapTyped
<1>3. features' = features
  BY <1>1, <1>2, FeatureAt DEF Feature, MapTyped
<1>4. mode = "edit" /\ "edit" \in dlg
  BY <1>1 DEF Hands, Placed, Covered, Underway, Reqs
<1>5. "added" \in marks \/
        \A i \in DOMAIN features : features[i].gone /\ features[i].ctrl \notin live => features[i].ctrl \notin live'
  BY <1>1, <1>2, <1>4 DEF Data, Once
<1> QED BY <1>1, <1>3, <1>5, DataAnswered

(* The answer to a deletion: the feature it was asked for is emptied.          *)
LEMMA DataDoneDeleteControl ==
  ASSUME MapTyped, Hands, Data, ~Hasty', NEW r \in Reqs, DoneDeleteControl(r)
  PROVE  Data'
<1>1. /\ flight' = Took(r) /\ r.what = "delete" /\ marks' = marks
      /\ UNCHANGED <<on, loadType, tiles, selected, lane, mode, dlg, reload>> /\ live' = live \ {r.ctrl}
      /\ selected # None => features' = [features EXCEPT ![selected].gone = TRUE]
  BY DEF DoneDeleteControl, Answered, handlers, screen, adding, loading, shown, net
<1>2. selected # None /\ r.ctrl = features[selected].ctrl /\ selected \in DOMAIN features
  BY <1>1 DEF Data, Aimed, MapTyped
<1>3. /\ DOMAIN features' = DOMAIN features
      /\ features'[selected] = [features[selected] EXCEPT !.gone = TRUE]
      /\ \A j \in DOMAIN features : j # selected => features'[j] = features[j]
  BY <1>1, <1>2, SelectedChanged
<1>4. /\ \A i \in DOMAIN features : features'[i].ctrl = features[i].ctrl /\ features'[i].type = features[i].type
      /\ \A i \in DOMAIN features : features'[i].gone => features[i].gone \/ i = selected
  BY <1>2, <1>3, FeatureAt DEF Feature
<1>5. Reqs' = Reqs \ {r} /\ SoleCalls' /\ \A q \in Reqs' : flight'[q] = flight[q]
  BY <1>1, TookCall DEF Data
<1>6. mode = "delete"
  BY <1>1 DEF Hands, Placed, Underway, Reqs
<1>7. Aimed'
  <2> SUFFICES ASSUME NEW q \in Reqs'
               PROVE  /\ q.what \in {"edit", "delete"} => selected' # None /\ q.ctrl = features'[selected'].ctrl
                      /\ q.what = "lane" => q.of = lane'
    BY Zenon DEF Aimed
  <2> QED BY <1>1, <1>2, <1>4, <1>5 DEF Data, Aimed
<1>8. OneType'
  <2> SUFFICES ASSUME "retype" \notin marks' PROVE OneType'
    BY DEF OneType
  <2>1. /\ \A q \in Reqs : q.what = "load" => q.type = loadType
        /\ \A i \in on : features[i].type = loadType
        /\ \A q \in Reqs : q.what = "edit" => q.type = TypeOf[q.ctrl]
    BY <1>1 DEF Data, OneType
  <2>2. \A i \in on' : features'[i].type = loadType
    BY <1>1, <1>4, <2>1 DEF MapTyped
  <2> QED BY <1>1, <1>5, <1>6, <2>1, <2>2 DEF OneType
<1>9. FeatureTypes'
  <2>1. \A i \in DOMAIN features : features[i].type = TypeOf[features[i].ctrl]
    BY DEF Data, FeatureTypes
  <2> QED BY <1>3, <1>4, <2>1 DEF FeatureTypes
<1>10. Once'
  <2> SUFFICES ASSUME "added" \notin marks' PROVE Once'
    BY DEF Once
  <2>1. "added" \notin marks /\ ~reload /\ ~reload' /\ tiles' = tiles
    BY <1>1 DEF Data, Once
  <2>2. \A q \in Reqs' : q.what = "load" =>
           flight'[q] = 1 /\ q.of \in tiles[q.type] /\ q = Ask("load", q.type, None, q.of)
    BY <1>5, <2>1 DEF Data, Once
  <2>3. \A i \in DOMAIN features :
           LET c == features[i].ctrl IN
           /\ TileOf[c] \in tiles[features[i].type] /\ ~Asked(features[i].type, TileOf[c])
           /\ features[i].gone => c \notin live
           /\ \A j \in DOMAIN features : features[j].ctrl = c => i = j
    BY <2>1 DEF Data, Once
  <2>4. \A i \in DOMAIN features :
           \A q \in Reqs' : ~(q.what = "load" /\ q.type = features[i].type /\ q.of = TileOf[features[i].ctrl])
    BY <1>5, <2>3 DEF Asked
  <2>5. \A i \in DOMAIN features' :
           LET c == features'[i].ctrl IN
           /\ TileOf[c] \in tiles'[features'[i].type]
           /\ features'[i].gone => c \notin live'
           /\ \A j \in DOMAIN features' : features'[j].ctrl = c => i = j
    BY <1>1, <1>2, <1>3, <1>4, <2>1, <2>3
  <2>6. (\A i \in DOMAIN features : ~Asked(features[i].type, TileOf[features[i].ctrl]))'
    BY <1>3, <1>4, <2>4 DEF Asked
  <2> QED BY <1>1, <1>6, <2>1, <2>2, <2>5, <2>6 DEF Once
<1> QED BY <1>5, <1>7, <1>8, <1>9, <1>10 DEF Data

-----------------------------------------------------------------------------
(* The invariant.                                                             *)

(* With nothing selected nothing can be sent: an open dialog has a selection. *)
LEMMA SaveEditSends ==
  ASSUME MapTyped, Hands, ~Hasty, SaveEdit
  PROVE  selected # None
BY DEF SaveEdit, Cover, Hands, EditMode

(* So does an open dialog of deletion.                                        *)
LEMMA DeleteControlSends ==
  ASSUME MapTyped, Hands, ~Hasty, DeleteControl
  PROVE  selected # None
BY DEF DeleteControl, Cover, Hands, Placed, DeleteMode

(* And an addition has a lane whose points are known.                         *)
LEMMA AddControlSends ==
  ASSUME MapTyped, Hands, ~Hasty, AddControl
  PROVE  lane # None /\ lanes[lane] = "known"
BY DEF AddControl, Cover, Hands, Covered, AddMode, OnKnown

(* Nothing is taken off the record.                                           *)
LEMMA MarksGrow ==
  ASSUME [Next]_vars
  PROVE  marks \subseteq marks'
BY DEF Next, User, Answer, ModeButtons, Weather, Loading, EditDialog, DeleteDialog, Drawing,
       AnswerLoad, AnswerEdit, AnswerDelete, AnswerLane, AnswerAdd, vars,
       Leave, Start, FirstWx, EndWx, StartLoadCtrls, DragEnd, DoneLoadCtrls, FailLoadCtrls,
       ClickEdit, ClickDelete, CancelEdit, CancelAdd, EscapeEdit, CancelDelete, EndEdit, EndDelete,
       SaveEdit, DoneSaveEdit, FailSaveEdit, DeleteControl, DoneDeleteControl, FailDeleteControl,
       SetType, StartLanePoly, GeoSuccess, FailLane, EndLanePoly, AddControl, DoneAddControl,
       FailAddControl, Marked

(* While nothing hasty was done, every step keeps what is said of it.        *)
LEMMA CalmStep ==
  ASSUME MapTyped, Hands, Data, [Next]_vars, ~Hasty'
  PROVE  Hands' /\ Data'
<1>1. ~Hasty
  BY MarksGrow, HastyStays
<1>2. MapTyped' /\ SoleCalls /\ Aimed
  BY MapTypedStep DEF Data
<1>3. ASSUME UNCHANGED vars PROVE Hands' /\ Data'
  <2>1. \A w \in Kinds : Underway(w)' <=> Underway(w)
    BY <1>3, SameFlight DEF vars, net
  <2>2. Hands'
    BY <1>3, <2>1
      DEF Hands, Placed, Covered, EditMode, DeleteMode, AddMode, NoneElse, OwnListeners, Waits,
          OnKnown,
       Hasty, Kinds, vars, handlers, screen, adding, loading, shown, net
  <2>3. Data'
    BY <1>3, DataQuiet DEF vars, handlers, screen, adding, loading, shown, net
  <2> QED BY <2>2, <2>3
<1>4. ASSUME Leave PROVE Hands' /\ Data'
  BY <1>1, <1>2, <1>4, HandsLeave, DataLeave
<1>5. ASSUME NEW m \in Modes \ {"nohandlers"}, Start(m) PROVE Hands' /\ Data'
  BY <1>1, <1>2, <1>5, HandsStart, DataStart
<1>6. ASSUME FirstWx PROVE Hands' /\ Data'
  BY <1>1, <1>2, <1>6, HandsFirstWx, DataFirstWx
<1>7. ASSUME EndWx PROVE Hands' /\ Data'
  BY <1>1, <1>2, <1>7, HandsEndWx, DataEndWx
<1>8. ASSUME NEW t \in Types, StartLoadCtrls(t) PROVE Hands' /\ Data'
  BY <1>1, <1>2, <1>8, HandsStartLoadCtrls, DataStartLoadCtrls
<1>9. ASSUME NEW w \in Views, DragEnd(w) PROVE Hands' /\ Data'
  BY <1>1, <1>2, <1>9, HandsDragEnd, DataDragEnd
<1>10. ASSUME NEW f \in on, ClickEdit(f) PROVE Hands' /\ Data'
  BY <1>1, <1>2, <1>10, HandsClickEdit, DataClickEdit
<1>11. ASSUME CancelEdit PROVE Hands' /\ Data'
  BY <1>1, <1>2, <1>11, HandsCancelEdit, DataCancelEdit
<1>12. ASSUME EscapeEdit PROVE Hands' /\ Data'
  BY <1>1, <1>2, <1>12, HandsEscapeEdit, DataEscapeEdit
<1>13. ASSUME NEW f \in on, ClickDelete(f) PROVE Hands' /\ Data'
  BY <1>1, <1>2, <1>13, HandsClickDelete, DataClickDelete
<1>14. ASSUME CancelDelete PROVE Hands' /\ Data'
  BY <1>1, <1>2, <1>14, HandsCancelDelete, DataCancelDelete
<1>15. ASSUME NEW t \in Types, SetType(t) PROVE Hands' /\ Data'
  BY <1>1, <1>2, <1>15, HandsSetType, DataSetType
<1>16. ASSUME EndLanePoly PROVE Hands' /\ Data'
  BY <1>1, <1>2, <1>16, HandsEndLanePoly, DataEndLanePoly
<1>17. ASSUME CancelAdd PROVE Hands' /\ Data'
  BY <1>1, <1>2, <1>17, HandsCancelAdd, DataCancelAdd
<1>18. ASSUME EndEdit PROVE Hands' /\ Data'
  BY <1>1, <1>2, <1>18, HandsEndEdit, DataEndEdit
<1>19. ASSUME EndDelete PROVE Hands' /\ Data'
  BY <1>1, <1>2, <1>19, HandsEndDelete, DataEndDelete
<1>20. ASSUME NEW r \in Reqs, DoneLoadCtrls(r) PROVE Hands' /\ Data'
  BY <1>1, <1>2, <1>20, HandsDoneLoadCtrls, DataDoneLoadCtrls
<1>21. ASSUME NEW r \in Reqs, FailLoadCtrls(r) PROVE Hands' /\ Data'
  BY <1>1, <1>2, <1>21, HandsFailLoadCtrls, DataFailLoadCtrls
<1>22. ASSUME NEW r \in Reqs, DoneSaveEdit(r) PROVE Hands' /\ Data'
  BY <1>1, <1>2, <1>22, HandsDoneSaveEdit, DataDoneSaveEdit
<1>23. ASSUME NEW r \in Reqs, FailSaveEdit(r) PROVE Hands' /\ Data'
  BY <1>1, <1>2, <1>23, HandsFailSaveEdit, DataFailSaveEdit
<1>24. ASSUME NEW r \in Reqs, DoneDeleteControl(r) PROVE Hands' /\ Data'
  BY <1>1, <1>2, <1>24, HandsDoneDeleteControl, DataDoneDeleteControl
<1>25. ASSUME NEW r \in Reqs, FailDeleteControl(r) PROVE Hands' /\ Data'
  BY <1>1, <1>2, <1>25, HandsFailDeleteControl, DataFailDeleteControl
<1>26. ASSUME NEW r \in Reqs, GeoSuccess(r) PROVE Hands' /\ Data'
  BY <1>1, <1>2, <1>26, HandsGeoSuccess, DataGeoSuccess
<1>27. ASSUME NEW r \in Reqs, FailLane(r) PROVE Hands' /\ Data'
  BY <1>1, <1>2, <1>27, HandsFailLane, DataFailLane
<1>28. ASSUME NEW r \in Reqs, DoneAddControl(r) PROVE Hands' /\ Data'
  BY <1>1, <1>2, <1>28, HandsDoneAddControl, DataDoneAddControl
<1>29. ASSUME NEW r \in Reqs, FailAddControl(r) PROVE Hands' /\ Data'
  BY <1>1, <1>2, <1>29, HandsFailAddControl, DataFailAddControl
<1>30. ASSUME SaveEdit PROVE Hands' /\ Data'
  BY <1>1, <1>2, <1>30, SaveEditSends, HandsSaveEdit, DataSaveEdit
<1>31. ASSUME DeleteControl PROVE Hands' /\ Data'
  BY <1>1, <1>2, <1>31, DeleteControlSends, HandsDeleteControl, DataDeleteControl
<1>32. ASSUME AddControl PROVE Hands' /\ Data'
  BY <1>1, <1>2, <1>32, AddControlSends, HandsAddControl, DataAddControl
<1>33. ASSUME NEW l \in Lanes, StartLanePoly(l) PROVE Hands' /\ Data'
  BY <1>1, <1>2, <1>33, HandsStartLaneAsked, HandsStartLaneKnown, DataStartLaneAsked,
     DataStartLaneKnown
<1> QED
  BY <1>3, <1>4, <1>5, <1>6, <1>7, <1>8, <1>9, <1>10, <1>11, <1>12, <1>13, <1>14, <1>15, <1>16,
     <1>17, <1>18, <1>19, <1>20, <1>21, <1>22, <1>23, <1>24, <1>25, <1>26, <1>27, <1>28, <1>29, <1>30, <1>31, <1>32, <1>33
  DEF Next, User, Answer, ModeButtons, Weather, Loading, EditDialog, DeleteDialog, Drawing,
      AnswerLoad, AnswerEdit, AnswerDelete, AnswerLane, AnswerAdd, Reqs

(* At first nothing is there.                                                 *)
LEMMA MapInit ==
  ASSUME Init
  PROVE  MapInv
<1>1. Reqs = {} /\ \A w \in Kinds : ~Underway(w)
  BY DEF Init, Reqs, Underway, EmptyBag, SetToBag, BagToSet
<1>2. MapTyped
  BY <1>1, MapAssumption, FS_Subset DEF Init, MapTyped, MapAssumption, Modes, Dialogs
<1>3. Hands
  BY <1>1 DEF Init, Hands, Placed, Covered, EditMode, DeleteMode, AddMode, NoneElse, OwnListeners,
     Waits, OnKnown,
     Kinds, Dialogs
<1>4. Data
  BY <1>1 DEF Init, Data, SoleCalls, Aimed, OneType, FeatureTypes, Once
<1> QED BY <1>2, <1>3, <1>4 DEF MapInv

(* MapInv is an invariant of the page.                                        *)
THEOREM MapInvariant == Spec => []MapInv
<1>1. ASSUME MapInv, [Next]_vars PROVE MapInv'
  <2>1. MapTyped'
    BY <1>1, MapTypedStep DEF MapInv
  <2>2. marks \subseteq marks'
    BY <1>1, MarksGrow
  <2>3. CASE Hasty
    BY <2>1, <2>2, <2>3 DEF MapInv, Hasty
  <2>4. CASE ~Hasty
    BY <1>1, <2>1, <2>4, CalmStep DEF MapInv
  <2> QED BY <2>3, <2>4
<1> QED BY <1>1, MapInit, PTL DEF Spec

(* No mode stops answering: with its dialog closed it takes a click, with its  *)
(* dialog open the overlay that hides the buttons is lifted (the handlers put  *)
(* back by closeEditDialog and by the answers).                               *)
THEOREM ModeReadyCorrect == Spec => []ModeReady
<1>1. ASSUME MapInv PROVE ModeReady
  <2>1. EditReady
    BY <1>1 DEF MapInv, EditReady, Hasty, Hands, EditMode
  <2>2. DeleteReady
    BY <1>1 DEF MapInv, DeleteReady, Hasty, Hands, DeleteMode
  <2>3. AddReady
    BY <1>1 DEF MapInv, AddReady, Hasty, Hands, AddMode, Waits
  <2>4. OverlayLifts
    <3> SUFFICES ASSUME ~Hasty, NEW d \in cover PROVE \E m \in Outstanding : DialogOf(m) = d
      BY DEF OverlayLifts
    <3>1. d \in {"edit", "delete"}
      BY <1>1 DEF MapInv, MapTyped, Dialogs
    <3>2. /\ d = "edit" => Underway("edit") \/ Underway("add") \/ timers["edit"] > 0
          /\ d = "delete" => Underway("delete") \/ timers["delete"] > 0
      BY <1>1 DEF MapInv, Hands, Covered
    <3> QED BY <3>1, <3>2 DEF Outstanding, DialogOf
  <2> QED BY <2>1, <2>2, <2>3, <2>4 DEF ModeReady
<1> QED BY <1>1, MapInvariant, PTL

(* What the dialogs act on is the control that was clicked: it is selected     *)
(* while they are open, sent with its type, emptied when it was deleted, and   *)
(* on the map once (the use of nSelectedId in map-edit.js).                   *)
THEOREM RightControlCorrect == Spec => []RightControl
<1>1. ASSUME MapInv PROVE RightControl
  <2>1. SelectionOpen
    BY <1>1 DEF MapInv, SelectionOpen, Hasty, Hands, EditMode, DeleteMode, NoneElse
  <2>2. RightType
    BY <1>1 DEF MapInv, RightType, Hasty, Data, OneType, Reqs
  <2>3. GoneIsDeleted
    BY <1>1 DEF MapInv, GoneIsDeleted, Hasty, Data, Once
  <2>4. OneFeaturePerControl
    BY <1>1 DEF MapInv, OneFeaturePerControl, Hasty, Data, Once
  <2> QED BY <2>1, <2>2, <2>3, <2>4 DEF RightControl
<1> QED BY <1>1, MapInvariant, PTL

(* The map carries the handlers of its mode only, and each once, while the     *)
(* user awaits each answer before moving on (resetListeners).                 *)
THEOREM OwnListenersCorrect == Spec => []OwnListeners
<1>1. ASSUME MapInv PROVE OwnListeners
  BY <1>1 DEF MapInv, OwnListeners, Hands
<1> QED BY <1>1, MapInvariant, PTL


(* A step that is not hasty gives no feature the id of another's control.     *)
LEMMA KeepsStep ==
  ASSUME MapTyped, Hands, Data, [Next]_vars, ~Hasty
  PROVE  \A i \in DOMAIN features : features'[i].ctrl = features[i].ctrl
<1>1. ASSUME NEW r \in Reqs, DoneLoadCtrls(r)
      PROVE  \A i \in DOMAIN features : features'[i].ctrl = features[i].ctrl
  BY <1>1, DoneLoadBrings
<1>2. ASSUME NEW r \in Reqs, DoneSaveEdit(r)
      PROVE  \A i \in DOMAIN features : features'[i].ctrl = features[i].ctrl
  <2>1. /\ flight' = Took(r) /\ r.what = "edit"
        /\ selected # None => features' = [features EXCEPT ![selected].ctrl = r.ctrl]
    BY <1>2 DEF DoneSaveEdit, Answered
  <2>2. selected # None /\ r.ctrl = features[selected].ctrl /\ selected \in DOMAIN features
    BY <2>1 DEF Data, Aimed, MapTyped
  <2>3. features' = features
    BY <2>1, <2>2, FeatureAt DEF Feature, MapTyped
  <2> QED BY <2>3
<1>3. ASSUME NEW r \in Reqs, DoneDeleteControl(r)
      PROVE  \A i \in DOMAIN features : features'[i].ctrl = features[i].ctrl
  <2>1. CASE selected = None
    BY <1>3, <2>1 DEF DoneDeleteControl
  <2>2. CASE selected # None
    <3>1. features' = [features EXCEPT ![selected].gone = TRUE]
      BY <1>3, <2>2 DEF DoneDeleteControl, Answered
    <3>2. /\ selected \in DOMAIN features /\ features[selected] \in Feature
          /\ features'[selected] = [features[selected] EXCEPT !.gone = TRUE]
          /\ \A j \in DOMAIN features : j # selected => features'[j] = features[j]
      BY <2>2, <3>1, SelectedChanged, FeatureAt DEF MapTyped
    <3> QED BY <3>2 DEF Feature
  <2> QED BY <2>1, <2>2
<1>4. CASE UNCHANGED features
  BY <1>4
<1> QED
  BY <1>1, <1>2, <1>3, <1>4
  DEF Next, User, Answer, ModeButtons, Weather, Loading, EditDialog, DeleteDialog, Drawing,
      AnswerLoad, AnswerEdit, AnswerDelete, AnswerLane, AnswerAdd, Reqs, vars, shown,
      Leave, Start, FirstWx, EndWx, StartLoadCtrls, DragEnd, FailLoadCtrls,
      ClickEdit, ClickDelete, CancelEdit, CancelAdd, EscapeEdit, CancelDelete, EndEdit, EndDelete,
      SaveEdit, FailSaveEdit, DeleteControl, FailDeleteControl,
      SetType, StartLanePoly, GeoSuccess, FailLane, EndLanePoly, AddControl, DoneAddControl, FailAddControl

(* An answer to an edit is written to the feature it was asked for             *)
(* (doneSaveEdit looks the feature up when the answer comes).                 *)
THEOREM KeepsItsControlCorrect == Spec => KeepsItsControl
<1>1. ASSUME MapInv, [Next]_vars
      PROVE  [Hasty \/ \A i \in DOMAIN features : features'[i].ctrl = features[i].ctrl]_vars
  BY <1>1, KeepsStep DEF MapInv
<1> QED BY <1>1, MapInvariant, PTL DEF Spec, KeepsItsControl

-----------------------------------------------------------------------------
(* Sums over finite sets.  What holds of the smallest finite set it could fail *)
(* for holds of all, so that a sum need not be unfolded in the order chosen.   *)

(* A set of numbers has a least.                                              *)
LEMMA LeastNumber ==
  ASSUME NEW T \in SUBSET Nat, T # {}
  PROVE  \E n \in T : \A y \in T : ~(y < n)
<1>1. PICK n \in T : \A y \in T : ~(<<y, n>> \in OpToRel(<, Nat))
  BY NatLessThanWellFounded, WFMin, Zenon
<1> QED BY <1>1 DEF OpToRel

(* What holds of a finite set whenever it holds of its proper parts holds.    *)
LEMMA SmallerFirst ==
  ASSUME NEW S, IsFiniteSet(S), NEW P,
         \A s \in SUBSET S : (\A t \in SUBSET s : t # s => t \in P) => s \in P
  PROVE  \A s \in SUBSET S : s \in P
<1> DEFINE T == {n \in Nat : \E s \in SUBSET S : s \notin P /\ Cardinality(s) = n}
<1> SUFFICES ASSUME NEW z \in SUBSET S, z \notin P PROVE FALSE
  OBVIOUS
<1>1. \A s \in SUBSET S : IsFiniteSet(s) /\ Cardinality(s) \in Nat
  BY FS_Subset, FS_CardinalityType
<1>2. T \in SUBSET Nat /\ T # {}
  <2>1. Cardinality(z) \in T
    BY <1>1
  <2> QED BY <2>1
<1>3. PICK n \in T : \A y \in T : ~(y < n)
  <2> HIDE DEF T
  <2> QED BY <1>2, LeastNumber
<1>5. PICK s \in SUBSET S : s \notin P /\ Cardinality(s) = n
  OBVIOUS
<1>6. ASSUME NEW t \in SUBSET s, t # s PROVE t \in P
  <2>1. t \in SUBSET S /\ Cardinality(t) < Cardinality(s)
    BY <1>1, <1>6, FS_Subset
  <2>2. Cardinality(t) \in Nat
    BY <1>1, <2>1
  <2>3. Cardinality(t) \notin T
    BY <1>3, <1>5, <2>1
  <2> QED BY <2>1, <2>2, <2>3
<1> QED BY <1>5, <1>6

(* The element that is taken first.                                           *)
FirstOf(s) == CHOOSE x \in s : TRUE

(* The sums of f over the parts of S, each led back to a smaller one.         *)
SumsOf(f, S, it) ==
  it = [s \in SUBSET S |->
          IF s = {} THEN 0 ELSE f[FirstOf(s)] + it[s \ {FirstOf(s)}]]

(* The sum over a set of the community modules, in these words.               *)
LEMMA SumIs ==
  ASSUME NEW f, NEW S
  PROVE  SumFunctionOnSet(f, S) = (CHOOSE it : SumsOf(f, S, it))[S]
BY DEF SumFunctionOnSet, FoldFunctionOnSet, MapThenFoldSet, SumsOf, FirstOf

(* One step of a sum.                                                         *)
LEMMA SumsStep ==
  ASSUME NEW f, NEW S, NEW it, SumsOf(f, S, it), NEW s \in SUBSET S
  PROVE  it[s] = IF s = {} THEN 0 ELSE f[FirstOf(s)] + it[s \ {FirstOf(s)}]
<1> DEFINE R(t) == IF t = {} THEN 0 ELSE f[FirstOf(t)] + it[t \ {FirstOf(t)}]
<1>1. it = [t \in SUBSET S |-> R(t)]
  BY DEF SumsOf
<1> HIDE DEF R
<1>2. it[s] = R(s)
  BY <1>1
<1> QED BY <1>2 DEF R

(* A sum depends on the values in its set alone.                              *)
LEMMA SumsAgree ==
  ASSUME NEW S, IsFiniteSet(S), NEW Q, NEW R, S \subseteq Q, S \subseteq R,
         NEW f, NEW g, \A x \in S : f[x] = g[x],
         NEW a, SumsOf(f, Q, a), NEW b, SumsOf(g, R, b)
  PROVE  a[S] = b[S]
<1> DEFINE P == {s \in SUBSET S : a[s] = b[s]}
<1>1. ASSUME NEW s \in SUBSET S, \A t \in SUBSET s : t # s => t \in P PROVE s \in P
  <2> DEFINE c == FirstOf(s)
  <2>0. s \in SUBSET Q /\ s \in SUBSET R
    OBVIOUS
  <2>1. a[s] = (IF s = {} THEN 0 ELSE f[c] + a[s \ {c}])
    BY ONLY <2>0, SumsOf(f, Q, a), SumsStep
  <2>2. b[s] = (IF s = {} THEN 0 ELSE g[c] + b[s \ {c}])
    BY ONLY <2>0, SumsOf(g, R, b), SumsStep
  <2>3. CASE s = {}
    BY <2>1, <2>2, <2>3
  <2>4. CASE s # {}
    <3>1. c \in s
      BY <2>4 DEF FirstOf
    <3> HIDE DEF c
    <3>2. f[c] = g[c] /\ s \ {c} \in SUBSET s /\ s \ {c} # s
      BY <3>1
    <3>3. a[s \ {c}] = b[s \ {c}]
      BY <1>1, <3>2
    <3> QED BY <2>1, <2>2, <2>4, <3>2, <3>3
  <2> QED BY <2>3, <2>4
<1>2. \A s \in SUBSET S : s \in P
  <2> HIDE DEF P
  <2> QED BY <1>1, SmallerFirst
<1> QED BY <1>2

(* The sums over a finite set are there.                                      *)
LEMMA SumsExist ==
  ASSUME NEW f, NEW S, IsFiniteSet(S)
  PROVE  \E it : SumsOf(f, S, it)
<1> DEFINE P == {s \in SUBSET S : \E it : SumsOf(f, s, it)}
<1>1. ASSUME NEW s \in SUBSET S, \A t \in SUBSET s : t # s => t \in P PROVE s \in P
  <2> DEFINE h(t) == CHOOSE it : SumsOf(f, t, it)
             G(t) == IF t = {} THEN 0 ELSE f[FirstOf(t)] + h(t \ {FirstOf(t)})[t \ {FirstOf(t)}]
             g == [t \in SUBSET s |-> G(t)]
  <2>1. \A t \in SUBSET s : t # s => SumsOf(f, t, h(t))
    BY <1>1
  <2>2. \A t \in SUBSET s : t # {} => FirstOf(t) \in t
    BY DEF FirstOf
  <2>3. ASSUME NEW t \in SUBSET s, t # {} PROVE g[t \ {FirstOf(t)}] = h(t \ {FirstOf(t)})[t \ {FirstOf(t)}]
    <3> DEFINE u == t \ {FirstOf(t)}
    <3>1. u \in SUBSET s /\ u # s /\ IsFiniteSet(S)
      BY <2>2, <2>3
    <3>2. SumsOf(f, u, h(u))
      BY <2>1, <3>1
    <3>3. g[u] = G(u)
      BY <3>1
    <3>4. h(u)[u] = (IF u = {} THEN 0 ELSE f[FirstOf(u)] + h(u)[u \ {FirstOf(u)}])
      <4> HIDE DEF u, h
      <4>1. u \in SUBSET u
        OBVIOUS
      <4> DEFINE k == h(u)
      <4>2. SumsOf(f, u, k)
        BY <3>2
      <4> HIDE DEF k
      <4>3. k[u] = (IF u = {} THEN 0 ELSE f[FirstOf(u)] + k[u \ {FirstOf(u)}])
        BY <4>1, <4>2, SumsStep
      <4> QED BY <4>3 DEF k
    <3>5. CASE u = {}
      BY <3>3, <3>4, <3>5
    <3>6. CASE u # {}
      <4> DEFINE v == u \ {FirstOf(u)}
      <4>1. FirstOf(u) \in u
        BY <2>2, <3>1, <3>6
      <4>2. v \subseteq u /\ v \in SUBSET s /\ v # s /\ v \subseteq v
        BY <3>1, <4>1
      <4>3. SumsOf(f, v, h(v))
        BY <2>1, <4>2
      <4>4. IsFiniteSet(v)
        BY <4>2, FS_Subset
      <4> HIDE DEF u, v, h, G, g
      <4>5. h(u)[v] = h(v)[v]
        BY <3>2, <4>2, <4>3, <4>4, SumsAgree
      <4>6. g[u] = f[FirstOf(u)] + h(v)[v]
        BY <3>3, <3>6 DEF v, G
      <4>7. h(u)[u] = f[FirstOf(u)] + h(u)[v]
        BY <3>4, <3>6 DEF v
      <4> QED BY <4>5, <4>6, <4>7 DEF u
    <3> QED BY <3>5, <3>6
  <2>4. SumsOf(f, s, g)
    <3> DEFINE F(t) == IF t = {} THEN 0 ELSE f[FirstOf(t)] + g[t \ {FirstOf(t)}]
    <3>1. ASSUME NEW t \in SUBSET s PROVE G(t) = F(t)
      <4>1. CASE t = {}
        BY <4>1
      <4>2. CASE t # {}
        <5>1. g[t \ {FirstOf(t)}] = h(t \ {FirstOf(t)})[t \ {FirstOf(t)}]
          BY <2>3, <4>2
        <5> HIDE DEF g, h
        <5> QED BY <4>2, <5>1
      <4> QED BY <4>1, <4>2
    <3>2. g = [t \in SUBSET s |-> F(t)]
      <4> HIDE DEF F, G
      <4> QED BY <3>1
    <3> QED BY <3>2 DEF SumsOf
  <2> QED BY <2>4
<1>2. \A s \in SUBSET S : s \in P
  <2> HIDE DEF P
  <2> QED BY <1>1, SmallerFirst
<1> QED BY <1>2

(* The sum over a finite set is one of them.                                  *)
LEMMA SumsChosen ==
  ASSUME NEW f, NEW S, IsFiniteSet(S)
  PROVE  \E it : SumsOf(f, S, it) /\ SumFunctionOnSet(f, S) = it[S]
BY SumsExist, SumIs

(* It depends on the values in the set alone.                                 *)
LEMMA SumSame ==
  ASSUME NEW S, IsFiniteSet(S), NEW f, NEW g, \A x \in S : f[x] = g[x]
  PROVE  SumFunctionOnSet(f, S) = SumFunctionOnSet(g, S)
<1>1. PICK a : SumsOf(f, S, a) /\ SumFunctionOnSet(f, S) = a[S]
  BY SumsChosen
<1>2. PICK b : SumsOf(g, S, b) /\ SumFunctionOnSet(g, S) = b[S]
  BY SumsChosen
<1>3. a[S] = b[S]
  BY <1>1, <1>2, SumsAgree
<1> QED BY <1>1, <1>2, <1>3

(* It is that without one element, and its value.                             *)
LEMMA SumFirst ==
  ASSUME NEW S, IsFiniteSet(S), NEW f
  PROVE  /\ S = {} => SumFunctionOnSet(f, S) = 0
         /\ S # {} => \E c \in S : SumFunctionOnSet(f, S) = f[c] + SumFunctionOnSet(f, S \ {c})
<1>1. PICK a : SumsOf(f, S, a) /\ SumFunctionOnSet(f, S) = a[S]
  BY SumsChosen
<1> DEFINE c == FirstOf(S)
           Q == S \ {c}
<1>2. S \in SUBSET S
  OBVIOUS
<1>3. a[S] = (IF S = {} THEN 0 ELSE f[c] + a[Q])
  BY <1>1, <1>2, SumsStep
<1>4. IsFiniteSet(Q) /\ Q \subseteq S /\ Q \subseteq Q
  BY FS_Subset
<1>5. PICK b : SumsOf(f, Q, b) /\ SumFunctionOnSet(f, Q) = b[Q]
  BY <1>4, SumsChosen
<1>6. a[Q] = b[Q]
  <2> HIDE DEF Q
  <2> QED BY <1>1, <1>4, <1>5, SumsAgree
<1>7. S # {} => c \in S
  BY DEF FirstOf
<1> HIDE DEF c
<1> QED BY <1>1, <1>3, <1>5, <1>6, <1>7

(* Whichever element is taken first.                                          *)
LEMMA SumWithout ==
  ASSUME NEW S, IsFiniteSet(S), NEW f, \A x \in S : f[x] \in Nat
  PROVE  /\ SumFunctionOnSet(f, S) \in Nat
         /\ \A x \in S : SumFunctionOnSet(f, S) = f[x] + SumFunctionOnSet(f, S \ {x})
<1> DEFINE M(s) == SumFunctionOnSet(f, s)
           P == {s \in SUBSET S : M(s) \in Nat /\ \A x \in s : M(s) = f[x] + M(s \ {x})}
<1>0. \A s \in SUBSET S : IsFiniteSet(s)
  BY FS_Subset
<1>1. ASSUME NEW s \in SUBSET S, \A t \in SUBSET s : t # s => t \in P PROVE s \in P
  <2>1. /\ s = {} => M(s) = 0
        /\ s # {} => \E c \in s : M(s) = f[c] + M(s \ {c})
    BY <1>0, SumFirst
  <2>2. \A t \in SUBSET s : t # s => M(t) \in Nat /\ \A x \in t : M(t) = f[x] + M(t \ {x})
    BY <1>1
  <2> HIDE DEF M
  <2>3. CASE s = {}
    BY <2>1, <2>3
  <2>4. CASE s # {}
    <3>1. PICK c \in s : M(s) = f[c] + M(s \ {c})
      BY <2>1, <2>4
    <3>2. M(s \ {c}) \in Nat /\ f[c] \in Nat
      BY <2>2
    <3>3. ASSUME NEW x \in s PROVE M(s) = f[x] + M(s \ {x})
      <4>1. CASE x = c
        BY <3>1, <4>1
      <4>2. CASE x # c
        <5>1. s \ {c} \in SUBSET s /\ s \ {c} # s /\ x \in s \ {c} /\ s \ {x} \in SUBSET s
              /\ s \ {x} # s /\ c \in s \ {x} /\ (s \ {c}) \ {x} = (s \ {x}) \ {c}
              /\ (s \ {x}) \ {c} \in SUBSET s /\ (s \ {x}) \ {c} # s
          BY <4>2
        <5> DEFINE m == M((s \ {x}) \ {c})
        <5>2. M(s \ {c}) = f[x] + m
          BY <2>2, <5>1
        <5>3. M(s \ {x}) = f[c] + m
          BY <2>2, <5>1
        <5>4. m \in Nat /\ f[x] \in Nat /\ f[c] \in Nat
          BY <2>2, <5>1
        <5> HIDE DEF m
        <5> QED BY ONLY <3>1, <5>2, <5>3, <5>4
      <4> QED BY <4>1, <4>2
    <3>4. M(s) \in Nat
      BY ONLY <3>1, <3>2
    <3> QED BY <3>3, <3>4
  <2> QED BY <2>3, <2>4
<1>2. \A s \in SUBSET S : s \in P
  <2> HIDE DEF P
  <2> QED BY <1>1, SmallerFirst
<1>3. S \in P
  BY <1>2
<1> QED BY <1>3

(* What each element of a set U has gained, the sum has, and begins with T0.  *)
LEMMA SumMore ==
  ASSUME NEW T, IsFiniteSet(T), NEW T0 \in SUBSET T, NEW U \in SUBSET T, NEW f, NEW g,
         \A x \in T0 : g[x] \in Nat,
         \A x \in T : f[x] = (IF x \in T0 THEN g[x] ELSE 0) + (IF x \in U THEN 1 ELSE 0)
  PROVE  SumFunctionOnSet(f, T) = SumFunctionOnSet(g, T0) + Cardinality(U)
<1> DEFINE F(s) == SumFunctionOnSet(f, s)
           G(s) == SumFunctionOnSet(g, s \cap T0)
           H(s) == Cardinality(s \cap U)
           P == {s \in SUBSET T : F(s) = G(s) + H(s)}
<1>0. \A s \in SUBSET T : IsFiniteSet(s) /\ IsFiniteSet(s \cap T0) /\ IsFiniteSet(s \cap U)
  <2>1. \A s \in SUBSET T : s \cap T0 \in SUBSET T /\ s \cap U \in SUBSET T
    OBVIOUS
  <2> QED BY <2>1, FS_Subset
<1>1. \A x \in T : f[x] \in Nat
  OBVIOUS
<1>2. ASSUME NEW s \in SUBSET T PROVE F(s) \in Nat /\ G(s) \in Nat /\ H(s) \in Nat
  <2>1. F(s) \in Nat
    BY <1>0, <1>1, SumWithout
  <2>2. G(s) \in Nat
    BY <1>0, SumWithout
  <2>3. H(s) \in Nat
    BY <1>0, FS_CardinalityType
  <2> QED BY <2>1, <2>2, <2>3
<1>3. ASSUME NEW s \in SUBSET T, \A t \in SUBSET s : t # s => t \in P PROVE s \in P
  <2>1. CASE s = {}
    <3>1. F(s) = 0 /\ G(s) = 0
      <4>1. s \cap T0 = {}
        BY <2>1
      <4>2. SumFunctionOnSet(f, {}) = 0 /\ SumFunctionOnSet(g, {}) = 0
        BY SumFirst, FS_EmptySet
      <4> QED BY <2>1, <4>1, <4>2
    <3>2. H(s) = 0
      <4>1. s \cap U = {}
        BY <2>1
      <4> QED BY <4>1, FS_EmptySet
    <3> QED BY <3>1, <3>2
  <2>2. CASE s # {}
    <3>1. PICK x \in s : TRUE
      BY <2>2
    <3> DEFINE q == s \ {x}
    <3>2. q \in SUBSET s /\ q # s /\ q \in SUBSET T
      BY <3>1
    <3>3. F(q) = G(q) + H(q)
      BY <1>3, <3>2
    <3>4. F(s) = f[x] + F(q)
      BY <1>0, <1>1, <3>1, SumWithout
    <3>5. G(s) = (IF x \in T0 THEN g[x] ELSE 0) + G(q)
      <4>1. CASE x \in T0
        <5>1. x \in s \cap T0 /\ (s \cap T0) \ {x} = q \cap T0
          BY <3>1, <4>1
        <5>2. SumFunctionOnSet(g, s \cap T0) = g[x] + SumFunctionOnSet(g, (s \cap T0) \ {x})
          BY <1>0, <5>1, SumWithout
        <5> QED BY <4>1, <5>1, <5>2
      <4>2. CASE x \notin T0
        <5>1. s \cap T0 = q \cap T0
          BY <4>2
        <5>2. G(q) \in Nat
          BY <1>2, <3>2
        <5>3. G(s) = G(q)
          BY <5>1
        <5> HIDE DEF G
        <5> QED BY <4>2, <5>2, <5>3
      <4> QED BY <4>1, <4>2
    <3>6. H(s) = (IF x \in U THEN 1 ELSE 0) + H(q)
      <4>1. CASE x \in U
        <5>1. x \in s \cap U /\ (s \cap U) \ {x} = q \cap U
          BY <3>1, <4>1
        <5>2. H(q) = H(s) - 1
          BY <1>0, <5>1, FS_RemoveElement
        <5>3. H(q) \in Nat /\ H(s) \in Nat
          BY <1>2, <3>2
        <5> HIDE DEF H
        <5> QED BY <4>1, <5>2, <5>3
      <4>2. CASE x \notin U
        <5>1. s \cap U = q \cap U
          BY <4>2
        <5>2. H(q) \in Nat
          BY <1>2, <3>2
        <5>3. H(s) = H(q)
          BY <5>1
        <5> HIDE DEF H
        <5> QED BY <4>2, <5>2, <5>3
      <4> QED BY <4>1, <4>2
    <3> DEFINE a == IF x \in T0 THEN g[x] ELSE 0
               b == IF x \in U THEN 1 ELSE 0
    <3>7. f[x] = a + b /\ a \in Nat /\ b \in Nat
      BY <3>1
    <3>8. G(q) \in Nat /\ H(q) \in Nat
      BY <1>2, <3>2
    <3>9. F(s) = G(s) + H(s)
      <4> HIDE DEF F, G, H, a, b, q
      <4>1. G(s) = a + G(q) /\ H(s) = b + H(q)
        BY <3>5, <3>6 DEF a, b
      <4> QED BY ONLY <3>3, <3>4, <3>7, <3>8, <4>1
    <3> QED BY <3>9
  <2> QED BY <2>1, <2>2
<1>4. \A s \in SUBSET T : s \in P
  <2> HIDE DEF P
  <2> QED BY <1>3, SmallerFirst
<1>5. T \in P
  BY <1>4
<1>6. T \cap T0 = T0 /\ T \cap U = U
  OBVIOUS
<1> QED BY <1>5, <1>6

-----------------------------------------------------------------------------
(* What the page is made of: the counts.                                      *)

(* How many requests of some kinds are under way, and how many timers run.    *)
OfKind(K) == {r \in Reqs : r.what \in K}
Pending(K) == SumFunctionOnSet(flight, OfKind(K))
Calls == {"edit", "delete", "add"}
TimersSet == timers["edit"] + timers["delete"]

(* The types MapTyped leaves out.                                             *)
PageTyped ==
  /\ listening \subseteq PlainClicks \cup PlainMoves \cup {"LoadCtrls"}
  /\ dimmed \subseteq Dialogs /\ picked \in Types \cup {None} /\ reload \in BOOLEAN
  /\ asked \in 0..Bound.asks /\ visits \in 0..Bound.visits
  /\ marks \subseteq {"impatient", "hasty", "retype", "escape", "cancel", "reopen", "refused", "added"}

(* The requests under way are a bag; the queue stands for the loads among them *)
(* and those that failed; each timer, and each request of another kind, goes   *)
(* back to what the user asked for.                                           *)
PageCounted ==
  /\ IsABag(flight) /\ IsFiniteSet(Reqs) /\ lost \in Nat
  /\ queue = lost + Pending({"load"})
  /\ TimersSet + Pending(Calls) <= asked

(* A bag stays one when requests are answered or sent.                        *)
LEMMA BagStays ==
  ASSUME NEW B, IsABag(B)
  PROVE  /\ \A r \in DOMAIN B : IsABag(B (-) SetToBag({r}))
         /\ \A S : IsABag(B (+) SetToBag(S))
<1>0. \A x \in DOMAIN B : B[x] \in Nat /\ B[x] > 0
  BY DEF IsABag
<1>1. ASSUME NEW r \in DOMAIN B PROVE IsABag(B (-) SetToBag({r}))
  <2> DEFINE C == SetToBag({r})
             D == [e \in DOMAIN B |-> IF e \in DOMAIN C THEN B[e] - C[e] ELSE B[e]]
             E == {d \in DOMAIN D : D[d] > 0}
  <2>1. DOMAIN C = {r} /\ C[r] = 1
    BY DEF SetToBag
  <2> HIDE DEF C
  <2>2. B (-) C = [e \in E |-> D[e]]
    BY DEF (-)
  <2>3. \A e \in E : D[e] \in Nat /\ D[e] > 0
    BY <1>0, <2>1
  <2> HIDE DEF D, E
  <2> QED BY <2>2, <2>3 DEF IsABag, C
<1>2. ASSUME NEW S PROVE IsABag(B (+) SetToBag(S))
  <2> DEFINE C == SetToBag(S)
             D(e) == (IF e \in DOMAIN B THEN B[e] ELSE 0) + (IF e \in DOMAIN C THEN C[e] ELSE 0)
  <2>1. DOMAIN C = S /\ \A x \in S : C[x] = 1
    BY DEF SetToBag
  <2> HIDE DEF C
  <2>2. B (+) C = [e \in (DOMAIN B) \cup (DOMAIN C) |-> D(e)]
    BY DEF (+)
  <2>3. \A e \in (DOMAIN B) \cup (DOMAIN C) : D(e) \in Nat /\ D(e) > 0
    BY <1>0, <2>1
  <2> HIDE DEF D
  <2> QED BY <2>2, <2>3 DEF IsABag, C
<1> QED BY <1>1, <1>2

(* The number of requests of some kinds is a number.                          *)
LEMMA PendingTyped ==
  ASSUME MapTyped, IsFiniteSet(Reqs), NEW K
  PROVE  /\ IsFiniteSet(OfKind(K)) /\ Pending(K) \in Nat
         /\ \A r \in OfKind(K) : Pending(K) = flight[r] + SumFunctionOnSet(flight, OfKind(K) \ {r})
<1>1. OfKind(K) \in SUBSET Reqs /\ IsFiniteSet(OfKind(K))
  BY FS_Subset DEF OfKind
<1>2. \A r \in OfKind(K) : flight[r] \in Nat
  BY DEF MapTyped, OfKind
<1> QED BY <1>1, <1>2, SumWithout DEF Pending

(* An answer takes one.                                                       *)
LEMMA PendingTook ==
  ASSUME MapTyped, MapTyped', IsFiniteSet(Reqs), NEW r \in Reqs, flight' = Took(r), NEW K
  PROVE  /\ IsFiniteSet(Reqs') /\ Pending(K) \in Nat /\ Pending(K)' \in Nat
         /\ Pending(K)' = Pending(K) - (IF r.what \in K THEN 1 ELSE 0)
<1>1. /\ Reqs' = (IF flight[r] = 1 THEN Reqs \ {r} ELSE Reqs)
      /\ \A q \in Reqs : q # r => flight'[q] = flight[q]
      /\ flight[r] # 1 => flight'[r] = flight[r] - 1
  BY TookFlight
<1>2. Reqs' \in SUBSET Reqs /\ IsFiniteSet(Reqs')
  <2>1. Reqs' \in SUBSET Reqs
    BY <1>1
  <2> QED BY <2>1, FS_Subset
<1> DEFINE T == OfKind(K)
<1>3. /\ IsFiniteSet(T) /\ Pending(K) \in Nat
      /\ \A q \in T : Pending(K) = flight[q] + SumFunctionOnSet(flight, T \ {q})
  BY PendingTyped
<1>4. Pending(K)' = SumFunctionOnSet(flight', OfKind(K)') /\ OfKind(K)' = {q \in Reqs' : q.what \in K}
  BY DEF Pending, OfKind
<1>5. T = {q \in Reqs : q.what \in K} /\ Pending(K) = SumFunctionOnSet(flight, T)
  BY DEF OfKind, Pending
<1>6. flight[r] \in Nat /\ flight[r] # 0
  BY DEF MapTyped
<1> HIDE DEF T
<1>7. CASE r.what \notin K
  <2>1. OfKind(K)' = T /\ \A q \in T : flight'[q] = flight[q]
    BY <1>1, <1>4, <1>5, <1>7
  <2>2. SumFunctionOnSet(flight', T) = SumFunctionOnSet(flight, T)
    BY <1>3, <2>1, SumSame
  <2>3. Pending(K)' = Pending(K)
    BY <1>4, <1>5, <2>1, <2>2, Zenon
  <2>4. Pending(K) - 0 = Pending(K)
    BY <1>3
  <2> QED BY ONLY <1>2, <1>3, <1>7, <2>3, <2>4
<1>8. CASE r.what \in K
  <2> DEFINE Q == T \ {r}
             n == SumFunctionOnSet(flight, Q)
  <2>1. r \in T /\ \A q \in Q : flight'[q] = flight[q]
    BY <1>1, <1>5, <1>8
  <2>2. IsFiniteSet(Q) /\ Q \in SUBSET T
    BY <1>3, FS_Subset
  <2>3. SumFunctionOnSet(flight', Q) = n
    <3> HIDE DEF Q
    <3> QED BY <2>1, <2>2, SumSame
  <2>4. n \in Nat
    <3>1. \A q \in Q : flight[q] \in Nat
      BY <1>5 DEF MapTyped
    <3> HIDE DEF Q
    <3> QED BY <2>2, <3>1, SumWithout
  <2>5. Pending(K) = flight[r] + n
    BY <1>3, <2>1
  <2>6. CASE flight[r] = 1
    <3>1. OfKind(K)' = Q
      BY <1>1, <1>4, <1>5, <2>6
    <3>2. Pending(K)' = n
      BY <1>4, <2>3, <3>1
    <3> HIDE DEF n, Q
    <3> QED BY <1>2, <1>8, <2>4, <2>5, <2>6, <3>2
  <2>7. CASE flight[r] # 1
    <3>1. OfKind(K)' = T /\ flight'[r] = flight[r] - 1
      BY <1>1, <1>4, <1>5, <2>7
    <3>2. \A q \in T : flight'[q] \in Nat
      BY <1>1, <1>5, <2>7 DEF MapTyped
    <3>3. SumFunctionOnSet(flight', T) = flight'[r] + SumFunctionOnSet(flight', Q)
      BY <1>3, <2>1, <3>2, SumWithout
    <3>4. Pending(K)' = flight[r] - 1 + n
      BY <1>4, <2>3, <3>1, <3>3
    <3> HIDE DEF n, Q
    <3>5. flight[r] - 1 \in Nat
      BY <1>6
    <3> QED BY <1>2, <1>8, <2>4, <2>5, <3>4, <3>5, <1>6
  <2> QED BY <2>6, <2>7
<1> QED BY <1>7, <1>8

(* What is sent is added.                                                     *)
LEMMA PendingSent ==
  ASSUME MapTyped, IsFiniteSet(Reqs), NEW S, IsFiniteSet(S), flight' = flight (+) SetToBag(S), NEW K
  PROVE  /\ IsFiniteSet(Reqs') /\ Pending(K) \in Nat
         /\ Pending(K)' = Pending(K) + Cardinality({q \in S : q.what \in K})
<1>1. /\ Reqs' = Reqs \cup S
      /\ \A q \in Reqs \cup S :
           flight'[q] = (IF q \in Reqs THEN flight[q] ELSE 0) + (IF q \in S THEN 1 ELSE 0)
  BY SentFlight
<1>2. IsFiniteSet(Reqs')
  BY <1>1, FS_Union
<1> DEFINE T0 == OfKind(K)
           U == {q \in S : q.what \in K}
           T == {q \in Reqs \cup S : q.what \in K}
<1>3. T0 \in SUBSET T /\ U \in SUBSET T /\ T \in SUBSET (Reqs \cup S)
  BY DEF OfKind
<1>4. IsFiniteSet(T)
  BY <1>1, <1>2, <1>3, FS_Subset
<1>5. \A x \in T0 : flight[x] \in Nat
  BY DEF OfKind, MapTyped
<1>6. \A x \in T : flight'[x] = (IF x \in T0 THEN flight[x] ELSE 0) + (IF x \in U THEN 1 ELSE 0)
  <2> TAKE x \in T
  <2>1. x \in Reqs \cup S /\ x.what \in K
    OBVIOUS
  <2>2. x \in T0 <=> x \in Reqs
    BY <2>1 DEF OfKind
  <2>3. x \in U <=> x \in S
    BY <2>1
  <2> HIDE DEF T0, T, U
  <2> QED BY <1>1, <2>1, <2>2, <2>3
<1>7. Pending(K)' = SumFunctionOnSet(flight', T) /\ Pending(K) = SumFunctionOnSet(flight, T0)
  BY <1>1 DEF Pending, OfKind
<1>8. SumFunctionOnSet(flight', T) = SumFunctionOnSet(flight, T0) + Cardinality(U)
  <2> HIDE DEF T, T0, U
  <2> QED BY <1>3, <1>4, <1>5, <1>6, SumMore
<1> QED BY <1>2, <1>7, <1>8, PendingTyped

(* One load is sent for each tile.                                            *)
LEMMA LoadsForTiles ==
  ASSUME NEW type, NEW needed, IsFiniteSet(needed)
  PROVE  LET S == {Ask("load", type, None, tile) : tile \in needed} IN
         /\ IsFiniteSet(S) /\ Cardinality(S) = Cardinality(needed)
         /\ \A q \in S : q.what = "load"
<1> DEFINE S == {Ask("load", type, None, tile) : tile \in needed}
           f == [tile \in needed |-> Ask("load", type, None, tile)]
<1>1. \A a, b \in needed : f[a] = f[b] => a = b
  BY DEF Ask
<1>2. f \in Bijection(needed, S)
  <2>1. f \in [needed -> S] /\ \A q \in S : \E a \in needed : f[a] = q
    OBVIOUS
  <2> HIDE DEF f, S
  <2> QED BY <1>1, <2>1 DEF Bijection, Injection, Surjection, IsInjective
<1>3. \A q \in S : q.what = "load"
  BY DEF Ask
<1> HIDE DEF f, S
<1>4. ExistsBijection(needed, S)
  BY <1>2 DEF ExistsBijection
<1>5. IsFiniteSet(S) /\ Cardinality(S) = Cardinality(needed)
  BY <1>4, FS_Bijection
<1> QED BY <1>3, <1>5 DEF S

(* What the user does is noted; that the user is impatient never is.          *)
Notes == {"hasty", "retype", "escape", "cancel", "reopen", "refused", "added"}

(* No step notes anything else.                                               *)
LEMMA NotesTaken ==
  ASSUME [Next]_vars
  PROVE  marks' \subseteq marks \cup Notes
BY DEF Next, User, Answer, ModeButtons, Weather, Loading, EditDialog, DeleteDialog, Drawing,
       AnswerLoad, AnswerEdit, AnswerDelete, AnswerLane, AnswerAdd, vars,
       Leave, Start, FirstWx, EndWx, StartLoadCtrls, DragEnd, DoneLoadCtrls, FailLoadCtrls,
       ClickEdit, ClickDelete, CancelEdit, CancelAdd, EscapeEdit, CancelDelete, EndEdit, EndDelete,
       SaveEdit, DoneSaveEdit, FailSaveEdit, DeleteControl, DoneDeleteControl, FailDeleteControl,
       SetType, StartLanePoly, GeoSuccess, FailLane, EndLanePoly, AddControl, DoneAddControl,
       FailAddControl, Marked, Notes

(* So the bounds of a behaviour are chosen once.                              *)
LEMMA BoundKept ==
  ASSUME [Next]_vars
  PROVE  Bound' = Bound /\ Bound \in [asks : Nat, visits : Nat, loads : Nat, features : Nat]
<1>1. marks \subseteq marks' /\ marks' \subseteq marks \cup Notes
  BY MarksGrow, NotesTaken
<1>2. patient' = patient
  BY <1>1 DEF patient, Notes
<1>3. patient \in BOOLEAN
  BY DEF patient
<1> QED BY <1>2, <1>3, MapAssumption, Zenon DEF Bound, MapAssumption

(* Only the handlers of a mode are put on the map.                            *)
AllHandlers == PlainClicks \cup PlainMoves \cup {"LoadCtrls"}

LEMMA HandlersTyped ==
  ASSUME [Next]_vars, listening \subseteq AllHandlers
  PROVE  listening' \subseteq AllHandlers
BY DEF Next, User, Answer, ModeButtons, Weather, Loading, EditDialog, DeleteDialog, Drawing,
       AnswerLoad, AnswerEdit, AnswerDelete, AnswerLane, AnswerAdd, vars, handlers,
       Leave, Start, FirstWx, EndWx, StartLoadCtrls, DragEnd, DoneLoadCtrls, FailLoadCtrls,
       ClickEdit, ClickDelete, CancelEdit, CancelAdd, EscapeEdit, CancelDelete, EndEdit, EndDelete,
       SaveEdit, DoneSaveEdit, FailSaveEdit, DeleteControl, DoneDeleteControl, FailDeleteControl,
       SetType, StartLanePoly, GeoSuccess, FailLane, EndLanePoly, AddControl, DoneAddControl,
       FailAddControl, ResetMode, ResetListeners, HandlersOf, Select, CloseEditDialog, BackToEdit,
       Rearm, Redraw, AllHandlers, PlainClicks, PlainMoves

(* The lists disabled, the type picked and bReload.                           *)
LEMMA ListsTyped ==
  ASSUME [Next]_vars, dimmed \subseteq Dialogs, picked \in Types \cup {None}, reload \in BOOLEAN
  PROVE  dimmed' \subseteq Dialogs /\ picked' \in Types \cup {None} /\ reload' \in BOOLEAN
<1>1. dimmed' \subseteq Dialogs
  BY DEF Next, User, Answer, ModeButtons, Weather, Loading, EditDialog, DeleteDialog, Drawing,
       AnswerLoad, AnswerEdit, AnswerDelete, AnswerLane, AnswerAdd, vars, screen,
       Leave, Start, FirstWx, EndWx, StartLoadCtrls, DragEnd, DoneLoadCtrls, FailLoadCtrls,
       ClickEdit, ClickDelete, CancelEdit, CancelAdd, EscapeEdit, CancelDelete, EndEdit, EndDelete,
       SaveEdit, DoneSaveEdit, FailSaveEdit, DeleteControl, DoneDeleteControl, FailDeleteControl,
       SetType, StartLanePoly, GeoSuccess, FailLane, EndLanePoly, AddControl, DoneAddControl,
       FailAddControl, CloseDeleteDialog, Relit, LoadCtrls, ListOf, Dialogs
<1>2. picked' \in Types \cup {None}
  BY DEF Next, User, Answer, ModeButtons, Weather, Loading, EditDialog, DeleteDialog, Drawing,
       AnswerLoad, AnswerEdit, AnswerDelete, AnswerLane, AnswerAdd, vars, screen,
       Leave, Start, FirstWx, EndWx, StartLoadCtrls, DragEnd, DoneLoadCtrls, FailLoadCtrls,
       ClickEdit, ClickDelete, CancelEdit, CancelAdd, EscapeEdit, CancelDelete, EndEdit, EndDelete,
       SaveEdit, DoneSaveEdit, FailSaveEdit, DeleteControl, DoneDeleteControl, FailDeleteControl,
       SetType, StartLanePoly, GeoSuccess, FailLane, EndLanePoly, AddControl, DoneAddControl,
       FailAddControl
<1>3. reload' \in BOOLEAN
  BY DEF Next, User, Answer, ModeButtons, Weather, Loading, EditDialog, DeleteDialog, Drawing,
       AnswerLoad, AnswerEdit, AnswerDelete, AnswerLane, AnswerAdd, vars, loading,
       Leave, Start, FirstWx, EndWx, StartLoadCtrls, DragEnd, DoneLoadCtrls, FailLoadCtrls,
       ClickEdit, ClickDelete, CancelEdit, CancelAdd, EscapeEdit, CancelDelete, EndEdit, EndDelete,
       SaveEdit, DoneSaveEdit, FailSaveEdit, DeleteControl, DoneDeleteControl, FailDeleteControl,
       SetType, StartLanePoly, GeoSuccess, FailLane, EndLanePoly, AddControl, DoneAddControl,
       FailAddControl, LoadCtrls
<1> QED BY <1>1, <1>2, <1>3

(* The user asks and visits within the bounds.                                *)
LEMMA AsksBounded ==
  ASSUME [Next]_vars, asked \in 0..Bound.asks, visits \in 0..Bound.visits
  PROVE  asked' \in 0..Bound'.asks /\ visits' \in 0..Bound'.visits
<1> DEFINE a == Bound.asks
           v == Bound.visits
<1>1. Bound' = Bound /\ a \in Nat /\ v \in Nat
  BY BoundKept
<1>2. asked' = asked \/ (asked < a /\ asked' = asked + 1)
  BY DEF Next, User, Answer, ModeButtons, Weather, Loading, EditDialog, DeleteDialog, Drawing,
       AnswerLoad, AnswerEdit, AnswerDelete, AnswerLane, AnswerAdd, vars, net,
       Leave, Start, FirstWx, EndWx, StartLoadCtrls, DragEnd, DoneLoadCtrls, FailLoadCtrls,
       ClickEdit, ClickDelete, CancelEdit, CancelAdd, EscapeEdit, CancelDelete, EndEdit, EndDelete,
       SaveEdit, DoneSaveEdit, FailSaveEdit, DeleteControl, DoneDeleteControl, FailDeleteControl,
       SetType, StartLanePoly, GeoSuccess, FailLane, EndLanePoly, AddControl, DoneAddControl,
       FailAddControl, Send
<1>3. visits' = visits \/ (visits < v /\ visits' = visits + 1)
  BY DEF Next, User, Answer, ModeButtons, Weather, Loading, EditDialog, DeleteDialog, Drawing,
       AnswerLoad, AnswerEdit, AnswerDelete, AnswerLane, AnswerAdd, vars, handlers,
       Leave, Start, FirstWx, EndWx, StartLoadCtrls, DragEnd, DoneLoadCtrls, FailLoadCtrls,
       ClickEdit, ClickDelete, CancelEdit, CancelAdd, EscapeEdit, CancelDelete, EndEdit, EndDelete,
       SaveEdit, DoneSaveEdit, FailSaveEdit, DeleteControl, DoneDeleteControl, FailDeleteControl,
       SetType, StartLanePoly, GeoSuccess, FailLane, EndLanePoly, AddControl, DoneAddControl,
       FailAddControl
<1>4. asked \in 0..a /\ visits \in 0..v
  OBVIOUS
<1>5. asked' \in 0..a /\ visits' \in 0..v
  <2> HIDE DEF a, v
  <2> QED BY ONLY <1>1, <1>2, <1>3, <1>4
<1> QED BY <1>1, <1>5

(* Every step keeps these types.                                              *)
LEMMA PageTypedStep ==
  ASSUME PageTyped, [Next]_vars
  PROVE  PageTyped'
<1>1. listening' \subseteq AllHandlers
  BY HandlersTyped DEF PageTyped, AllHandlers
<1>2. dimmed' \subseteq Dialogs /\ picked' \in Types \cup {None} /\ reload' \in BOOLEAN
  BY ListsTyped DEF PageTyped
<1>3. asked' \in 0..Bound'.asks /\ visits' \in 0..Bound'.visits
  BY AsksBounded DEF PageTyped
<1>4. marks' \subseteq marks \cup Notes
  BY NotesTaken
<1>5. marks' \subseteq {"impatient", "hasty", "retype", "escape", "cancel", "reopen", "refused", "added"}
  BY <1>4 DEF Notes, PageTyped
<1> QED BY <1>1, <1>2, <1>3, <1>5, Zenon DEF PageTyped, AllHandlers

-----------------------------------------------------------------------------
(* The requests and the timers are accounted for.                             *)
LEMMA TimersTyped ==
  ASSUME MapTyped
  PROVE  TimersSet \in Nat /\ timers["edit"] \in Nat /\ timers["delete"] \in Nat
BY DEF MapTyped, TimersSet, Dialogs

(* Where nothing is sent or answered.                                         *)
LEMMA CountedQuiet ==
  ASSUME MapTyped, MapTyped', PageCounted, asked \in Nat,
         flight' = flight, queue' = queue, lost' = lost, asked' = asked, TimersSet' <= TimersSet
  PROVE  PageCounted'
<1>1. Pending({"load"})' = Pending({"load"}) /\ Pending(Calls)' = Pending(Calls) /\ Reqs' = Reqs
  BY DEF Pending, OfKind, Reqs, Calls
<1>2. Pending(Calls) \in Nat /\ TimersSet \in Nat /\ TimersSet' \in Nat
  <2>1. Pending(Calls) \in Nat
    BY PendingTyped DEF PageCounted, Calls
  <2>2. TimersSet' \in Nat
    BY DEF MapTyped, TimersSet, Dialogs
  <2> QED BY <2>1, <2>2, TimersTyped
<1>3. TimersSet + Pending(Calls) <= asked
  BY DEF PageCounted
<1>4. TimersSet' + Pending(Calls)' <= asked'
  BY ONLY <1>1, <1>2, <1>3, asked' = asked, asked \in Nat, TimersSet' <= TimersSet
<1> QED BY <1>1, <1>4 DEF PageCounted

(* A load is answered, or fails.                                              *)
LEMMA CountedLoad ==
  ASSUME MapTyped, MapTyped', PageCounted, NEW r \in Reqs, r.what = "load", flight' = Took(r),
         asked' = asked, timers' = timers,
         \/ queue' = queue - 1 /\ lost' = lost
         \/ queue' = queue /\ lost' = lost + 1
  PROVE  PageCounted'
<1>1. IsABag(flight) /\ IsFiniteSet(Reqs) /\ lost \in Nat
      /\ queue = lost + Pending({"load"}) /\ TimersSet + Pending(Calls) <= asked
  BY DEF PageCounted
<1>2. IsABag(flight')
  BY <1>1, BagStays DEF Took, Reqs, BagToSet
<1>3. /\ IsFiniteSet(Reqs') /\ Pending({"load"}) \in Nat /\ Pending({"load"})' \in Nat
      /\ Pending({"load"})' = Pending({"load"}) - (IF r.what \in {"load"} THEN 1 ELSE 0)
  BY <1>1, PendingTook
<1>4. /\ Pending(Calls) \in Nat /\ Pending(Calls)' \in Nat
      /\ Pending(Calls)' = Pending(Calls) - (IF r.what \in Calls THEN 1 ELSE 0)
  BY <1>1, PendingTook DEF Calls
<1>5. Pending({"load"})' = Pending({"load"}) - 1 /\ Pending(Calls)' = Pending(Calls)
  <2>1. r.what \in {"load"} /\ r.what \notin Calls
    BY DEF Calls
  <2> QED BY ONLY <1>3, <1>4, <2>1
<1>6. queue' = lost' + Pending({"load"})' /\ lost' \in Nat
  <2>1. \/ queue' = queue - 1 /\ lost' = lost
        \/ queue' = queue /\ lost' = lost + 1
    OBVIOUS
  <2> QED BY ONLY <1>1, <1>3, <1>5, <2>1
<1>7. TimersSet' + Pending(Calls)' <= asked'
  BY <1>1, <1>5 DEF TimersSet
<1> QED BY <1>2, <1>3, <1>6, <1>7 DEF PageCounted

(* A call is answered, and may set a timer; a lane is answered, and sets none. *)
LEMMA CountedAnswer ==
  ASSUME MapTyped, MapTyped', PageCounted, asked \in Nat,
         NEW r \in Reqs, r.what # "load", flight' = Took(r),
         queue' = queue, lost' = lost, asked' = asked,
         TimersSet' <= TimersSet + (IF r.what \in Calls THEN 1 ELSE 0)
  PROVE  PageCounted'
<1>1. IsABag(flight) /\ IsFiniteSet(Reqs) /\ lost \in Nat
      /\ queue = lost + Pending({"load"}) /\ TimersSet + Pending(Calls) <= asked
  BY DEF PageCounted
<1>2. IsABag(flight')
  BY <1>1, BagStays DEF Took, Reqs, BagToSet
<1>3. /\ IsFiniteSet(Reqs') /\ Pending({"load"}) \in Nat
      /\ Pending({"load"})' = Pending({"load"}) - (IF r.what \in {"load"} THEN 1 ELSE 0)
  BY <1>1, PendingTook
<1>4. /\ Pending(Calls) \in Nat /\ Pending(Calls)' \in Nat
      /\ Pending(Calls)' = Pending(Calls) - (IF r.what \in Calls THEN 1 ELSE 0)
  BY <1>1, PendingTook DEF Calls
<1>5. Pending({"load"})' = Pending({"load"})
  <2>1. r.what \notin {"load"}
    OBVIOUS
  <2> QED BY ONLY <1>3, <2>1
<1>6. TimersSet \in Nat /\ TimersSet' \in Nat
  BY DEF MapTyped, TimersSet, Dialogs
<1>7. TimersSet' + Pending(Calls)' <= asked'
  <2>1. TimersSet' <= TimersSet + (IF r.what \in Calls THEN 1 ELSE 0) /\ asked' = asked /\ asked \in Nat
    OBVIOUS
  <2> DEFINE b == r.what \in Calls
  <2> HIDE DEF b
  <2>2. CASE b
    <3>1. TimersSet' <= TimersSet + 1 /\ Pending(Calls)' = Pending(Calls) - 1
      BY <1>4, <2>1, <2>2 DEF b
    <3> QED BY ONLY <1>1, <1>4, <1>6, <2>1, <3>1
  <2>3. CASE ~b
    <3>1. TimersSet' <= TimersSet + 0 /\ Pending(Calls)' = Pending(Calls) - 0
      BY <1>4, <2>1, <2>3 DEF b
    <3> QED BY ONLY <1>1, <1>4, <1>6, <2>1, <3>1
  <2> QED BY <2>2, <2>3
<1> QED BY <1>1, <1>2, <1>3, <1>5, <1>7 DEF PageCounted

(* A call, or the request of a lane, is sent.                                 *)
LEMMA CountedSent ==
  ASSUME MapTyped, MapTyped', PageCounted, asked \in Nat, NEW r, r.what # "load",
         flight' = flight (+) SetToBag({r}), queue' = queue, lost' = lost, timers' = timers,
         asked' = asked + (IF r.what \in Calls THEN 1 ELSE 0)
  PROVE  PageCounted'
<1>1. IsABag(flight) /\ IsFiniteSet(Reqs) /\ lost \in Nat
      /\ queue = lost + Pending({"load"}) /\ TimersSet + Pending(Calls) <= asked
  BY DEF PageCounted
<1>2. IsABag(flight')
  BY <1>1, BagStays
<1>3. IsFiniteSet({r}) /\ Cardinality({r}) = 1 /\ Cardinality({}) = 0
  BY FS_Singleton, FS_EmptySet
<1>4. /\ IsFiniteSet(Reqs') /\ Pending({"load"}) \in Nat
      /\ Pending({"load"})' = Pending({"load"}) + Cardinality({q \in {r} : q.what \in {"load"}})
  BY <1>1, <1>3, PendingSent
<1>5. /\ Pending(Calls) \in Nat
      /\ Pending(Calls)' = Pending(Calls) + Cardinality({q \in {r} : q.what \in Calls})
  BY <1>1, <1>3, PendingSent DEF Calls
<1>6. Pending({"load"})' = Pending({"load"})
  <2>1. {q \in {r} : q.what \in {"load"}} = {}
    OBVIOUS
  <2> QED BY <1>3, <1>4, <2>1
<1>7. TimersSet' = TimersSet /\ TimersSet \in Nat
  BY TimersTyped DEF TimersSet
<1>8. TimersSet' + Pending(Calls)' <= asked'
  <2>1. CASE r.what \in Calls
    <3>1. {q \in {r} : q.what \in Calls} = {r}
      BY <2>1
    <3>2. Pending(Calls)' = Pending(Calls) + 1 /\ asked' = asked + 1
      BY <1>3, <1>5, <2>1, <3>1
    <3> QED BY ONLY <1>1, <1>5, <1>7, <3>2, asked \in Nat
  <2>2. CASE r.what \notin Calls
    <3>1. {q \in {r} : q.what \in Calls} = {}
      BY <2>2
    <3>2. Pending(Calls)' = Pending(Calls) /\ asked' = asked
      BY <1>3, <1>5, <2>2, <3>1
    <3> QED BY ONLY <1>1, <1>5, <1>7, <3>2, asked \in Nat
  <2> QED BY <2>1, <2>2
<1> QED BY <1>1, <1>2, <1>4, <1>6, <1>8 DEF PageCounted

(* The loads of the tiles of a window are sent.                               *)
LEMMA CountedLoads ==
  ASSUME MapTyped, MapTyped', PageCounted, NEW type, NEW window, IsFiniteSet(window),
         LoadCtrls(type, window), lost' = lost, timers' = timers, asked' = asked
  PROVE  PageCounted'
<1> DEFINE needed == IF reload THEN window ELSE window \ tiles[type]
           S == {Ask("load", type, None, tile) : tile \in needed}
<1>1. IsABag(flight) /\ IsFiniteSet(Reqs) /\ lost \in Nat
      /\ queue = lost + Pending({"load"}) /\ TimersSet + Pending(Calls) <= asked
  BY DEF PageCounted
<1>2. flight' = flight (+) SetToBag(S) /\ queue' = queue + Cardinality(needed)
  BY DEF LoadCtrls
<1>3. needed \in SUBSET window /\ IsFiniteSet(needed) /\ Cardinality(needed) \in Nat
  <2>1. needed \in SUBSET window
    OBVIOUS
  <2> HIDE DEF needed
  <2>2. IsFiniteSet(needed)
    BY <2>1, FS_Subset
  <2> QED BY <2>1, <2>2, FS_CardinalityType
<1>4. IsFiniteSet(S) /\ Cardinality(S) = Cardinality(needed) /\ \A q \in S : q.what = "load"
  <2> HIDE DEF needed
  <2> QED BY <1>3, LoadsForTiles
<1> HIDE DEF needed, S
<1>5. IsABag(flight')
  BY <1>1, <1>2, BagStays
<1>6. /\ IsFiniteSet(Reqs') /\ Pending({"load"}) \in Nat
      /\ Pending({"load"})' = Pending({"load"}) + Cardinality({q \in S : q.what \in {"load"}})
  BY <1>1, <1>2, <1>4, PendingSent
<1>7. /\ Pending(Calls) \in Nat
      /\ Pending(Calls)' = Pending(Calls) + Cardinality({q \in S : q.what \in Calls})
  BY <1>1, <1>2, <1>4, PendingSent DEF Calls
<1>8. {q \in S : q.what \in {"load"}} = S /\ {q \in S : q.what \in Calls} = {}
  BY <1>4 DEF Calls
<1>9. Pending({"load"})' = Pending({"load"}) + Cardinality(needed) /\ Pending(Calls)' = Pending(Calls)
  <2>1. /\ Pending({"load"})' = Pending({"load"}) + Cardinality(S)
        /\ Pending(Calls)' = Pending(Calls) + Cardinality({})
    BY <1>6, <1>7, <1>8, Zenon
  <2>2. Cardinality({}) = 0
    BY FS_EmptySet
  <2> QED BY ONLY <1>4, <1>7, <2>1, <2>2
<1>10. queue' = lost' + Pending({"load"})'
  BY ONLY <1>1, <1>2, <1>3, <1>6, <1>9, lost' = lost
<1>11. TimersSet' + Pending(Calls)' <= asked'
  BY <1>1, <1>9 DEF TimersSet
<1> QED BY <1>1, <1>5, <1>6, <1>10, <1>11 DEF PageCounted

(* Every step keeps the account.                                              *)
LEMMA PageCountedStep ==
  ASSUME MapTyped, PageTyped, PageCounted, [Next]_vars
  PROVE  PageCounted'
<1>0. MapTyped' /\ asked \in Nat /\ TimersSet \in Nat
  <2>1. asked \in Nat
    BY BoundKept DEF PageTyped
  <2> QED BY <2>1, MapTypedStep, TimersTyped
<1>1. ASSUME flight' = flight, queue' = queue, lost' = lost, asked' = asked, timers' = timers
      PROVE  PageCounted'
  <2>1. TimersSet' <= TimersSet
    <3>1. TimersSet' = TimersSet
      BY <1>1 DEF TimersSet
    <3> QED BY <1>0, <3>1
  <2> QED BY <1>0, <1>1, <2>1, CountedQuiet
<1>2. ASSUME UNCHANGED vars PROVE PageCounted'
  BY <1>1, <1>2 DEF vars, net, loading
<1>3. ASSUME Leave PROVE PageCounted'
  BY <1>1, <1>3 DEF Leave, net, loading
<1>4. ASSUME FirstWx PROVE PageCounted'
  BY <1>1, <1>4 DEF FirstWx, net, loading
<1>5. ASSUME EndWx PROVE PageCounted'
  BY <1>1, <1>5 DEF EndWx, net, loading
<1>6. ASSUME CancelEdit PROVE PageCounted'
  BY <1>1, <1>6 DEF CancelEdit, net, loading
<1>7. ASSUME CancelAdd PROVE PageCounted'
  BY <1>1, <1>7 DEF CancelAdd, net, loading
<1>8. ASSUME EscapeEdit PROVE PageCounted'
  BY <1>1, <1>8 DEF EscapeEdit, net, loading
<1>9. ASSUME CancelDelete PROVE PageCounted'
  BY <1>1, <1>9 DEF CancelDelete, net, loading
<1>10. ASSUME EndLanePoly PROVE PageCounted'
  BY <1>1, <1>10 DEF EndLanePoly, net, loading
<1>11. ASSUME NEW m \in Modes, Start(m) PROVE PageCounted'
  BY <1>1, <1>11 DEF Start, net, loading
<1>12. ASSUME NEW f \in on, ClickEdit(f) PROVE PageCounted'
  BY <1>1, <1>12 DEF ClickEdit, net, loading
<1>13. ASSUME NEW f \in on, ClickDelete(f) PROVE PageCounted'
  BY <1>1, <1>13 DEF ClickDelete, net, loading
<1>14. ASSUME NEW t \in Types, SetType(t) PROVE PageCounted'
  BY <1>1, <1>14 DEF SetType, net, loading
<1>15. ASSUME EndEdit PROVE PageCounted'
  <2>1. TimersSet' <= TimersSet
    <3>1. timers["edit"]' = timers["edit"] - 1 /\ timers["delete"]' = timers["delete"]
      BY <1>15 DEF EndEdit, MapTyped, Dialogs
    <3> QED BY <3>1, TimersTyped DEF TimersSet
  <2> QED BY <1>0, <1>15, <2>1, CountedQuiet DEF EndEdit, loading
<1>16. ASSUME EndDelete PROVE PageCounted'
  <2>1. TimersSet' <= TimersSet
    <3>1. timers["delete"]' = timers["delete"] - 1 /\ timers["edit"]' = timers["edit"]
      BY <1>16 DEF EndDelete, MapTyped, Dialogs
    <3> QED BY <3>1, TimersTyped DEF TimersSet
  <2> QED BY <1>0, <1>16, <2>1, CountedQuiet DEF EndDelete, loading
<1>17. ASSUME NEW t \in Types, StartLoadCtrls(t) PROVE PageCounted'
  <2>1. LoadCtrls(t, view) /\ lost' = lost /\ timers' = timers /\ asked' = asked
    BY <1>17 DEF StartLoadCtrls
  <2>2. IsFiniteSet(view)
    BY MapAssumption DEF MapAssumption, MapTyped
  <2> QED BY <1>0, <2>1, <2>2, CountedLoads
<1>18. ASSUME NEW w \in Views, DragEnd(w) PROVE PageCounted'
  <2>1. CASE "LoadCtrls" \in listening
    <3>1. LoadCtrls(loadType, w) /\ lost' = lost /\ timers' = timers /\ asked' = asked
      BY <1>18, <2>1 DEF DragEnd
    <3>2. IsFiniteSet(w)
      BY MapAssumption DEF MapAssumption
    <3> QED BY <1>0, <3>1, <3>2, CountedLoads
  <2>2. CASE "LoadCtrls" \notin listening
    BY <1>1, <1>18, <2>2 DEF DragEnd, loading
  <2> QED BY <2>1, <2>2
<1>19. ASSUME NEW r \in Reqs, DoneLoadCtrls(r) PROVE PageCounted'
  BY <1>0, <1>19, CountedLoad DEF DoneLoadCtrls, loading, Popped
<1>20. ASSUME NEW r \in Reqs, FailLoadCtrls(r) PROVE PageCounted'
  BY <1>0, <1>20, CountedLoad DEF FailLoadCtrls, loading
<1>21. ASSUME NEW r \in Reqs, DoneSaveEdit(r) PROVE PageCounted'
  <2>1. r.what = "edit" /\ flight' = Took(r) /\ queue' = queue /\ lost' = lost /\ asked' = asked
    BY <1>21 DEF DoneSaveEdit, loading
  <2>2. timers' = timers \/ timers' = [timers EXCEPT !["edit"] = @ + 1]
    BY <1>21 DEF DoneSaveEdit, SetTimer
  <2>3. TimersSet' <= TimersSet + 1
    BY <2>2, TimersTyped DEF TimersSet, MapTyped, Dialogs
  <2>4. r.what # "load" /\ r.what \in Calls
    BY <2>1 DEF Calls
  <2>5. TimersSet' <= TimersSet + (IF r.what \in Calls THEN 1 ELSE 0)
    BY <2>3, <2>4
  <2> QED BY <1>0, <2>1, <2>4, <2>5, CountedAnswer
<1>22. ASSUME NEW r \in Reqs, FailSaveEdit(r) PROVE PageCounted'
  <2>1. r.what = "edit" /\ flight' = Took(r) /\ queue' = queue /\ lost' = lost /\ asked' = asked
    BY <1>22 DEF FailSaveEdit, loading
  <2>2. timers' = timers \/ timers' = [timers EXCEPT !["edit"] = @ + 1]
    BY <1>22 DEF FailSaveEdit, SetTimer
  <2>3. TimersSet' <= TimersSet + 1
    BY <2>2, TimersTyped DEF TimersSet, MapTyped, Dialogs
  <2>4. r.what # "load" /\ r.what \in Calls
    BY <2>1 DEF Calls
  <2>5. TimersSet' <= TimersSet + (IF r.what \in Calls THEN 1 ELSE 0)
    BY <2>3, <2>4
  <2> QED BY <1>0, <2>1, <2>4, <2>5, CountedAnswer
<1>23. ASSUME NEW r \in Reqs, DoneDeleteControl(r) PROVE PageCounted'
  <2>1. r.what = "delete" /\ flight' = Took(r) /\ queue' = queue /\ lost' = lost /\ asked' = asked
    BY <1>23 DEF DoneDeleteControl, loading
  <2>2. timers' = timers \/ timers' = [timers EXCEPT !["delete"] = @ + 1]
    BY <1>23 DEF DoneDeleteControl, SetTimer
  <2>3. TimersSet' <= TimersSet + 1
    BY <2>2, TimersTyped DEF TimersSet, MapTyped, Dialogs
  <2>4. r.what # "load" /\ r.what \in Calls
    BY <2>1 DEF Calls
  <2>5. TimersSet' <= TimersSet + (IF r.what \in Calls THEN 1 ELSE 0)
    BY <2>3, <2>4
  <2> QED BY <1>0, <2>1, <2>4, <2>5, CountedAnswer
<1>24. ASSUME NEW r \in Reqs, FailDeleteControl(r) PROVE PageCounted'
  <2>1. r.what = "delete" /\ flight' = Took(r) /\ queue' = queue /\ lost' = lost /\ asked' = asked
    BY <1>24 DEF FailDeleteControl, loading
  <2>2. timers' = timers \/ timers' = [timers EXCEPT !["delete"] = @ + 1]
    BY <1>24 DEF FailDeleteControl, SetTimer
  <2>3. TimersSet' <= TimersSet + 1
    BY <2>2, TimersTyped DEF TimersSet, MapTyped, Dialogs
  <2>4. r.what # "load" /\ r.what \in Calls
    BY <2>1 DEF Calls
  <2>5. TimersSet' <= TimersSet + (IF r.what \in Calls THEN 1 ELSE 0)
    BY <2>3, <2>4
  <2> QED BY <1>0, <2>1, <2>4, <2>5, CountedAnswer
<1>25. ASSUME NEW r \in Reqs, DoneAddControl(r) PROVE PageCounted'
  <2>1. r.what = "add" /\ flight' = Took(r) /\ queue' = queue /\ lost' = lost /\ asked' = asked
    BY <1>25 DEF DoneAddControl, loading
  <2>2. timers' = timers \/ timers' = [timers EXCEPT !["edit"] = @ + 1]
    BY <1>25 DEF DoneAddControl, SetTimer
  <2>3. TimersSet' <= TimersSet + 1
    BY <2>2, TimersTyped DEF TimersSet, MapTyped, Dialogs
  <2>4. r.what # "load" /\ r.what \in Calls
    BY <2>1 DEF Calls
  <2>5. TimersSet' <= TimersSet + (IF r.what \in Calls THEN 1 ELSE 0)
    BY <2>3, <2>4
  <2> QED BY <1>0, <2>1, <2>4, <2>5, CountedAnswer
<1>26. ASSUME NEW r \in Reqs, FailAddControl(r) PROVE PageCounted'
  <2>1. r.what = "add" /\ flight' = Took(r) /\ queue' = queue /\ lost' = lost /\ asked' = asked
    BY <1>26 DEF FailAddControl, loading
  <2>2. timers' = timers \/ timers' = [timers EXCEPT !["edit"] = @ + 1]
    BY <1>26 DEF FailAddControl, SetTimer
  <2>3. TimersSet' <= TimersSet + 1
    BY <2>2, TimersTyped DEF TimersSet, MapTyped, Dialogs
  <2>4. r.what # "load" /\ r.what \in Calls
    BY <2>1 DEF Calls
  <2>5. TimersSet' <= TimersSet + (IF r.what \in Calls THEN 1 ELSE 0)
    BY <2>3, <2>4
  <2> QED BY <1>0, <2>1, <2>4, <2>5, CountedAnswer
<1>27. ASSUME NEW r \in Reqs, GeoSuccess(r) PROVE PageCounted'
  <2>1. r.what = "lane" /\ flight' = Took(r) /\ queue' = queue /\ lost' = lost /\ asked' = asked
    BY <1>27 DEF GeoSuccess, loading
  <2>2. timers' = timers
    BY <1>27 DEF GeoSuccess
  <2>3. TimersSet' <= TimersSet + 0
    BY <1>0, <2>2 DEF TimersSet
  <2>4. r.what # "load" /\ r.what \notin Calls
    BY <2>1 DEF Calls
  <2>5. TimersSet' <= TimersSet + (IF r.what \in Calls THEN 1 ELSE 0)
    BY <2>3, <2>4
  <2> QED BY <1>0, <2>1, <2>4, <2>5, CountedAnswer
<1>28. ASSUME NEW r \in Reqs, FailLane(r) PROVE PageCounted'
  <2>1. r.what = "lane" /\ flight' = Took(r) /\ queue' = queue /\ lost' = lost /\ asked' = asked
    BY <1>28 DEF FailLane, loading
  <2>2. timers' = timers
    BY <1>28 DEF FailLane
  <2>3. TimersSet' <= TimersSet + 0
    BY <1>0, <2>2 DEF TimersSet
  <2>4. r.what # "load" /\ r.what \notin Calls
    BY <2>1 DEF Calls
  <2>5. TimersSet' <= TimersSet + (IF r.what \in Calls THEN 1 ELSE 0)
    BY <2>3, <2>4
  <2> QED BY <1>0, <2>1, <2>4, <2>5, CountedAnswer
<1>29. ASSUME SaveEdit PROVE PageCounted'
  <2> DEFINE r == Ask("edit", loadType, features[selected].ctrl, None)
  <2>1. queue' = queue /\ lost' = lost /\ timers' = timers
    BY <1>29 DEF SaveEdit, loading
  <2>2. \/ flight' = flight /\ asked' = asked
        \/ flight' = flight (+) SetToBag({r}) /\ asked' = asked + 1
    BY <1>29 DEF SaveEdit, Send
  <2>3. r.what = "edit"
    BY DEF Ask
  <2> HIDE DEF r
  <2>4. CASE flight' = flight /\ asked' = asked
    BY <1>1, <2>1, <2>4
  <2>5. CASE flight' = flight (+) SetToBag({r}) /\ asked' = asked + 1
    <3>1. r.what # "load" /\ r.what \in Calls
      BY <2>3 DEF Calls
    <3>2. asked' = asked + (IF r.what \in Calls THEN 1 ELSE 0)
      BY <2>5, <3>1
    <3> QED BY <1>0, <2>1, <2>5, <3>1, <3>2, CountedSent
  <2> QED BY <2>2, <2>4, <2>5
<1>30. ASSUME DeleteControl PROVE PageCounted'
  <2> DEFINE r == Ask("delete", None, features[selected].ctrl, None)
  <2>1. queue' = queue /\ lost' = lost /\ timers' = timers
    BY <1>30 DEF DeleteControl, loading
  <2>2. \/ flight' = flight /\ asked' = asked
        \/ flight' = flight (+) SetToBag({r}) /\ asked' = asked + 1
    BY <1>30 DEF DeleteControl, Send
  <2>3. r.what = "delete"
    BY DEF Ask
  <2> HIDE DEF r
  <2>4. CASE flight' = flight /\ asked' = asked
    BY <1>1, <2>1, <2>4
  <2>5. CASE flight' = flight (+) SetToBag({r}) /\ asked' = asked + 1
    <3>1. r.what # "load" /\ r.what \in Calls
      BY <2>3 DEF Calls
    <3>2. asked' = asked + (IF r.what \in Calls THEN 1 ELSE 0)
      BY <2>5, <3>1
    <3> QED BY <1>0, <2>1, <2>5, <3>1, <3>2, CountedSent
  <2> QED BY <2>2, <2>4, <2>5
<1>31. ASSUME AddControl PROVE PageCounted'
  <2> DEFINE r == Ask("add", addType, None, lane)
  <2>1. queue' = queue /\ lost' = lost /\ timers' = timers
    BY <1>31 DEF AddControl, loading
  <2>2. \/ flight' = flight /\ asked' = asked
        \/ flight' = flight (+) SetToBag({r}) /\ asked' = asked + 1
    BY <1>31 DEF AddControl, Send
  <2>3. r.what = "add"
    BY DEF Ask
  <2> HIDE DEF r
  <2>4. CASE flight' = flight /\ asked' = asked
    BY <1>1, <2>1, <2>4
  <2>5. CASE flight' = flight (+) SetToBag({r}) /\ asked' = asked + 1
    <3>1. r.what # "load" /\ r.what \in Calls
      BY <2>3 DEF Calls
    <3>2. asked' = asked + (IF r.what \in Calls THEN 1 ELSE 0)
      BY <2>5, <3>1
    <3> QED BY <1>0, <2>1, <2>5, <3>1, <3>2, CountedSent
  <2> QED BY <2>2, <2>4, <2>5
<1>32. ASSUME NEW l \in Lanes, StartLanePoly(l) PROVE PageCounted'
  <2> DEFINE r == Ask("lane", None, None, l)
  <2>1. queue' = queue /\ lost' = lost /\ timers' = timers /\ asked' = asked
    BY <1>32 DEF StartLanePoly, loading
  <2>2. flight' = flight \/ flight' = flight (+) SetToBag({r})
    BY <1>32 DEF StartLanePoly
  <2>3. r.what # "load" /\ r.what \notin Calls
    BY DEF Ask, Calls
  <2> HIDE DEF r
  <2>4. CASE flight' = flight
    BY <1>1, <2>1, <2>4
  <2>5. CASE flight' = flight (+) SetToBag({r})
    <3>1. asked' = asked + (IF r.what \in Calls THEN 1 ELSE 0)
      BY <1>0, <2>1, <2>3
    <3> QED BY <1>0, <2>1, <2>3, <2>5, <3>1, CountedSent
  <2> QED BY <2>2, <2>4, <2>5
<1> QED
  BY <1>2, <1>3, <1>4, <1>5, <1>6, <1>7, <1>8, <1>9, <1>10, <1>11, <1>12, <1>13, <1>14,
     <1>15, <1>16, <1>17, <1>18, <1>19, <1>20, <1>21, <1>22, <1>23, <1>24, <1>25, <1>26,
     <1>27, <1>28, <1>29, <1>30, <1>31, <1>32
  DEF Next, User, Answer, ModeButtons, Weather, Loading, EditDialog, DeleteDialog, Drawing,
      AnswerLoad, AnswerEdit, AnswerDelete, AnswerLane, AnswerAdd, Reqs

(* At first nothing is to be counted.                                         *)
LEMMA PageInit ==
  ASSUME Init
  PROVE  PageTyped /\ PageCounted
<1>1. Bound \in [asks : Nat, visits : Nat, loads : Nat, features : Nat]
  <2>1. patient \in BOOLEAN
    BY DEF patient
  <2> QED BY <2>1, MapAssumption, Zenon DEF Bound, MapAssumption
<1>2. Bound.asks \in Nat /\ Bound.visits \in Nat
  BY <1>1
<1>3. PageTyped
  <2>1. asked \in 0..Bound.asks /\ visits \in 0..Bound.visits
    <3> DEFINE a == Bound.asks
               v == Bound.visits
    <3>1. asked = 0 /\ visits = 0
      BY DEF Init
    <3>2. a \in Nat /\ v \in Nat
      BY <1>2
    <3> HIDE DEF a, v
    <3>3. asked \in 0..a /\ visits \in 0..v
      BY ONLY <3>1, <3>2
    <3> QED BY <3>3 DEF a, v
  <2>2. /\ listening \subseteq PlainClicks \cup PlainMoves \cup {"LoadCtrls"}
        /\ dimmed \subseteq Dialogs /\ picked \in Types \cup {None} /\ reload \in BOOLEAN
    BY DEF Init
  <2>3. marks \subseteq {"impatient", "hasty", "retype", "escape", "cancel", "reopen", "refused", "added"}
    BY DEF Init
  <2> QED BY <2>1, <2>2, <2>3, Zenon DEF PageTyped
<1>4. DOMAIN flight = {} /\ Reqs = {} /\ IsABag(flight)
  <2>1. flight = [e \in {} |-> 1]
    BY DEF Init, EmptyBag, SetToBag
  <2> QED BY <2>1 DEF IsABag, Reqs, BagToSet
<1>5. Pending({"load"}) = 0 /\ Pending(Calls) = 0 /\ IsFiniteSet(Reqs)
  <2>1. OfKind({"load"}) = {} /\ OfKind(Calls) = {}
    BY <1>4 DEF OfKind
  <2>2. SumFunctionOnSet(flight, {}) = 0
    BY SumFirst, FS_EmptySet
  <2> QED BY <1>4, <2>1, <2>2, FS_EmptySet DEF Pending
<1>6. TimersSet = 0 /\ asked = 0 /\ queue = 0 /\ lost = 0
  BY DEF Init, TimersSet, Dialogs
<1>7. PageCounted
  BY <1>4, <1>5, <1>6 DEF PageCounted
<1> QED BY <1>3, <1>7

(* The page hangs together: its variables are what they are said to be, the   *)
(* map has the handlers of its mode, and aLoadQueue stands for the loads under *)
(* way and those that failed, whatever the user does (map-edit.js).           *)
THEOREM PageSoundCorrect == Spec => []PageSound
<1> DEFINE Inv == MapInv /\ PageTyped /\ PageCounted
<1>1. Init => Inv
  BY MapInit, PageInit
<1>2. Inv /\ [Next]_vars => (PageTyped /\ PageCounted)'
  BY PageTypedStep, PageCountedStep DEF MapInv
<1>3. ASSUME Inv PROVE PageSound
  <2>1. MapTyped /\ PageTyped /\ PageCounted
    BY <1>3 DEF MapInv
  <2>2. OwnListeners
    BY <1>3 DEF MapInv, OwnListeners, Hands
  <2> DEFINE n == Pending({"load"})
             c == Pending(Calls)
             a == Bound.asks
  <2>3. n \in Nat /\ c \in Nat
    BY <2>1, PendingTyped DEF PageCounted, Calls
  <2>4. QueueCountsLoads
    <3>1. OfKind({"load"}) = {r \in DOMAIN flight : r.what = "load"}
      BY DEF OfKind, Reqs, BagToSet
    <3> QED BY <2>1, <3>1 DEF QueueCountsLoads, PageCounted, Pending
  <2>5. queue \in Nat /\ lost \in Nat /\ IsABag(flight)
    <3>1. queue = lost + n /\ lost \in Nat
      BY <2>1 DEF PageCounted
    <3> HIDE DEF n
    <3> QED BY <2>1, <2>3, <3>1 DEF PageCounted
  <2>6. timers \in [Dialogs -> 0..a]
    <3>1. timers["edit"] + timers["delete"] + c <= asked /\ asked \in 0..a
      BY <2>1 DEF PageCounted, PageTyped, TimersSet
    <3>2. timers["edit"] \in Nat /\ timers["delete"] \in Nat
      BY <2>1, TimersTyped
    <3>3. a \in Nat
      <4>1. patient \in BOOLEAN
        BY DEF patient
      <4>2. Bound \in [asks : Nat, visits : Nat, loads : Nat, features : Nat]
        BY <4>1, MapAssumption, Zenon DEF Bound, MapAssumption
      <4> QED BY <4>2
    <3> HIDE DEF a, c
    <3>4. timers["edit"] \in 0..a /\ timers["delete"] \in 0..a
      BY ONLY <2>3, <3>1, <3>2, <3>3
    <3> QED BY <2>1, <3>4 DEF MapTyped, Dialogs
  <2>7. TypeOK
    BY <2>1, <2>5, <2>6 DEF TypeOK, MapTyped, PageTyped, Feature
  <2> QED BY <2>2, <2>4, <2>7 DEF PageSound
<1> HIDE DEF Inv
<1>4. Spec => []Inv
  <2>1. ASSUME Init PROVE Inv
    BY <2>1, <1>1
  <2>2. Inv /\ [Next]_vars /\ MapInv' => Inv'
    BY <1>2 DEF Inv
  <2> QED BY <2>1, <2>2, MapInvariant, PTL DEF Spec
<1> QED BY <1>3, <1>4, PTL
=============================================================================

------------------------------- MODULE MapPage -------------------------------
(***************************************************************************)
(* The control map of the browser (web/script/map.js, map-edit.js and      *)
(* map-wxpoly.js).  One page runs one handler at a time; what interleaves   *)
(* is the user, the answers of the services and the timers that close a     *)
(* dialog 1.5 s after an answer.  A mode is a set of handlers put on the    *)
(* map; the two dialogs and the lists of control types are shared by modes. *)
(* Drawing (opacities, cursor, popup texts) is left out, and so is travel   *)
(* mode, which no button starts.                                            *)
(***************************************************************************)
EXTENDS Integers, SequencesExt, FiniteSetsExt

CONSTANTS
  Lanes,      \* the lanes a control can be drawn on
  Types,      \* the control types offered by the lists
  Ctrls,      \* control lineages: an edit replaces a control by its successor
  TypeOf,     \* the type of each
  Tiles,      \* the tiles controls are loaded by
  TileOf,     \* the tile each control lies in
  Views,      \* the sets of tiles the window can show
  InitLive,   \* the controls the server knows at first
  Bounds,     \* how many asks, visits, loads and features, by patience of the user
  None

ASSUME MapAssumption ==
  /\ TypeOf \in [Ctrls -> Types] /\ TileOf \in [Ctrls -> Tiles]
  /\ Views \subseteq SUBSET Tiles /\ (\A w \in Views : IsFiniteSet(w))
  /\ InitLive \subseteq Ctrls /\ IsFiniteSet(InitLive)
  /\ None \notin Types \cup Lanes \cup Nat
  /\ Bounds \in [BOOLEAN -> [asks : Nat, visits : Nat, loads : Nat, features : Nat]]

VARIABLES
  mode,      \* nMode
  listening, \* the handlers on the map itself; putting one there twice is once
  clicks,    \* how many times each click handler of the controls layer is there
  dlg,       \* which of #dlgEdit and #dlgDelete are open
  cover,     \* those whose overlay hides the buttons
  dimmed,    \* which lists of types, #edit-layers and #delete-layers, are disabled
  picked,    \* the radio button checked in the list of the mode
  lane,      \* sCurLane: the lane under the pointer
  lanes,     \* oLanes: what is known of the geometry of each
  addType,   \* nCtrlType of map.js
  loadType,  \* nCtrlType of map-edit.js
  view,      \* the tiles in the window
  selected,  \* nSelectedId
  features,  \* the features of existing-ctrls-fill: their control, and if emptied
  on,        \* the features whose state is on
  tiles,     \* oTilesLoaded
  queue,     \* the length of aLoadQueue
  reload,    \* bReload
  flight,    \* the requests not answered yet
  timers,    \* how many timers run that will close each dialog
  live,      \* the controls in force at the server
  asked,     \* history: additions, edits and deletions asked for
  visits,    \* history: modes entered
  lost,      \* history: loads that failed
  marks      \* history: what happened that the handlers do not provide for

handlers == <<mode, listening, clicks, visits>>
screen == <<dlg, cover, dimmed, picked>>
adding == <<lane, lanes, addType>>
loading == <<tiles, queue, reload>>
shown == <<features, on>>
net == <<flight, timers, live, asked, lost>>
vars == <<handlers, screen, adding, loadType, view, loading, selected, shown, net, marks>>

Modes == {"nohandlers", "wxpoly", "add", "edit", "delete"}
PlainClicks == {"StartLanePoly", "EndLanePoly", "FirstWx", "EndWx"}
PlainMoves == {"PopupPos", "SnapToLane", "UpdateLanePoly", "Hover", "UpdateWx"}
Dialogs == {"edit", "delete"}

Ask(what, type, ctrl, of) == [what |-> what, type |-> type, ctrl |-> ctrl, of |-> of]
Underway(what) == \E r \in BagToSet(flight) : r.what = what
Took(r) == flight (-) SetToBag({r})

(* The list of types that goes with a mode: every mode but edit uses the other.*)
ListOf(m) == IF m = "edit" THEN "edit" ELSE "delete"

(* What is still to come for the dialog of a mode.                             *)
DialogOf(m) == IF m = "delete" THEN "delete" ELSE "edit"
Outstanding ==
  {m \in {"add", "edit", "delete"} : Underway(m) \/ timers[DialogOf(m)] > 0}

(* Whether the user of this behaviour awaits each answer before moving on.    *)
patient == "impatient" \notin marks
Bound == Bounds[patient]

TypeOK ==
  /\ mode \in Modes /\ listening \subseteq PlainClicks \cup PlainMoves \cup {"LoadCtrls"}
  /\ clicks \in [Dialogs -> Nat] /\ dlg \subseteq Dialogs
  /\ cover \subseteq Dialogs /\ dimmed \subseteq Dialogs
  /\ {picked, addType, loadType} \subseteq Types \cup {None}
  /\ lane \in Lanes \cup {None} /\ lanes \in [Lanes -> {"unknown", "processing", "known"}]
  /\ view \in Views /\ selected \in {None} \cup DOMAIN features
  /\ features \in Seq([ctrl : Ctrls, type : Types, gone : BOOLEAN]) /\ on \subseteq DOMAIN features
  /\ tiles \in [Types -> SUBSET Tiles] /\ queue \in Nat /\ reload \in BOOLEAN
  /\ IsABag(flight) /\ timers \in [Dialogs -> 0..Bound.asks] /\ live \subseteq Ctrls
  /\ asked \in 0..Bound.asks /\ visits \in 0..Bound.visits /\ lost \in Nat
  /\ marks \subseteq {"impatient", "hasty", "retype", "escape", "cancel", "reopen", "refused", "added"}

Init ==
  /\ mode = "nohandlers" /\ listening = {} /\ clicks = [d \in Dialogs |-> 0]
  /\ dlg = {} /\ cover = {} /\ dimmed = {} /\ picked = None
  /\ lane = None /\ lanes = [l \in Lanes |-> "unknown"] /\ addType = None
  /\ loadType = None /\ view \in Views /\ selected = None
  /\ features = <<>> /\ on = {} /\ tiles = [t \in Types |-> {}] /\ queue = 0
  /\ reload = FALSE /\ flight = EmptyBag /\ timers = [d \in Dialogs |-> 0]
  /\ live = InitLive /\ asked = 0 /\ visits = 0 /\ lost = 0 /\ marks \in {{}, {"impatient"}}

-----------------------------------------------------------------------------
(* Modes.  A change of mode while something is under way is hasty: its answer *)
(* will find another mode.                                                    *)
HandlersOf(m) ==
  CASE m = "wxpoly" -> {"FirstWx", "PopupPos"}
    [] m = "add" -> {"PopupPos"}
    [] OTHER -> {"PopupPos", "Hover"}

OffFirst(m) == IF m \in Dialogs THEN [clicks EXCEPT ![m] = IF @ > 0 THEN @ - 1 ELSE 0] ELSE clicks

(* What a step adds to marks: a patient user takes none that is hasty.        *)
Marked(hasty, other) ==
  /\ patient => ~hasty
  /\ marks' = marks \cup other \cup (IF hasty THEN {"hasty"} ELSE {})
CuttingShort == Outstanding # {} \/ Underway("lane") \/ Underway("load")

(* Mutant: the handlers stay.                                                 *)
ResetNothing == listening

(* The handler of "dragend" is of neither kind, and stays.                    *)
ResetListeners == listening \cap {"LoadCtrls"}
ResetMode == mode' = "nohandlers" /\ listening' = ResetListeners

ResetAllLayers ==
  IF mode = "wxpoly" THEN UNCHANGED <<selected, on>>
  ELSE selected' = None /\ on' = {}

(* The button of the mode itself, or the layers button, leaves it.            *)
Leave ==
  /\ dlg = {} /\ mode # "nohandlers"
  /\ ResetMode /\ clicks' = OffFirst(mode) /\ ResetAllLayers
  /\ Marked(CuttingShort, {})
  /\ UNCHANGED <<visits, screen, adding, loadType, view, loading, features, net>>

(* The button of another mode first leaves the present one.                   *)
Start(m) ==
  /\ dlg = {} /\ mode # m /\ visits < Bound.visits /\ visits' = visits + 1
  /\ mode' = m /\ listening' = ResetListeners \cup HandlersOf(m)
  /\ clicks' = IF m \in Dialogs THEN [OffFirst(mode) EXCEPT ![m] = @ + 1] ELSE OffFirst(mode)
  /\ IF mode = "nohandlers" THEN UNCHANGED <<selected, on>> ELSE ResetAllLayers
  /\ dimmed' = dimmed \ ({m} \cap Dialogs)
  /\ picked' = IF m = "wxpoly" THEN picked ELSE None
  /\ addType' = IF m = "add" THEN None ELSE addType
  /\ Marked(CuttingShort, {})
  /\ UNCHANGED <<dlg, cover, lane, lanes, loadType, view, loading, features, net>>

(* Clicks on the map.  The user is taken not to click where handlers of two    *)
(* modes would both act.                                                      *)
SoleClick(h) == listening \cap PlainClicks = {h}

FirstWx ==
  /\ SoleClick("FirstWx")
  /\ listening' = (listening \ {"FirstWx"}) \cup {"EndWx", "UpdateWx"}
  /\ UNCHANGED <<mode, visits, clicks, screen, adding, loadType, view, loading, selected, shown, net, marks>>

EndWx ==
  /\ SoleClick("EndWx") /\ ResetMode /\ Marked(CuttingShort, {})
  /\ UNCHANGED <<clicks, visits, screen, adding, loadType, view, loading, selected, shown, net>>

-----------------------------------------------------------------------------
(* Loading the controls of a type, tile by tile.                              *)
Flagged(type, window) == [tiles EXCEPT ![type] = @ \cup window]

LoadCtrls(type, window) ==
  LET needed == IF reload THEN window ELSE window \ tiles[type]
      pending == queue + Cardinality(needed)
      list == {ListOf(mode)}
  IN /\ needed = {} \/ (pending <= Bound.loads /\ Len(features) < Bound.features)
     /\ tiles' = Flagged(type, window)
     /\ queue' = pending
     /\ flight' = flight (+) SetToBag({Ask("load", type, None, tile) : tile \in needed})
     /\ reload' = (reload /\ pending # 0)
     /\ dimmed' = IF pending = 0 THEN dimmed \ list ELSE dimmed \cup list

(* Mutant: the features of the other types stay on.                           *)
AlsoTurnedOn(t) == on \cup {i \in DOMAIN features : features[i].type = t}

TurnedOn(t) == {i \in DOMAIN features : features[i].type = t}

StartLoadCtrls(t) ==
  /\ mode \in Dialogs /\ ListOf(mode) \notin dimmed /\ t # picked
  /\ picked' = t /\ loadType' = t
  /\ on' = TurnedOn(t)
  /\ LoadCtrls(t, view)
  /\ listening' = listening \cup {"LoadCtrls"}
  /\ Marked(FALSE, IF dlg = {} /\ ~Underway("load") THEN {} ELSE {"retype"})
  /\ UNCHANGED <<mode, visits, clicks, dlg, cover, adding, view, selected, features, timers, live, asked, lost>>

DragEnd(window) ==
  /\ window # view /\ view' = window
  /\ IF "LoadCtrls" \in listening THEN LoadCtrls(loadType, window)
     ELSE UNCHANGED <<loading, flight, dimmed>>
  /\ UNCHANGED <<handlers, dlg, cover, picked, adding, loadType, selected, shown, timers, live, asked, lost, marks>>

Popped == queue - 1

DoneLoadCtrls(r) ==
  LET found == SetToSeq({c \in live : TypeOf[c] = r.type /\ TileOf[c] = r.of})
      list == {ListOf(mode)}
  IN /\ r.what = "load" /\ flight' = Took(r)
     /\ features' = features \o [k \in DOMAIN found |-> [ctrl |-> found[k], type |-> r.type, gone |-> FALSE]]
     /\ on' = on \cup {i \in DOMAIN features' : features'[i].type = r.type}
     /\ queue' = Popped /\ reload' = (reload /\ queue' # 0)
     /\ dimmed' = IF queue' = 0 THEN dimmed \ list ELSE dimmed
     /\ UNCHANGED <<handlers, dlg, cover, picked, adding, loadType, view, tiles, selected, timers, live, asked, lost, marks>>

FailLoadCtrls(r) ==
  /\ r.what = "load" /\ flight' = Took(r) /\ lost' = lost + 1
  /\ UNCHANGED <<handlers, screen, adding, loadType, view, loading, selected, shown, timers, live, asked, marks>>

-----------------------------------------------------------------------------
(* The dialogs.                                                               *)
(* The pointer moves onto a feature (carmaclHover sets nHoverId) and the user *)
(* clicks: the handler takes the feature and forgets it, so that a second     *)
(* handler of the same click finds none.  Off the map nothing points at one.  *)
Select(f) ==
  /\ "Hover" \in listening /\ listening \cap PlainClicks = {}
  /\ f \in on /\ ~features[f].gone
  /\ selected' = f /\ listening' = listening \ {"Hover"}

ClickEdit(f) ==
  /\ clicks["edit"] > 0 /\ Select(f) /\ clicks' = OffFirst("edit")
  /\ dimmed' = dimmed \cup {"edit"} /\ dlg' = dlg \cup {"edit"}
  /\ UNCHANGED <<mode, visits, cover, picked, adding, loadType, view, loading, shown, net, marks>>

ClickDelete(f) ==
  /\ clicks["delete"] > 0 /\ Select(f) /\ clicks' = OffFirst("delete")
  /\ dimmed' = dimmed \ {"delete"} /\ dlg' = dlg \cup {"delete"}
  /\ marks' = IF "delete" \in dlg THEN marks \cup {"reopen"} ELSE marks
  /\ UNCHANGED <<mode, visits, cover, picked, adding, loadType, view, loading, shown, net>>

Deselect == selected' = None

BackToEdit == IF mode = "edit" THEN {"Hover"} ELSE {}

(* closeEditDialog, after the handlers `extra' were put back.                  *)
CloseEditDialog(extra) ==
  /\ Deselect /\ listening' = listening \cup extra \cup BackToEdit
  /\ clicks' = IF mode = "edit" THEN [clicks EXCEPT !["edit"] = @ + 1] ELSE clicks
  /\ dlg' = dlg \ {"edit"}

Relit(d) == IF mode = d THEN dimmed \ {d} ELSE dimmed

CloseDeleteDialog ==
  /\ Deselect /\ dimmed' = dimmed \ {"delete"} /\ dlg' = dlg \ {"delete"}

Early(d) == \E m \in Outstanding : DialogOf(m) = d

Redraw == {"StartLanePoly", "SnapToLane"}

(* The cross of the edit dialog, or its cancel button, in the mode that has   *)
(* put a handler on them; in any other mode the cross only closes it.         *)
CancelEdit ==
  /\ "edit" \in dlg /\ mode = "edit"
  /\ CloseEditDialog({}) /\ dimmed' = Relit("edit") /\ Marked(Early("edit"), {})
  /\ UNCHANGED <<mode, visits, cover, picked, adding, loadType, view, loading, shown, net>>

CancelAdd ==
  /\ "edit" \in dlg /\ mode = "add"
  /\ CloseEditDialog(Redraw) /\ dimmed' = dimmed \ {"delete"}
  /\ Marked(Early("edit"), {})
  /\ UNCHANGED <<mode, visits, cover, picked, adding, loadType, view, loading, shown, net>>

(* The escape key closes the dialog and calls none of those handlers.         *)
EscapeEdit ==
  /\ "edit" \in dlg /\ dlg' = dlg \ {"edit"} /\ Marked(Early("edit"), {"escape"})
  /\ UNCHANGED <<handlers, cover, dimmed, picked, adding, loadType, view, loading, selected, shown, net>>

CancelDelete ==
  /\ "delete" \in dlg /\ CloseDeleteDialog
  /\ Marked(Early("delete"), {"cancel"})
  /\ UNCHANGED <<handlers, cover, picked, adding, loadType, view, loading, shown, net>>

(* The timer set by an answer.                                                *)
EndEdit ==
  /\ timers["edit"] > 0 /\ timers' = [timers EXCEPT !["edit"] = @ - 1]
  /\ cover' = cover \ {"edit"} /\ CloseEditDialog({}) /\ dimmed' = Relit("edit")
  /\ UNCHANGED <<mode, visits, picked, adding, loadType, view, loading, shown, flight, live, asked, lost, marks>>

EndDelete ==
  /\ timers["delete"] > 0 /\ timers' = [timers EXCEPT !["delete"] = @ - 1]
  /\ cover' = cover \ {"delete"} /\ CloseDeleteDialog
  /\ UNCHANGED <<handlers, picked, adding, loadType, view, loading, shown, flight, live, asked, lost, marks>>

Send(r) == asked < Bound.asks /\ asked' = asked + 1 /\ flight' = flight (+) SetToBag({r})
Cover(d) == d \in dlg /\ d \notin cover /\ cover' = cover \cup {d}

SetTimer(d) == timers' = [timers EXCEPT ![d] = @ + 1]

(* With nothing selected the handler fails once the overlay is up.            *)
SaveEdit ==
  /\ mode = "edit" /\ Cover("edit")
  /\ IF selected = None THEN UNCHANGED <<flight, asked>>
     ELSE Send(Ask("edit", loadType, features[selected].ctrl, None))
  /\ UNCHANGED <<handlers, dlg, dimmed, picked, adding, loadType, view, loading, selected, shown, timers, live, lost, marks>>

(* Mutant: an answer is taken for the feature loaded last.                    *)
LastFeature == Len(features)

Answered == selected

DoneSaveEdit(r) ==
  /\ r.what = "edit" /\ flight' = Took(r) /\ live' = live \cup {r.ctrl}
  /\ IF selected = None THEN UNCHANGED <<features, timers>>
     ELSE features' = [features EXCEPT ![Answered].ctrl = r.ctrl] /\ SetTimer("edit")
  /\ UNCHANGED <<handlers, screen, adding, loadType, view, loading, selected, on, asked, lost, marks>>

FailSaveEdit(r) ==
  /\ r.what = "edit" /\ flight' = Took(r) /\ SetTimer("edit")
  /\ UNCHANGED <<handlers, screen, adding, loadType, view, loading, selected, shown, live, asked, lost, marks>>

DeleteControl ==
  /\ Cover("delete")
  /\ IF selected = None THEN UNCHANGED <<flight, asked>>
     ELSE Send(Ask("delete", None, features[selected].ctrl, None))
  /\ UNCHANGED <<handlers, dlg, dimmed, picked, adding, loadType, view, loading, selected, shown, timers, live, lost, marks>>

(* Mutant: the click on a control is not waited for again.                    *)
RearmMoves == listening' = listening \cup {"Hover"} /\ UNCHANGED clicks

Rearm == listening' = listening \cup {"Hover"} /\ clicks' = [clicks EXCEPT !["delete"] = @ + 1]

DoneDeleteControl(r) ==
  /\ r.what = "delete" /\ flight' = Took(r) /\ live' = live \ {r.ctrl}
  /\ IF selected = None THEN UNCHANGED <<features, listening, clicks, timers>>
     ELSE features' = [features EXCEPT ![Answered].gone = TRUE] /\ Rearm /\ SetTimer("delete")
  /\ UNCHANGED <<mode, visits, screen, adding, loadType, view, loading, selected, on, asked, lost, marks>>

FailDeleteControl(r) ==
  /\ r.what = "delete" /\ flight' = Took(r) /\ Rearm /\ SetTimer("delete")
  /\ UNCHANGED <<mode, visits, screen, adding, loadType, view, loading, selected, shown, live, asked, lost, marks>>

-----------------------------------------------------------------------------
(* Drawing a control on a lane.                                               *)
SetType(t) ==
  /\ mode = "add" /\ "delete" \notin dimmed /\ t # picked
  /\ picked' = t /\ addType' = t
  /\ listening' = listening \cup (IF addType = None THEN Redraw ELSE {})
  /\ UNCHANGED <<mode, visits, clicks, dlg, cover, dimmed, lane, lanes, loadType, view, loading, selected, shown, net, marks>>

(* The pointer moves onto a lane (carmaclSnapToLane sets sCurLane) and the    *)
(* user clicks.  A lane still being asked for is left alone, and so is the    *)
(* map: the two handlers are off.                                             *)
StartLanePoly(l) ==
  /\ SoleClick("StartLanePoly") /\ lane' = l
  /\ listening' = (listening \ Redraw)
                    \cup (IF lanes[l] = "known" THEN {"EndLanePoly", "UpdateLanePoly"} ELSE {})
  /\ IF lanes[l] = "unknown"
     THEN lanes' = [lanes EXCEPT ![l] = "processing"]
          /\ flight' = flight (+) SetToBag({Ask("lane", None, None, l)})
     ELSE UNCHANGED <<lanes, flight>>
  /\ UNCHANGED <<mode, visits, clicks, screen, addType, loadType, view, loading, selected, shown, timers, live, asked, lost, marks>>

GeoSuccess(r) ==
  /\ r.what = "lane" /\ flight' = Took(r) /\ lanes' = [lanes EXCEPT ![r.of] = "known"]
  /\ listening' = listening \cup {"EndLanePoly", "UpdateLanePoly"}
  /\ UNCHANGED <<mode, visits, clicks, screen, lane, addType, loadType, view, loading, selected, shown, timers, live, asked, lost, marks>>

FailLane(r) ==
  /\ r.what = "lane" /\ flight' = Took(r)
  /\ UNCHANGED <<handlers, screen, adding, loadType, view, loading, selected, shown, timers, live, asked, lost, marks>>

(* Without a type the handler fails before it opens the dialog.               *)
EndLanePoly ==
  /\ SoleClick("EndLanePoly")
  /\ listening' = listening \ {"EndLanePoly", "UpdateLanePoly"}
  /\ dimmed' = dimmed \cup {"delete"}
  /\ dlg' = IF addType = None THEN dlg ELSE dlg \cup {"edit"}
  /\ marks' = IF "edit" \in dlg THEN marks \cup {"reopen"} ELSE marks
  /\ UNCHANGED <<mode, visits, clicks, cover, picked, adding, loadType, view, loading, selected, shown, net>>

Nameable(t) == {c \in Ctrls \ (live \cup InitLive) : TypeOf[c] = t}

AddControl ==
  /\ mode = "add" /\ Cover("edit")
  /\ IF lane = None \/ lanes[lane] # "known" THEN UNCHANGED <<flight, asked>>
     ELSE Nameable(addType) # {} /\ Send(Ask("add", addType, None, lane))
  /\ UNCHANGED <<handlers, dlg, dimmed, picked, adding, loadType, view, loading, selected, shown, timers, live, lost, marks>>

DoneAddControl(r) ==
  /\ r.what = "add" /\ flight' = Took(r)
  /\ \E c \in Nameable(r.type) : live' = live \cup {c}
  /\ reload' = TRUE /\ listening' = listening \cup Redraw
  /\ dimmed' = dimmed \ {"delete"} /\ SetTimer("edit") /\ marks' = marks \cup {"added"}
  /\ UNCHANGED <<mode, visits, clicks, dlg, cover, picked, adding, loadType, view, tiles, queue, selected, shown, asked, lost>>

FailAddControl(r) ==
  /\ r.what = "add" /\ flight' = Took(r) /\ SetTimer("edit") /\ marks' = marks \cup {"refused"}
  /\ UNCHANGED <<handlers, screen, adding, loadType, view, loading, selected, shown, live, asked, lost>>

-----------------------------------------------------------------------------
ModeButtons == Leave \/ \E m \in Modes \ {"nohandlers"} : Start(m)
Weather == FirstWx \/ EndWx
Loading == (\E t \in Types : StartLoadCtrls(t)) \/ (\E w \in Views : DragEnd(w))
EditDialog == (\E f \in on : ClickEdit(f)) \/ CancelEdit \/ EscapeEdit \/ SaveEdit
DeleteDialog == (\E f \in on : ClickDelete(f)) \/ CancelDelete \/ DeleteControl
Drawing == (\E t \in Types : SetType(t)) \/ (\E l \in Lanes : StartLanePoly(l)) \/ EndLanePoly \/ CancelAdd \/ AddControl

AnswerLoad == \E r \in BagToSet(flight) : DoneLoadCtrls(r) \/ FailLoadCtrls(r)
AnswerEdit == \E r \in BagToSet(flight) : DoneSaveEdit(r) \/ FailSaveEdit(r)
AnswerDelete == \E r \in BagToSet(flight) : DoneDeleteControl(r) \/ FailDeleteControl(r)
AnswerLane == \E r \in BagToSet(flight) : GeoSuccess(r) \/ FailLane(r)
AnswerAdd == \E r \in BagToSet(flight) : DoneAddControl(r) \/ FailAddControl(r)

User == ModeButtons \/ Weather \/ Loading \/ EditDialog \/ DeleteDialog \/ Drawing
Answer == AnswerLoad \/ AnswerEdit \/ AnswerDelete \/ AnswerLane \/ AnswerAdd
Next == User \/ Answer \/ EndEdit \/ EndDelete

Spec == Init /\ [][Next]_vars

-----------------------------------------------------------------------------
Hasty == "hasty" \in marks

(* While the user awaits each answer before moving on, the map carries the    *)
(* handlers of its mode only, and each click handler once: a click never does *)
(* what another mode would do (resetListeners and the ons of every answer).   *)
OwnListeners ==
  Hasty \/
  /\ listening \subseteq {"LoadCtrls"} \cup
       (CASE mode = "nohandlers" -> {}
          [] mode = "wxpoly" -> {"FirstWx", "EndWx", "UpdateWx", "PopupPos"}
          [] mode = "add" -> {"PopupPos", "SnapToLane", "StartLanePoly", "EndLanePoly", "UpdateLanePoly"}
          [] OTHER -> {"PopupPos", "Hover"})
  /\ \A d \in Dialogs : clicks[d] <= (IF mode = d THEN 1 ELSE 0)

(* aLoadQueue stands for the loads under way and those that failed, whatever  *)
(* the user does: one failure keeps the lists disabled and bReload set.       *)
QueueCountsLoads ==
  queue = lost + SumFunctionOnSet(flight, {r \in DOMAIN flight : r.what = "load"})

(* With its dialog closed, edit mode takes a click on a control, unless the   *)
(* escape key closed it (closeEditDialog puts the handlers back).             *)
EditReady ==
  mode = "edit" /\ "edit" \notin dlg /\ {"hasty", "escape"} \cap marks \in {{}, {"impatient"}}
    => "Hover" \in listening /\ clicks["edit"] > 0

(* So does delete mode, unless a dialog was ever cancelled, or opened again   *)
(* before the timer closed it: closeDeleteDialog puts nothing back.           *)
DeleteReady ==
  mode = "delete" /\ "delete" \notin dlg /\ {"hasty", "cancel", "reopen"} \cap marks \in {{}, {"impatient"}}
    => "Hover" \in listening /\ clicks["delete"] > 0

(* Add mode, once a type is selected, waits for a click or for a lane, unless a *)
(* lane could not be had, an addition was refused or a dialog was escaped.    *)
AddReady ==
  mode = "add" /\ addType # None /\ "edit" \notin dlg
    /\ {"hasty", "escape", "reopen", "refused"} \cap marks \in {{}, {"impatient"}}
    => \/ {"StartLanePoly", "EndLanePoly"} \cap listening # {}
       \/ \E l \in Lanes : lanes[l] = "processing"

(* The dialog of the mode is open exactly while a feature is selected, so     *)
(* that Save and Delete find the one they were opened for.                    *)
SelectionOpen ==
  {"hasty", "escape"} \cap marks = {} =>
    /\ mode = "edit" => ("edit" \in dlg <=> selected # None)
    /\ mode = "delete" => ("delete" \in dlg <=> selected # None)
    /\ mode \notin Dialogs => selected = None

(* An answer to an edit is written to the feature it was asked for: no        *)
(* feature ever takes the id of another's control (doneSaveEdit looks the     *)
(* feature up when the answer comes).                                         *)
KeepsItsControl ==
  [][Hasty \/ \A i \in DOMAIN features : features'[i].ctrl = features[i].ctrl]_vars

(* What the page has emptied the server has deleted: no control in force      *)
(* disappears from the map.                                                   *)
GoneIsDeleted ==
  {"hasty", "added"} \cap marks = {} =>
    \A i \in DOMAIN features : features[i].gone => features[i].ctrl \notin live

(* An edit is sent with the type of its control, unless the user chose        *)
(* another type under the open dialog or while controls were being loaded:    *)
(* an answer enables the list that carmaclClickEdit has disabled, and a       *)
(* closing dialog the one that carmaclLoadCtrls has.                          *)
RightType ==
  {"hasty", "retype"} \cap marks # {} \/
    \A r \in BagToSet(flight) : r.what = "edit" => r.type = TypeOf[r.ctrl]

(* Each control is on the map once until an addition has the tiles loaded     *)
(* again over what is there (bReload).                                        *)
OneFeaturePerControl ==
  "added" \in marks \/ Hasty \/
    \A i, j \in DOMAIN features : features[i].ctrl = features[j].ctrl => i = j

(* An overlay hides the buttons of a dialog only while an answer or the timer *)
(* that lifts it is to come: a handler that fails after it put the overlay up *)
(* would leave the dialog without buttons for good.                           *)
OverlayLifts ==
  Hasty \/ \A d \in cover : \E m \in Outstanding : DialogOf(m) = d

(* The page hangs together: its variables are what they are said to be, the   *)
(* map has the handlers of the mode, and the queue stands for loads.          *)
PageSound == TypeOK /\ OwnListeners /\ QueueCountsLoads

(* No mode stops answering: its dialog closed it takes a click, its dialog    *)
(* open the buttons come back.                                                *)
ModeReady == EditReady /\ DeleteReady /\ AddReady /\ OverlayLifts

(* What the dialogs act on is the control that was clicked: it is selected    *)
(* while they are open, sent with its type, emptied when it was deleted, and  *)
(* on the map once.                                                           *)
RightControl == SelectionOpen /\ RightType /\ GoneIsDeleted /\ OneFeaturePerControl
=============================================================================

------------------------------- MODULE RopBook -------------------------------
(***************************************************************************)
(* The rules of practice: the page (web/script/rop.js), the cache of its    *)
(* client (modules/api-rop.js) and the service that keeps them in a list    *)
(* and in a file replayed at start (cc/ws/RopMgr.java).  One window.  What  *)
(* a rule says is a number; its rules, controls and name change together.   *)
(***************************************************************************)
EXTENDS Integers, FiniteSetsExt

CONSTANTS
  RopIds,     \* identifiers, numbered in the order the service draws them
  RopFileAt0, \* what the file says of each at first
  MaxTyped,   \* how many contents the user types
  MaxSent,    \* how many saves the page sends
  NoRop

Displayed == {"A", "I", "U"}
Rop(body, status) == [body |-> body, status |-> status]
Rops == [body : 1..(MaxTyped + 1), status : Displayed \cup {"D"}]

ASSUME RopAssumption ==
  /\ RopIds \subseteq Nat /\ NoRop \notin RopIds \cup Rops
  /\ RopFileAt0 \in [RopIds -> Rops \cup {NoRop}]
  /\ MaxTyped \in Nat /\ MaxSent \in Nat

VARIABLES
  ropList,    \* m_oRops
  ropFile,    \* the last line of the file for each identifier
  ropListing, \* the request for the list: asked, answered or shown
  ropAnswer,  \* what it was answered
  ropCache,   \* loadedRules
  ropRows,    \* the rows of the table: what each says, its tab, how many there are
  ropForm,    \* the form: the identifier it saves to and what it holds
  ropCalls,   \* the saves not answered yet
  ropSent,    \* history: how many were sent
  ropTyped,   \* history: the contents typed
  ropAim,     \* history: the rule the user last chose to edit
  ropDrawn,   \* history: the identifiers in use so far
  ropDeleted, \* history: the rules the service was told to delete
  ropUps,     \* history: the restarts and reloads there were
  ropMarks    \* history: what happened that the page does not provide for

ropServer == <<ropList, ropFile, ropDrawn, ropDeleted>>
ropPage == <<ropListing, ropAnswer, ropCache, ropRows>>
ropEdit == <<ropForm, ropAim, ropTyped>>
ropVars == <<ropServer, ropPage, ropEdit, ropCalls, ropSent, ropUps, ropMarks>>

NoRow == [body |-> 0, tab |-> "none", n |-> 0]
EmptyForm == [id |-> NoRop, body |-> 0]
NoRops == [id \in RopIds |-> NoRop]

RopTypeOK ==
  /\ {ropList, ropFile, ropAnswer, ropCache} \subseteq [RopIds -> Rops \cup {NoRop}]
  /\ ropListing \in {"asked", "answered", "shown"}
  /\ ropRows \in [RopIds -> [body : 0..(MaxTyped + 1), tab : Displayed \cup {"none"}, n : 0..2]]
  /\ ropForm \in [id : RopIds \cup {NoRop}, body : 0..(MaxTyped + 1)]
  /\ ropCalls \subseteq [n : 1..MaxSent, id : RopIds \cup {NoRop}, rop : Rops,
                         as : {"save", "status"}, to : RopIds \cup {NoRop}, gone : BOOLEAN]
  /\ ropSent \in 0..MaxSent /\ ropTyped \in 0..MaxTyped
  /\ ropAim \in RopIds \cup {NoRop} /\ ropDrawn \subseteq RopIds /\ ropDeleted \subseteq ropDrawn
  /\ ropUps \subseteq {"restart", "reload"}
  /\ ropMarks \subseteq {"early", "again", "reused", "gone", "moved", "lost", "unwritten"}

RopInit ==
  /\ ropFile = RopFileAt0 /\ ropList = RopFileAt0 /\ ropDeleted = {}
  /\ ropDrawn = {id \in RopIds : RopFileAt0[id] # NoRop}
  /\ ropListing = "asked" /\ ropAnswer = NoRops /\ ropCache = NoRops
  /\ ropRows = [id \in RopIds |-> NoRow] /\ ropForm = EmptyForm /\ ropAim = NoRop
  /\ ropCalls = {} /\ ropSent = 0 /\ ropTyped = 0 /\ ropUps = {} /\ ropMarks = {}

-----------------------------------------------------------------------------
(* The list of rules, asked for once when the page opens.                     *)
DoNull ==
  /\ ropListing = "asked" /\ ropListing' = "answered" /\ ropAnswer' = ropList
  /\ UNCHANGED <<ropServer, ropCache, ropRows, ropEdit, ropCalls, ropSent, ropUps, ropMarks>>

DisplayExistingRules ==
  /\ ropListing = "answered" /\ ropListing' = "shown" /\ ropCache' = ropAnswer
  /\ ropRows' = [id \in RopIds |->
       IF ropAnswer[id] # NoRop /\ ropAnswer[id].status \in Displayed
         THEN [body |-> ropAnswer[id].body, tab |-> ropAnswer[id].status, n |-> 1]
         ELSE NoRow]
  /\ ropAnswer' = NoRops
  /\ UNCHANGED <<ropServer, ropEdit, ropCalls, ropSent, ropUps, ropMarks>>

(* The answer to a save clears the form, whatever it then holds.              *)
Touched == IF \E c \in ropCalls : c.as = "save" /\ ~c.gone THEN {"reused"} ELSE {}

(* The user fills in or changes the form; content 1 is that of old rules.     *)
TypeRule ==
  /\ ropTyped < MaxTyped /\ ropTyped' = ropTyped + 1
  /\ ropForm' = [ropForm EXCEPT !.body = ropTyped + 2]
  /\ ropMarks' = ropMarks \cup Touched
  /\ UNCHANGED <<ropServer, ropPage, ropAim, ropCalls, ropSent, ropUps>>

LoadRuleRow(id, copying) ==
  ropForm' = [id |-> IF copying THEN NoRop ELSE id,
              body |-> IF ropCache[id] = NoRop THEN 0 ELSE ropCache[id].body]

ClickLoad(id, copying) ==
  /\ ropRows[id].n > 0 /\ (copying \/ ropRows[id].tab = "U")
  /\ LoadRuleRow(id, copying)
  /\ ropAim' = IF copying THEN NoRop ELSE id
  /\ ropMarks' = ropMarks \cup Touched
  /\ UNCHANGED <<ropServer, ropPage, ropTyped, ropCalls, ropSent, ropUps>>

ResetForm == ropForm' = EmptyForm

ClearForm ==
  /\ ropForm # EmptyForm /\ ResetForm /\ ropAim' = NoRop
  /\ ropMarks' = ropMarks \cup Touched
  /\ UNCHANGED <<ropServer, ropPage, ropTyped, ropCalls, ropSent, ropUps>>

-----------------------------------------------------------------------------
Call(as, id, rop) ==
  [n |-> ropSent + 1, id |-> id, rop |-> rop, as |-> as, to |-> NoRop, gone |-> FALSE]
Again(id) == IF \E c \in ropCalls : c.id = id THEN {"again"} ELSE {}

(* Changing a status sends the cached rule with it, and drops it from the     *)
(* cache until the answer puts it back.                                       *)
UpdateRuleStatus(id, status) ==
  IF id = NoRop \/ ropCache[id] = NoRop THEN UNCHANGED <<ropCalls, ropSent, ropCache>>
  ELSE /\ ropCalls' = ropCalls \cup {Call("status", id, Rop(ropCache[id].body, status))}
       /\ ropSent' = ropSent + 1
       /\ ropCache' = [ropCache EXCEPT ![id] = NoRop]

RowRemoved(id) ==
  LET row == ropRows[id]
  IN  [ropRows EXCEPT ![id] = IF row.n > 1 THEN [row EXCEPT !.n = row.n - 1] ELSE NoRow]

DeleteRule(id) ==
  /\ ropRows[id].tab = "U" /\ ropSent < MaxSent
  /\ UpdateRuleStatus(id, "D")
  /\ ropRows' = RowRemoved(id)
  /\ ropMarks' = ropMarks \cup Again(id)
  /\ UNCHANGED <<ropServer, ropListing, ropAnswer, ropEdit, ropUps>>

(* Archive and restore read the identifier from their button, which has none. *)
ButtonOf(id) == NoRop

MoveRule(id, from, to) ==
  /\ ropRows[id].tab = from /\ ropSent < MaxSent
  /\ UpdateRuleStatus(ButtonOf(id), to)
  /\ ropRows' = [ropRows EXCEPT ![id].tab = to]
  /\ ropMarks' = ropMarks \cup {"moved"}
  /\ UNCHANGED <<ropServer, ropListing, ropAnswer, ropEdit, ropUps>>

ArchiveRule(id) == MoveRule(id, "I", "A")
RestoreRule(id) == MoveRule(id, "A", "I")

(* A rule is saved without a status, which the service takes for unused.      *)
SaveRule ==
  /\ ropForm.body # 0 /\ ropSent < MaxSent
  /\ ropCalls' = ropCalls \cup {Call("save", ropForm.id, Rop(ropForm.body, "U"))}
  /\ ropSent' = ropSent + 1
  /\ ropMarks' = ropMarks \cup Again(ropForm.id) \cup Touched
       \cup (IF ropListing # "shown" THEN {"early"} ELSE {})
       \cup (IF ropForm.id # NoRop /\ ropRows[ropForm.id] = NoRow THEN {"gone"} ELSE {})
  /\ UNCHANGED <<ropServer, ropPage, ropEdit, ropUps>>

-----------------------------------------------------------------------------
(* The service.  A rule without identifier gets the next one, which nothing   *)
(* has had before (getUUID); the list is changed before the file is.          *)
Fresh == RopIds \ ropDrawn

Listed(rop) == IF rop.status = "D" THEN NoRop ELSE rop

(* Mutant: the file is written only when the rule stays in the list.          *)
FiledUnlessDeleted(id, rop) ==
  IF rop.status = "D" THEN ropFile ELSE [ropFile EXCEPT ![id] = rop]

Filed(id, rop) == [ropFile EXCEPT ![id] = rop]

DoSave(c, written) ==
  \E id \in (IF c.id # NoRop THEN {c.id} ELSE IF Fresh = {} THEN {} ELSE {Min(Fresh)}) :
    /\ c.to = NoRop
    /\ ropList' = [ropList EXCEPT ![id] = Listed(c.rop)]
    /\ ropFile' = IF written THEN Filed(id, c.rop) ELSE ropFile
    /\ ropDrawn' = ropDrawn \cup {id}
    /\ ropDeleted' = IF c.rop.status = "D" THEN ropDeleted \cup {id} ELSE ropDeleted
    /\ ropCalls' = (ropCalls \ {c}) \cup (IF written /\ ~c.gone THEN {[c EXCEPT !.to = id]} ELSE {})
    /\ ropMarks' = ropMarks \cup (IF written THEN {} ELSE {"unwritten"})
    /\ UNCHANGED <<ropPage, ropEdit, ropSent, ropUps>>

(* A request or its answer is lost: the page goes on as it was.               *)
RopLost(c) ==
  /\ ropCalls' = ropCalls \ {c} /\ ropMarks' = ropMarks \cup {"lost"}
  /\ UNCHANGED <<ropServer, ropPage, ropEdit, ropSent, ropUps>>

(* The file is replayed: its last line for an identifier wins, deleted or not.*)
RopRestart ==
  /\ "restart" \notin ropUps /\ ropUps' = ropUps \cup {"restart"}
  /\ ropList' = ropFile
  /\ UNCHANGED <<ropFile, ropDrawn, ropDeleted, ropPage, ropEdit, ropCalls, ropSent, ropMarks>>

(* The page is opened again: what it has sent is still handled, unanswered.   *)
RopReload ==
  /\ "reload" \notin ropUps /\ ropUps' = ropUps \cup {"reload"}
  /\ ropListing' = "asked" /\ ropAnswer' = NoRops /\ ropCache' = NoRops
  /\ ropRows' = [id \in RopIds |-> NoRow] /\ ropForm' = EmptyForm /\ ropAim' = NoRop
  /\ ropCalls' = {[c EXCEPT !.gone = TRUE] : c \in {c \in ropCalls : c.to = NoRop}}
  /\ ropMarks' = (ropMarks \cap {"unwritten", "gone", "again", "early"})
       \cup (IF ropCalls' # {} THEN {"lost"} ELSE {})
  /\ UNCHANGED <<ropServer, ropTyped, ropSent>>

-----------------------------------------------------------------------------
(* Answers.  The cache is set only if the list has been shown, and a new row  *)
(* is put in a table that is there only then.                                 *)
Cached(c) == IF ropListing = "shown" THEN [ropCache EXCEPT ![c.to] = c.rop] ELSE ropCache

(* Mutant: the rule edited gets a second row.                                 *)
RowAppended(c) ==
  [ropRows EXCEPT ![c.to] = [body |-> c.rop.body, tab |-> "U", n |-> @.n + 1]]

RowAfterSave(c) ==
  IF ropListing # "shown" THEN ropRows
  ELSE IF c.id # NoRop
    THEN [ropRows EXCEPT ![c.id] = IF @.n > 0 THEN [@ EXCEPT !.body = c.rop.body] ELSE @]
    ELSE [ropRows EXCEPT ![c.to] = [body |-> c.rop.body, tab |-> "U", n |-> @.n + 1]]

SaveAnswered(c) ==
  /\ c.as = "save" /\ c.to # NoRop
  /\ ropCache' = Cached(c)
  /\ ropRows' = RowAfterSave(c)
  /\ ResetForm
  /\ ropAim' = IF "reused" \in ropMarks THEN ropAim ELSE NoRop
  /\ ropCalls' = ropCalls \ {c}
  /\ UNCHANGED <<ropServer, ropListing, ropAnswer, ropTyped, ropSent, ropUps, ropMarks>>

StatusAnswered(c) ==
  /\ c.as = "status" /\ c.to # NoRop
  /\ ropCache' = Cached(c)
  /\ ropCalls' = ropCalls \ {c}
  /\ UNCHANGED <<ropServer, ropListing, ropAnswer, ropRows, ropEdit, ropSent, ropUps, ropMarks>>

RopNext ==
  \/ DoNull
  \/ DisplayExistingRules
  \/ TypeRule
  \/ ClearForm
  \/ SaveRule
  \/ RopRestart
  \/ RopReload
  \/ \E id \in RopIds, copying \in BOOLEAN : ClickLoad(id, copying)
  \/ \E id \in RopIds : DeleteRule(id)
  \/ \E id \in RopIds : ArchiveRule(id)
  \/ \E id \in RopIds : RestoreRule(id)
  \/ \E c \in ropCalls, written \in BOOLEAN : DoSave(c, written)
  \/ \E c \in ropCalls : RopLost(c)
  \/ \E c \in ropCalls : SaveAnswered(c)
  \/ \E c \in ropCalls : StatusAnswered(c)

RopSpec == RopInit /\ [][RopNext]_ropVars

-----------------------------------------------------------------------------
Shown(rop) == rop # NoRop /\ rop.status \in Displayed

(* Once every answer is in, the table, the cache of the client and the list   *)
(* of the service agree rule by rule, one row each: unless a save was sent    *)
(* before the list was shown, two calls about one rule were under way         *)
(* together, an edited rule had been deleted, a rule was archived or          *)
(* restored, or a call, an answer or a write to the file was lost.            *)
TableAgrees ==
  (ropListing = "shown" /\ ropCalls = {}
     /\ ropMarks \cap {"early", "again", "gone", "moved", "lost", "unwritten"} = {}) =>
  \A id \in RopIds :
    IF Shown(ropList[id])
      THEN /\ ropRows[id] = [body |-> ropList[id].body, tab |-> ropList[id].status, n |-> 1]
           /\ ropCache[id] = ropList[id]
      ELSE ropRows[id] = NoRow

(* A row can always be edited or copied: its rule is in the cache, though a   *)
(* change of status takes it out until its answer, unless a save was sent     *)
(* before the list was shown.                                                 *)
RowIsCached ==
  "early" \in ropMarks \/ \A id \in RopIds : ropRows[id].n > 0 => Shown(ropCache[id])

(* The form saves to the rule the user last chose to edit, and to a new one   *)
(* after a copy, a clear or a save: unless it was used while a save was under *)
(* way, whose answer clears it.                                               *)
SavesWhereAimed ==
  ("reused" \notin ropMarks /\ ropForm.body # 0) => ropForm.id = ropAim

(* A deleted rule does not come back into force, after a restart either,      *)
(* unless it was saved while it was being deleted, from a form still holding  *)
(* it, or first before the list was shown, which gives it a second row; the   *)
(* page was left before the answer, or the file could not be written.         *)
DeletedStaysDeleted ==
  ropMarks \cap {"early", "again", "gone", "lost", "unwritten"} = {} =>
  \A id \in ropDeleted : ~Shown(ropList[id])

(* A restart changes no rule and loses none: all it does is to bring back     *)
(* the deleted ones, as deleted; unless the file could not be written.        *)
RestartKeepsRules ==
  "unwritten" \notin ropMarks =>
  \A id \in RopIds : ropList[id] # ropFile[id] =>
    ropList[id] = NoRop /\ ropFile[id].status = "D"

(* No rule is lost or replaced by another: a save goes where it was aimed,    *)
(* what was deleted does not come back, and a restart brings back the rest.   *)
RulesKept == SavesWhereAimed /\ DeletedStaysDeleted /\ RestartKeepsRules
=============================================================================

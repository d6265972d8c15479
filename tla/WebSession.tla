------------------------------ MODULE WebSession ------------------------------
(***************************************************************************)
(* The session of a user: the tabs of a browser with the token each keeps   *)
(* (web/script/login.js, check.js) and the sessions of the service          *)
(* (ws/SessMgr, ws/UserMgr), whose lease is looked up under a lock and      *)
(* extended outside it.  A session nobody asks for is never removed.        *)
(***************************************************************************)
EXTENDS Integers, FiniteSets

CONSTANTS
  Tabs,       \* the tabs of one browser: each has a storage of its own
  Lease,      \* how long an unused session lasts (TIMEOUT)
  MaxTime,    \* how far the clock goes
  MaxLogins,  \* how many sessions are made
  MaxCalls,   \* how many requests are sent
  MaxVisits   \* how many pages a tab opens

ASSUME SessionAssumption ==
  /\ Lease \in Nat /\ MaxTime \in Nat /\ MaxLogins \in Nat
  /\ MaxCalls \in Nat /\ MaxVisits \in Nat

VARIABLES
  wsTab,      \* the page, storage and pending navigation of each tab
  wsCalls,    \* requests not answered yet
  wsLive,     \* the tokens of SESSIONS
  wsUntil,    \* m_lUpdate of each session
  wsNow,      \* the clock
  wsSent, wsMade,       \* history: requests sent, sessions made
  wsServed,   \* history: when a request was last served for a session
  wsEnded,    \* history: the sessions that were logged out
  wsMarks     \* history: what happened that the source does not provide for

wsServer == <<wsLive, wsUntil, wsMade, wsServed, wsEnded>>
wsVars == <<wsTab, wsCalls, wsServer, wsNow, wsSent, wsMarks>>

Nobody == 0
Tokens == 1..MaxLogins

WsTypeOK ==
  /\ wsTab \in [Tabs -> [at : {"none", "login", "map"}, token : {Nobody} \cup Tokens,
                         visit : 0..MaxVisits, next : {"stay", "login", "map"}]]
  /\ wsCalls \subseteq [n : 1..MaxCalls, tab : Tabs, visit : Nat, token : {Nobody} \cup Tokens,
                        kind : {"login", "logout", "check", "use"},
                        at : {"sent", "found", "yes", "no", "lost"}]
  /\ wsLive \subseteq Tokens
  /\ wsUntil \in [Tokens -> 0..(MaxTime + Lease)] /\ wsServed \in [Tokens -> 0..MaxTime]
  /\ wsNow \in 0..MaxTime /\ wsSent \in 0..MaxCalls /\ wsMade \in 0..MaxLogins
  /\ wsEnded \subseteq Tokens /\ wsMarks \subseteq {"lost", "wiped", "between"}

WsInit ==
  /\ wsTab = [t \in Tabs |-> [at |-> "none", token |-> Nobody, visit |-> 0, next |-> "login"]]
  /\ wsCalls = {} /\ wsLive = {} /\ wsUntil = [k \in Tokens |-> 0] /\ wsServed = [k \in Tokens |-> 0]
  /\ wsNow = 0 /\ wsSent = 0 /\ wsMade = 0 /\ wsEnded = {} /\ wsMarks = {}

-----------------------------------------------------------------------------
(* The tabs.  A page waits for the answer to a login and does nothing else.   *)
Blocked(t) == \E c \in wsCalls : c.tab = t /\ c.visit = wsTab[t].visit /\ c.kind = "login"

Request(t, visit, kind, token) ==
  /\ wsSent < MaxCalls /\ wsSent' = wsSent + 1
  /\ wsCalls' = wsCalls \cup {[n |-> wsSent + 1, tab |-> t, visit |-> visit, kind |-> kind,
                               token |-> token, at |-> "sent"]}

AsksFirst(page) == IF page = "map" THEN {"check"} ELSE {"logout"}

(* A page is opened, by hand or because the last one said so: the login page  *)
(* ends the session the tab has, any other goes to it if there is none.       *)
Load(t, page) ==
  /\ wsTab[t].visit < MaxVisits /\ ~Blocked(t) /\ wsTab[t].next \in {"stay", page}
  /\ LET token == wsTab[t].token
         visit == wsTab[t].visit + 1
         asks == IF token = Nobody THEN {} ELSE AsksFirst(page)
     IN /\ wsTab' = [wsTab EXCEPT ![t] = [at |-> page, token |-> token, visit |-> visit,
                       next |-> IF page = "map" /\ token = Nobody THEN "login" ELSE "stay"]]
        /\ IF asks = {} THEN UNCHANGED <<wsCalls, wsSent>>
           ELSE \E kind \in asks : Request(t, visit, kind, token)
  /\ UNCHANGED <<wsServer, wsNow, wsMarks>>

(* A tab is duplicated with its storage.                                      *)
Duplicate(t, u) ==
  /\ wsTab[u].visit = 0 /\ wsTab[u].token = Nobody /\ wsTab[t].at = "map" /\ wsTab[t].next = "stay"
  /\ wsTab' = [wsTab EXCEPT ![u] = [@ EXCEPT !.token = wsTab[t].token, !.next = "map"]]
  /\ UNCHANGED <<wsCalls, wsServer, wsNow, wsSent, wsMarks>>

Login(t) ==
  /\ wsTab[t].at = "login" /\ wsTab[t].next = "stay" /\ ~Blocked(t)
  /\ Request(t, wsTab[t].visit, "login", Nobody)
  /\ UNCHANGED <<wsTab, wsServer, wsNow, wsMarks>>

Use(t) ==
  /\ wsTab[t].at = "map" /\ wsTab[t].next = "stay"
  /\ Request(t, wsTab[t].visit, "use", wsTab[t].token)
  /\ UNCHANGED <<wsTab, wsServer, wsNow, wsMarks>>

(* What the page does with an answer.                                         *)
Told(tab, c) ==
  CASE c.kind = "login" /\ c.at = "yes" -> [tab EXCEPT !.token = c.token, !.next = "map"]
    [] c.kind = "logout" /\ c.at # "lost" -> [tab EXCEPT !.token = Nobody]
    [] c.kind = "check" /\ c.at = "no" -> [tab EXCEPT !.next = "login"]
    [] OTHER -> tab

(* An answer arrives, or the loss of a request is noticed; the answer to a    *)
(* page that is gone is dropped.  Clearing the storage may take a token the   *)
(* tab got after the logout was asked for.                                    *)
Answer(c) ==
  /\ c.at \in {"yes", "no", "lost"} /\ (Blocked(c.tab) => c.kind = "login")
  /\ wsCalls' = wsCalls \ {c}
  /\ IF c.visit = wsTab[c.tab].visit
     THEN /\ wsTab' = [wsTab EXCEPT ![c.tab] = Told(@, c)]
          /\ wsMarks' = wsMarks \cup
               (IF c.kind = "logout" /\ c.at # "lost" /\ wsTab[c.tab].token \notin {Nobody, c.token}
                THEN {"wiped"} ELSE {})
     ELSE UNCHANGED <<wsTab, wsMarks>>
  /\ UNCHANGED <<wsServer, wsNow, wsSent>>

-----------------------------------------------------------------------------
(* The service.                                                               *)
Becomes(c, d) == wsCalls' = (wsCalls \ {c}) \cup {d}

Lose(c) ==
  /\ c.at \in {"sent", "yes", "no"} /\ Becomes(c, [c EXCEPT !.at = "lost"])
  /\ wsMarks' = wsMarks \cup {"lost"}
  /\ UNCHANGED <<wsTab, wsServer, wsNow, wsSent>>

(* getSession, creating: a session of its own for whoever may come in.        *)
ServeLogin(c) ==
  /\ c.kind = "login" /\ c.at = "sent"
  /\ \/ LET k == wsMade + 1
        IN /\ wsMade < MaxLogins /\ wsMade' = k
           /\ wsLive' = wsLive \cup {k}
           /\ wsUntil' = [wsUntil EXCEPT ![k] = wsNow + Lease]
           /\ wsServed' = [wsServed EXCEPT ![k] = wsNow]
           /\ Becomes(c, [c EXCEPT !.at = "yes", !.token = k])
           /\ UNCHANGED wsEnded
     \/ Becomes(c, [c EXCEPT !.at = "no"]) /\ UNCHANGED wsServer
  /\ UNCHANGED <<wsTab, wsNow, wsSent, wsMarks>>

(* Mutant: a session expires at the last moment of its lease.                 *)
ExpiredEarly(k) == wsUntil[k] <= wsNow
Expired(k) == wsUntil[k] < wsNow

(* getSession, under the lock: an expired session goes and is not found.      *)
LookUp(c) ==
  /\ c.kind # "login" /\ c.at = "sent"
  /\ IF c.token \in wsLive /\ ~Expired(c.token)
     THEN Becomes(c, [c EXCEPT !.at = "found"]) /\ UNCHANGED <<wsLive, wsMarks>>
     ELSE /\ Becomes(c, [c EXCEPT !.at = "no"])
          /\ wsLive' = wsLive \ {c.token}
          /\ wsMarks' = wsMarks \cup
               (IF c.token \in wsLive /\ \E d \in wsCalls : d.at = "found" /\ d.token = c.token
                THEN {"between"} ELSE {})
  /\ UNCHANGED <<wsTab, wsUntil, wsNow, wsSent, wsMade, wsServed, wsEnded>>

(* After the lock the lease is extended; a logout then removes the session.   *)
Serve(c) ==
  /\ c.at = "found" /\ Becomes(c, [c EXCEPT !.at = "yes"])
  /\ wsUntil' = [wsUntil EXCEPT ![c.token] = wsNow + Lease]
  /\ wsServed' = [wsServed EXCEPT ![c.token] = wsNow]
  /\ IF c.kind = "logout"
     THEN wsLive' = wsLive \ {c.token} /\ wsEnded' = wsEnded \cup {c.token}
     ELSE UNCHANGED <<wsLive, wsEnded>>
  /\ UNCHANGED <<wsTab, wsNow, wsSent, wsMade, wsMarks>>

Tick ==
  /\ wsNow < MaxTime /\ wsNow' = wsNow + 1
  /\ UNCHANGED <<wsTab, wsCalls, wsServer, wsSent, wsMarks>>

WsNext ==
  \/ \E t \in Tabs : Login(t) \/ Use(t) \/ \E page \in {"login", "map"} : Load(t, page)
  \/ \E t, u \in Tabs : Duplicate(t, u)
  \/ \E c \in wsCalls : Answer(c) \/ Lose(c) \/ ServeLogin(c) \/ LookUp(c) \/ Serve(c)
  \/ Tick

WsSpec == WsInit /\ [][WsNext]_wsVars

-----------------------------------------------------------------------------
(* A session of the service is one that a tab can use or end: a tab has its   *)
(* token, is about to get it, or has asked for its end.  A lost answer leaves *)
(* one behind, and so does clearing a storage that has a new token.           *)
NoStraySession ==
  wsMarks \cap {"lost", "wiped"} = {} =>
  \A k \in wsLive :
    \/ \E t \in Tabs : wsTab[t].token = k
    \/ \E c \in wsCalls : c.token = k /\ (c.kind # "login" => c.kind = "logout" /\ c.at \in {"sent", "found"})

(* Whoever is refused has logged out or was not served for longer than the    *)
(* lease: unless the session expired between the lookup of a request and the  *)
(* extension of the lease.                                                    *)
RefusedWhenIdle ==
  "between" \notin wsMarks =>
  \A c \in wsCalls :
    c.at = "no" /\ c.token \in Tokens => c.token \in wsEnded \/ wsNow > wsServed[c.token] + Lease

(* A session lasts as long as somebody uses it, and no longer than someone    *)
(* can end it.                                                                *)
SessionsLast == NoStraySession /\ RefusedWhenIdle
=============================================================================

----------------------------- MODULE AdminConsole -----------------------------
(***************************************************************************)
(* Sessions as the admin console sees them: auth-client.ts and             *)
(* AuthProvider.tsx in the tabs of one browser, the refresh cookie the     *)
(* tabs share, and the auth endpoints of the API behind the proxy.         *)
(*                                                                         *)
(* A tab sends the cookie the browser holds then, and the API may answer   *)
(* after other tabs have sent theirs.  The browser takes the cookie of an  *)
(* answer before the tab sees the rest.  A tab gives a request up after a  *)
(* while, and when its page is loaded anew; the API may serve it still.    *)
(*                                                                         *)
(* A snapshot of sessionGeneration or loginGeneration that is compared     *)
(* later is kept as what the comparison finds: whether the session was     *)
(* cleared, or a login landed, since the call began.                       *)
(*                                                                         *)
(* What the API's own handlers do to each other is in AuthSessions: here   *)
(* the API serves a request in one step.                                   *)
(***************************************************************************)
EXTENDS Integers, FiniteSets

CONSTANTS
  Tab,      \* tabs of the browser
  Token,    \* refresh tokens
  Call,     \* slots for calls of the auth endpoints
  None,
  MaxWork   \* bound of a run on loads, sign-ins, sign-outs and expiries

ASSUME ConstantsAssumption ==
  /\ None \notin Tab \cup Token \cup Call \cup {"ok", "superseded", "invalid"}
  /\ MaxWork \in Nat

VARIABLES
  jar,      \* the refresh cookie
  token,    \* what the API knows of each token
  tab,      \* the module state of auth-client and the status of AuthProvider
  call,     \* calls in flight
  adrift,   \* calls given up before the API served them
  \* history, read by no code
  strayed,  \* a live token was issued and not kept: answer lost, or overtaken
  out,      \* tabs that cleared their session and began nothing since
  over,     \* the browser signed out, with no other call under way
  verdict,  \* what was known when a tab last ended a session on its own
  work      \* steps so far that MaxWork counts

history == <<strayed, out, over, verdict, work>>
vars    == <<jar, token, tab, call, adrift, history>>

-----------------------------------------------------------------------------
(* A token is revoked by its rotation, which a refresh is told for a grace  *)
(* period; it is over after that, after a logout, and when it has expired.  *)
TokenState == {"unused", "live", "rotated", "over"}

TabState == [status : {"closed", "initializing", "authenticated", "unauthenticated"},
             access : {"none", "valid", "expired"}, user : BOOLEAN,
             promise : Call \cup {None}, me : BOOLEAN]

Closed == [status |-> "closed", access |-> "none", user |-> FALSE, promise |-> None,
           me |-> FALSE]

Answer == {"ok", "superseded", "invalid"}

CallState == [pc : {"idle", "send", "sent", "answered"},
              kind : {"refresh", "login", "logout"}, tab : Tab \cup {None},
              cookie : Token \cup {None}, answer : Answer \cup {None},
              fresh : Token \cup {None}, attempt : 1 .. 3, cleared : BOOLEAN,
              loggedIn : BOOLEAN, crossed : SUBSET (1 .. 3), lapsed : BOOLEAN]

Idle == [pc |-> "idle", kind |-> "refresh", tab |-> None, cookie |-> None, answer |-> None,
         fresh |-> None, attempt |-> 1, cleared |-> FALSE, loggedIn |-> FALSE, crossed |-> {},
         lapsed |-> FALSE]

At(c, pc) == call[c].pc = pc

(* Slots and unused tokens are all alike: one is as good as another.        *)
Begin(c)     == At(c, "idle") /\ c = CHOOSE d \in Call : At(d, "idle")
Minted(t)    == token[t] = "unused" /\ t = CHOOSE u \in Token : token[u] = "unused"
UnderWay(c) == call[c].pc \in {"sent", "answered"}

Live(t) == t # None /\ token[t] = "live"

Work == work < MaxWork /\ work' = work + 1

(* clearAuthenticatedSession, as it changes the tab and its calls. *)
Cleared(state) ==
  [state EXCEPT !.access = "none", !.user = FALSE, !.promise = None]

MutMarked(calls, t) == calls
Marked(calls, t) ==
  [c \in Call |-> IF calls[c].tab = t THEN [calls[c] EXCEPT !.cleared = TRUE] ELSE calls[c]]

(* setAuthenticatedSession, as it changes the calls of the tab. *)
LoggedIn(calls, t) ==
  [c \in Call |-> IF calls[c].tab = t THEN [calls[c] EXCEPT !.loggedIn = TRUE] ELSE calls[c]]

(* The browser's cookie becomes t: a live one it held is lost. *)
Keep(t) ==
  /\ jar' = t
  /\ strayed' = (strayed \/ (Live(jar) /\ jar # t))

Init ==
  /\ jar = None
  /\ token = [t \in Token |-> "unused"]
  /\ tab = [t \in Tab |-> Closed]
  /\ call = [c \in Call |-> Idle]
  /\ adrift = {}
  /\ strayed = FALSE
  /\ out = {}
  /\ over = FALSE
  /\ verdict = {}
  /\ work = 0

-----------------------------------------------------------------------------
(* A call leaves with the cookie of the browser.  Calls that are under way   *)
(* at a time cross, and so do calls with one that is adrift. *)
Sent(c, h) ==
  LET others == {d \in Call \ {c} : UnderWay(d)}
      crossed(g) == [g EXCEPT !.crossed = @ \cup {g.attempt}] IN
  [d \in Call |->
    IF d = c THEN LET g == [h EXCEPT !.pc = "sent", !.cookie = jar]
                  IN  IF others \cup adrift = {} THEN g ELSE crossed(g)
    ELSE IF d \in others THEN crossed(call[d])
    ELSE call[d]]

(* The calls that tab t gives up: the API may serve them still, and what it *)
(* has answered already is lost.  A login left alone signs nobody in.       *)
Wake(cs) ==
  /\ adrift' = adrift \cup {[kind |-> call[c].kind, cookie |-> call[c].cookie] :
                             c \in {d \in cs : At(d, "sent") /\ call[d].cookie # None
                                                             /\ call[d].kind # "login"}}
  /\ strayed' = (strayed \/ \E c \in cs : At(c, "answered") /\ call[c].fresh # None)

(* initializeSession begins a refresh; the calls of the page before end.    *)
Load(c, t) ==
  LET mine == {d \in Call : call[d].tab = t} IN
  /\ Begin(c)
  /\ Work
  /\ tab' = [tab EXCEPT ![t] = [Closed EXCEPT !.status = "initializing", !.promise = c]]
  /\ call' = [d \in Call |-> IF d = c THEN [Idle EXCEPT !.pc = "send", !.tab = t]
                             ELSE IF d \in mine THEN Idle ELSE call[d]]
  /\ Wake(mine)
  /\ out' = out \ {t}
  /\ UNCHANGED <<jar, token, over, verdict>>

(* The access token runs out. *)
Expire(t) ==
  /\ tab[t].access = "valid"
  /\ Work
  /\ tab' = [tab EXCEPT ![t].access = "expired"]
  /\ UNCHANGED <<jar, token, call, adrift, strayed, out, over, verdict>>

(* authFetch is answered 401 and calls refreshSession, which joins a        *)
(* refresh that is there. *)
Refetch(c, t) ==
  /\ Begin(c)
  /\ tab[t].status = "authenticated"
  /\ tab[t].access # "valid"
  /\ tab[t].promise = None
  /\ tab' = [tab EXCEPT ![t].promise = c]
  /\ call' = [call EXCEPT ![c] = [Idle EXCEPT !.pc = "send", !.tab = t]]
  /\ out' = out \ {t}
  /\ Work
  /\ UNCHANGED <<jar, token, adrift, strayed, over, verdict>>

Send(c) ==
  /\ At(c, "send")
  /\ call' = Sent(c, call[c])
  /\ UNCHANGED <<jar, token, tab, adrift, history>>

(* login, which LoginScreen offers to a tab without a session. *)
Login(c, t) ==
  /\ Begin(c)
  /\ tab[t].status = "unauthenticated"
  /\ \A d \in Call : call[d].tab = t => call[d].kind # "login"
  /\ Work
  /\ call' = Sent(c, [Idle EXCEPT !.kind = "login", !.tab = t])
  /\ over' = FALSE
  /\ UNCHANGED <<jar, token, tab, adrift, strayed, out, verdict>>

Logout(c, t) ==
  /\ Begin(c)
  /\ tab[t].status = "authenticated"
  /\ \A d \in Call : call[d].tab = t => call[d].kind # "logout"
  /\ Work
  /\ call' = Sent(c, [Idle EXCEPT !.kind = "logout", !.tab = t])
  /\ UNCHANGED <<jar, token, tab, adrift, strayed, out, over, verdict>>

-----------------------------------------------------------------------------
(* AuthService.refresh, login and logout. *)
Refusal(cookie) ==
  IF cookie # None /\ token[cookie] = "rotated" THEN "superseded" ELSE "invalid"

ServeRefresh(c, fresh) ==
  LET h == call[c] IN
  /\ At(c, "sent") /\ h.kind = "refresh"
  /\ IF Live(h.cookie)
       THEN /\ Minted(fresh)
            /\ token' = [token EXCEPT ![h.cookie] = "rotated", ![fresh] = "live"]
            /\ call' = [call EXCEPT ![c].pc = "answered", ![c].answer = "ok", ![c].fresh = fresh]
       ELSE /\ call' = [call EXCEPT ![c].pc = "answered", ![c].answer = Refusal(h.cookie)]
            /\ UNCHANGED token
  /\ UNCHANGED <<jar, tab, adrift, history>>

ServeLogin(c, fresh) ==
  /\ At(c, "sent") /\ call[c].kind = "login"
  /\ Minted(fresh)
  /\ token' = [token EXCEPT ![fresh] = "live"]
  /\ call' = [call EXCEPT ![c].pc = "answered", ![c].answer = "ok", ![c].fresh = fresh]
  /\ UNCHANGED <<jar, tab, adrift, history>>

Revoked(cookie) == IF Live(cookie) THEN [token EXCEPT ![cookie] = "over"] ELSE token

ServeLogout(c) ==
  /\ At(c, "sent") /\ call[c].kind = "logout"
  /\ token' = Revoked(call[c].cookie)
  /\ call' = [call EXCEPT ![c].pc = "answered", ![c].answer = "ok"]
  /\ UNCHANGED <<jar, tab, adrift, history>>

(* The API serves a call nobody waits for. *)
ServeAdrift(h, fresh) ==
  /\ h \in adrift
  /\ adrift' = adrift \ {h}
  /\ IF h.kind = "refresh" /\ Live(h.cookie)
       THEN /\ Minted(fresh)
            /\ token' = [token EXCEPT ![h.cookie] = "rotated", ![fresh] = "live"]
            /\ strayed' = TRUE
       ELSE /\ token' = IF h.kind = "logout" THEN Revoked(h.cookie) ELSE token
            /\ UNCHANGED strayed
  /\ UNCHANGED <<jar, tab, call, out, over, verdict, work>>

(* Time passes for a token: a change nobody can notice is no step.          *)
Held(t) ==
  \/ t = jar
  \/ \E c \in Call : t \in {call[c].cookie, call[c].fresh}
  \/ \E h \in adrift : h.cookie = t

(* The grace period is as long as a call may take, so the rotation that     *)
(* began it has been received or given up when it ends. *)
GraceEnds(t) ==
  /\ token[t] = "rotated"
  /\ Held(t)
  /\ \A c \in Call : call[c].cookie = t => call[c].fresh = None
  /\ token' = [token EXCEPT ![t] = "over"]
  /\ UNCHANGED <<jar, tab, call, adrift, history>>

(* A refresh token expires. *)
RunOut(t) ==
  /\ Live(t)
  /\ Held(t)
  /\ Work
  /\ token' = [token EXCEPT ![t] = "over"]
  /\ UNCHANGED <<jar, tab, call, adrift, strayed, out, over, verdict>>

-----------------------------------------------------------------------------
(* performRefresh: whether a rejection is the last word.  The first one     *)
(* never is, the second one unless the cookie was only superseded.          *)
MutConclusive(h) == h.attempt >= 2
Conclusive(h)    == h.attempt = 3 \/ (h.attempt = 2 /\ h.answer = "invalid")

(* A refresh ends with a token or without: initializeSession goes on to /me *)
(* or ends.  (Without a token and a user authFetch leaves for the login     *)
(* page, which is a Load.) *)
MutSettled(state, gotToken) ==
  [state EXCEPT !.access = IF gotToken THEN "valid" ELSE @,
                !.me = gotToken /\ state.status = "initializing",
                !.status = IF @ = "initializing" /\ ~gotToken THEN "unauthenticated" ELSE @]
Settled(state, gotToken) ==
  [state EXCEPT !.promise = None,
                !.access = IF gotToken THEN "valid" ELSE @,
                !.me = gotToken /\ state.status = "initializing",
                !.status = IF @ = "initializing" /\ ~gotToken THEN "unauthenticated" ELSE @]

(* The end of call c, and of a refresh that leaves its tab in state.        *)
Ended(calls, c) == [calls EXCEPT ![c] = Idle]

Settle(c, state, calls, gotToken) ==
  /\ tab' = [tab EXCEPT ![call[c].tab] = Settled(state, gotToken)]
  /\ call' = Ended(calls, c)

ReceiveToken(c) ==
  LET h == call[c] IN
  /\ At(c, "answered") /\ h.kind = "refresh" /\ h.answer = "ok"
  /\ Keep(h.fresh)
  /\ Settle(c, tab[h.tab], call, ~h.cleared)
  /\ UNCHANGED <<token, adrift, out, over, verdict, work>>

(* An attempt came without a cookie, or with one that was over. *)
Lapsed(h) == h.lapsed \/ h.cookie = None \/ token[h.cookie] = "over"

(* A rejection that is no superseded one takes the cookie away. *)
ReceiveRejection(c) ==
  LET h == call[c]
      t == h.tab IN
  /\ At(c, "answered") /\ h.kind = "refresh" /\ h.answer # "ok"
  /\ Keep(IF h.answer = "invalid" THEN None ELSE jar)
  /\ \/ /\ ~Conclusive(h)
        /\ call' = [call EXCEPT ![c] = [h EXCEPT !.pc = "send", !.attempt = @ + 1,
                                                 !.cookie = None, !.answer = None,
                                                 !.lapsed = Lapsed(h)]]
        /\ UNCHANGED <<tab, out, verdict>>
     \/ /\ Conclusive(h) /\ h.loggedIn
        /\ Settle(c, tab[t], call, FALSE)
        /\ UNCHANGED <<out, verdict>>
     \/ /\ Conclusive(h) /\ ~h.loggedIn
        /\ Settle(c, Cleared(tab[t]), Marked(call, t), FALSE)
        /\ out' = out \cup {t}
        /\ verdict' = IF tab[t].user
             THEN {[strayed |-> strayed', lapsed |-> Lapsed(h),
                    overtaken |-> h.crossed = 1 .. 3]}
             ELSE verdict
  /\ UNCHANGED <<token, adrift, over, work>>

ReceiveLogin(c) ==
  LET t == call[c].tab IN
  /\ At(c, "answered") /\ call[c].kind = "login"
  /\ Keep(call[c].fresh)
  /\ tab' = [tab EXCEPT ![t].access = "valid", ![t].user = TRUE, ![t].status = "authenticated"]
  /\ call' = Ended(LoggedIn(call, t), c)
  /\ out' = out \ {t}
  /\ UNCHANGED <<token, adrift, over, verdict, work>>

(* logout of auth-client, which clears the session unless that happened in  *)
(* between, and logout of AuthProvider. *)
ReceiveLogout(c) ==
  LET h == call[c]
      t == h.tab IN
  /\ At(c, "answered") /\ h.kind = "logout"
  /\ Keep(None)
  /\ IF h.cleared
       THEN /\ tab' = [tab EXCEPT ![t].status = "unauthenticated"]
            /\ call' = Ended(call, c)
            /\ UNCHANGED out
       ELSE /\ tab' = [tab EXCEPT ![t] = [Cleared(@) EXCEPT !.status = "unauthenticated"]]
            /\ call' = Ended(Marked(call, t), c)
            /\ out' = out \cup {t}
  /\ over' = (h.crossed = {})
  /\ UNCHANGED <<token, adrift, verdict, work>>

(* AUTH_REQUEST_TIMEOUT_MS, a dropped connection, or the proxy's answer     *)
(* that the API cannot be reached.  A refresh ends without a verdict, a     *)
(* login changes nothing, a logout clears the tab all the same.             *)
MutGivesUp(c) == At(c, "answered")
GivesUp(c)    == UnderWay(c)

Timeout(c) ==
  LET h == call[c]
      t == h.tab IN
  /\ GivesUp(c)
  /\ Wake({c})
  /\ CASE h.kind = "refresh" -> Settle(c, tab[t], call, FALSE) /\ UNCHANGED out
       [] h.kind = "login"   -> call' = Ended(call, c) /\ UNCHANGED <<tab, out>>
       [] h.kind = "logout"  ->
            /\ tab' = [tab EXCEPT ![t] = [Cleared(@) EXCEPT !.status = "unauthenticated"]]
            /\ call' = Ended(Marked(call, t), c)
            /\ out' = out \cup {t}
  /\ UNCHANGED <<jar, token, over, verdict, work>>

(* getCurrentUser of initializeSession: the user, or whatever failure.      *)
Identified(t) ==
  /\ tab[t].me
  /\ tab' = [tab EXCEPT ![t].me = FALSE, ![t].user = TRUE, ![t].status = "authenticated"]
  /\ UNCHANGED <<jar, token, call, adrift, history>>

NotIdentified(t) ==
  /\ tab[t].me
  /\ tab' = [tab EXCEPT ![t] = [Cleared(@) EXCEPT !.me = FALSE, !.status = "unauthenticated"]]
  /\ call' = Marked(call, t)
  /\ out' = out \cup {t}
  /\ UNCHANGED <<jar, token, adrift, strayed, over, verdict, work>>

-----------------------------------------------------------------------------
Next ==
  \/ \E c \in Call, t \in Tab : Load(c, t)
  \/ \E t \in Tab : Expire(t)
  \/ \E c \in Call, t \in Tab : Refetch(c, t)
  \/ \E c \in Call : Send(c)
  \/ \E c \in Call, t \in Tab : Login(c, t)
  \/ \E c \in Call, t \in Tab : Logout(c, t)
  \/ \E c \in Call, fresh \in Token : ServeRefresh(c, fresh)
  \/ \E c \in Call, fresh \in Token : ServeLogin(c, fresh)
  \/ \E c \in Call : ServeLogout(c)
  \/ \E h \in adrift, fresh \in Token : ServeAdrift(h, fresh)
  \/ \E t \in Token : GraceEnds(t)
  \/ \E t \in Token : RunOut(t)
  \/ \E c \in Call : ReceiveToken(c)
  \/ \E c \in Call : ReceiveRejection(c)
  \/ \E c \in Call : ReceiveLogin(c)
  \/ \E c \in Call : ReceiveLogout(c)
  \/ \E c \in Call : Timeout(c)
  \/ \E t \in Tab : Identified(t)
  \/ \E t \in Tab : NotIdentified(t)

Spec == Init /\ [][Next]_vars

(* The browser runs what is due, and every auth request is bounded by a     *)
(* timeout.  Nothing is asked of the API. *)
Fairness ==
  /\ \A c \in Call : WF_vars(Send(c)) /\ WF_vars(Timeout(c))
  /\ \A t \in Tab : WF_vars(Identified(t) \/ NotIdentified(t))

FairSpec == Spec /\ Fairness

-----------------------------------------------------------------------------
(* Type invariant: the promise a tab shares is of a refresh of its own that *)
(* is still running, so nobody waits for one that ended. *)
TypeOK ==
  /\ jar \in Token \cup {None}
  /\ token \in [Token -> TokenState]
  /\ tab \in [Tab -> TabState]
  /\ \A t \in Tab : tab[t].promise # None =>
       LET h == call[tab[t].promise] IN h.pc # "idle" /\ h.kind = "refresh" /\ h.tab = t
  /\ call \in [Call -> CallState]
  /\ adrift \subseteq [kind : {"refresh", "logout"}, cookie : Token]
  /\ strayed \in BOOLEAN
  /\ out \subseteq Tab
  /\ over \in BOOLEAN
  /\ verdict \subseteq [strayed : BOOLEAN, lapsed : BOOLEAN, overtaken : BOOLEAN]
  /\ work \in Nat

(* Who signed out is out: a tab that cleared its session has no access      *)
(* token until it refreshes or signs in anew, whatever its earlier calls    *)
(* bring; and after a logout that met no other call the browser has no      *)
(* cookie until somebody signs in. *)
SignedOutStays ==
  /\ \A t \in out : tab[t].access = "none"
  /\ over => jar = None

(* The console ends the session of a signed-in tab on its own only for      *)
(* cause: the cookie went astray, an attempt came without one or with one   *)
(* that was over, or each of three attempts was overtaken by another call.  *)
(* The rotations of another tab alone end it only at the third attempt.     *)
EndsForCause ==
  \A v \in verdict : v.strayed \/ v.lapsed \/ v.overtaken

(* No tab is left on "Checking your admin session". *)
InitializingEnds ==
  \A t \in Tab : tab[t].status = "initializing" ~> tab[t].status # "initializing"
=============================================================================

-------------------------- MODULE AdminConsoleProofs --------------------------
(***************************************************************************)
(* What AdminConsole keeps for any number of tabs, calls and tokens:       *)
(* whoever signed out stays out, the console ends a session on its own     *)
(* only for cause, and a tab that checks its session waits for something   *)
(* that comes to its end.                                                  *)
(***************************************************************************)
EXTENDS AdminConsole, TLAPS

-----------------------------------------------------------------------------
(* Types.                                                                   *)

Calls == [Call -> CallState]

LEMMA NoneIsNothing ==
  /\ None \notin Tab /\ None \notin Token /\ None \notin Call
BY ConstantsAssumption

LEMMA IdleType == Idle \in CallState
BY DEF Idle, CallState

LEMMA ClosedType == Closed \in TabState
BY DEF Closed, TabState

(* The fields of a call that only its own steps change.                     *)
Same(g, h) ==
  /\ g.pc = h.pc /\ g.kind = h.kind /\ g.tab = h.tab /\ g.cookie = h.cookie
  /\ g.answer = h.answer /\ g.fresh = h.fresh /\ g.attempt = h.attempt
  /\ g.crossed = h.crossed /\ g.lapsed = h.lapsed

LEMMA MarkedFacts ==
  ASSUME NEW calls \in Calls, NEW t
  PROVE  /\ Marked(calls, t) \in Calls
         /\ \A c \in Call : /\ Same(Marked(calls, t)[c], calls[c])
                            /\ calls[c].cleared => Marked(calls, t)[c].cleared
                            /\ calls[c].tab = t => Marked(calls, t)[c].cleared
<1>1. ASSUME NEW c \in Call
      PROVE  LET g == [calls[c] EXCEPT !.cleared = TRUE] IN
             /\ g \in CallState /\ g.cleared
             /\ g.pc = calls[c].pc /\ g.kind = calls[c].kind /\ g.tab = calls[c].tab
             /\ g.cookie = calls[c].cookie /\ g.answer = calls[c].answer
             /\ g.fresh = calls[c].fresh /\ g.attempt = calls[c].attempt
             /\ g.crossed = calls[c].crossed /\ g.lapsed = calls[c].lapsed
             /\ g.loggedIn = calls[c].loggedIn
  <2>1. calls[c] \in CallState
    BY DEF Calls
  <2> QED
    BY <2>1 DEF CallState
<1>2. \A c \in Call : Marked(calls, t)[c] =
        IF calls[c].tab = t THEN [calls[c] EXCEPT !.cleared = TRUE] ELSE calls[c]
  BY DEF Marked
<1>3. Marked(calls, t) \in Calls
  BY <1>1 DEF Marked, Calls
<1>4. ASSUME NEW c \in Call
      PROVE  /\ Same(Marked(calls, t)[c], calls[c])
             /\ calls[c].cleared => Marked(calls, t)[c].cleared
             /\ calls[c].tab = t => Marked(calls, t)[c].cleared
  <2> DEFINE g == [calls[c] EXCEPT !.cleared = TRUE]
  <2>1. /\ g.cleared
        /\ g.pc = calls[c].pc /\ g.kind = calls[c].kind /\ g.tab = calls[c].tab
        /\ g.cookie = calls[c].cookie /\ g.answer = calls[c].answer
        /\ g.fresh = calls[c].fresh /\ g.attempt = calls[c].attempt
        /\ g.crossed = calls[c].crossed /\ g.lapsed = calls[c].lapsed
        /\ g.loggedIn = calls[c].loggedIn
    BY <1>1
  <2>2. Marked(calls, t)[c] = IF calls[c].tab = t THEN g ELSE calls[c]
    BY <1>2
  <2> HIDE DEF g
  <2> QED
    BY <2>1, <2>2 DEF Same
<1> QED
  BY <1>3, <1>4

LEMMA LoggedInFacts ==
  ASSUME NEW calls \in Calls, NEW t
  PROVE  /\ LoggedIn(calls, t) \in Calls
         /\ \A c \in Call : /\ Same(LoggedIn(calls, t)[c], calls[c])
                            /\ LoggedIn(calls, t)[c].cleared = calls[c].cleared
<1>1. ASSUME NEW c \in Call
      PROVE  LET g == [calls[c] EXCEPT !.loggedIn = TRUE] IN
             /\ g \in CallState /\ g.loggedIn
             /\ g.pc = calls[c].pc /\ g.kind = calls[c].kind /\ g.tab = calls[c].tab
             /\ g.cookie = calls[c].cookie /\ g.answer = calls[c].answer
             /\ g.fresh = calls[c].fresh /\ g.attempt = calls[c].attempt
             /\ g.crossed = calls[c].crossed /\ g.lapsed = calls[c].lapsed
             /\ g.cleared = calls[c].cleared
  <2>1. calls[c] \in CallState
    BY DEF Calls
  <2> QED
    BY <2>1 DEF CallState
<1>2. \A c \in Call : LoggedIn(calls, t)[c] =
        IF calls[c].tab = t THEN [calls[c] EXCEPT !.loggedIn = TRUE] ELSE calls[c]
  BY DEF LoggedIn
<1>3. LoggedIn(calls, t) \in Calls
  BY <1>1 DEF LoggedIn, Calls
<1>4. ASSUME NEW c \in Call
      PROVE  /\ Same(LoggedIn(calls, t)[c], calls[c])
             /\ LoggedIn(calls, t)[c].cleared = calls[c].cleared
  <2> DEFINE g == [calls[c] EXCEPT !.loggedIn = TRUE]
  <2>1. /\ g.loggedIn
        /\ g.pc = calls[c].pc /\ g.kind = calls[c].kind /\ g.tab = calls[c].tab
        /\ g.cookie = calls[c].cookie /\ g.answer = calls[c].answer
        /\ g.fresh = calls[c].fresh /\ g.attempt = calls[c].attempt
        /\ g.crossed = calls[c].crossed /\ g.lapsed = calls[c].lapsed
        /\ g.cleared = calls[c].cleared
    BY <1>1
  <2>2. LoggedIn(calls, t)[c] = IF calls[c].tab = t THEN g ELSE calls[c]
    BY <1>2
  <2> HIDE DEF g
  <2> QED
    BY <2>1, <2>2 DEF Same
<1> QED
  BY <1>3, <1>4

LEMMA EndedFacts ==
  ASSUME NEW calls \in Calls, NEW c \in Call
  PROVE  /\ Ended(calls, c) \in Calls
         /\ Ended(calls, c)[c] = Idle
         /\ \A d \in Call \ {c} : Ended(calls, c)[d] = calls[d]
BY IdleType DEF Ended, Calls

LEMMA ClearedFacts ==
  ASSUME NEW state \in TabState
  PROVE  /\ Cleared(state) \in TabState
         /\ Cleared(state).access = "none" /\ Cleared(state).promise = None
         /\ Cleared(state).status = state.status
BY DEF Cleared, TabState

LEMMA SettledFacts ==
  ASSUME NEW state \in TabState, NEW got \in BOOLEAN
  PROVE  /\ Settled(state, got) \in TabState
         /\ Settled(state, got).promise = None
         /\ Settled(state, got).access = IF got THEN "valid" ELSE state.access
BY DEF Settled, TabState

LEMMA SentFacts ==
  ASSUME call \in Calls, jar \in Token \cup {None}, NEW c \in Call, NEW h \in CallState
  PROVE  /\ Sent(c, h) \in Calls
         /\ LET g == Sent(c, h)[c] IN
            /\ g.pc = "sent" /\ g.cookie = jar
            /\ g.kind = h.kind /\ g.tab = h.tab /\ g.answer = h.answer /\ g.fresh = h.fresh
            /\ g.attempt = h.attempt /\ g.lapsed = h.lapsed
            /\ g.cleared = h.cleared /\ g.loggedIn = h.loggedIn
            /\ h.crossed \subseteq g.crossed
            /\ h.attempt \in g.crossed \/ \A d \in Call \ {c} : ~UnderWay(d)
         /\ \A d \in Call \ {c} : LET g == Sent(c, h)[d] IN
            /\ g.pc = call[d].pc /\ g.cookie = call[d].cookie
            /\ g.kind = call[d].kind /\ g.tab = call[d].tab /\ g.answer = call[d].answer
            /\ g.fresh = call[d].fresh /\ g.attempt = call[d].attempt
            /\ g.lapsed = call[d].lapsed
            /\ g.cleared = call[d].cleared /\ g.loggedIn = call[d].loggedIn
            /\ call[d].crossed \subseteq g.crossed
            /\ UnderWay(d) => call[d].attempt \in g.crossed
<1> DEFINE others == {d \in Call \ {c} : UnderWay(d)}
           crossed(g) == [g EXCEPT !.crossed = @ \cup {g.attempt}]
           base == [h EXCEPT !.pc = "sent", !.cookie = jar]
<1>1. /\ base \in CallState
      /\ base.pc = "sent" /\ base.cookie = jar
      /\ base.kind = h.kind /\ base.tab = h.tab /\ base.answer = h.answer
      /\ base.fresh = h.fresh /\ base.attempt = h.attempt /\ base.lapsed = h.lapsed
      /\ base.cleared = h.cleared /\ base.loggedIn = h.loggedIn /\ base.crossed = h.crossed
  BY DEF CallState
<1>2. ASSUME NEW g \in CallState
      PROVE  /\ crossed(g) \in CallState
             /\ crossed(g).pc = g.pc /\ crossed(g).cookie = g.cookie
             /\ crossed(g).kind = g.kind /\ crossed(g).tab = g.tab
             /\ crossed(g).answer = g.answer /\ crossed(g).fresh = g.fresh
             /\ crossed(g).attempt = g.attempt /\ crossed(g).lapsed = g.lapsed
             /\ crossed(g).cleared = g.cleared /\ crossed(g).loggedIn = g.loggedIn
             /\ crossed(g).crossed = g.crossed \cup {g.attempt}
  BY DEF CallState
<1>3. Sent(c, h) = [d \in Call |->
        IF d = c THEN IF others \cup adrift = {} THEN base ELSE crossed(base)
        ELSE IF d \in others THEN crossed(call[d]) ELSE call[d]]
  BY DEF Sent
<1> HIDE DEF crossed, base
<1>4. \A d \in Call : call[d] \in CallState
  BY DEF Calls
<1>5. Sent(c, h) \in Calls
  BY <1>1, <1>2, <1>3, <1>4 DEF Calls
<1>6. Sent(c, h)[c] = IF others \cup adrift = {} THEN base ELSE crossed(base)
  BY <1>3
<1>7. \A d \in Call \ {c} :
        Sent(c, h)[d] = IF UnderWay(d) THEN crossed(call[d]) ELSE call[d]
  BY <1>3
<1>8. \A d \in Call \ {c} : LET g == Sent(c, h)[d] IN
            /\ g.pc = call[d].pc /\ g.cookie = call[d].cookie
            /\ g.kind = call[d].kind /\ g.tab = call[d].tab /\ g.answer = call[d].answer
            /\ g.fresh = call[d].fresh /\ g.attempt = call[d].attempt
            /\ g.lapsed = call[d].lapsed
            /\ g.cleared = call[d].cleared /\ g.loggedIn = call[d].loggedIn
            /\ call[d].crossed \subseteq g.crossed
            /\ UnderWay(d) => call[d].attempt \in g.crossed
  BY <1>2, <1>4, <1>7
<1>9. LET g == Sent(c, h)[c] IN
            /\ g.pc = "sent" /\ g.cookie = jar
            /\ g.kind = h.kind /\ g.tab = h.tab /\ g.answer = h.answer /\ g.fresh = h.fresh
            /\ g.attempt = h.attempt /\ g.lapsed = h.lapsed
            /\ g.cleared = h.cleared /\ g.loggedIn = h.loggedIn
            /\ h.crossed \subseteq g.crossed
            /\ h.attempt \in g.crossed \/ \A d \in Call \ {c} : ~UnderWay(d)
  <2>1. CASE others \cup adrift = {}
    BY <2>1, <1>1, <1>6
  <2>2. CASE others \cup adrift # {}
    BY <2>2, <1>1, <1>2, <1>6
  <2> QED
    BY <2>1, <2>2
<1> QED
  BY <1>5, <1>8, <1>9

-----------------------------------------------------------------------------
(* What each action does to the calls.                                      *)

(* A refresh of tab t that is about to be sent for the first time. *)
Begun(h, t) ==
  /\ h.pc = "send" /\ h.kind = "refresh" /\ h.tab = t /\ h.fresh = None
  /\ h.answer = None /\ h.cookie = None /\ h.attempt = 1 /\ ~h.lapsed

LEMMA BegunFacts ==
  ASSUME NEW t \in Tab
  PROVE  /\ [Idle EXCEPT !.pc = "send", !.tab = t] \in CallState
         /\ Begun([Idle EXCEPT !.pc = "send", !.tab = t], t)
<1>1. [Idle EXCEPT !.pc = "send", !.tab = t] \in CallState
  BY IdleType DEF CallState
<1>2. Begun([Idle EXCEPT !.pc = "send", !.tab = t], t)
  BY DEF Idle, Begun
<1> QED
  BY <1>1, <1>2

(* A login or a logout of tab t that is about to be sent. *)
LEMMA OtherBegunFacts ==
  ASSUME NEW t \in Tab, NEW kind \in {"login", "logout"}
  PROVE  LET h == [Idle EXCEPT !.kind = kind, !.tab = t] IN
         /\ h \in CallState
         /\ h.kind = kind /\ h.tab = t /\ h.fresh = None /\ h.answer = None
         /\ h.attempt = 1 /\ ~h.lapsed
<1>1. [Idle EXCEPT !.kind = kind, !.tab = t] \in CallState
  BY IdleType DEF CallState
<1> QED
  BY <1>1 DEF Idle

LEMMA LoadFacts ==
  ASSUME TypeOK, NEW c \in Call, NEW t \in Tab, Load(c, t)
  PROVE  /\ call' \in Calls
         /\ Begun(call'[c], t)
         /\ \A d \in Call \ {c} : call'[d] = IF call[d].tab = t THEN Idle ELSE call[d]
<1> DEFINE h == [Idle EXCEPT !.pc = "send", !.tab = t]
<1>1. call' = [d \in Call |-> IF d = c THEN h
                              ELSE IF d \in {e \in Call : call[e].tab = t} THEN Idle
                              ELSE call[d]]
  BY DEF Load
<1>2. h \in CallState /\ Begun(h, t)
  BY BegunFacts
<1> HIDE DEF h
<1>3. call \in Calls
  BY DEF TypeOK, Calls
<1> QED
  BY <1>1, <1>2, <1>3, IdleType DEF Calls

LEMMA RefetchFacts ==
  ASSUME TypeOK, NEW c \in Call, NEW t \in Tab, Refetch(c, t)
  PROVE  /\ call' \in Calls
         /\ Begun(call'[c], t)
         /\ \A d \in Call \ {c} : call'[d] = call[d]
<1> DEFINE h == [Idle EXCEPT !.pc = "send", !.tab = t]
<1>1. call' = [call EXCEPT ![c] = h]
  BY DEF Refetch
<1>2. h \in CallState /\ Begun(h, t)
  BY BegunFacts
<1> HIDE DEF h
<1>3. call \in Calls
  BY DEF TypeOK, Calls
<1> QED
  BY <1>1, <1>2, <1>3 DEF Calls

(* The API has served a call. *)
Served(g, h, answer, fresh) ==
  /\ g.pc = "answered" /\ g.answer = answer /\ g.fresh = fresh
  /\ g.kind = h.kind /\ g.tab = h.tab /\ g.cookie = h.cookie /\ g.attempt = h.attempt
  /\ g.crossed = h.crossed /\ g.lapsed = h.lapsed /\ g.cleared = h.cleared

LEMMA ServedFacts ==
  ASSUME TypeOK, NEW c \in Call, NEW answer \in Answer, NEW fresh \in Token \cup {None},
         \/ call' = [call EXCEPT ![c].pc = "answered", ![c].answer = answer, ![c].fresh = fresh]
         \/ /\ call' = [call EXCEPT ![c].pc = "answered", ![c].answer = answer]
            /\ fresh = call[c].fresh
  PROVE  /\ call' \in Calls
         /\ Served(call'[c], call[c], answer, fresh)
         /\ \A d \in Call \ {c} : call'[d] = call[d]
<1>1. call \in Calls /\ call[c] \in CallState
  BY DEF TypeOK, Calls
<1>2. PICK g : /\ g \in CallState
               /\ Served(g, call[c], answer, fresh)
               /\ call' = [call EXCEPT ![c] = g]
  <2>1. CASE call' = [call EXCEPT ![c].pc = "answered", ![c].answer = answer, ![c].fresh = fresh]
    <3> DEFINE g == [call[c] EXCEPT !.pc = "answered", !.answer = answer, !.fresh = fresh]
    <3>1. g \in CallState /\ Served(g, call[c], answer, fresh)
      BY <1>1 DEF CallState, Served
    <3>2. call' = [call EXCEPT ![c] = g]
      BY <2>1
    <3> QED
      BY <3>1, <3>2
  <2>2. CASE /\ call' = [call EXCEPT ![c].pc = "answered", ![c].answer = answer]
             /\ fresh = call[c].fresh
    <3> DEFINE g == [call[c] EXCEPT !.pc = "answered", !.answer = answer]
    <3>1. g \in CallState /\ Served(g, call[c], answer, fresh)
      BY <1>1, <2>2 DEF CallState, Served
    <3>2. call' = [call EXCEPT ![c] = g]
      BY <2>2
    <3> QED
      BY <3>1, <3>2
  <2> QED
    BY <2>1, <2>2
<1> QED
  BY <1>1, <1>2 DEF Calls

(* A refresh that tries again. *)
Retried(c) ==
  LET h == call[c] IN
  call' = [call EXCEPT ![c] = [h EXCEPT !.pc = "send", !.attempt = @ + 1,
                                        !.cookie = None, !.answer = None,
                                        !.lapsed = Lapsed(h)]]

LEMMA RetriedFacts ==
  ASSUME TypeOK, NEW c \in Call, call[c].attempt # 3, Retried(c)
  PROVE  /\ call' \in Calls
         /\ LET g == call'[c] IN
            /\ g.pc = "send" /\ g.kind = call[c].kind /\ g.tab = call[c].tab
            /\ g.cookie = None /\ g.fresh = call[c].fresh /\ g.attempt = call[c].attempt + 1
            /\ g.crossed = call[c].crossed /\ g.cleared = call[c].cleared
            /\ g.lapsed = Lapsed(call[c]) /\ g.answer = None
         /\ \A d \in Call \ {c} : call'[d] = call[d]
<1>1. call \in Calls /\ call[c] \in CallState
  BY DEF TypeOK, Calls
<1>2. PICK h : h = call[c]
  OBVIOUS
<1>3. PICK lapsed : lapsed = Lapsed(h) /\ lapsed \in BOOLEAN
  <2>1. Lapsed(h) \in BOOLEAN
    BY <1>1, <1>2 DEF Lapsed, CallState
  <2> QED
    BY <2>1
<1>7. PICK attempt \in 1 .. 3 : attempt = h.attempt + 1
  BY <1>1, <1>2 DEF CallState
<1> DEFINE g == [h EXCEPT !.pc = "send", !.attempt = attempt, !.cookie = None, !.answer = None,
                          !.lapsed = lapsed]
<1>4. /\ g \in CallState
      /\ g.pc = "send" /\ g.kind = h.kind /\ g.tab = h.tab
      /\ g.cookie = None /\ g.fresh = h.fresh /\ g.attempt = h.attempt + 1
      /\ g.crossed = h.crossed /\ g.cleared = h.cleared /\ g.lapsed = lapsed
      /\ g.answer = None
  <2>1. h \in CallState
    BY <1>1, <1>2
  <2>2. g \in CallState
    BY <1>3, <2>1 DEF CallState
  <2> QED
    BY <1>7, <2>1, <2>2 DEF CallState
<1>5. call' = [call EXCEPT ![c] = g]
  BY <1>2, <1>3, <1>7 DEF Retried
<1> HIDE DEF g
<1>6. call' \in Calls /\ call'[c] = g /\ \A d \in Call \ {c} : call'[d] = call[d]
  BY <1>1, <1>4, <1>5 DEF Calls
<1> QED
  BY <1>2, <1>3, <1>4, <1>6

(* Calls come to an end, and others may be marked. *)
Ends(cs) ==
  /\ call' \in Calls
  /\ \A d \in Call : IF d \in cs THEN call'[d] = Idle
                     ELSE Same(call'[d], call[d]) /\ (call[d].cleared => call'[d].cleared)

LEMMA EndsFacts ==
  ASSUME TypeOK, NEW c \in Call, NEW t,
         \/ call' = Ended(call, c)
         \/ call' = Ended(Marked(call, t), c)
         \/ call' = Ended(LoggedIn(call, t), c)
  PROVE  Ends({c})
<1>1. call \in Calls
  BY DEF TypeOK, Calls
<1>2. PICK calls \in Calls :
        /\ call' = Ended(calls, c)
        /\ \A d \in Call : Same(calls[d], call[d]) /\ (call[d].cleared => calls[d].cleared)
  <2>1. CASE call' = Ended(call, c)
    BY <1>1, <2>1 DEF Same
  <2>2. CASE call' = Ended(Marked(call, t), c)
    BY <1>1, <2>2, MarkedFacts
  <2>3. CASE call' = Ended(LoggedIn(call, t), c)
    BY <1>1, <2>3, LoggedInFacts
  <2> QED
    BY <2>1, <2>2, <2>3
<1> QED
  BY <1>2, EndedFacts DEF Ends

(* The tab that is cleared takes all its calls along. *)
LEMMA MarksFacts ==
  ASSUME TypeOK, NEW c \in Call, NEW t, call' = Ended(Marked(call, t), c)
  PROVE  \A d \in Call \ {c} : call[d].tab = t => call'[d].cleared
<1>1. call \in Calls
  BY DEF TypeOK, Calls
<1> QED
  BY <1>1, MarkedFacts, EndedFacts

-----------------------------------------------------------------------------
(* The type invariant.                                                      *)

Promised(t) ==
  tab[t].promise # None =>
    LET h == call[tab[t].promise] IN h.pc # "idle" /\ h.kind = "refresh" /\ h.tab = t

(* TypeOK without calls and tabs. *)
Plain ==
  /\ jar \in Token \cup {None}
  /\ token \in [Token -> TokenState]
  /\ adrift \subseteq [kind : {"refresh", "logout"}, cookie : Token]
  /\ strayed \in BOOLEAN
  /\ out \subseteq Tab
  /\ over \in BOOLEAN
  /\ verdict \subseteq [strayed : BOOLEAN, lapsed : BOOLEAN, overtaken : BOOLEAN]
  /\ work \in Nat

LEMMA TypeParts ==
  TypeOK <=> Plain /\ call \in Calls /\ tab \in [Tab -> TabState] /\ \A t \in Tab : Promised(t)
BY DEF TypeOK, Plain, Calls, Promised

LEMMA TypeJoin ==
  ASSUME Plain', call' \in Calls, tab' \in [Tab -> TabState], \A t \in Tab : Promised(t)'
  PROVE  TypeOK'
BY DEF TypeOK, Plain, Calls, Promised

(* A promise is kept while its call runs. *)
LEMMA PromiseKept ==
  ASSUME TypeOK, NEW t \in Tab, tab'[t].promise = tab[t].promise,
         tab[t].promise # None =>
           LET g == call'[tab[t].promise]
               h == call[tab[t].promise]
           IN  g.kind = h.kind /\ g.tab = h.tab /\ (h.pc # "idle" => g.pc # "idle")
  PROVE  Promised(t)'
BY TypeParts DEF Promised

(* Who waits for a call that ends is told. *)
LEMMA PromiseTold ==
  ASSUME TypeOK, NEW cs \in SUBSET Call, Ends(cs), NEW t \in Tab,
         \/ tab'[t].promise = None
         \/ tab'[t].promise = tab[t].promise /\ tab[t].promise \notin cs
  PROVE  Promised(t)'
<1>1. CASE tab'[t].promise = None
  BY <1>1 DEF Promised
<1>2. CASE tab'[t].promise = tab[t].promise /\ tab[t].promise \notin cs
  <2>1. tab[t].promise \in Call \cup {None}
    BY DEF TypeOK, TabState
  <2> QED
    BY <1>2, <2>1, PromiseKept DEF Ends, Same
<1> QED
  BY <1>1, <1>2

LEMMA WakeFacts ==
  ASSUME TypeOK, NEW cs \in SUBSET Call, Wake(cs)
  PROVE  /\ adrift' \subseteq [kind : {"refresh", "logout"}, cookie : Token]
         /\ strayed' \in BOOLEAN
         /\ strayed => strayed'
         /\ \A c \in cs : At(c, "answered") /\ call[c].fresh # None => strayed'
         /\ \A h \in adrift' : h \in adrift \/ \E c \in cs : call[c].cookie = h.cookie
<1>1. \A c \in cs : call[c] \in CallState
  BY DEF TypeOK
<1> DEFINE left == {d \in cs : At(d, "sent") /\ call[d].cookie # None /\ call[d].kind # "login"}
<1>2. adrift' = adrift \cup {[kind |-> call[c].kind, cookie |-> call[c].cookie] : c \in left}
  BY DEF Wake
<1>3. \A c \in left : /\ [kind |-> call[c].kind, cookie |-> call[c].cookie]
                           \in [kind : {"refresh", "logout"}, cookie : Token]
                      /\ c \in cs
  BY <1>1 DEF CallState
<1>4. adrift' \subseteq [kind : {"refresh", "logout"}, cookie : Token]
  BY <1>2, <1>3 DEF TypeOK
<1>5. \A h \in adrift' : h \in adrift \/ \E c \in cs : call[c].cookie = h.cookie
  <2> SUFFICES ASSUME NEW h \in adrift', h \notin adrift
               PROVE  \E c \in cs : call[c].cookie = h.cookie
    OBVIOUS
  <2>1. PICK c \in left : h = [kind |-> call[c].kind, cookie |-> call[c].cookie]
    BY <1>2
  <2> QED
    BY <2>1
<1> QED
  BY <1>4, <1>5 DEF Wake, TypeOK

LEMMA KeepFacts ==
  ASSUME TypeOK, NEW t \in Token \cup {None}, Keep(t)
  PROVE  /\ jar' = t /\ strayed' \in BOOLEAN /\ (strayed => strayed')
         /\ jar' \in Token \cup {None}
BY DEF Keep, TypeOK, Live

LEMMA CallTypes ==
  ASSUME TypeOK, NEW c \in Call
  PROVE  /\ call[c].fresh \in Token \cup {None} /\ call[c].cookie \in Token \cup {None}
         /\ call[c].tab \in Tab \cup {None} /\ call[c].attempt \in 1 .. 3
         /\ call[c].kind \in {"refresh", "login", "logout"}
         /\ call[c].lapsed \in BOOLEAN /\ call[c].cleared \in BOOLEAN
         /\ call[c].answer \in Answer \cup {None} /\ call[c].crossed \subseteq 1 .. 3
         /\ call[c].loggedIn \in BOOLEAN
BY DEF TypeOK, CallState

-----------------------------------------------------------------------------
(* One lemma for each action that changes tabs.                             *)

LEMMA LoadType ==
  ASSUME TypeOK, NEW c \in Call, NEW t \in Tab, Load(c, t)
  PROVE  TypeOK'
<1> DEFINE mine == {d \in Call : call[d].tab = t}
<1>1. call' \in Calls
  BY LoadFacts
<1>2. Plain'
  <2>1. Wake(mine)
    BY DEF Load
  <2>2. work' \in Nat
    BY DEF Load, Work, TypeOK
  <2> QED
    BY <2>1, <2>2, WakeFacts DEF Load, Plain, TypeOK
<1> DEFINE state == [Closed EXCEPT !.status = "initializing", !.promise = c]
<1>3. state \in TabState /\ state.promise = c
  BY ClosedType DEF TabState, Closed
<1>4. tab' = [tab EXCEPT ![t] = state]
  BY DEF Load
<1> HIDE DEF state
<1>5. tab' \in [Tab -> TabState]
  BY <1>3, <1>4 DEF TypeOK
<1>6. ASSUME NEW u \in Tab PROVE Promised(u)'
  <2>1. CASE u = t
    <3>1. tab'[u].promise = c
      BY <1>3, <1>4, <2>1 DEF TypeOK
    <3> QED
      BY <2>1, <3>1, LoadFacts DEF Promised, Begun
  <2>2. CASE u # t
    <3>1. tab'[u] = tab[u]
      BY <1>4, <2>2 DEF TypeOK
    <3>2. tab[u].promise \in Call \cup {None} /\ Promised(u)
      BY TypeParts DEF TypeOK, TabState
    <3>3. tab[u].promise # None => tab[u].promise # c /\ call'[tab[u].promise] = call[tab[u].promise]
      BY <2>2, <3>2, LoadFacts DEF Promised, Load, Begin, At
    <3> QED
      BY <3>1, <3>3, PromiseKept
  <2> QED
    BY <2>1, <2>2
<1> QED
  BY <1>1, <1>2, <1>5, <1>6, TypeJoin

LEMMA RefetchType ==
  ASSUME TypeOK, NEW c \in Call, NEW t \in Tab, Refetch(c, t)
  PROVE  TypeOK'
<1>1. call' \in Calls
  BY RefetchFacts
<1>2. Plain'
  BY DEF Refetch, Plain, TypeOK, Work
<1>3. tab' = [tab EXCEPT ![t].promise = c] /\ tab \in [Tab -> TabState]
  BY DEF Refetch, TypeOK
<1>4. tab' \in [Tab -> TabState] /\ tab'[t].promise = c
  BY <1>3 DEF TabState
<1>5. ASSUME NEW u \in Tab PROVE Promised(u)'
  <2>1. CASE u = t
    BY <1>4, <2>1, RefetchFacts DEF Promised, Begun
  <2>2. CASE u # t
    <3>1. tab'[u] = tab[u]
      BY <1>3, <2>2
    <3>2. tab[u].promise \in Call \cup {None} /\ Promised(u)
      BY TypeParts DEF TypeOK, TabState
    <3>3. tab[u].promise # None => tab[u].promise # c /\ call'[tab[u].promise] = call[tab[u].promise]
      BY <3>2, RefetchFacts DEF Promised, Refetch, Begin, At
    <3> QED
      BY <3>1, <3>3, PromiseKept
  <2> QED
    BY <2>1, <2>2
<1> QED
  BY <1>1, <1>2, <1>4, <1>5, TypeJoin

(* Calls that are sent, served or marked are still running. *)
LEMMA RunningType ==
  ASSUME TypeOK, Plain', call' \in Calls, UNCHANGED tab,
         \A d \in Call : \/ /\ call'[d].kind = call[d].kind /\ call'[d].tab = call[d].tab
                            /\ call[d].pc # "idle" => call'[d].pc # "idle"
                         \/ At(d, "idle")
  PROVE  TypeOK'
<1>1. ASSUME NEW t \in Tab PROVE Promised(t)'
  <2>1. tab[t].promise \in Call \cup {None} /\ Promised(t)
    BY TypeParts DEF TypeOK, TabState
  <2>2. tab'[t].promise = tab[t].promise
    OBVIOUS
  <2> QED
    BY <2>1, <2>2, PromiseKept DEF Promised, At
<1>2. tab' \in [Tab -> TabState]
  BY DEF TypeOK
<1> QED
  BY <1>1, <1>2, TypeJoin

LEMMA SendType ==
  ASSUME TypeOK, NEW c \in Call, Send(c)
  PROVE  TypeOK'
<1>1. call[c] \in CallState /\ call \in Calls /\ jar \in Token \cup {None}
  BY DEF TypeOK, Calls
<1>2. Plain'
  BY DEF Send, Plain, TypeOK, history
<1> QED
  BY <1>1, <1>2, SentFacts, RunningType DEF Send

LEMMA OthersSentFacts ==
  ASSUME TypeOK, NEW c \in Call, NEW t \in Tab, Login(c, t) \/ Logout(c, t)
  PROVE  \E h \in CallState :
           /\ call' = Sent(c, h)
           /\ h.kind = IF Login(c, t) THEN "login" ELSE "logout"
           /\ h.tab = t /\ h.fresh = None /\ h.answer = None /\ h.attempt = 1 /\ ~h.lapsed
<1>1. CASE Login(c, t)
  <2> DEFINE h == [Idle EXCEPT !.kind = "login", !.tab = t]
  <2>1. call' = Sent(c, h)
    BY <1>1 DEF Login
  <2>2. /\ h \in CallState
        /\ h.kind = "login" /\ h.tab = t /\ h.fresh = None /\ h.answer = None
        /\ h.attempt = 1 /\ ~h.lapsed
    BY OtherBegunFacts
  <2> HIDE DEF h
  <2> QED
    BY <1>1, <2>1, <2>2
<1>2. CASE Logout(c, t) /\ ~Login(c, t)
  <2> DEFINE h == [Idle EXCEPT !.kind = "logout", !.tab = t]
  <2>1. call' = Sent(c, h)
    BY <1>2 DEF Logout
  <2>2. /\ h \in CallState
        /\ h.kind = "logout" /\ h.tab = t /\ h.fresh = None /\ h.answer = None
        /\ h.attempt = 1 /\ ~h.lapsed
    BY OtherBegunFacts
  <2> HIDE DEF h
  <2> QED
    BY <1>2, <2>1, <2>2
<1> QED
  BY <1>1, <1>2

LEMMA OthersSentType ==
  ASSUME TypeOK, NEW c \in Call, NEW t \in Tab, Login(c, t) \/ Logout(c, t)
  PROVE  TypeOK'
<1>1. PICK h \in CallState : call' = Sent(c, h)
  BY OthersSentFacts
<1>2. Plain' /\ UNCHANGED tab /\ At(c, "idle")
  <2>1. CASE Login(c, t)
    <3>1. UNCHANGED <<jar, token, tab, adrift, strayed, out, verdict>>
      BY <2>1 DEF Login
    <3>2. over' \in BOOLEAN /\ work' \in Nat /\ At(c, "idle")
      <4>1. over' = FALSE
        BY <2>1 DEF Login
      <4>2. Work /\ Begin(c)
        BY <2>1 DEF Login
      <4> QED
        <5>1. work' \in Nat
          BY <4>2 DEF Work, TypeOK
        <5>2. At(c, "idle")
          BY <4>2 DEF Begin
        <5> QED
          BY <4>1, <5>1, <5>2
    <3> QED
      BY <3>1, <3>2 DEF Plain, TypeOK
  <2>2. CASE Logout(c, t)
    BY <2>2 DEF Logout, Begin, Plain, TypeOK, Work
  <2> QED
    BY <2>1, <2>2
<1>3. call \in Calls /\ jar \in Token \cup {None}
  BY DEF TypeOK, Calls
<1> QED
  BY <1>1, <1>2, <1>3, SentFacts, RunningType

LEMMA ServedType ==
  ASSUME TypeOK, Plain', UNCHANGED tab, NEW c \in Call, NEW answer \in Answer,
         NEW fresh \in Token \cup {None},
         \/ call' = [call EXCEPT ![c].pc = "answered", ![c].answer = answer, ![c].fresh = fresh]
         \/ /\ call' = [call EXCEPT ![c].pc = "answered", ![c].answer = answer]
            /\ fresh = call[c].fresh
  PROVE  TypeOK'
<1>1. /\ call' \in Calls /\ Served(call'[c], call[c], answer, fresh)
      /\ \A d \in Call \ {c} : call'[d] = call[d]
  BY ServedFacts
<1>2. \A d \in Call : /\ call'[d].kind = call[d].kind /\ call'[d].tab = call[d].tab
                      /\ (call[d].pc # "idle" => call'[d].pc # "idle")
  BY <1>1 DEF Served
<1> QED
  BY <1>1, <1>2, RunningType

LEMMA ServeTokens ==
  ASSUME TypeOK, NEW old, NEW fresh \in Token
  PROVE  /\ [token EXCEPT ![old] = "rotated", ![fresh] = "live"] \in [Token -> TokenState]
         /\ [token EXCEPT ![fresh] = "live"] \in [Token -> TokenState]
         /\ [token EXCEPT ![fresh] = "over"] \in [Token -> TokenState]
         /\ Revoked(old) \in [Token -> TokenState]
BY DEF TypeOK, TokenState, Revoked

LEMMA AnswersAre == \A x : Refusal(x) \in Answer
BY DEF Refusal, Answer

LEMMA ServeRefreshType ==
  ASSUME TypeOK, NEW c \in Call, NEW fresh \in Token, ServeRefresh(c, fresh)
  PROVE  TypeOK'
<1>1. UNCHANGED tab /\ Plain'
  <2>1. token' \in [Token -> TokenState]
    <3>1. CASE Live(call[c].cookie)
      <4>1. token' = [token EXCEPT ![call[c].cookie] = "rotated", ![fresh] = "live"]
        BY <3>1 DEF ServeRefresh
      <4> QED
        BY <4>1, ServeTokens
    <3>2. CASE ~Live(call[c].cookie)
      BY <3>2 DEF ServeRefresh, TypeOK
    <3> QED
      BY <3>1, <3>2
  <2> QED
    BY <2>1 DEF ServeRefresh, history, Plain, TypeOK
<1>2. call[c].fresh \in Token \cup {None}
  BY CallTypes
<1>3. CASE Live(call[c].cookie)
  <2>1. call' = [call EXCEPT ![c].pc = "answered", ![c].answer = "ok", ![c].fresh = fresh]
    BY <1>3 DEF ServeRefresh
  <2> QED
    BY <1>1, <2>1, ServedType DEF Answer
<1>4. CASE ~Live(call[c].cookie)
  <2>1. PICK answer \in Answer : answer = Refusal(call[c].cookie)
    BY AnswersAre
  <2>2. call' = [call EXCEPT ![c].pc = "answered", ![c].answer = answer]
    BY <1>4, <2>1 DEF ServeRefresh
  <2> QED
    BY <1>1, <1>2, <2>2, ServedType
<1> QED
  BY <1>3, <1>4

LEMMA ServeLoginType ==
  ASSUME TypeOK, NEW c \in Call, NEW fresh \in Token, ServeLogin(c, fresh)
  PROVE  TypeOK'
<1>1. UNCHANGED tab /\ Plain'
  BY ServeTokens DEF ServeLogin, history, Plain, TypeOK
<1>2. call' = [call EXCEPT ![c].pc = "answered", ![c].answer = "ok", ![c].fresh = fresh]
  BY DEF ServeLogin
<1> QED
  BY <1>1, <1>2, ServedType DEF Answer

LEMMA ServeLogoutType ==
  ASSUME TypeOK, NEW c \in Call, ServeLogout(c)
  PROVE  TypeOK'
<1>1. UNCHANGED tab /\ Plain'
  BY ServeTokens DEF ServeLogout, history, Plain, TypeOK, Revoked, TokenState
<1>2. call' = [call EXCEPT ![c].pc = "answered", ![c].answer = "ok"]
  BY DEF ServeLogout
<1>3. call[c].fresh \in Token \cup {None}
  BY CallTypes
<1> QED
  BY <1>1, <1>2, <1>3, ServedType DEF Answer

LEMMA ServeAdriftType ==
  ASSUME TypeOK, NEW h \in adrift, NEW fresh \in Token, ServeAdrift(h, fresh)
  PROVE  TypeOK'
<1>1. token' \in [Token -> TokenState] /\ strayed' \in BOOLEAN
  <2>1. CASE h.kind = "refresh" /\ Live(h.cookie)
    <3>1. token' = [token EXCEPT ![h.cookie] = "rotated", ![fresh] = "live"] /\ strayed' = TRUE
      BY <2>1 DEF ServeAdrift
    <3> QED
      BY <3>1, ServeTokens
  <2>2. CASE ~(h.kind = "refresh" /\ Live(h.cookie))
    <3>1. token' \in {Revoked(h.cookie), token}
      BY <2>2 DEF ServeAdrift
    <3>2. token' \in [Token -> TokenState]
      <4>1. token \in [Token -> TokenState]
        BY DEF TypeOK
      <4>2. Revoked(h.cookie) \in [Token -> TokenState]
        BY ServeTokens
      <4> QED
        BY <3>1, <4>1, <4>2
    <3>3. strayed' \in BOOLEAN
      BY <2>2 DEF ServeAdrift, TypeOK
    <3> QED
      BY <3>2, <3>3
  <2> QED
    BY <2>1, <2>2
<1>2. Plain'
  BY <1>1 DEF ServeAdrift, Plain, TypeOK
<1> QED
  BY <1>2, RunningType DEF ServeAdrift, TypeOK, Calls

LEMMA TimeType ==
  ASSUME TypeOK, NEW t \in Token, GraceEnds(t) \/ RunOut(t)
  PROVE  TypeOK'
<1>1. token' \in [Token -> TokenState]
  BY ServeTokens DEF GraceEnds, RunOut
<1>2. UNCHANGED <<jar, tab, call, adrift, strayed, out, over, verdict>> /\ work' \in Nat
  BY DEF GraceEnds, RunOut, history, Work, TypeOK
<1> QED
  BY <1>1, <1>2, RunningType DEF Plain, TypeOK, Calls

LEMMA ExpireType ==
  ASSUME TypeOK, NEW t \in Tab, Expire(t)
  PROVE  TypeOK'
<1>1. Plain' /\ UNCHANGED call
  BY DEF Expire, Plain, TypeOK, Work
<1>2. tab' = [tab EXCEPT ![t].access = "expired"] /\ tab \in [Tab -> TabState]
  BY DEF Expire, TypeOK
<1>3. tab' \in [Tab -> TabState] /\ \A u \in Tab : tab'[u].promise = tab[u].promise
  BY <1>2 DEF TabState
<1>4. \A u \in Tab : Promised(u)'
  BY <1>1, <1>3, PromiseKept
<1> QED
  BY <1>1, <1>3, <1>4, TypeJoin DEF TypeOK, Calls

LEMMA IdentifiedType ==
  ASSUME TypeOK, NEW t \in Tab, Identified(t)
  PROVE  TypeOK'
<1>1. Plain' /\ UNCHANGED call
  BY DEF Identified, Plain, TypeOK, history
<1>2. /\ tab' = [tab EXCEPT ![t].me = FALSE, ![t].user = TRUE, ![t].status = "authenticated"]
      /\ tab \in [Tab -> TabState]
  BY DEF Identified, TypeOK
<1>5. PICK s \in TabState : tab' = [tab EXCEPT ![t] = s] /\ s.promise = tab[t].promise
  <2> DEFINE s == [tab[t] EXCEPT !.me = FALSE, !.user = TRUE, !.status = "authenticated"]
  <2>1. s \in TabState /\ s.promise = tab[t].promise
    BY <1>2 DEF TabState
  <2>2. tab' = [tab EXCEPT ![t] = s]
    BY <1>2
  <2> QED
    BY <2>1, <2>2
<1>3. tab' \in [Tab -> TabState] /\ \A u \in Tab : tab'[u].promise = tab[u].promise
  BY <1>2, <1>5
<1>4. \A u \in Tab : Promised(u)'
  BY <1>1, <1>3, PromiseKept
<1> QED
  BY <1>1, <1>3, <1>4, TypeJoin DEF TypeOK, Calls

-----------------------------------------------------------------------------
(* Calls that come to an end.                                               *)

(* The tab of the call gets the state s, and nobody waits for the call.     *)
LEMMA EndsType ==
  ASSUME TypeOK, Plain', NEW c \in Call, Ends({c}), NEW s \in TabState,
         \/ UNCHANGED tab /\ call[c].kind # "refresh"
         \/ /\ tab' = [tab EXCEPT ![call[c].tab] = s]
            /\ \/ s.promise = None
               \/ call[c].kind # "refresh" /\ s.promise = tab[call[c].tab].promise
  PROVE  TypeOK'
<1>1. tab' \in [Tab -> TabState]
  BY DEF TypeOK
<1>2. ASSUME NEW t \in Tab PROVE Promised(t)'
  <2>1. tab[t].promise = c => call[c].kind = "refresh" /\ call[c].tab = t
    BY NoneIsNothing, TypeParts DEF Promised
  <2>2. tab'[t].promise = None \/ (tab'[t].promise = tab[t].promise /\ tab[t].promise # c)
    BY <2>1 DEF TypeOK
  <2> QED
    BY <2>2, PromiseTold
<1> QED
  BY <1>1, <1>2, TypeJoin DEF Ends

LEMMA SettleFacts ==
  ASSUME TypeOK, NEW c \in Call, NEW state, NEW calls, NEW got \in BOOLEAN,
         Settle(c, state, calls, got), call[c].tab \in Tab => state \in TabState
  PROVE  /\ call' = Ended(calls, c)
         /\ \E s \in TabState :
              /\ tab' = [tab EXCEPT ![call[c].tab] = s]
              /\ s.promise = None
              /\ call[c].tab \in Tab => s = Settled(state, got)
<1>1. CASE call[c].tab \in Tab
  BY <1>1, SettledFacts DEF Settle
<1>2. CASE call[c].tab \notin Tab
  <2>1. tab' = [tab EXCEPT ![call[c].tab] = Closed]
    BY <1>2 DEF Settle, TypeOK
  <2>2. Closed.promise = None
    BY DEF Closed
  <2> QED
    BY <1>2, <2>1, <2>2, ClosedType DEF Settle
<1> QED
  BY <1>1, <1>2

LEMMA TabOf ==
  ASSUME TypeOK, NEW t \in Tab
  PROVE  tab[t] \in TabState /\ Cleared(tab[t]) \in TabState
BY ClearedFacts DEF TypeOK

LEMMA ReceiveTokenType ==
  ASSUME TypeOK, NEW c \in Call, ReceiveToken(c)
  PROVE  TypeOK' /\ Ends({c})
<1>1. Plain'
  <2>1. Keep(call[c].fresh) /\ call[c].fresh \in Token \cup {None}
    BY CallTypes DEF ReceiveToken
  <2> QED
    BY <2>1, KeepFacts DEF ReceiveToken, Plain, TypeOK
<1>2. Settle(c, tab[call[c].tab], call, ~call[c].cleared)
  BY DEF ReceiveToken
<1>3. call[c].tab \in Tab => tab[call[c].tab] \in TabState
  BY TabOf
<1>4. /\ call' = Ended(call, c)
      /\ \E s \in TabState : tab' = [tab EXCEPT ![call[c].tab] = s] /\ s.promise = None
  BY <1>2, <1>3, SettleFacts, CallTypes
<1>5. Ends({c})
  BY <1>4, EndsFacts
<1> QED
  BY <1>1, <1>4, <1>5, EndsType

(* What follows a rejection: another attempt, a refresh without a token, or *)
(* the end of the session. *)
LEMMA RejectionFacts ==
  ASSUME TypeOK, NEW c \in Call, ReceiveRejection(c)
  PROVE  /\ At(c, "answered") /\ call[c].kind = "refresh" /\ call[c].answer # "ok"
         /\ jar' \in {None, jar}
         /\ strayed' \in BOOLEAN /\ (strayed => strayed')
         /\ UNCHANGED <<token, adrift, over, work>>
         /\ \/ /\ ~Conclusive(call[c]) /\ Retried(c) /\ UNCHANGED <<tab, out, verdict>>
            \/ /\ Settle(c, tab[call[c].tab], call, FALSE) /\ UNCHANGED <<out, verdict>>
            \/ /\ Conclusive(call[c])
               /\ Settle(c, Cleared(tab[call[c].tab]), Marked(call, call[c].tab), FALSE)
               /\ out' = out \cup {call[c].tab}
               /\ verdict' \in {verdict, {[strayed |-> strayed', lapsed |-> Lapsed(call[c]),
                                           overtaken |-> call[c].crossed = 1 .. 3]}}
<1>1. PICK kept : Keep(kept) /\ kept \in {None, jar}
  BY DEF ReceiveRejection
<1>2. kept \in Token \cup {None}
  BY <1>1 DEF TypeOK
<1>3. /\ jar' \in {None, jar}
      /\ strayed' \in BOOLEAN /\ (strayed => strayed')
  BY <1>1, <1>2, KeepFacts
<1>4. \/ /\ ~Conclusive(call[c]) /\ Retried(c) /\ UNCHANGED <<tab, out, verdict>>
      \/ /\ Settle(c, tab[call[c].tab], call, FALSE) /\ UNCHANGED <<out, verdict>>
      \/ /\ Conclusive(call[c])
         /\ Settle(c, Cleared(tab[call[c].tab]), Marked(call, call[c].tab), FALSE)
         /\ out' = out \cup {call[c].tab}
         /\ verdict' \in {verdict, {[strayed |-> strayed', lapsed |-> Lapsed(call[c]),
                                     overtaken |-> call[c].crossed = 1 .. 3]}}
  BY ZenonT(30) DEF ReceiveRejection, Retried
<1>5. At(c, "answered") /\ call[c].kind = "refresh" /\ call[c].answer # "ok"
  BY DEF ReceiveRejection
<1>6. UNCHANGED <<token, adrift, over, work>>
  BY DEF ReceiveRejection
<1> QED
  BY <1>3, <1>4, <1>5, <1>6

(* A call in flight belongs to a tab. *)
Homed == \A c \in Call : call[c].pc # "idle" => call[c].tab \in Tab

LEMMA ReceiveRejectionType ==
  ASSUME TypeOK, Homed, NEW c \in Call, ReceiveRejection(c)
  PROVE  /\ TypeOK'
         /\ (Retried(c) /\ call[c].attempt # 3) \/ Ends({c})
<1>1. call[c].tab \in Tab
  BY RejectionFacts DEF Homed, At
<1>2. tab[call[c].tab] \in TabState /\ Cleared(tab[call[c].tab]) \in TabState
  BY <1>1, TabOf
<1>3. ASSUME out' \subseteq Tab, verdict' \subseteq [strayed : BOOLEAN, lapsed : BOOLEAN,
                                                     overtaken : BOOLEAN]
      PROVE  Plain'
  BY <1>3, RejectionFacts DEF Plain, TypeOK
<1>4. CASE ~Conclusive(call[c]) /\ Retried(c) /\ UNCHANGED <<tab, out, verdict>>
  <2>1. call[c].attempt # 3
    BY <1>4 DEF Conclusive
  <2>2. Plain'
    BY <1>3, <1>4 DEF TypeOK
  <2>3. call[c].pc = "answered"
    BY RejectionFacts DEF At
  <2>4. TypeOK'
    BY <1>4, <2>1, <2>2, <2>3, RetriedFacts, RunningType
  <2> QED
    BY <1>4, <2>1, <2>4
<1>5. ASSUME NEW calls, NEW state \in TabState,
             Settle(c, state, calls, FALSE), Plain',
             calls = call \/ calls = Marked(call, call[c].tab)
      PROVE  TypeOK' /\ Ends({c})
  <2>1. /\ call' = Ended(calls, c)
        /\ \E s \in TabState : tab' = [tab EXCEPT ![call[c].tab] = s] /\ s.promise = None
    BY <1>5, SettleFacts
  <2>2. Ends({c})
    BY <1>5, <2>1, EndsFacts
  <2> QED
    BY <1>5, <2>1, <2>2, EndsType
<1>6. CASE Settle(c, tab[call[c].tab], call, FALSE) /\ UNCHANGED <<out, verdict>>
  <2>1. Plain'
    BY <1>3, <1>6 DEF TypeOK
  <2> QED
    BY <1>2, <1>5, <1>6, <2>1
<1>7. CASE /\ Settle(c, Cleared(tab[call[c].tab]), Marked(call, call[c].tab), FALSE)
           /\ out' = out \cup {call[c].tab}
           /\ verdict' \in {verdict, {[strayed |-> strayed', lapsed |-> Lapsed(call[c]),
                                       overtaken |-> call[c].crossed = 1 .. 3]}}
  <2>1. out' \subseteq Tab
    BY <1>1, <1>7 DEF TypeOK
  <2>2. strayed' \in BOOLEAN
    BY RejectionFacts
  <2>3. Lapsed(call[c]) \in BOOLEAN /\ (call[c].crossed = 1 .. 3) \in BOOLEAN
    BY CallTypes DEF Lapsed
  <2>4. [strayed |-> strayed', lapsed |-> Lapsed(call[c]), overtaken |-> call[c].crossed = 1 .. 3]
          \in [strayed : BOOLEAN, lapsed : BOOLEAN, overtaken : BOOLEAN]
    BY <2>2, <2>3
  <2>5. verdict' \subseteq [strayed : BOOLEAN, lapsed : BOOLEAN, overtaken : BOOLEAN]
    <3>1. verdict \subseteq [strayed : BOOLEAN, lapsed : BOOLEAN, overtaken : BOOLEAN]
      BY DEF TypeOK
    <3> QED
      BY <1>7, <2>4, <3>1
  <2>6. Plain'
    BY <1>3, <2>1, <2>5
  <2> QED
    BY <1>2, <1>5, <1>7, <2>6
<1> QED
  BY <1>4, <1>6, <1>7, RejectionFacts

LEMMA ReceiveLoginType ==
  ASSUME TypeOK, Homed, NEW c \in Call, ReceiveLogin(c)
  PROVE  TypeOK' /\ Ends({c})
<1>1. Plain'
  <2>1. Keep(call[c].fresh) /\ call[c].fresh \in Token \cup {None}
    BY CallTypes DEF ReceiveLogin
  <2> QED
    BY <2>1, KeepFacts DEF ReceiveLogin, Plain, TypeOK
<1>2. PICK s \in TabState :
        /\ tab' = [tab EXCEPT ![call[c].tab] = s]
        /\ s.promise = tab[call[c].tab].promise
  <2>1. PICK t : t = call[c].tab
    OBVIOUS
  <2>2. tab' = [tab EXCEPT ![t].access = "valid", ![t].user = TRUE, ![t].status = "authenticated"]
    BY <2>1 DEF ReceiveLogin
  <2>3. t \in Tab
    BY <2>1 DEF ReceiveLogin, Homed, At
  <2> DEFINE s == [tab[t] EXCEPT !.access = "valid", !.user = TRUE, !.status = "authenticated"]
  <2>4. s \in TabState /\ s.promise = tab[t].promise
    BY <2>3, TabOf DEF TabState
  <2>5. tab' = [tab EXCEPT ![t] = s]
    BY <2>2
  <2> QED
    BY <2>1, <2>4, <2>5
<1>3. Ends({c})
  BY EndsFacts DEF ReceiveLogin
<1> QED
  <2>1. call[c].kind # "refresh"
    BY DEF ReceiveLogin
  <2> QED
    BY <1>1, <1>2, <1>3, <2>1, EndsType

LEMMA ReceiveLogoutType ==
  ASSUME TypeOK, Homed, NEW c \in Call, ReceiveLogout(c)
  PROVE  TypeOK' /\ Ends({c})
<1>1. call[c].tab \in Tab /\ call[c].kind # "refresh"
  BY DEF ReceiveLogout, Homed, At
<1>2. Plain'
  <2>1. Keep(None)
    BY DEF ReceiveLogout
  <2>2. out' \subseteq Tab
    BY <1>1 DEF ReceiveLogout, TypeOK
  <2>3. over' \in BOOLEAN
    BY DEF ReceiveLogout
  <2> QED
    BY <2>1, <2>2, <2>3, KeepFacts DEF ReceiveLogout, Plain, TypeOK
<1>3. Ends({c})
  BY EndsFacts DEF ReceiveLogout
<1>4. PICK t \in Tab : t = call[c].tab
  BY <1>1
<1>5. CASE tab' = [tab EXCEPT ![t].status = "unauthenticated"]
  <2> DEFINE s == [tab[t] EXCEPT !.status = "unauthenticated"]
  <2>1. s \in TabState /\ s.promise = tab[t].promise
    BY TabOf DEF TabState
  <2>2. tab' = [tab EXCEPT ![t] = s]
    BY <1>5
  <2> HIDE DEF s
  <2> QED
    BY <1>1, <1>2, <1>3, <1>4, <2>1, <2>2, EndsType
<1>6. CASE tab' = [tab EXCEPT ![t] = [Cleared(@) EXCEPT !.status = "unauthenticated"]]
  <2> DEFINE s == [Cleared(tab[t]) EXCEPT !.status = "unauthenticated"]
  <2>1. s \in TabState /\ s.promise = None
    BY TabOf, ClearedFacts DEF TabState
  <2>2. tab' = [tab EXCEPT ![t] = s]
    BY <1>6
  <2> HIDE DEF s
  <2> QED
    BY <1>1, <1>2, <1>3, <1>4, <2>1, <2>2, EndsType
<1> QED
  BY <1>4, <1>5, <1>6 DEF ReceiveLogout

LEMMA TimeoutType ==
  ASSUME TypeOK, Homed, NEW c \in Call, Timeout(c)
  PROVE  TypeOK' /\ Ends({c})
<1>1. call[c].tab \in Tab
  BY DEF Timeout, GivesUp, UnderWay, Homed
<1>2. PICK t \in Tab : t = call[c].tab
  BY <1>1
<1>3. /\ adrift' \subseteq [kind : {"refresh", "logout"}, cookie : Token]
      /\ strayed' \in BOOLEAN
  BY WakeFacts DEF Timeout
<1>4. out' \subseteq Tab => Plain'
  BY <1>3 DEF Timeout, Plain, TypeOK
<1>5. CASE call[c].kind = "refresh"
  <2>1. Settle(c, tab[t], call, FALSE) /\ UNCHANGED out
    BY <1>2, <1>5 DEF Timeout
  <2>2. /\ call' = Ended(call, c)
        /\ \E s \in TabState : tab' = [tab EXCEPT ![call[c].tab] = s] /\ s.promise = None
    BY <1>2, <2>1, TabOf, SettleFacts
  <2>3. Ends({c})
    BY <2>2, EndsFacts
  <2> QED
    BY <1>4, <2>1, <2>2, <2>3, EndsType DEF TypeOK
<1>6. CASE call[c].kind = "login"
  <2>1. call' = Ended(call, c) /\ UNCHANGED <<tab, out>>
    BY <1>6 DEF Timeout
  <2>2. Ends({c})
    BY <2>1, EndsFacts
  <2>3. TabState # {}
    BY ClosedType
  <2> QED
    BY <1>4, <1>6, <2>1, <2>2, <2>3, EndsType DEF TypeOK
<1>7. CASE call[c].kind = "logout"
  <2>1. /\ tab' = [tab EXCEPT ![t] = [Cleared(@) EXCEPT !.status = "unauthenticated"]]
        /\ call' = Ended(Marked(call, t), c)
        /\ out' = out \cup {t}
    BY <1>2, <1>7 DEF Timeout
  <2> DEFINE s == [Cleared(tab[t]) EXCEPT !.status = "unauthenticated"]
  <2>2. s \in TabState /\ s.promise = None
    BY TabOf, ClearedFacts DEF TabState
  <2>3. tab' = [tab EXCEPT ![t] = s]
    BY <2>1
  <2>4. Ends({c})
    BY <2>1, EndsFacts
  <2>5. out' \subseteq Tab
    BY <2>1 DEF TypeOK
  <2> HIDE DEF s
  <2> QED
    BY <1>2, <1>4, <2>2, <2>3, <2>4, <2>5, EndsType
<1> QED
  BY <1>5, <1>6, <1>7, CallTypes

LEMMA NotIdentifiedType ==
  ASSUME TypeOK, NEW t \in Tab, NotIdentified(t)
  PROVE  TypeOK' /\ Ends({})
<1>1. call' = Marked(call, t) /\ call \in Calls
  BY DEF NotIdentified, TypeOK, Calls
<1>2. Ends({})
  BY <1>1, MarkedFacts DEF Ends
<1>3. Plain'
  BY DEF NotIdentified, Plain, TypeOK
<1> DEFINE s == [Cleared(tab[t]) EXCEPT !.me = FALSE, !.status = "unauthenticated"]
<1>4. s \in TabState /\ s.promise = None
  BY TabOf, ClearedFacts DEF TabState
<1>5. tab' = [tab EXCEPT ![t] = s]
  BY DEF NotIdentified
<1> HIDE DEF s
<1>6. /\ tab' \in [Tab -> TabState]
      /\ \A u \in Tab : tab'[u].promise = None \/ tab'[u].promise = tab[u].promise
  BY <1>4, <1>5 DEF TypeOK
<1>7. \A u \in Tab : Promised(u)'
  BY <1>2, <1>6, PromiseTold
<1> QED
  BY <1>1, <1>2, <1>3, <1>6, <1>7, MarkedFacts, TypeJoin

-----------------------------------------------------------------------------
(* How the calls move.                                                      *)

(* What a call is at each point of its life. *)
Shaped(h) ==
  /\ h.pc = "idle" => h.tab = None /\ h.cookie = None /\ h.fresh = None
  /\ h.pc # "idle" => h.tab \in Tab
  /\ h.pc = "send" => h.kind = "refresh" /\ h.cookie = None
  /\ h.pc = "answered" <=> h.answer # None
  /\ h.fresh # None => h.answer = "ok" /\ h.kind # "logout"

Shapes == \A c \in Call : Shaped(call[c])

(* Of two calls that are under way each has crossed the other. *)
Crossing ==
  \A c, d \in Call :
    c # d /\ UnderWay(c) /\ UnderWay(d) => call[c].attempt \in call[c].crossed

(* A refresh begins, and calls of a page that is gone end. *)
Began(c, t) ==
  /\ At(c, "idle") /\ Begun(call'[c], t)
  /\ \A d \in Call \ {c} : \/ call'[d] = call[d]
                           \/ call'[d] = Idle /\ (call[d].fresh # None => strayed')

(* A call that is about to be sent is h. *)
SentAs(c, h) ==
  /\ ~UnderWay(c) /\ call' = Sent(c, h)
  /\ h \in CallState /\ h.tab \in Tab /\ h.fresh = None /\ h.answer = None
  /\ \/ At(c, "send") /\ h = call[c]
     \/ At(c, "idle") /\ h.kind # "refresh"

ServedAs(c, answer, fresh) ==
  /\ At(c, "sent") /\ Served(call'[c], call[c], answer, fresh)
  /\ answer \in Answer /\ (fresh # None => answer = "ok" /\ call[c].kind # "logout")
  /\ \A d \in Call \ {c} : call'[d] = call[d]

RetriedAs(c) ==
  /\ Retried(c)
  /\ At(c, "answered") /\ call[c].answer # "ok" /\ call[c].kind = "refresh"
  /\ call[c].attempt # 3

Moves ==
  \/ Ends({})
  \/ \E c \in Call : UnderWay(c) /\ Ends({c})
  \/ \E c \in Call, t \in Tab : Began(c, t)
  \/ \E c \in Call : \E h \in CallState : SentAs(c, h)
  \/ \E c \in Call, answer \in Answer, fresh \in Token \cup {None} : ServedAs(c, answer, fresh)
  \/ \E c \in Call : RetriedAs(c)

LEMMA AnswerIsSome == None \notin Answer
BY ConstantsAssumption DEF Answer

LEMMA ShapedIdle == Shaped(Idle)
BY DEF Shaped, Idle

LEMMA SameShape ==
  ASSUME NEW g, NEW h, Same(g, h), Shaped(h)
  PROVE  Shaped(g)
BY DEF Same, Shaped

(* Calls keep their shape, and cross, whatever moves them. *)
LEMMA MovesKeep ==
  ASSUME TypeOK, TypeOK', Shapes, Crossing, Moves
  PROVE  Shapes' /\ Crossing'
<1>1. ASSUME NEW cs, Ends(cs)
      PROVE  Shapes' /\ Crossing'
  <2>1. Shapes'
    BY <1>1, ShapedIdle, SameShape DEF Ends, Shapes
  <2>2. \A d \in Call : \/ call'[d].pc = "idle"
                        \/ Same(call'[d], call[d])
    BY <1>1 DEF Ends, Idle
  <2>3. Crossing'
    BY <2>2 DEF Crossing, UnderWay, Same
  <2> QED
    BY <2>1, <2>3
<1>2. ASSUME NEW c \in Call, NEW t \in Tab, Began(c, t)
      PROVE  Shapes' /\ Crossing'
  <2>1. Shaped(call'[c]) /\ call'[c].pc = "send"
    BY <1>2, NoneIsNothing DEF Began, Begun, Shaped
  <2>2. \A d \in Call \ {c} : call'[d] = call[d] \/ call'[d] = Idle
    BY <1>2 DEF Began
  <2>3. Shapes'
    BY <2>1, <2>2, ShapedIdle DEF Shapes
  <2>4. Idle.pc = "idle"
    BY DEF Idle
  <2>5. \A d \in Call : call'[d].pc \in {"idle", "send"} \/ call'[d] = call[d]
    BY <2>1, <2>2, <2>4
  <2>6. Crossing'
    BY <2>5 DEF Crossing, UnderWay
  <2> QED
    BY <2>3, <2>6
<1>3. ASSUME NEW c \in Call, NEW h \in CallState, SentAs(c, h)
      PROVE  Shapes' /\ Crossing'
  <2>1. call \in Calls /\ jar \in Token \cup {None}
    BY DEF TypeOK, Calls
  <2>2. call' = Sent(c, h)
    BY <1>3 DEF SentAs
  <2>3. LET g == call'[c] IN
          /\ g.pc = "sent" /\ g.tab = h.tab /\ g.answer = h.answer /\ g.fresh = h.fresh
          /\ g.attempt = h.attempt
          /\ h.attempt \in g.crossed \/ \A d \in Call \ {c} : ~UnderWay(d)
    BY <2>1, <2>2, SentFacts
  <2>4. \A d \in Call \ {c} :
          LET g == call'[d] IN
          /\ g.pc = call[d].pc /\ g.cookie = call[d].cookie
          /\ g.kind = call[d].kind /\ g.tab = call[d].tab /\ g.answer = call[d].answer
          /\ g.fresh = call[d].fresh /\ g.attempt = call[d].attempt
          /\ UnderWay(d) => call[d].attempt \in g.crossed
    BY <2>1, <2>2, SentFacts
  <2>5. Shaped(call'[c])
    BY <1>3, <2>3 DEF SentAs, Shaped
  <2>6. \A d \in Call \ {c} : Shaped(call'[d])
    BY <2>4 DEF Shaped, Shapes
  <2>7. Crossing'
    BY <2>3, <2>4 DEF Crossing, UnderWay
  <2> QED
    BY <2>5, <2>6, <2>7 DEF Shapes
<1>4. ASSUME NEW c \in Call, NEW answer \in Answer, NEW fresh \in Token \cup {None},
             ServedAs(c, answer, fresh)
      PROVE  Shapes' /\ Crossing'
  <2>1. Shaped(call'[c])
    BY <1>4, AnswerIsSome DEF ServedAs, Served, Shapes, Shaped, At
  <2>2. Shapes'
    BY <1>4, <2>1 DEF ServedAs, Shapes
  <2>3. Crossing'
    BY <1>4 DEF ServedAs, Served, Crossing, UnderWay, At
  <2> QED
    BY <2>2, <2>3
<1>5. ASSUME NEW c \in Call, RetriedAs(c)
      PROVE  Shapes' /\ Crossing'
  <2>1. LET g == call'[c] IN
          /\ g.pc = "send" /\ g.kind = call[c].kind /\ g.tab = call[c].tab
          /\ g.cookie = None /\ g.fresh = call[c].fresh /\ g.answer = None
    BY <1>5, RetriedFacts DEF RetriedAs
  <2>2. \A d \in Call \ {c} : call'[d] = call[d]
    BY <1>5, RetriedFacts DEF RetriedAs
  <2>3. Shaped(call'[c])
    BY <1>5, <2>1 DEF RetriedAs, Shapes, Shaped, At
  <2>4. Shapes'
    BY <2>2, <2>3 DEF Shapes
  <2>5. Crossing'
    BY <2>1, <2>2 DEF Crossing, UnderWay
  <2> QED
    BY <2>4, <2>5
<1> QED
  BY <1>1, <1>2, <1>3, <1>4, <1>5 DEF Moves

-----------------------------------------------------------------------------
(* The move of each action.                                                 *)

LEMMA HomedByShape ==
  ASSUME Shapes
  PROVE  Homed
BY DEF Shapes, Shaped, Homed

LEMMA SameCalls ==
  ASSUME TypeOK, UNCHANGED call
  PROVE  Ends({})
BY DEF Ends, Same, TypeOK, Calls

LEMMA LoadMoves ==
  ASSUME TypeOK, Shapes, NEW c \in Call, NEW t \in Tab, Load(c, t)
  PROVE  Began(c, t)
<1>1. At(c, "idle") /\ Begun(call'[c], t)
  BY LoadFacts DEF Load, Begin
<1>2. ASSUME NEW d \in Call \ {c}
      PROVE  \/ call'[d] = call[d]
             \/ call'[d] = Idle /\ (call[d].fresh # None => strayed')
  <2>1. CASE call[d].tab = t
    <3>1. Wake({e \in Call : call[e].tab = t})
      BY DEF Load
    <3>2. call[d].fresh # None => At(d, "answered")
      BY AnswerIsSome DEF Shapes, Shaped, At, Answer
    <3>3. call[d].fresh # None => strayed'
      BY <2>1, <3>1, <3>2, WakeFacts
    <3> QED
      BY <2>1, <3>3, LoadFacts
  <2>2. CASE call[d].tab # t
    BY <2>2, LoadFacts
  <2> QED
    BY <2>1, <2>2
<1> QED
  BY <1>1, <1>2 DEF Began

LEMMA RefetchMoves ==
  ASSUME TypeOK, NEW c \in Call, NEW t \in Tab, Refetch(c, t)
  PROVE  Began(c, t)
BY RefetchFacts DEF Began, Refetch, Begin

LEMMA SendMoves ==
  ASSUME TypeOK, Shapes, NEW c \in Call, Send(c)
  PROVE  SentAs(c, call[c])
<1>1. call[c] \in CallState /\ At(c, "send") /\ call' = Sent(c, call[c])
  BY DEF TypeOK, Send
<1>2. Shaped(call[c])
  BY DEF Shapes
<1>3. call[c].tab \in Tab /\ call[c].fresh = None /\ call[c].answer = None
  BY <1>1, <1>2, AnswerIsSome DEF Shaped, At, Answer
<1> QED
  BY <1>1, <1>3 DEF SentAs, UnderWay, At

LEMMA OthersSentMoves ==
  ASSUME TypeOK, NEW c \in Call, NEW t \in Tab, Login(c, t) \/ Logout(c, t)
  PROVE  \E h \in CallState : /\ SentAs(c, h) /\ At(c, "idle") /\ h.tab = t
                              /\ h.kind = IF Login(c, t) THEN "login" ELSE "logout"
<1>1. At(c, "idle")
  BY DEF Login, Logout, Begin
<1>2. PICK h \in CallState :
        /\ call' = Sent(c, h)
        /\ h.kind = IF Login(c, t) THEN "login" ELSE "logout"
        /\ h.tab = t /\ h.fresh = None /\ h.answer = None
  BY OthersSentFacts
<1>3. h.kind # "refresh"
  BY <1>2
<1>4. SentAs(c, h)
  BY <1>1, <1>2, <1>3 DEF SentAs, UnderWay, At
<1> QED
  BY <1>1, <1>2, <1>4

(* The API rotates the cookie of a refresh, or refuses it. *)
LEMMA ServeRefreshMoves ==
  ASSUME TypeOK, Shapes, NEW c \in Call, NEW fresh \in Token, ServeRefresh(c, fresh)
  PROVE  /\ At(c, "sent") /\ call[c].kind = "refresh"
         /\ \/ /\ Live(call[c].cookie) /\ Minted(fresh) /\ ServedAs(c, "ok", fresh)
               /\ token' = [token EXCEPT ![call[c].cookie] = "rotated", ![fresh] = "live"]
            \/ /\ ~Live(call[c].cookie) /\ UNCHANGED token
               /\ ServedAs(c, Refusal(call[c].cookie), None)
<1>1. At(c, "sent") /\ call[c].kind = "refresh"
  BY DEF ServeRefresh
<1>2. CASE Live(call[c].cookie)
  <2>1. /\ Minted(fresh)
        /\ token' = [token EXCEPT ![call[c].cookie] = "rotated", ![fresh] = "live"]
        /\ call' = [call EXCEPT ![c].pc = "answered", ![c].answer = "ok", ![c].fresh = fresh]
    BY <1>2 DEF ServeRefresh
  <2>2. "ok" \in Answer
    BY DEF Answer
  <2>3. ServedAs(c, "ok", fresh)
    BY <1>1, <2>1, <2>2, ServedFacts DEF ServedAs
  <2> QED
    BY <1>1, <1>2, <2>1, <2>3
<1>3. CASE ~Live(call[c].cookie)
  <2>1. PICK answer \in Answer : answer = Refusal(call[c].cookie)
    BY AnswersAre
  <2>2. call' = [call EXCEPT ![c].pc = "answered", ![c].answer = answer] /\ UNCHANGED token
    BY <1>3, <2>1 DEF ServeRefresh
  <2>3. Shaped(call[c])
    BY DEF Shapes
  <2>4. call[c].fresh = None
    BY <1>1, <2>3, AnswerIsSome DEF Shaped, At, Answer
  <2>5. ServedAs(c, answer, None)
    BY <1>1, <2>2, <2>4, ServedFacts DEF ServedAs
  <2> QED
    BY <1>1, <1>3, <2>1, <2>2, <2>5
<1> QED
  BY <1>2, <1>3

LEMMA ServeLoginMoves ==
  ASSUME TypeOK, NEW c \in Call, NEW fresh \in Token, ServeLogin(c, fresh)
  PROVE  ServedAs(c, "ok", fresh)
<1>1. call' = [call EXCEPT ![c].pc = "answered", ![c].answer = "ok", ![c].fresh = fresh]
  BY DEF ServeLogin
<1>2. "ok" \in Answer
  BY DEF Answer
<1> QED
  BY <1>1, <1>2, ServedFacts DEF ServedAs, ServeLogin

LEMMA ServeLogoutMoves ==
  ASSUME TypeOK, Shapes, NEW c \in Call, ServeLogout(c)
  PROVE  ServedAs(c, "ok", None)
<1>1. call' = [call EXCEPT ![c].pc = "answered", ![c].answer = "ok"] /\ At(c, "sent")
  BY DEF ServeLogout
<1>2. Shaped(call[c])
  BY DEF Shapes
<1>3. call[c].fresh = None
  BY <1>1, <1>2, AnswerIsSome DEF Shaped, At, Answer
<1>4. "ok" \in Answer
  BY DEF Answer
<1> QED
  BY <1>1, <1>3, <1>4, ServedFacts DEF ServedAs, ServeLogout

LEMMA ReceiveRejectionMoves ==
  ASSUME TypeOK, Shapes, NEW c \in Call, ReceiveRejection(c)
  PROVE  TypeOK' /\ (RetriedAs(c) \/ Ends({c}))
<1>1. Homed
  BY HomedByShape
<1>2. TypeOK' /\ ((Retried(c) /\ call[c].attempt # 3) \/ Ends({c}))
  BY <1>1, ReceiveRejectionType
<1> QED
  BY <1>2, RejectionFacts DEF RetriedAs

LEMMA NextMoves ==
  ASSUME TypeOK, Shapes, Next
  PROVE  TypeOK' /\ Moves
<1> USE HomedByShape
<1>1. ASSUME NEW c \in Call, NEW t \in Tab, Load(c, t)
      PROVE  TypeOK' /\ Moves
  BY <1>1, LoadType, LoadMoves DEF Moves
<1>2. ASSUME NEW t \in Tab, Expire(t)
      PROVE  TypeOK' /\ Moves
  BY <1>2, ExpireType, SameCalls DEF Moves, Expire
<1>3. ASSUME NEW c \in Call, NEW t \in Tab, Refetch(c, t)
      PROVE  TypeOK' /\ Moves
  BY <1>3, RefetchType, RefetchMoves DEF Moves
<1>4. ASSUME NEW c \in Call, Send(c)
      PROVE  TypeOK' /\ Moves
  BY <1>4, SendType, SendMoves DEF Moves, TypeOK
<1>5. ASSUME NEW c \in Call, NEW t \in Tab, Login(c, t) \/ Logout(c, t)
      PROVE  TypeOK' /\ Moves
  BY <1>5, OthersSentType, OthersSentMoves DEF Moves
<1>6. ASSUME NEW c \in Call, NEW fresh \in Token, ServeRefresh(c, fresh)
      PROVE  TypeOK' /\ Moves
  <2>1. TypeOK'
    BY <1>6, ServeRefreshType
  <2>2. ServedAs(c, "ok", fresh) \/ ServedAs(c, Refusal(call[c].cookie), None)
    BY <1>6, ServeRefreshMoves
  <2> QED
    BY <2>1, <2>2, AnswersAre DEF Moves, ServedAs
<1>7. ASSUME NEW c \in Call, NEW fresh \in Token, ServeLogin(c, fresh)
      PROVE  TypeOK' /\ Moves
  BY <1>7, ServeLoginType, ServeLoginMoves DEF Moves, ServedAs
<1>8. ASSUME NEW c \in Call, ServeLogout(c)
      PROVE  TypeOK' /\ Moves
  BY <1>8, ServeLogoutType, ServeLogoutMoves DEF Moves, ServedAs
<1>9. ASSUME NEW h \in adrift, NEW fresh \in Token, ServeAdrift(h, fresh)
      PROVE  TypeOK' /\ Moves
  BY <1>9, ServeAdriftType, SameCalls DEF Moves, ServeAdrift
<1>10. ASSUME NEW t \in Token, GraceEnds(t) \/ RunOut(t)
      PROVE  TypeOK' /\ Moves
  BY <1>10, TimeType, SameCalls DEF Moves, GraceEnds, RunOut
<1>11. ASSUME NEW c \in Call, ReceiveToken(c)
      PROVE  TypeOK' /\ Moves
  BY <1>11, ReceiveTokenType DEF Moves, ReceiveToken, UnderWay, At
<1>12. ASSUME NEW c \in Call, ReceiveRejection(c)
      PROVE  TypeOK' /\ Moves
  BY <1>12, ReceiveRejectionMoves DEF Moves, ReceiveRejection, UnderWay, At
<1>13. ASSUME NEW c \in Call, ReceiveLogin(c)
      PROVE  TypeOK' /\ Moves
  BY <1>13, ReceiveLoginType DEF Moves, ReceiveLogin, UnderWay, At
<1>14. ASSUME NEW c \in Call, ReceiveLogout(c)
      PROVE  TypeOK' /\ Moves
  BY <1>14, ReceiveLogoutType DEF Moves, ReceiveLogout, UnderWay, At
<1>15. ASSUME NEW c \in Call, Timeout(c)
      PROVE  TypeOK' /\ Moves
  BY <1>15, TimeoutType DEF Moves, Timeout, GivesUp
<1>16. ASSUME NEW t \in Tab, Identified(t)
      PROVE  TypeOK' /\ Moves
  BY <1>16, IdentifiedType, SameCalls DEF Moves, Identified
<1>17. ASSUME NEW t \in Tab, NotIdentified(t)
      PROVE  TypeOK' /\ Moves
  BY <1>17, NotIdentifiedType DEF Moves
<1> QED
  BY <1>1, <1>2, <1>3, <1>4, <1>5, <1>6, <1>7, <1>8, <1>9, <1>10, <1>11, <1>12, <1>13, <1>14,
     <1>15, <1>16, <1>17 DEF Next

-----------------------------------------------------------------------------
Base == TypeOK /\ Shapes /\ Crossing

LEMMA InitBase ==
  ASSUME Init
  PROVE  Base
<1>1. call = [c \in Call |-> Idle]
  BY DEF Init
<1>2. tab = [t \in Tab |-> Closed]
  BY DEF Init
<1>3. TypeOK
  <2>1. call \in Calls /\ tab \in [Tab -> TabState]
    BY <1>1, <1>2, IdleType, ClosedType DEF Calls
  <2>2. Plain
    BY DEF Init, Plain, TokenState
  <2>3. \A t \in Tab : tab[t].promise = None
    BY <1>2 DEF Closed
  <2> QED
    BY <2>1, <2>2, <2>3, TypeParts DEF Promised
<1>4. Shapes
  BY <1>1, ShapedIdle DEF Shapes
<1>5. Crossing
  BY <1>1 DEF Crossing, UnderWay, Idle
<1> QED
  BY <1>3, <1>4, <1>5 DEF Base

LEMMA StutterBase ==
  ASSUME Base, UNCHANGED vars
  PROVE  Base'
BY DEF Base, TypeOK, Shapes, Shaped, Crossing, UnderWay, At, vars, history

LEMMA NextBase ==
  ASSUME Base, [Next]_vars
  PROVE  Base'
<1>1. CASE Next
  BY <1>1, NextMoves, MovesKeep DEF Base
<1>2. CASE UNCHANGED vars
  BY <1>2, StutterBase
<1> QED
  BY <1>1, <1>2

LEMMA BaseAlways == Spec => []Base
<1>1. Init => Base
  BY InitBase
<1>2. Base /\ [Next]_vars => Base'
  BY NextBase
<1> QED
  BY <1>1, <1>2, PTL DEF Spec

(* The promise a tab shares is of a refresh of its own that still runs:     *)
(* refreshPromise of auth-client.ts is never left behind by its refresh.    *)
THEOREM TypeCorrect == Spec => []TypeOK
<1>1. Base => TypeOK
  BY DEF Base
<1> QED
  BY <1>1, BaseAlways, PTL

-----------------------------------------------------------------------------
(* Who signed out stays out.                                                *)

(* A tab without a session, whose refreshes can bring it none. *)
Gone(t) ==
  /\ tab[t].access = "none"
  /\ \A c \in Call : call[c].tab = t /\ call[c].kind = "refresh" => call[c].cleared

OutsAreGone == \A t \in out : Gone(t)

(* No refresh of tab t began, and those that were cleared still are. *)
NoneBegan(t) ==
  \A c \in Call : call'[c].tab = t /\ call'[c].kind = "refresh" =>
    call[c].tab = t /\ call[c].kind = "refresh" /\ (call[c].cleared => call'[c].cleared)

LEMMA NoneBeganByMove ==
  ASSUME Base, NEW t \in Tab,
         \/ \E cs : Ends(cs)
         \/ \E c \in Call, u \in Tab : Began(c, u) /\ u # t
         \/ \E c \in Call : \E h \in CallState : SentAs(c, h)
         \/ \E c \in Call, answer \in Answer, fresh \in Token \cup {None} :
              ServedAs(c, answer, fresh)
         \/ \E c \in Call : RetriedAs(c)
  PROVE  NoneBegan(t)
<1>1. TypeOK
  BY DEF Base
<1>2. Idle.tab # t
  BY NoneIsNothing DEF Idle
<1>3. ASSUME NEW cs, Ends(cs)
      PROVE  NoneBegan(t)
  BY <1>2, <1>3 DEF Ends, Same, NoneBegan
<1>4. ASSUME NEW c \in Call, NEW u \in Tab, Began(c, u), u # t
      PROVE  NoneBegan(t)
  BY <1>2, <1>4 DEF Began, Begun, NoneBegan
<1>5. ASSUME NEW c \in Call, NEW h \in CallState, SentAs(c, h)
      PROVE  NoneBegan(t)
  <2>1. call \in Calls /\ jar \in Token \cup {None} /\ call' = Sent(c, h)
    BY <1>1, <1>5 DEF TypeOK, Calls, SentAs
  <2>2. call'[c].tab = h.tab /\ call'[c].kind = h.kind /\ call'[c].cleared = h.cleared
    BY <2>1, SentFacts
  <2>3. \A d \in Call \ {c} : /\ call'[d].tab = call[d].tab /\ call'[d].kind = call[d].kind
                              /\ call'[d].cleared = call[d].cleared
    BY <2>1, SentFacts
  <2> QED
    BY <1>5, <2>2, <2>3 DEF NoneBegan, SentAs
<1>6. ASSUME NEW c \in Call, NEW answer, NEW fresh, ServedAs(c, answer, fresh)
      PROVE  NoneBegan(t)
  BY <1>6 DEF ServedAs, Served, NoneBegan
<1>7. ASSUME NEW c \in Call, RetriedAs(c)
      PROVE  NoneBegan(t)
  BY <1>1, <1>7, RetriedFacts DEF RetriedAs, NoneBegan
<1> QED
  BY <1>3, <1>4, <1>5, <1>6, <1>7

LEMMA StillGone ==
  ASSUME OutsAreGone, NEW t \in out, NoneBegan(t), tab'[t].access = "none"
  PROVE  Gone(t)'
BY DEF OutsAreGone, Gone, NoneBegan

LEMMA OutsUnmoved ==
  ASSUME Base, OutsAreGone, UNCHANGED <<tab, out>>,
         \/ \E cs : Ends(cs)
         \/ \E c \in Call : \E h \in CallState : SentAs(c, h)
         \/ \E c \in Call, answer \in Answer, fresh \in Token \cup {None} :
              ServedAs(c, answer, fresh)
         \/ \E c \in Call : RetriedAs(c)
  PROVE  OutsAreGone'
<1>1. out \subseteq Tab
  BY DEF Base, TypeOK
<1>2. ASSUME NEW t \in out PROVE Gone(t)'
  <2>1. NoneBegan(t)
    BY <1>1, NoneBeganByMove
  <2>2. tab'[t].access = "none"
    BY DEF OutsAreGone, Gone
  <2> QED
    BY <2>1, <2>2, StillGone
<1> QED
  BY <1>2 DEF OutsAreGone

(* A tab takes the state s when its call ends: it is not among those that   *)
(* are out, or s has no session either. *)
LEMMA OutsEnd ==
  ASSUME Base, OutsAreGone, NEW cs, Ends(cs), NEW t \in Tab, NEW s,
         tab' = [tab EXCEPT ![t] = s],
         \/ UNCHANGED out /\ (t \in out => s.access = "none")
         \/ out' = out \ {t}
         \/ /\ out' = out \cup {t} /\ s.access = "none"
            /\ \A d \in Call \ cs : call[d].tab = t => call'[d].cleared
  PROVE  OutsAreGone'
<1>1. out \subseteq Tab /\ tab \in [Tab -> TabState]
  BY DEF Base, TypeOK
<1>2. tab'[t] = s /\ \A u \in Tab \ {t} : tab'[u] = tab[u]
  BY <1>1
<1>3. ASSUME NEW u \in out', u \in out, u # t PROVE Gone(u)'
  <2>1. NoneBegan(u)
    BY <1>1, <1>3, NoneBeganByMove
  <2>2. tab'[u].access = "none"
    BY <1>1, <1>2, <1>3 DEF OutsAreGone, Gone
  <2> QED
    BY <1>3, <2>1, <2>2, StillGone
<1>4. ASSUME t \in out' PROVE Gone(t)'
  <2>1. CASE UNCHANGED out /\ (t \in out => s.access = "none")
    <3>1. NoneBegan(t)
      BY NoneBeganByMove
    <3> QED
      BY <1>2, <1>4, <2>1, <3>1, StillGone
  <2>2. CASE /\ out' = out \cup {t} /\ s.access = "none"
             /\ \A d \in Call \ cs : call[d].tab = t => call'[d].cleared
    <3>1. ASSUME NEW d \in Call, call'[d].tab = t PROVE call'[d].cleared
      <4>1. d \notin cs
        BY <3>1, NoneIsNothing DEF Ends, Idle
      <4>2. call[d].tab = t
        BY <3>1, <4>1 DEF Ends, Same
      <4> QED
        BY <2>2, <4>1, <4>2
    <3> QED
      BY <1>2, <2>2, <3>1 DEF Gone
  <2> QED
    BY <1>4, <2>1, <2>2
<1>5. \A u \in out' : u \in out \/ u = t
  OBVIOUS
<1> QED
  BY <1>3, <1>4, <1>5 DEF OutsAreGone

LEMMA BegunOuts ==
  ASSUME Base, OutsAreGone, NEW c \in Call, NEW t \in Tab, Began(c, t), NEW s,
         tab' = [tab EXCEPT ![t] = s], out' = out \ {t}
  PROVE  OutsAreGone'
<1>1. out \subseteq Tab /\ tab \in [Tab -> TabState]
  BY DEF Base, TypeOK
<1>2. ASSUME NEW u \in out' PROVE Gone(u)'
  <2>1. u \in Tab /\ u # t /\ u \in out
    BY <1>1
  <2>2. NoneBegan(u)
    BY <2>1, NoneBeganByMove
  <2>3. tab'[u].access = "none"
    BY <1>1, <2>1 DEF OutsAreGone, Gone
  <2> QED
    BY <2>1, <2>2, <2>3, StillGone
<1> QED
  BY <1>2 DEF OutsAreGone

LEMMA RefreshOuts ==
  ASSUME Base, OutsAreGone, NEW c \in Call, NEW got \in BOOLEAN,
         call[c].tab \in Tab, call[c].kind = "refresh",
         got => ~call[c].cleared,
         Settle(c, tab[call[c].tab], call, got), UNCHANGED out
  PROVE  OutsAreGone'
<1>1. PICK t \in Tab : t = call[c].tab
  OBVIOUS
<1>2. TypeOK /\ tab[t] \in TabState
  BY TabOf DEF Base
<1>3. /\ call' = Ended(call, c)
      /\ tab' = [tab EXCEPT ![t] = Settled(tab[t], got)]
  BY <1>1 DEF Settle
<1>4. Ends({c})
  BY <1>2, <1>3, EndsFacts
<1>5. t \in out => ~got /\ tab[t].access = "none"
  BY <1>1 DEF OutsAreGone, Gone
<1>6. t \in out => Settled(tab[t], got).access = "none"
  BY <1>2, <1>5, SettledFacts
<1> QED
  BY <1>3, <1>4, <1>6, OutsEnd

LEMMA NextOuts ==
  ASSUME Base, OutsAreGone, Next
  PROVE  OutsAreGone'
<1>0. TypeOK /\ Shapes /\ Homed
  BY HomedByShape DEF Base
<1>1. ASSUME NEW c \in Call, NEW t \in Tab, Load(c, t)
      PROVE  OutsAreGone'
  <2>1. Began(c, t)
    BY <1>0, <1>1, LoadMoves
  <2> QED
    BY <1>1, <2>1, BegunOuts DEF Load
<1>2. ASSUME NEW t \in Tab, Expire(t)
      PROVE  OutsAreGone'
  <2>1. tab' = [tab EXCEPT ![t].access = "expired"] /\ tab[t].access = "valid"
    BY <1>2 DEF Expire
  <2>2. t \notin out
    BY <2>1 DEF OutsAreGone, Gone
  <2>3. UNCHANGED <<call, out>>
    BY <1>2 DEF Expire
  <2>4. Ends({})
    BY <1>0, <2>3, SameCalls
  <2> DEFINE s == [tab[t] EXCEPT !.access = "expired"]
  <2>5. tab' = [tab EXCEPT ![t] = s]
    BY <2>1
  <2> HIDE DEF s
  <2> QED
    BY <2>2, <2>3, <2>4, <2>5, OutsEnd
<1>3. ASSUME NEW c \in Call, NEW t \in Tab, Refetch(c, t)
      PROVE  OutsAreGone'
  <2>1. Began(c, t)
    BY <1>0, <1>3, RefetchMoves
  <2>2. tab' = [tab EXCEPT ![t].promise = c] /\ out' = out \ {t}
    BY <1>3 DEF Refetch
  <2> DEFINE s == [tab[t] EXCEPT !.promise = c]
  <2>3. tab' = [tab EXCEPT ![t] = s]
    BY <2>2
  <2> HIDE DEF s
  <2> QED
    BY <2>1, <2>2, <2>3, BegunOuts
<1>4. ASSUME NEW c \in Call, Send(c)
      PROVE  OutsAreGone'
  <2>1. SentAs(c, call[c]) /\ call[c] \in CallState
    BY <1>0, <1>4, SendMoves DEF TypeOK
  <2> QED
    BY <1>4, <2>1, OutsUnmoved DEF Send, history
<1>5. ASSUME NEW c \in Call, NEW t \in Tab, Login(c, t) \/ Logout(c, t)
      PROVE  OutsAreGone'
  <2>1. \E h \in CallState : SentAs(c, h)
    BY <1>0, <1>5, OthersSentMoves
  <2> QED
    BY <1>5, <2>1, OutsUnmoved DEF Login, Logout
<1>6. ASSUME NEW c \in Call, NEW fresh \in Token, ServeRefresh(c, fresh)
      PROVE  OutsAreGone'
  <2>1. ServedAs(c, "ok", fresh) \/ ServedAs(c, Refusal(call[c].cookie), None)
    BY <1>0, <1>6, ServeRefreshMoves
  <2>2. \E answer \in Answer, kept \in Token \cup {None} : ServedAs(c, answer, kept)
    BY <2>1, AnswersAre DEF ServedAs
  <2> QED
    BY <1>6, <2>2, OutsUnmoved DEF ServeRefresh, history
<1>7. ASSUME NEW c \in Call, NEW fresh \in Token, ServeLogin(c, fresh)
      PROVE  OutsAreGone'
  <2>1. \E answer \in Answer, kept \in Token \cup {None} : ServedAs(c, answer, kept)
    BY <1>0, <1>7, ServeLoginMoves DEF ServedAs
  <2> QED
    BY <1>7, <2>1, OutsUnmoved DEF ServeLogin, history
<1>8. ASSUME NEW c \in Call, ServeLogout(c)
      PROVE  OutsAreGone'
  <2>1. \E answer \in Answer, kept \in Token \cup {None} : ServedAs(c, answer, kept)
    BY <1>0, <1>8, ServeLogoutMoves DEF ServedAs
  <2> QED
    BY <1>8, <2>1, OutsUnmoved DEF ServeLogout, history
<1>9. ASSUME NEW h \in adrift, NEW fresh \in Token, ServeAdrift(h, fresh)
      PROVE  OutsAreGone'
  BY <1>0, <1>9, SameCalls, OutsUnmoved DEF ServeAdrift
<1>10. ASSUME NEW t \in Token, GraceEnds(t) \/ RunOut(t)
      PROVE  OutsAreGone'
  BY <1>0, <1>10, SameCalls, OutsUnmoved DEF GraceEnds, RunOut, history
<1>11. ASSUME NEW c \in Call, ReceiveToken(c)
      PROVE  OutsAreGone'
  <2>1. call[c].tab \in Tab /\ call[c].kind = "refresh" /\ call[c].cleared \in BOOLEAN
    BY <1>0, <1>11, CallTypes DEF ReceiveToken, Homed, At
  <2>2. Settle(c, tab[call[c].tab], call, ~call[c].cleared) /\ UNCHANGED out
    BY <1>11 DEF ReceiveToken
  <2> QED
    BY <2>1, <2>2, RefreshOuts
<1>12. ASSUME NEW c \in Call, ReceiveRejection(c)
      PROVE  OutsAreGone'
  <2>1. call[c].tab \in Tab /\ call[c].kind = "refresh"
    BY <1>0, <1>12, RejectionFacts DEF Homed, At
  <2>2. CASE Retried(c) /\ UNCHANGED <<tab, out>> /\ ~Conclusive(call[c])
    <3>1. RetriedAs(c)
      BY <1>0, <1>12, <2>2, RejectionFacts DEF RetriedAs, Conclusive
    <3> QED
      BY <2>2, <3>1, OutsUnmoved
  <2>3. CASE Settle(c, tab[call[c].tab], call, FALSE) /\ UNCHANGED out
    BY <2>1, <2>3, RefreshOuts
  <2>4. CASE /\ Settle(c, Cleared(tab[call[c].tab]), Marked(call, call[c].tab), FALSE)
             /\ out' = out \cup {call[c].tab}
    <3>1. PICK t \in Tab : t = call[c].tab
      BY <2>1
    <3>2. /\ tab' = [tab EXCEPT ![t] = Settled(Cleared(tab[t]), FALSE)]
          /\ call' = Ended(Marked(call, t), c)
      BY <2>4, <3>1 DEF Settle
    <3>3. Settled(Cleared(tab[t]), FALSE).access = "none"
      <4>1. tab[t] \in TabState
        BY <1>0, TabOf
      <4>2. Cleared(tab[t]) \in TabState /\ Cleared(tab[t]).access = "none"
        BY <4>1, ClearedFacts
      <4> QED
        BY <4>2, SettledFacts
    <3>4. Ends({c}) /\ \A d \in Call \ {c} : call[d].tab = t => call'[d].cleared
      BY <1>0, <3>2, EndsFacts, MarksFacts
    <3> QED
      BY <2>4, <3>1, <3>2, <3>3, <3>4, OutsEnd
  <2> QED
    BY <1>0, <1>12, <2>2, <2>3, <2>4, RejectionFacts
<1>13. ASSUME NEW c \in Call, ReceiveLogin(c)
      PROVE  OutsAreGone'
  <2>1. PICK t \in Tab : t = call[c].tab
    BY <1>0, <1>13 DEF ReceiveLogin, Homed, At
  <2>2. /\ tab' = [tab EXCEPT ![t].access = "valid", ![t].user = TRUE,
                              ![t].status = "authenticated"]
        /\ out' = out \ {t}
    BY <1>13, <2>1 DEF ReceiveLogin
  <2>3. Ends({c})
    BY <1>0, <1>13, ReceiveLoginType
  <2> DEFINE s == [tab[t] EXCEPT !.access = "valid", !.user = TRUE, !.status = "authenticated"]
  <2>4. tab' = [tab EXCEPT ![t] = s]
    BY <2>2
  <2> HIDE DEF s
  <2> QED
    BY <2>2, <2>3, <2>4, OutsEnd
<1>14. ASSUME NEW c \in Call, NEW t \in Tab, t = call[c].tab,
              tab' = [tab EXCEPT ![t] = [Cleared(@) EXCEPT !.status = "unauthenticated"]],
              call' = Ended(Marked(call, t), c), out' = out \cup {t}
       PROVE  OutsAreGone'
  <2> DEFINE s == [Cleared(tab[t]) EXCEPT !.status = "unauthenticated"]
  <2>1. tab' = [tab EXCEPT ![t] = s]
    BY <1>14
  <2>2. s.access = "none"
    BY <1>0, TabOf, ClearedFacts DEF TabState
  <2>3. Ends({c}) /\ \A d \in Call \ {c} : call[d].tab = t => call'[d].cleared
    BY <1>0, <1>14, EndsFacts, MarksFacts
  <2>4. out' = out \cup {t}
    BY <1>14
  <2> HIDE DEF s
  <2> QED
    BY <2>1, <2>2, <2>3, <2>4, OutsEnd
<1>15. ASSUME NEW c \in Call, ReceiveLogout(c)
      PROVE  OutsAreGone'
  <2>1. PICK t \in Tab : t = call[c].tab
    BY <1>0, <1>15 DEF ReceiveLogout, Homed, At
  <2>2. CASE tab' = [tab EXCEPT ![t].status = "unauthenticated"] /\ UNCHANGED out
    <3> DEFINE s == [tab[t] EXCEPT !.status = "unauthenticated"]
    <3>1. tab' = [tab EXCEPT ![t] = s]
      BY <2>2
    <3>2. s.access = tab[t].access
      BY <1>0, TabOf DEF TabState
    <3>3. t \in out => tab[t].access = "none"
      BY DEF OutsAreGone, Gone
    <3>4. Ends({c})
      BY <1>0, <1>15, ReceiveLogoutType
    <3> HIDE DEF s
    <3> QED
      BY <2>2, <3>1, <3>2, <3>3, <3>4, OutsEnd
  <2> QED
    BY <1>14, <1>15, <2>1, <2>2 DEF ReceiveLogout
<1>16. ASSUME NEW c \in Call, Timeout(c)
      PROVE  OutsAreGone'
  <2>1. PICK t \in Tab : t = call[c].tab
    BY <1>0, <1>16 DEF Timeout, GivesUp, UnderWay, Homed
  <2>2. CASE call[c].kind = "refresh"
    <3>1. Settle(c, tab[call[c].tab], call, FALSE) /\ UNCHANGED out
      BY <1>16, <2>2 DEF Timeout
    <3> QED
      BY <2>1, <2>2, <3>1, RefreshOuts
  <2>3. CASE call[c].kind = "login"
    <3>1. call' = Ended(call, c) /\ UNCHANGED <<tab, out>>
      BY <1>16, <2>3 DEF Timeout
    <3> QED
      BY <1>0, <3>1, EndsFacts, OutsUnmoved
  <2>4. CASE call[c].kind = "logout"
    BY <1>14, <1>16, <2>1, <2>4 DEF Timeout
  <2> QED
    BY <1>0, <2>2, <2>3, <2>4, CallTypes
<1>17. ASSUME NEW t \in Tab, Identified(t)
      PROVE  OutsAreGone'
  <2>1. /\ tab' = [tab EXCEPT ![t].me = FALSE, ![t].user = TRUE, ![t].status = "authenticated"]
        /\ UNCHANGED <<call, out>>
    BY <1>17 DEF Identified, history
  <2> DEFINE s == [tab[t] EXCEPT !.me = FALSE, !.user = TRUE, !.status = "authenticated"]
  <2>2. tab' = [tab EXCEPT ![t] = s]
    BY <2>1
  <2>3. s.access = tab[t].access
    BY <1>0, TabOf DEF TabState
  <2>4. t \in out => tab[t].access = "none"
    BY DEF OutsAreGone, Gone
  <2>5. Ends({})
    BY <1>0, <2>1, SameCalls
  <2> HIDE DEF s
  <2> QED
    BY <2>1, <2>2, <2>3, <2>4, <2>5, OutsEnd
<1>18. ASSUME NEW t \in Tab, NotIdentified(t)
      PROVE  OutsAreGone'
  <2>1. /\ tab' = [tab EXCEPT ![t] = [Cleared(@) EXCEPT !.me = FALSE,
                                                        !.status = "unauthenticated"]]
        /\ call' = Marked(call, t) /\ out' = out \cup {t}
    BY <1>18 DEF NotIdentified
  <2> DEFINE s == [Cleared(tab[t]) EXCEPT !.me = FALSE, !.status = "unauthenticated"]
  <2>2. tab' = [tab EXCEPT ![t] = s]
    BY <2>1
  <2>3. s.access = "none"
    BY <1>0, TabOf, ClearedFacts DEF TabState
  <2>4. Ends({}) /\ \A d \in Call \ {} : call[d].tab = t => call'[d].cleared
    BY <1>0, <1>18, <2>1, NotIdentifiedType, MarkedFacts DEF TypeOK, Calls
  <2> HIDE DEF s
  <2> QED
    BY <2>1, <2>2, <2>3, <2>4, OutsEnd
<1> QED
  BY <1>1, <1>2, <1>3, <1>4, <1>5, <1>6, <1>7, <1>8, <1>9, <1>10, <1>11, <1>12, <1>13, <1>15,
     <1>16, <1>17, <1>18 DEF Next

-----------------------------------------------------------------------------
(* After a logout that met no other call nothing under way has or brings a  *)
(* cookie. *)
Empty(h) == h.kind # "login" /\ h.cookie = None /\ h.fresh = None

OverIsOver == over => jar = None /\ \A c \in Call : UnderWay(c) => Empty(call[c])

LEMMA OverKept ==
  ASSUME Base, OverIsOver, over' => over, jar' \in {jar, None},
         \A c \in Call : UnderWay(c)' => UnderWay(c) /\ (Empty(call[c]) => Empty(call'[c]))
  PROVE  OverIsOver'
BY DEF OverIsOver

LEMMA EmptyEnds ==
  ASSUME NEW cs, Ends(cs)
  PROVE  \A c \in Call : UnderWay(c)' => UnderWay(c) /\ (Empty(call[c]) => Empty(call'[c]))
<1>1. Idle.pc = "idle"
  BY DEF Idle
<1> QED
  BY <1>1 DEF Ends, Same, UnderWay, Empty

LEMMA NextOver ==
  ASSUME Base, OverIsOver, Next
  PROVE  OverIsOver'
<1>0. TypeOK /\ Shapes /\ Homed
  BY HomedByShape DEF Base
<1>1. ASSUME NEW c \in Call, NEW t \in Tab, Load(c, t) \/ Refetch(c, t)
      PROVE  OverIsOver'
  <2>1. Began(c, t)
    BY <1>0, <1>1, LoadMoves, RefetchMoves
  <2>2. Idle.pc = "idle"
    BY DEF Idle
  <2>3. \A d \in Call : UnderWay(d)' => UnderWay(d) /\ call'[d] = call[d]
    BY <2>1, <2>2 DEF Began, Begun, UnderWay
  <2>4. UNCHANGED <<jar, over>>
    BY <1>1 DEF Load, Refetch
  <2> QED
    BY <2>3, <2>4, OverKept
<1>2. ASSUME Ends({}), UNCHANGED <<jar, over>>
      PROVE  OverIsOver'
  BY <1>2, EmptyEnds, OverKept
<1>3. ASSUME NEW c \in Call, NEW h \in CallState, SentAs(c, h), UNCHANGED jar,
             over' => over /\ h.kind # "login"
      PROVE  OverIsOver'
  <2>1. call \in Calls /\ jar \in Token \cup {None} /\ call' = Sent(c, h)
    BY <1>0, <1>3 DEF TypeOK, Calls, SentAs
  <2>2. call'[c].kind = h.kind /\ call'[c].cookie = jar /\ call'[c].fresh = h.fresh
    BY <2>1, SentFacts
  <2>3. \A d \in Call \ {c} : LET g == call'[d] IN
          /\ g.pc = call[d].pc /\ g.cookie = call[d].cookie
          /\ g.kind = call[d].kind /\ g.fresh = call[d].fresh
    BY <2>1, SentFacts
  <2>4. ASSUME over' PROVE jar' = None /\ \A d \in Call : UnderWay(d)' => Empty(call'[d])
    <3>1. jar = None /\ h.kind # "login" /\ h.fresh = None
      BY <1>3, <2>4 DEF OverIsOver, SentAs
    <3>2. Empty(call'[c])
      BY <2>2, <3>1 DEF Empty
    <3>3. \A d \in Call \ {c} : UnderWay(d)' => Empty(call'[d])
      BY <1>3, <2>3, <2>4 DEF OverIsOver, UnderWay, Empty
    <3> QED
      BY <1>3, <3>1, <3>2, <3>3
  <2> QED
    BY <2>4 DEF OverIsOver
<1>4. ASSUME NEW c \in Call, Send(c)
      PROVE  OverIsOver'
  <2>1. SentAs(c, call[c]) /\ call[c] \in CallState /\ Shaped(call[c]) /\ At(c, "send")
    BY <1>0, <1>4, SendMoves DEF TypeOK, Shapes, Send
  <2>2. call[c].kind # "login"
    BY <2>1 DEF Shaped, At
  <2> QED
    BY <1>3, <1>4, <2>1, <2>2 DEF Send, history
<1>5. ASSUME NEW c \in Call, NEW t \in Tab, Login(c, t) \/ Logout(c, t)
      PROVE  OverIsOver'
  <2>1. PICK h \in CallState : /\ SentAs(c, h)
                               /\ h.kind = IF Login(c, t) THEN "login" ELSE "logout"
    BY <1>0, <1>5, OthersSentMoves
  <2>2. UNCHANGED jar
    BY <1>5 DEF Login, Logout
  <2>3. CASE Login(c, t)
    BY <1>3, <2>1, <2>2, <2>3 DEF Login
  <2>4. CASE ~Login(c, t)
    <3>1. UNCHANGED over /\ h.kind = "logout"
      BY <1>5, <2>1, <2>4 DEF Logout
    <3> QED
      BY <1>3, <2>1, <2>2, <3>1
  <2> QED
    BY <2>3, <2>4
<1>6. ASSUME NEW c \in Call, NEW answer, NEW fresh, ServedAs(c, answer, fresh),
             UNCHANGED <<jar, over>>, over => fresh = None
      PROVE  OverIsOver'
  <2>1. \A d \in Call : UnderWay(d)' => UnderWay(d)
    BY <1>6 DEF ServedAs, UnderWay, At
  <2>2. over => \A d \in Call : Empty(call[d]) => Empty(call'[d])
    BY <1>6 DEF ServedAs, Served, Empty
  <2> QED
    BY <1>6, <2>1, <2>2, OverKept DEF OverIsOver
<1>7. ASSUME NEW c \in Call, NEW fresh \in Token, ServeRefresh(c, fresh)
      PROVE  OverIsOver'
  <2>1. UNCHANGED <<jar, over>>
    BY <1>7 DEF ServeRefresh, history
  <2>2. over => ~Live(call[c].cookie)
    BY <1>7 DEF ServeRefresh, OverIsOver, UnderWay, At, Empty, Live
  <2> QED
    BY <1>0, <1>6, <1>7, <2>1, <2>2, ServeRefreshMoves
<1>8. ASSUME NEW c \in Call, NEW fresh \in Token, ServeLogin(c, fresh)
      PROVE  OverIsOver'
  <2>1. UNCHANGED <<jar, over>>
    BY <1>8 DEF ServeLogin, history
  <2>2. ~over
    BY <1>8 DEF ServeLogin, OverIsOver, UnderWay, At, Empty
  <2> QED
    BY <1>0, <1>6, <1>8, <2>1, <2>2, ServeLoginMoves
<1>9. ASSUME NEW c \in Call, ServeLogout(c)
      PROVE  OverIsOver'
  BY <1>0, <1>6, <1>9, ServeLogoutMoves DEF ServeLogout, history
<1>10. ASSUME NEW c \in Call, Ends({c}), UnderWay(c), UNCHANGED over,
              jar' \in {jar, None, call[c].fresh}
       PROVE  OverIsOver'
  <2>1. over => jar' = None
    BY <1>10 DEF OverIsOver, Empty
  <2> QED
    BY <1>10, <2>1, EmptyEnds DEF OverIsOver
<1>11. ASSUME NEW c \in Call, ReceiveToken(c) \/ ReceiveLogin(c)
       PROVE  OverIsOver'
  <2>1. Ends({c})
    BY <1>0, <1>11, ReceiveTokenType, ReceiveLoginType
  <2>2. jar' = call[c].fresh /\ UNCHANGED over /\ UnderWay(c)
    BY <1>11 DEF ReceiveToken, ReceiveLogin, Keep, UnderWay, At
  <2> QED
    BY <1>10, <2>1, <2>2
<1>12. ASSUME NEW c \in Call, ReceiveRejection(c)
       PROVE  OverIsOver'
  <2>1. jar' \in {jar, None} /\ UNCHANGED over /\ At(c, "answered")
    BY <1>0, <1>12, RejectionFacts
  <2>2. CASE RetriedAs(c)
    <3>1. call'[c].pc = "send" /\ \A d \in Call \ {c} : call'[d] = call[d]
      BY <1>0, <2>2, RetriedFacts DEF RetriedAs
    <3>2. \A d \in Call : UnderWay(d)' => UnderWay(d) /\ call'[d] = call[d]
      BY <3>1 DEF UnderWay
    <3> QED
      BY <2>1, <3>2, OverKept
  <2>3. CASE Ends({c})
    BY <1>10, <2>1, <2>3 DEF UnderWay, At
  <2> QED
    BY <1>0, <1>12, <2>2, <2>3, ReceiveRejectionMoves
<1>13. ASSUME NEW c \in Call, ReceiveLogout(c)
       PROVE  OverIsOver'
  <2>1. Ends({c}) /\ jar' = None /\ UnderWay(c)
    BY <1>0, <1>13, ReceiveLogoutType DEF ReceiveLogout, Keep, UnderWay, At
  <2>2. over' => call[c].crossed = {}
    BY <1>13 DEF ReceiveLogout
  <2>3. over' => \A d \in Call : ~UnderWay(d)'
    <3>1. over' => \A d \in Call \ {c} : ~UnderWay(d)
      BY <2>1, <2>2 DEF Base, Crossing
    <3>2. ~UnderWay(c)'
      BY <2>1 DEF Ends, UnderWay, Idle
    <3> QED
      BY <2>1, <3>1, <3>2, EmptyEnds
  <2> QED
    BY <2>1, <2>3 DEF OverIsOver
<1>14. ASSUME NEW c \in Call, Timeout(c)
       PROVE  OverIsOver'
  BY <1>0, <1>10, <1>14, TimeoutType DEF Timeout, GivesUp
<1>15. ASSUME NEW t \in Tab, NotIdentified(t)
       PROVE  OverIsOver'
  BY <1>0, <1>2, <1>15, NotIdentifiedType DEF NotIdentified
<1>16. ASSUME UNCHANGED <<jar, call, over>>
       PROVE  OverIsOver'
  BY <1>0, <1>2, <1>16, SameCalls
<1> QED
  BY <1>1, <1>4, <1>5, <1>7, <1>8, <1>9, <1>11, <1>12, <1>13, <1>14, <1>15, <1>16
     DEF Next, Expire, ServeAdrift, GraceEnds, RunOut, Identified, history

LEMMA OutAlways == Spec => [](Base /\ OutsAreGone /\ OverIsOver)
<1>1. Init => Base /\ OutsAreGone /\ OverIsOver
  BY InitBase DEF Init, OutsAreGone, OverIsOver
<1>2. Base /\ OutsAreGone /\ OverIsOver /\ [Next]_vars => (Base /\ OutsAreGone /\ OverIsOver)'
  <2>1. CASE Next
    BY <2>1, NextBase, NextOuts, NextOver
  <2>2. CASE UNCHANGED vars
    BY <2>2, NextBase DEF OutsAreGone, Gone, OverIsOver, UnderWay, vars, history
  <2> QED
    BY <2>1, <2>2
<1> QED
  BY <1>1, <1>2, PTL DEF Spec

(* A tab that cleared its session has no access token until it refreshes or *)
(* signs in anew, and a logout that met no other call leaves the browser    *)
(* without a cookie: the generation counters of auth-client.ts do their     *)
(* work, in any number of tabs. *)
THEOREM SignedOutIsOut == Spec => []SignedOutStays
<1>1. Base /\ OutsAreGone /\ OverIsOver => SignedOutStays
  BY DEF OutsAreGone, Gone, OverIsOver, SignedOutStays
<1> QED
  BY <1>1, OutAlways, PTL

-----------------------------------------------------------------------------
(* Where the tokens are.                                                    *)

(* A token on its way to the browser is nobody else's. *)
Own(c) ==
  LET f == call[c].fresh IN
  /\ token[f] \in {"live", "over"} /\ f # jar
  /\ \A d \in Call : call[d].cookie # f /\ (d # c => call[d].fresh # f)
  /\ \A h \in adrift : h.cookie # f

HeldAreIssued == \A t \in Token : Held(t) => token[t] # "unused"
FreshAreOwn   == \A c \in Call : call[c].fresh # None => Own(c)

(* While the browser holds a cookie that was rotated, the next one comes.   *)
NextOneComes ==
  ~strayed /\ jar # None /\ token[jar] = "rotated" =>
    \E d \in Call : call[d].cookie = jar /\ call[d].fresh # None

Holdings == HeldAreIssued /\ FreshAreOwn /\ NextOneComes

(* What time and logouts do to a token. *)
Aged(t) == token'[t] = token[t] \/ (token[t] \in {"live", "rotated"} /\ token'[t] = "over")

(* A call gets nothing, and what it loses is known. *)
Loses(c) ==
  /\ call'[c].cookie \in {call[c].cookie, None}
  /\ call'[c].fresh \in {call[c].fresh, None}
  /\ call[c].fresh # None /\ call'[c].fresh = None => strayed'
  /\ call'[c].fresh # None => call'[c].cookie = call[c].cookie

LEMMA HoldingsKept ==
  ASSUME Base, Holdings, \A t \in Token : Aged(t), \A c \in Call : Loses(c),
         jar' \in {jar, None}, strayed => strayed',
         \A h \in adrift' : h \in adrift \/ \E c \in Call : call[c].cookie = h.cookie
  PROVE  Holdings'
<1>0. TypeOK
  BY DEF Base
<1>1. HeldAreIssued'
  <2> SUFFICES ASSUME NEW t \in Token, Held(t)' PROVE token'[t] # "unused"
    BY DEF HeldAreIssued
  <2>1. t # None
    BY NoneIsNothing
  <2>2. Held(t)
    BY <2>1 DEF Held, Loses
  <2>3. token[t] # "unused"
    BY <2>2 DEF Holdings, HeldAreIssued
  <2> QED
    BY <2>3 DEF Aged
<1>2. FreshAreOwn'
  <2> SUFFICES ASSUME NEW c \in Call, call'[c].fresh # None PROVE Own(c)'
    BY DEF FreshAreOwn
  <2>1. PICK f \in Token : f = call[c].fresh /\ call'[c].fresh = f
    BY <1>0, CallTypes DEF Loses
  <2>2. Own(c)
    BY <2>1, NoneIsNothing DEF Holdings, FreshAreOwn
  <2>3. f # None
    BY NoneIsNothing
  <2>4. token'[f] \in {"live", "over"} /\ f # jar'
    BY <2>1, <2>2, <2>3 DEF Own, Aged
  <2>5. \A d \in Call : call'[d].cookie # f /\ (d # c => call'[d].fresh # f)
    BY <2>1, <2>2, <2>3 DEF Own, Loses
  <2>6. \A h \in adrift' : h.cookie # f
    BY <2>1, <2>2 DEF Own
  <2> QED
    BY <2>1, <2>4, <2>5, <2>6 DEF Own
<1>3. NextOneComes'
  <2> SUFFICES ASSUME ~strayed', jar' # None, token'[jar'] = "rotated"
               PROVE  \E d \in Call : call'[d].cookie = jar' /\ call'[d].fresh # None
    BY DEF NextOneComes
  <2>1. jar' = jar /\ jar \in Token /\ ~strayed
    BY <1>0 DEF TypeOK
  <2>2. token[jar] = "rotated"
    BY <2>1 DEF Aged
  <2>3. PICK d \in Call : call[d].cookie = jar /\ call[d].fresh # None
    BY <2>1, <2>2 DEF Holdings, NextOneComes
  <2> QED
    BY <2>1, <2>3 DEF Loses
<1> QED
  BY <1>1, <1>2, <1>3 DEF Holdings

LEMMA HoldingsSent ==
  ASSUME Base, Holdings, NEW c \in Call, NEW h \in CallState, SentAs(c, h),
         UNCHANGED <<jar, token, adrift, strayed>>
  PROVE  Holdings'
<1>0. TypeOK /\ call \in Calls /\ jar \in Token \cup {None} /\ call' = Sent(c, h)
  BY DEF Base, TypeOK, Calls, SentAs
<1>1. call'[c].cookie = jar /\ call'[c].fresh = None
  BY <1>0, SentFacts DEF SentAs
<1>2. \A d \in Call \ {c} : call'[d].cookie = call[d].cookie /\ call'[d].fresh = call[d].fresh
  BY <1>0, SentFacts
<1>3. call[c].fresh = None
  BY DEF SentAs, Base, Shapes, Shaped, At
<1>4. HeldAreIssued'
  <2>1. \A t \in Token : Held(t)' => Held(t)
    BY <1>1, <1>2, NoneIsNothing DEF Held
  <2> QED
    BY <2>1 DEF Holdings, HeldAreIssued
<1>5. FreshAreOwn'
  <2> SUFFICES ASSUME NEW d \in Call, call'[d].fresh # None PROVE Own(d)'
    BY DEF FreshAreOwn
  <2>1. d # c /\ call'[d].fresh = call[d].fresh
    BY <1>1, <1>2
  <2>2. Own(d)
    BY <2>1 DEF Holdings, FreshAreOwn
  <2> QED
    BY <1>1, <1>2, <2>1, <2>2 DEF Own
<1>6. NextOneComes'
  BY <1>1, <1>2, <1>3 DEF Holdings, NextOneComes
<1> QED
  BY <1>4, <1>5, <1>6 DEF Holdings

(* The API issues a token to call c, and may rotate the cookie of c. *)
LEMMA HoldingsMinted ==
  ASSUME Base, Holdings, NEW c \in Call, NEW fresh \in Token, ServedAs(c, "ok", fresh),
         token[fresh] = "unused", token'[fresh] = "live",
         \A t \in Token \ {fresh} :
           token'[t] = token[t] \/ (t = call[c].cookie /\ token'[t] = "rotated"),
         UNCHANGED <<jar, adrift, strayed>>
  PROVE  Holdings'
<1>0. TypeOK /\ fresh # None /\ ~Held(fresh)
  BY NoneIsNothing DEF Base, Holdings, HeldAreIssued
<1>1. call[c].fresh = None /\ call'[c].fresh = fresh /\ call'[c].cookie = call[c].cookie
  BY AnswerIsSome DEF ServedAs, Served, Base, Shapes, Shaped, At, Answer
<1>2. \A d \in Call \ {c} : call'[d] = call[d]
  BY DEF ServedAs
<1>3. HeldAreIssued'
  <2> SUFFICES ASSUME NEW t \in Token, Held(t)', t # fresh PROVE token'[t] # "unused"
    BY DEF HeldAreIssued
  <2>1. Held(t)
    BY <1>1, <1>2 DEF Held
  <2> QED
    BY <2>1 DEF Holdings, HeldAreIssued
<1>4. ASSUME NEW d \in Call, d # c, call'[d].fresh # None PROVE Own(d)'
  <2>1. PICK f \in Token : f = call[d].fresh /\ call'[d].fresh = f
    BY <1>0, <1>2, <1>4, CallTypes
  <2>2. Own(d)
    BY <2>1, NoneIsNothing DEF Holdings, FreshAreOwn
  <2>3. f # fresh
    BY <1>0, <2>1 DEF Held
  <2>4. token'[f] \in {"live", "over"} /\ f # jar'
    BY <2>1, <2>2, <2>3 DEF Own
  <2>5. \A e \in Call : call'[e].cookie # f /\ (e # d => call'[e].fresh # f)
    BY <1>1, <1>2, <2>1, <2>2, <2>3 DEF Own
  <2> QED
    BY <2>1, <2>2, <2>4, <2>5 DEF Own
<1>5. Own(c)'
  <2>1. fresh # jar' /\ \A h \in adrift' : h.cookie # fresh
    BY <1>0 DEF Held
  <2>2. \A e \in Call : call'[e].cookie # fresh /\ (e # c => call'[e].fresh # fresh)
    BY <1>0, <1>1, <1>2 DEF Held
  <2> QED
    BY <1>1, <2>1, <2>2 DEF Own
<1>6. NextOneComes'
  <2> SUFFICES ASSUME ~strayed, jar # None, token'[jar] = "rotated"
               PROVE  \E d \in Call : call'[d].cookie = jar /\ call'[d].fresh # None
    BY DEF NextOneComes
  <2>1. CASE jar = call[c].cookie
    BY <1>0, <1>1, <2>1
  <2>2. CASE jar # call[c].cookie
    <3>1. token[jar] = "rotated"
      BY <1>0, <2>2 DEF TypeOK, Held
    <3>2. PICK d \in Call : call[d].cookie = jar /\ call[d].fresh # None
      BY <3>1 DEF Holdings, NextOneComes
    <3> QED
      BY <1>1, <1>2, <3>2
  <2> QED
    BY <2>1, <2>2
<1> QED
  BY <1>3, <1>4, <1>5, <1>6 DEF Holdings, FreshAreOwn

(* The browser takes the token of call c. *)
LEMMA HoldingsTaken ==
  ASSUME Base, Holdings, NEW c \in Call, Ends({c}), call[c].fresh # None, jar' = call[c].fresh,
         UNCHANGED <<token, adrift>>
  PROVE  Holdings'
<1>1. call'[c].fresh = None /\ call'[c].cookie = None
  BY DEF Ends, Idle
<1>2. \A d \in Call \ {c} : call'[d].cookie = call[d].cookie /\ call'[d].fresh = call[d].fresh
  BY DEF Ends, Same
<1>3. Own(c)
  BY DEF Holdings, FreshAreOwn
<1>4. HeldAreIssued'
  <2>1. \A t \in Token : Held(t)' => Held(t)
    BY <1>1, <1>2, NoneIsNothing DEF Held
  <2> QED
    BY <2>1 DEF Holdings, HeldAreIssued
<1>5. FreshAreOwn'
  <2> SUFFICES ASSUME NEW d \in Call, call'[d].fresh # None PROVE Own(d)'
    BY DEF FreshAreOwn
  <2>1. d # c /\ call'[d].fresh = call[d].fresh
    BY <1>1, <1>2
  <2>2. Own(d)
    BY <2>1 DEF Holdings, FreshAreOwn
  <2> QED
    BY <1>1, <1>2, <1>3, <2>1, <2>2 DEF Own
<1>6. NextOneComes'
  BY <1>3 DEF NextOneComes, Own
<1> QED
  BY <1>4, <1>5, <1>6 DEF Holdings

(* The API rotates the cookie of a call nobody waits for. *)
LEMMA HoldingsAdrift ==
  ASSUME Base, Holdings, NEW h \in adrift, NEW fresh \in Token, token[fresh] = "unused",
         \A t \in Token \ {fresh} :
           token'[t] = token[t] \/ (t = h.cookie /\ token'[t] = "rotated"),
         adrift' \subseteq adrift, strayed', UNCHANGED <<jar, call>>
  PROVE  Holdings'
<1>1. ~Held(fresh)
  BY DEF Holdings, HeldAreIssued
<1>2. HeldAreIssued'
  <2> SUFFICES ASSUME NEW t \in Token, Held(t)' PROVE token'[t] # "unused"
    BY DEF HeldAreIssued
  <2>1. Held(t)
    BY DEF Held
  <2> QED
    BY <1>1, <2>1 DEF Holdings, HeldAreIssued
<1>3. FreshAreOwn'
  <2> SUFFICES ASSUME NEW d \in Call, call[d].fresh # None PROVE Own(d)'
    BY DEF FreshAreOwn
  <2>1. PICK f \in Token : f = call[d].fresh
    BY CallTypes DEF Base
  <2>2. Own(d)
    BY DEF Holdings, FreshAreOwn
  <2>3. f # fresh
    BY <1>1, <2>1 DEF Held
  <2>4. token'[f] = token[f]
    BY <2>1, <2>2, <2>3 DEF Own
  <2> QED
    BY <2>1, <2>2, <2>4 DEF Own
<1>4. NextOneComes'
  BY DEF NextOneComes
<1> QED
  BY <1>2, <1>3, <1>4 DEF Holdings

-----------------------------------------------------------------------------
(* What is known of a refresh.                                              *)

(* Its cookie was rotated: by itself, by a call it crossed, or astray. *)
Reached(h) ==
  h.pc \in {"sent", "answered"} /\ h.cookie # None /\ token[h.cookie] = "rotated" =>
    strayed \/ h.attempt \in h.crossed \/ h.fresh # None

(* It was refused: the cookie is over, or still within its grace. *)
Refused(h) ==
  h.pc = "answered" /\ h.answer # "ok" =>
    \/ h.cookie = None \/ token[h.cookie] = "over"
    \/ h.answer = "superseded" /\ token[h.cookie] = "rotated"

(* Its earlier attempts failed for a cause. *)
Tried(h) ==
  \A j \in 1 .. 3 : j < h.attempt => strayed \/ h.lapsed \/ j \in h.crossed

Known(c) ==
  call[c].kind = "refresh" => Reached(call[c]) /\ Refused(call[c]) /\ Tried(call[c])

Knowledge == \A c \in Call : Known(c)

(* What can happen to the cookie of call c. *)
AgedFor(c) ==
  LET k == call[c].cookie IN
  \/ k = None
  \/ Aged(k)
  \/ /\ token[k] = "live" /\ token'[k] = "rotated"
     /\ UnderWay(c) => strayed' \/ call[c].attempt \in call[c].crossed

(* Call c stays as it is, and may cross others. *)
Stays(c) ==
  LET g == call'[c]
      h == call[c] IN
  /\ g.pc = h.pc /\ g.kind = h.kind /\ g.cookie = h.cookie /\ g.answer = h.answer
  /\ g.fresh = h.fresh /\ g.attempt = h.attempt /\ g.lapsed = h.lapsed
  /\ h.crossed \subseteq g.crossed

LEMMA KnownKept ==
  ASSUME NEW c \in Call, Known(c), Stays(c), AgedFor(c), strayed => strayed'
  PROVE  Known(c)'
<1> SUFFICES ASSUME call'[c].kind = "refresh"
             PROVE  Reached(call[c])' /\ Refused(call[c])' /\ Tried(call[c])'
  BY DEF Known
<1>1. Reached(call[c]) /\ Refused(call[c]) /\ Tried(call[c])
  BY DEF Known, Stays
<1>2. Reached(call[c])'
  BY <1>1 DEF Reached, Stays, AgedFor, Aged, UnderWay
<1>3. Refused(call[c])'
  BY <1>1 DEF Refused, Stays, AgedFor, Aged, UnderWay
<1>4. Tried(call[c])'
  BY <1>1 DEF Tried, Stays
<1> QED
  BY <1>2, <1>3, <1>4

LEMMA KnownNew ==
  ASSUME NEW c \in Call, call'[c].pc \in {"idle", "send"}, call'[c].attempt = 1
  PROVE  Known(c)'
BY DEF Known, Reached, Refused, Tried

LEMMA KnownOther ==
  ASSUME NEW c \in Call, call'[c].kind # "refresh"
  PROVE  Known(c)'
BY DEF Known

LEMMA KnownIdle ==
  ASSUME NEW c \in Call, call'[c] = Idle
  PROVE  Known(c)'
<1>1. Idle.pc = "idle" /\ Idle.attempt = 1
  BY DEF Idle
<1> QED
  BY <1>1, KnownNew

LEMMA SameStays ==
  ASSUME NEW c \in Call, call'[c] = call[c] \/ Same(call'[c], call[c])
  PROVE  Stays(c)
BY DEF Same, Stays

(* A refused attempt crossed another call, unless something else was wrong. *)
LEMMA Overtaken ==
  ASSUME NEW c \in Call, Known(c), Shaped(call[c]), At(c, "answered"),
         call[c].kind = "refresh", call[c].answer # "ok", ~strayed, ~Lapsed(call[c])
  PROVE  /\ call[c].answer = "superseded"
         /\ call[c].attempt \in call[c].crossed
         /\ \A j \in 1 .. 3 : j < call[c].attempt => j \in call[c].crossed
<1>1. call[c].cookie # None /\ token[call[c].cookie] # "over" /\ ~call[c].lapsed
  BY DEF Lapsed
<1>2. call[c].answer = "superseded" /\ token[call[c].cookie] = "rotated"
  BY <1>1 DEF Known, Refused, At
<1>3. call[c].fresh = None
  BY DEF Shaped
<1> QED
  BY <1>1, <1>2, <1>3 DEF Known, Reached, Tried, At

LEMMA KnownEnds ==
  ASSUME Knowledge, NEW cs, Ends(cs), \A c \in Call : AgedFor(c), strayed => strayed'
  PROVE  Knowledge'
<1>1. ASSUME NEW c \in Call PROVE Known(c)'
  BY KnownIdle, KnownKept, SameStays DEF Knowledge, Ends
<1> QED
  BY <1>1 DEF Knowledge

LEMMA KnownBegan ==
  ASSUME Knowledge, NEW c \in Call, NEW t \in Tab, Began(c, t), UNCHANGED token,
         strayed => strayed'
  PROVE  Knowledge'
<1>1. ASSUME NEW d \in Call PROVE Known(d)'
  <2>1. CASE d = c
    BY <2>1, KnownNew DEF Began, Begun
  <2>2. CASE d # c
    <3>1. AgedFor(d)
      BY DEF AgedFor, Aged
    <3> QED
      BY <2>2, <3>1, KnownIdle, KnownKept, SameStays DEF Knowledge, Began
  <2> QED
    BY <2>1, <2>2
<1> QED
  BY <1>1 DEF Knowledge

LEMMA KnownSent ==
  ASSUME Base, Holdings, Knowledge, NEW c \in Call, NEW h \in CallState, SentAs(c, h),
         UNCHANGED <<jar, token, strayed>>
  PROVE  Knowledge'
<1>0. TypeOK /\ call \in Calls /\ jar \in Token \cup {None} /\ call' = Sent(c, h)
  BY DEF Base, TypeOK, Calls, SentAs
<1>1. ASSUME NEW d \in Call \ {c} PROVE Known(d)'
  <2>1. Stays(d)
    BY <1>0, SentFacts DEF Stays
  <2>2. AgedFor(d)
    BY DEF AgedFor, Aged
  <2> QED
    BY <2>1, <2>2, KnownKept DEF Knowledge
<1>2. LET g == call'[c] IN
        /\ g.pc = "sent" /\ g.cookie = jar /\ g.kind = h.kind /\ g.fresh = h.fresh
        /\ g.attempt = h.attempt /\ g.lapsed = h.lapsed /\ h.crossed \subseteq g.crossed
        /\ h.attempt \in g.crossed \/ \A d \in Call \ {c} : ~UnderWay(d)
  BY <1>0, SentFacts
<1>3. ASSUME h.kind # "refresh" PROVE Known(c)'
  BY <1>2, <1>3, KnownOther
<1>4. ASSUME h.kind = "refresh" PROVE Known(c)'
  <2>1. h = call[c] /\ Tried(call[c]) /\ call[c].fresh = None
    BY <1>4 DEF SentAs, Knowledge, Known
  <2>2. Reached(call[c])'
    <3> SUFFICES ASSUME jar # None, token[jar] = "rotated", ~strayed
                 PROVE  h.attempt \in call'[c].crossed
      BY <1>2 DEF Reached
    <3>1. PICK d \in Call : call[d].cookie = jar /\ call[d].fresh # None
      BY DEF Holdings, NextOneComes
    <3>2. d # c /\ UnderWay(d)
      BY <2>1, <3>1, AnswerIsSome DEF UnderWay, Base, Shapes, Shaped, Answer
    <3> QED
      BY <1>2, <3>2
  <2>3. Refused(call[c])'
    BY <1>2 DEF Refused
  <2>4. Tried(call[c])'
    BY <1>2, <2>1 DEF Tried
  <2> QED
    BY <2>2, <2>3, <2>4 DEF Known
<1>5. Known(c)'
  BY <1>3, <1>4
<1> QED
  BY <1>1, <1>5 DEF Knowledge

(* A call that is served answers what the token of its cookie says. *)
LEMMA KnownServed ==
  ASSUME Base, Knowledge, NEW c \in Call, NEW answer, NEW fresh, ServedAs(c, answer, fresh),
         UNCHANGED strayed, \A d \in Call \ {c} : AgedFor(d),
         \/ call[c].kind # "refresh"
         \/ answer = "ok" /\ fresh # None
         \/ /\ UNCHANGED token /\ answer = Refusal(call[c].cookie)
            /\ call[c].cookie # None => token[call[c].cookie] \in {"rotated", "over"}
  PROVE  Knowledge'
<1>1. ASSUME NEW d \in Call \ {c} PROVE Known(d)'
  BY KnownKept, SameStays DEF Knowledge, ServedAs
<1>2. LET g == call'[c] IN
        /\ g.pc = "answered" /\ g.answer = answer /\ g.fresh = fresh
        /\ g.kind = call[c].kind /\ g.cookie = call[c].cookie /\ g.attempt = call[c].attempt
        /\ g.crossed = call[c].crossed /\ g.lapsed = call[c].lapsed /\ call[c].pc = "sent"
  BY DEF ServedAs, Served, At
<1>3. ASSUME call[c].kind # "refresh" PROVE Known(c)'
  BY <1>2, <1>3, KnownOther
<1>4. ASSUME call[c].kind = "refresh" PROVE Known(c)'
  <2>1. Reached(call[c]) /\ Tried(call[c])
    BY <1>4 DEF Knowledge, Known
  <2>2. Tried(call[c])'
    BY <1>2, <2>1 DEF Tried
  <2>3. CASE answer = "ok" /\ fresh # None
    BY <1>2, <2>2, <2>3 DEF Known, Reached, Refused
  <2>4. CASE /\ UNCHANGED token /\ answer = Refusal(call[c].cookie)
             /\ call[c].cookie # None => token[call[c].cookie] \in {"rotated", "over"}
    <3>1. call[c].fresh = None
      BY <1>2, AnswerIsSome DEF Base, Shapes, Shaped, Answer
    <3>2. Reached(call[c])'
      BY <1>2, <2>1, <2>4, <3>1 DEF Reached
    <3>3. Refused(call[c])'
      BY <1>2, <2>4 DEF Refused, Refusal
    <3> QED
      BY <2>2, <3>2, <3>3 DEF Known
  <2> QED
    BY <1>4, <2>3, <2>4
<1>5. Known(c)'
  BY <1>3, <1>4
<1> QED
  BY <1>1, <1>5 DEF Knowledge

LEMMA KnownRetried ==
  ASSUME Base, Knowledge, NEW c \in Call, RetriedAs(c), UNCHANGED token, strayed => strayed'
  PROVE  Knowledge'
<1>0. TypeOK /\ Shaped(call[c]) /\ call[c].attempt \in 1 .. 3
  BY CallTypes DEF Base, Shapes
<1>1. LET g == call'[c] IN
        /\ g.pc = "send" /\ g.attempt = call[c].attempt + 1 /\ g.crossed = call[c].crossed
        /\ g.lapsed = Lapsed(call[c])
  BY <1>0, RetriedFacts DEF RetriedAs
<1>2. ASSUME NEW d \in Call \ {c} PROVE Known(d)'
  <2>1. call'[d] = call[d]
    BY <1>0, RetriedFacts DEF RetriedAs
  <2>2. AgedFor(d)
    BY DEF AgedFor, Aged
  <2> QED
    BY <2>1, <2>2, KnownKept, SameStays DEF Knowledge
<1>3. Reached(call[c])' /\ Refused(call[c])'
  BY <1>1 DEF Reached, Refused
<1>4. Tried(call[c])'
  <2> SUFFICES ASSUME ~strayed, ~Lapsed(call[c]), NEW j \in 1 .. 3, j < call[c].attempt + 1
               PROVE  j \in call[c].crossed
    BY <1>1 DEF Tried
  <2>1. /\ call[c].attempt \in call[c].crossed
        /\ \A i \in 1 .. 3 : i < call[c].attempt => i \in call[c].crossed
    BY <1>0, Overtaken DEF Knowledge, RetriedAs
  <2>2. j < call[c].attempt \/ j = call[c].attempt
    BY <1>0
  <2> QED
    BY <2>1, <2>2
<1>5. Known(c)'
  BY <1>3, <1>4 DEF Known
<1> QED
  BY <1>2, <1>5 DEF Knowledge

-----------------------------------------------------------------------------
(* Every step keeps both. *)

Cause == Holdings /\ Knowledge

LEMMA EndsLoses ==
  ASSUME NEW c \in Call, NEW cs, Ends(cs), c \in cs /\ call[c].fresh # None => strayed'
  PROVE  Loses(c)
BY DEF Ends, Same, Loses, Idle

LEMMA AgedIsAgedFor ==
  ASSUME Base, \A t \in Token : Aged(t)
  PROVE  \A c \in Call : AgedFor(c)
BY CallTypes DEF Base, AgedFor

LEMMA RevokedAges ==
  ASSUME TypeOK, NEW cookie, token' = Revoked(cookie)
  PROVE  \A t \in Token : Aged(t)
BY DEF TypeOK, Revoked, Aged, Live

(* Time passes, or a tab marks its calls. *)
LEMMA CauseAged ==
  ASSUME Base, Cause, Ends({}), \A t \in Token : Aged(t), UNCHANGED jar, strayed => strayed',
         adrift' \subseteq adrift
  PROVE  Cause'
<1>1. \A c \in Call : Loses(c)
  BY EndsLoses
<1>2. Holdings'
  BY <1>1, HoldingsKept DEF Cause
<1>3. Knowledge'
  BY AgedIsAgedFor, KnownEnds DEF Cause
<1> QED
  BY <1>2, <1>3 DEF Cause

(* A call ends, and the browser keeps its cookie or none. *)
LEMMA CauseEnds ==
  ASSUME Base, Cause, NEW c \in Call, Ends({c}), UNCHANGED token, jar' \in {jar, None},
         strayed => strayed', call[c].fresh # None => strayed',
         \A h \in adrift' : h \in adrift \/ \E d \in Call : call[d].cookie = h.cookie
  PROVE  Cause'
<1>1. \A t \in Token : Aged(t)
  BY DEF Aged
<1>2. \A d \in Call : Loses(d)
  BY EndsLoses
<1>3. Holdings'
  BY <1>1, <1>2, HoldingsKept DEF Cause
<1>4. Knowledge'
  BY <1>1, AgedIsAgedFor, KnownEnds DEF Cause
<1> QED
  BY <1>3, <1>4 DEF Cause

(* A call ends, and the browser has its token. *)
LEMMA CauseTaken ==
  ASSUME Base, Cause, NEW c \in Call, Ends({c}), UNCHANGED <<token, adrift>>,
         jar' = call[c].fresh, strayed => strayed'
  PROVE  Cause'
<1>1. CASE call[c].fresh = None
  BY <1>1, CauseEnds
<1>2. CASE call[c].fresh # None
  <2>1. Holdings'
    BY <1>2, HoldingsTaken DEF Cause
  <2>2. Knowledge'
    <3>1. \A t \in Token : Aged(t)
      BY DEF Aged
    <3> QED
      BY <3>1, AgedIsAgedFor, KnownEnds DEF Cause
  <2> QED
    BY <2>1, <2>2 DEF Cause
<1> QED
  BY <1>1, <1>2

LEMMA CauseBegan ==
  ASSUME Base, Cause, NEW c \in Call, NEW t \in Tab, Began(c, t), UNCHANGED <<jar, token>>,
         strayed => strayed',
         \A h \in adrift' : h \in adrift \/ \E d \in Call : call[d].cookie = h.cookie
  PROVE  Cause'
<1>1. \A u \in Token : Aged(u)
  BY DEF Aged
<1>2. \A d \in Call : Loses(d)
  <2>1. call[c].fresh = None /\ call[c].cookie = None
    BY DEF Began, Base, Shapes, Shaped, At
  <2> QED
    BY <2>1 DEF Began, Begun, Loses, Idle
<1>3. Holdings'
  BY <1>1, <1>2, HoldingsKept DEF Cause
<1>4. Knowledge'
  BY KnownBegan DEF Cause
<1> QED
  BY <1>3, <1>4 DEF Cause

LEMMA CauseSent ==
  ASSUME Base, Cause, NEW c \in Call, NEW h \in CallState, SentAs(c, h),
         UNCHANGED <<jar, token, adrift, strayed>>
  PROVE  Cause'
BY HoldingsSent, KnownSent DEF Cause

(* A call is served without a token. *)
LEMMA CauseServed ==
  ASSUME Base, Cause, NEW c \in Call, NEW answer, ServedAs(c, answer, None),
         \A t \in Token : Aged(t), UNCHANGED <<jar, adrift, strayed>>,
         \/ call[c].kind # "refresh"
         \/ /\ UNCHANGED token /\ answer = Refusal(call[c].cookie)
            /\ call[c].cookie # None => token[call[c].cookie] \in {"rotated", "over"}
  PROVE  Cause'
<1>1. \A d \in Call : Loses(d)
  <2>1. call[c].fresh = None
    BY AnswerIsSome DEF ServedAs, Base, Shapes, Shaped, At, Answer
  <2> QED
    BY <2>1 DEF ServedAs, Served, Loses
<1>2. Holdings'
  BY <1>1, HoldingsKept DEF Cause
<1>3. Knowledge'
  BY AgedIsAgedFor, KnownServed DEF Cause
<1> QED
  BY <1>2, <1>3 DEF Cause

LEMMA CauseRetried ==
  ASSUME Base, Cause, NEW c \in Call, RetriedAs(c), UNCHANGED <<token, adrift>>,
         jar' \in {jar, None}, strayed => strayed'
  PROVE  Cause'
<1>0. TypeOK /\ call[c].fresh = None
  BY DEF Base, Shapes, Shaped, RetriedAs
<1>1. \A t \in Token : Aged(t)
  BY DEF Aged
<1>2. \A d \in Call : Loses(d)
  <2>1. call'[c].cookie = None /\ call'[c].fresh = None
        /\ \A d \in Call \ {c} : call'[d] = call[d]
    BY <1>0, RetriedFacts DEF RetriedAs
  <2> QED
    BY <1>0, <2>1 DEF Loses
<1>3. Holdings'
  BY <1>1, <1>2, HoldingsKept DEF Cause
<1>4. Knowledge'
  BY KnownRetried DEF Cause
<1> QED
  BY <1>3, <1>4 DEF Cause

LEMMA CauseServeRefresh ==
  ASSUME Base, Cause, NEW c \in Call, NEW fresh \in Token, ServeRefresh(c, fresh)
  PROVE  Cause'
<1>0. TypeOK /\ Shapes /\ UNCHANGED <<jar, adrift, strayed>>
  BY DEF Base, ServeRefresh, history
<1>1. call[c].cookie \in Token \cup {None} /\ At(c, "sent") /\ call[c].kind = "refresh"
  BY <1>0, CallTypes, ServeRefreshMoves
<1>2. CASE /\ Live(call[c].cookie) /\ Minted(fresh) /\ ServedAs(c, "ok", fresh)
           /\ token' = [token EXCEPT ![call[c].cookie] = "rotated", ![fresh] = "live"]
  <2>1. PICK k \in Token : k = call[c].cookie
    BY <1>1, <1>2 DEF Live
  <2>2. token' = [token EXCEPT ![k] = "rotated", ![fresh] = "live"]
    BY <1>2, <2>1
  <2>3. token[fresh] = "unused" /\ token[k] = "live" /\ fresh # None /\ k # None
    BY <1>2, <2>1, NoneIsNothing DEF Minted, Live
  <2>4. /\ token'[fresh] = "live" /\ token'[k] = "rotated"
        /\ \A t \in Token \ {fresh, k} : token'[t] = token[t]
    BY <1>0, <2>2, <2>3 DEF TypeOK
  <2>5. Holdings'
    BY <1>0, <1>2, <2>1, <2>3, <2>4, HoldingsMinted DEF Cause
  <2>6. ASSUME NEW d \in Call \ {c} PROVE AgedFor(d)
    <3>1. CASE call[d].cookie = k
      <4>1. UnderWay(d) => call[d].attempt \in call[d].crossed
        BY <1>1 DEF Base, Crossing, UnderWay, At
      <4> QED
        BY <2>3, <2>4, <3>1, <4>1 DEF AgedFor
    <3>2. CASE call[d].cookie # k
      <4>1. call[d].cookie \in Token \cup {None}
        BY <1>0, CallTypes
      <4>2. call[d].cookie # fresh
        BY <2>3 DEF Cause, Holdings, HeldAreIssued, Held
      <4> QED
        BY <2>4, <3>2, <4>1, <4>2 DEF AgedFor, Aged
    <3> QED
      BY <3>1, <3>2
  <2>7. Knowledge'
    BY <1>0, <1>2, <2>3, <2>6, KnownServed DEF Cause
  <2> QED
    BY <2>5, <2>7 DEF Cause
<1>3. CASE ~Live(call[c].cookie) /\ UNCHANGED token /\ ServedAs(c, Refusal(call[c].cookie), None)
  <2>1. call[c].cookie # None => token[call[c].cookie] \in {"rotated", "over"}
    <3> SUFFICES ASSUME call[c].cookie # None
                 PROVE  token[call[c].cookie] \in {"rotated", "over"}
      OBVIOUS
    <3>1. Held(call[c].cookie) /\ call[c].cookie \in Token
      BY <1>1 DEF Held
    <3>2. token[call[c].cookie] # "unused"
      BY <3>1 DEF Cause, Holdings, HeldAreIssued
    <3> QED
      BY <1>0, <1>3, <3>1, <3>2 DEF TypeOK, TokenState, Live
  <2>2. \A t \in Token : Aged(t)
    BY <1>3 DEF Aged
  <2> QED
    BY <1>0, <1>3, <2>1, <2>2, CauseServed
<1> QED
  BY <1>0, <1>2, <1>3, ServeRefreshMoves

LEMMA CauseServeLogin ==
  ASSUME Base, Cause, NEW c \in Call, NEW fresh \in Token, ServeLogin(c, fresh)
  PROVE  Cause'
<1>0. TypeOK /\ UNCHANGED <<jar, adrift, strayed>> /\ call[c].kind = "login"
  BY DEF Base, ServeLogin, history
<1>1. ServedAs(c, "ok", fresh)
  BY <1>0, ServeLoginMoves
<1>2. token' = [token EXCEPT ![fresh] = "live"] /\ token[fresh] = "unused"
  BY DEF ServeLogin, Minted
<1>3. token'[fresh] = "live" /\ \A t \in Token \ {fresh} : token'[t] = token[t]
  BY <1>0, <1>2 DEF TypeOK
<1>4. Holdings'
  BY <1>0, <1>1, <1>2, <1>3, HoldingsMinted DEF Cause
<1>5. ASSUME NEW d \in Call PROVE AgedFor(d)
  <2>1. call[d].cookie \in Token \cup {None}
    BY <1>0, CallTypes
  <2>2. call[d].cookie # fresh
    BY <1>2 DEF Cause, Holdings, HeldAreIssued, Held
  <2> QED
    BY <1>3, <2>1, <2>2 DEF AgedFor, Aged
<1>6. Knowledge'
  BY <1>0, <1>1, <1>5, KnownServed DEF Cause
<1> QED
  BY <1>4, <1>6 DEF Cause

LEMMA CauseServeAdrift ==
  ASSUME Base, Cause, NEW h \in adrift, NEW fresh \in Token, ServeAdrift(h, fresh)
  PROVE  Cause'
<1>0. TypeOK /\ UNCHANGED <<jar, call>> /\ adrift' \subseteq adrift /\ h.cookie \in Token
  BY DEF Base, TypeOK, ServeAdrift
<1>1. Ends({})
  BY <1>0, SameCalls
<1>2. CASE h.kind = "refresh" /\ Live(h.cookie)
  <2>1. PICK k \in Token : k = h.cookie
    BY <1>0
  <2>2. /\ token' = [token EXCEPT ![k] = "rotated", ![fresh] = "live"] /\ strayed'
        /\ token[fresh] = "unused" /\ token[k] = "live"
    BY <1>2, <2>1 DEF ServeAdrift, Minted, Live
  <2>3. token'[k] = "rotated" /\ \A t \in Token \ {fresh, k} : token'[t] = token[t]
    BY <1>0, <2>2 DEF TypeOK
  <2>4. Holdings'
    BY <1>0, <2>1, <2>2, <2>3, HoldingsAdrift DEF Cause
  <2>5. ASSUME NEW d \in Call PROVE AgedFor(d)
    <3>1. call[d].cookie \in Token \cup {None}
      BY <1>0, CallTypes
    <3>2. call[d].cookie # fresh
      BY <2>2 DEF Cause, Holdings, HeldAreIssued, Held
    <3> QED
      BY <2>2, <2>3, <3>1, <3>2 DEF AgedFor, Aged
  <2>6. Knowledge'
    BY <1>1, <2>2, <2>5, KnownEnds DEF Cause
  <2> QED
    BY <2>4, <2>6 DEF Cause
<1>3. CASE ~(h.kind = "refresh" /\ Live(h.cookie))
  <2>1. UNCHANGED strayed /\ (token' = Revoked(h.cookie) \/ token' = token)
    BY <1>3 DEF ServeAdrift
  <2>2. \A t \in Token : Aged(t)
    BY <1>0, <2>1, RevokedAges DEF Aged
  <2> QED
    BY <1>0, <1>1, <2>1, <2>2, CauseAged
<1> QED
  BY <1>2, <1>3

LEMMA NextCause ==
  ASSUME Base, Cause, Next
  PROVE  Cause'
<1>0. TypeOK /\ Shapes /\ Homed
  BY HomedByShape DEF Base
<1>1. ASSUME NEW c \in Call, NEW t \in Tab, Load(c, t)
      PROVE  Cause'
  <2>1. Began(c, t)
    BY <1>0, <1>1, LoadMoves
  <2>2. UNCHANGED <<jar, token>> /\ Wake({d \in Call : call[d].tab = t})
    BY <1>1 DEF Load
  <2>3. /\ strayed => strayed'
        /\ \A h \in adrift' : h \in adrift \/ \E d \in Call : call[d].cookie = h.cookie
    BY <1>0, <2>2, WakeFacts
  <2> QED
    BY <2>1, <2>2, <2>3, CauseBegan
<1>2. ASSUME NEW c \in Call, NEW t \in Tab, Refetch(c, t)
      PROVE  Cause'
  BY <1>0, <1>2, RefetchMoves, CauseBegan DEF Refetch
<1>3. ASSUME NEW c \in Call, Send(c)
      PROVE  Cause'
  <2>1. SentAs(c, call[c]) /\ call[c] \in CallState
    BY <1>0, <1>3, SendMoves DEF TypeOK
  <2> QED
    BY <1>3, <2>1, CauseSent DEF Send, history
<1>4. ASSUME NEW c \in Call, NEW t \in Tab, Login(c, t) \/ Logout(c, t)
      PROVE  Cause'
  <2>1. PICK h \in CallState : SentAs(c, h)
    BY <1>0, <1>4, OthersSentMoves
  <2> QED
    BY <1>4, <2>1, CauseSent DEF Login, Logout
<1>5. ASSUME NEW c \in Call, ServeLogout(c)
      PROVE  Cause'
  <2>1. ServedAs(c, "ok", None)
    BY <1>0, <1>5, ServeLogoutMoves
  <2>2. token' = Revoked(call[c].cookie) /\ UNCHANGED <<jar, adrift, strayed>>
        /\ call[c].kind = "logout"
    BY <1>5 DEF ServeLogout, history
  <2> QED
    BY <1>0, <2>1, <2>2, RevokedAges, CauseServed
<1>6. ASSUME NEW t \in Token, GraceEnds(t) \/ RunOut(t)
      PROVE  Cause'
  <2>1. /\ token' = [token EXCEPT ![t] = "over"] /\ token[t] \in {"live", "rotated"}
        /\ UNCHANGED <<jar, call, adrift, strayed>>
    BY <1>6 DEF GraceEnds, RunOut, Live, history
  <2>2. \A u \in Token : Aged(u)
    BY <1>0, <2>1 DEF TypeOK, Aged
  <2> QED
    BY <1>0, <2>1, <2>2, SameCalls, CauseAged
<1>7. ASSUME NEW c \in Call, ReceiveToken(c) \/ ReceiveLogin(c)
      PROVE  Cause'
  <2>1. Ends({c})
    BY <1>0, <1>7, ReceiveTokenType, ReceiveLoginType
  <2>2. /\ jar' = call[c].fresh /\ (strayed => strayed') /\ UNCHANGED <<token, adrift>>
    BY <1>7 DEF ReceiveToken, ReceiveLogin, Keep
  <2> QED
    BY <2>1, <2>2, CauseTaken
<1>8. ASSUME NEW c \in Call, ReceiveRejection(c)
      PROVE  Cause'
  <2>1. /\ jar' \in {jar, None} /\ (strayed => strayed') /\ UNCHANGED <<token, adrift>>
        /\ call[c].answer # "ok"
    BY <1>0, <1>8, RejectionFacts
  <2>2. call[c].fresh = None
    BY <1>0, <2>1 DEF Shapes, Shaped
  <2> QED
    BY <1>0, <1>8, <2>1, <2>2, ReceiveRejectionMoves, CauseRetried, CauseEnds
<1>9. ASSUME NEW c \in Call, ReceiveLogout(c)
      PROVE  Cause'
  <2>1. Ends({c})
    BY <1>0, <1>9, ReceiveLogoutType
  <2>2. /\ jar' = None /\ (strayed => strayed') /\ UNCHANGED <<token, adrift>>
        /\ call[c].kind = "logout"
    BY <1>9 DEF ReceiveLogout, Keep
  <2>3. call[c].fresh = None
    BY <1>0, <2>2 DEF Shapes, Shaped
  <2> QED
    BY <2>1, <2>2, <2>3, CauseEnds
<1>10. ASSUME NEW c \in Call, Timeout(c)
       PROVE  Cause'
  <2>1. Ends({c}) /\ UNCHANGED <<jar, token>> /\ Wake({c})
    BY <1>0, <1>10, TimeoutType DEF Timeout
  <2>2. call[c].fresh # None => At(c, "answered")
    BY <1>0, AnswerIsSome DEF Shapes, Shaped, At, Answer
  <2>3. /\ strayed => strayed'
        /\ call[c].fresh # None => strayed'
        /\ \A h \in adrift' : h \in adrift \/ \E d \in Call : call[d].cookie = h.cookie
    BY <1>0, <2>1, <2>2, WakeFacts
  <2> QED
    BY <2>1, <2>3, CauseEnds
<1>11. ASSUME NEW t \in Tab, NotIdentified(t)
       PROVE  Cause'
  BY <1>0, <1>11, NotIdentifiedType, CauseAged DEF NotIdentified, Aged
<1>12. ASSUME UNCHANGED <<jar, token, call, adrift, strayed>>
       PROVE  Cause'
  BY <1>0, <1>12, SameCalls, CauseAged DEF Aged
<1> QED
  BY <1>1, <1>2, <1>3, <1>4, <1>5, <1>6, <1>7, <1>8, <1>9, <1>10, <1>11, <1>12,
     CauseServeRefresh, CauseServeLogin, CauseServeAdrift
     DEF Next, Expire, Identified, history

(* The one step that passes a verdict. *)
LEMMA NextVerdict ==
  ASSUME Base, Cause, EndsForCause, Next
  PROVE  EndsForCause'
<1>0. TypeOK
  BY DEF Base
<1>1. ASSUME NEW c \in Call, ReceiveRejection(c)
      PROVE  EndsForCause'
  <2>1. CASE UNCHANGED verdict
    BY <2>1 DEF EndsForCause
  <2>2. CASE /\ Conclusive(call[c])
             /\ verdict' \in {verdict, {[strayed |-> strayed', lapsed |-> Lapsed(call[c]),
                                         overtaken |-> call[c].crossed = 1 .. 3]}}
    <3>1. /\ At(c, "answered") /\ call[c].kind = "refresh" /\ call[c].answer # "ok"
          /\ strayed => strayed'
      BY <1>0, <1>1, RejectionFacts
    <3>2. strayed' \/ Lapsed(call[c]) \/ call[c].crossed = 1 .. 3
      <4> SUFFICES ASSUME ~strayed', ~Lapsed(call[c])
                   PROVE  call[c].crossed = 1 .. 3
        OBVIOUS
      <4>1. /\ call[c].answer = "superseded" /\ call[c].attempt \in call[c].crossed
            /\ \A j \in 1 .. 3 : j < call[c].attempt => j \in call[c].crossed
        BY <3>1, Overtaken DEF Cause, Knowledge, Base, Shapes
      <4>2. call[c].attempt = 3
        BY <2>2, <4>1 DEF Conclusive
      <4>3. call[c].crossed \subseteq 1 .. 3
        BY <1>0, CallTypes
      <4>4. \A j \in 1 .. 3 : j \in call[c].crossed
        BY <4>1, <4>2
      <4> QED
        BY <4>3, <4>4
    <3> DEFINE v == [strayed |-> strayed', lapsed |-> Lapsed(call[c]),
                     overtaken |-> call[c].crossed = 1 .. 3]
    <3>3. v.strayed \/ v.lapsed \/ v.overtaken
      BY <3>2
    <3>4. verdict' \in {verdict, {v}}
      BY <2>2
    <3> HIDE DEF v
    <3> QED
      BY <3>3, <3>4 DEF EndsForCause
  <2> QED
    BY <1>0, <1>1, <2>1, <2>2, RejectionFacts
<1>2. ASSUME UNCHANGED verdict
      PROVE  EndsForCause'
  BY <1>2 DEF EndsForCause
<1>3. Next => UNCHANGED verdict \/ \E c \in Call : ReceiveRejection(c)
  BY DEF Next, Load, Expire, Refetch, Send, Login, Logout, ServeRefresh, ServeLogin, ServeLogout,
         ServeAdrift, GraceEnds, RunOut, ReceiveToken, ReceiveLogin, ReceiveLogout, Timeout,
         Identified, NotIdentified, history
<1> QED
  BY <1>1, <1>2, <1>3

LEMMA InitCause ==
  ASSUME Init
  PROVE  Cause
<1>1. /\ jar = None /\ adrift = {} /\ call = [c \in Call |-> Idle]
      /\ Idle.cookie = None /\ Idle.fresh = None /\ Idle.pc = "idle" /\ Idle.attempt = 1
  BY DEF Init, Idle
<1>2. Holdings
  BY <1>1, NoneIsNothing DEF Holdings, HeldAreIssued, Held, FreshAreOwn, NextOneComes
<1>3. Knowledge
  BY <1>1 DEF Knowledge, Known, Reached, Refused, Tried
<1> QED
  BY <1>2, <1>3 DEF Cause

LEMMA StutterCause ==
  ASSUME Base, Cause, EndsForCause, UNCHANGED vars
  PROVE  (Cause /\ EndsForCause)'
<1>0. UNCHANGED <<jar, token, call, adrift, strayed, verdict>>
  BY DEF vars, history
<1>1. Cause'
  BY <1>0, SameCalls, CauseAged DEF Base, Aged
<1> QED
  BY <1>0, <1>1 DEF EndsForCause

(* The console ends the session of a signed-in tab on its own only when the *)
(* cookie went astray, when an attempt came without one or with one that    *)
(* was over, or when every one of three attempts was overtaken by another   *)
(* call: performRefresh asks again often enough, for any number of tabs.    *)
THEOREM SessionsEndForCause == Spec => []EndsForCause
<1>1. Init => Base /\ Cause /\ EndsForCause
  BY InitBase, InitCause DEF Init, EndsForCause
<1>2. Base /\ Cause /\ EndsForCause /\ [Next]_vars => (Base /\ Cause /\ EndsForCause)'
  <2>1. CASE Next
    BY <2>1, NextBase, NextCause, NextVerdict
  <2>2. CASE UNCHANGED vars
    BY <2>2, NextBase, StutterCause
  <2> QED
    BY <2>1, <2>2
<1> QED
  BY <1>1, <1>2, PTL DEF Spec

-----------------------------------------------------------------------------
(* "Checking your admin session" goes on only while something is under way, *)
(* and what is under way comes to its end.                                  *)

Initializing(t) == tab[t].status = "initializing"

(* The state s has left its tab where it was, or with a token for /me. *)
Quiet(s, state) ==
  /\ state.status = "initializing"
  /\ \/ s.promise = state.promise /\ s.me = state.me
     \/ s.promise = None /\ s.me

LEMMA SettledQuiet ==
  ASSUME NEW state \in TabState, NEW got \in BOOLEAN,
         Settled(state, got).status = "initializing"
  PROVE  got /\ Quiet(Settled(state, got), state)
BY DEF Settled, TabState, Quiet

(* One tab is told s. *)
LEMMA QuietTold ==
  ASSUME TypeOK, NEW t \in Tab, NEW u \in Tab, NEW s, tab' = [tab EXCEPT ![u] = s],
         t = u /\ s.status = "initializing" => Quiet(s, tab[u]), Initializing(t)'
  PROVE  Quiet(tab'[t], tab[t])
<1>1. tab'[u] = s /\ \A v \in Tab \ {u} : tab'[v] = tab[v]
  BY DEF TypeOK
<1> QED
  BY <1>1 DEF Initializing, Quiet

(* Who is initializing after a step either began to, or was, and waits for  *)
(* the same refresh or has its token. *)
LEMMA NextInitializing ==
  ASSUME Base, Next, NEW t \in Tab, Initializing(t)'
  PROVE  (\E c \in Call : Load(c, t)) \/ Quiet(tab'[t], tab[t])
<1>0. TypeOK /\ Homed /\ \A u \in Tab : tab[u] \in TabState /\ Cleared(tab[u]) \in TabState
  BY HomedByShape, TabOf DEF Base
<1>1. ASSUME UNCHANGED tab
      PROVE  Quiet(tab'[t], tab[t])
  BY <1>1 DEF Quiet, Initializing
<1>2. ASSUME NEW c \in Call, NEW u \in Tab, Load(c, u), u # t
      PROVE  Quiet(tab'[t], tab[t])
  BY <1>0, <1>2, QuietTold DEF Load
<1>3. ASSUME NEW u \in Tab, Expire(u)
      PROVE  Quiet(tab'[t], tab[t])
  <2> DEFINE s == [tab[u] EXCEPT !.access = "expired"]
  <2>1. tab' = [tab EXCEPT ![u] = s]
    BY <1>3 DEF Expire
  <2>2. s.status = "initializing" => Quiet(s, tab[u])
    BY <1>0 DEF Quiet, TabState
  <2> HIDE DEF s
  <2> QED
    BY <1>0, <2>1, <2>2, QuietTold
<1>4. ASSUME NEW c \in Call, NEW u \in Tab, Refetch(c, u)
      PROVE  Quiet(tab'[t], tab[t])
  <2> DEFINE s == [tab[u] EXCEPT !.promise = c]
  <2>1. tab' = [tab EXCEPT ![u] = s] /\ tab[u].status = "authenticated"
    BY <1>4 DEF Refetch
  <2>2. s.status # "initializing"
    BY <1>0, <2>1 DEF TabState
  <2> HIDE DEF s
  <2> QED
    BY <1>0, <2>1, <2>2, QuietTold
<1>5. ASSUME NEW c \in Call, NEW state, NEW calls, NEW got \in BOOLEAN, NEW u \in Tab,
             u = call[c].tab, state \in {tab[u], Cleared(tab[u])}, got => state = tab[u],
             Settle(c, state, calls, got)
      PROVE  Quiet(tab'[t], tab[t])
  <2> DEFINE s == Settled(state, got)
  <2>1. tab' = [tab EXCEPT ![u] = s]
    BY <1>5 DEF Settle
  <2>2. s.status = "initializing" => Quiet(s, tab[u])
    BY <1>0, <1>5, SettledQuiet
  <2> HIDE DEF s
  <2> QED
    BY <1>0, <2>1, <2>2, QuietTold
<1>6. ASSUME NEW c \in Call, ReceiveToken(c)
      PROVE  Quiet(tab'[t], tab[t])
  BY <1>0, <1>5, <1>6, CallTypes DEF ReceiveToken, Homed, At
<1>7. ASSUME NEW c \in Call, ReceiveRejection(c)
      PROVE  Quiet(tab'[t], tab[t])
  <2>1. call[c].tab \in Tab
    BY <1>0, <1>7, RejectionFacts DEF Homed, At
  <2> QED
    BY <1>0, <1>1, <1>5, <1>7, <2>1, RejectionFacts
<1>8. ASSUME NEW u \in Tab, NEW s, tab' = [tab EXCEPT ![u] = s], s.status # "initializing"
      PROVE  Quiet(tab'[t], tab[t])
  BY <1>0, <1>8, QuietTold
<1>9. ASSUME NEW u \in Tab, NEW state \in {tab[u], Cleared(tab[u])},
             tab' = [tab EXCEPT ![u] = [state EXCEPT !.status = "unauthenticated"]]
      PROVE  Quiet(tab'[t], tab[t])
  <2> DEFINE s == [state EXCEPT !.status = "unauthenticated"]
  <2>1. tab' = [tab EXCEPT ![u] = s]
    BY <1>9
  <2>2. s.status # "initializing"
    BY <1>0 DEF TabState
  <2> HIDE DEF s
  <2> QED
    BY <1>8, <2>1, <2>2
<1>10. ASSUME NEW c \in Call, ReceiveLogin(c)
       PROVE  Quiet(tab'[t], tab[t])
  <2>1. PICK u \in Tab : u = call[c].tab
    BY <1>0, <1>10 DEF ReceiveLogin, Homed, At
  <2> DEFINE s == [tab[u] EXCEPT !.access = "valid", !.user = TRUE, !.status = "authenticated"]
  <2>2. tab' = [tab EXCEPT ![u] = s]
    BY <1>10, <2>1 DEF ReceiveLogin
  <2>3. s.status # "initializing"
    BY <1>0 DEF TabState
  <2> HIDE DEF s
  <2> QED
    BY <1>8, <2>2, <2>3
<1>11. ASSUME NEW c \in Call, ReceiveLogout(c)
       PROVE  Quiet(tab'[t], tab[t])
  <2>1. PICK u \in Tab : u = call[c].tab
    BY <1>0, <1>11 DEF ReceiveLogout, Homed, At
  <2>2. \/ tab' = [tab EXCEPT ![u] = [tab[u] EXCEPT !.status = "unauthenticated"]]
        \/ tab' = [tab EXCEPT ![u] = [Cleared(tab[u]) EXCEPT !.status = "unauthenticated"]]
    BY <1>11, <2>1 DEF ReceiveLogout
  <2> QED
    BY <1>9, <2>2
<1>12. ASSUME NEW c \in Call, Timeout(c)
       PROVE  Quiet(tab'[t], tab[t])
  <2>1. PICK u \in Tab : u = call[c].tab
    BY <1>0, <1>12 DEF Timeout, GivesUp, UnderWay, Homed
  <2>2. CASE call[c].kind = "refresh"
    <3>1. Settle(c, tab[u], call, FALSE)
      BY <1>12, <2>1, <2>2 DEF Timeout
    <3> QED
      BY <1>5, <2>1, <3>1
  <2>3. CASE call[c].kind = "login"
    BY <1>1, <1>12, <2>3 DEF Timeout
  <2>4. CASE call[c].kind = "logout"
    <3>1. tab' = [tab EXCEPT ![u] = [Cleared(tab[u]) EXCEPT !.status = "unauthenticated"]]
      BY <1>12, <2>1, <2>4 DEF Timeout
    <3> QED
      BY <1>9, <3>1
  <2> QED
    BY <1>0, <2>2, <2>3, <2>4, CallTypes
<1>13. ASSUME NEW u \in Tab, Identified(u)
       PROVE  Quiet(tab'[t], tab[t])
  <2> DEFINE s == [tab[u] EXCEPT !.me = FALSE, !.user = TRUE, !.status = "authenticated"]
  <2>1. tab' = [tab EXCEPT ![u] = s]
    BY <1>13 DEF Identified
  <2>2. s.status # "initializing"
    BY <1>0 DEF TabState
  <2> HIDE DEF s
  <2> QED
    BY <1>8, <2>1, <2>2
<1>14. ASSUME NEW u \in Tab, NotIdentified(u)
       PROVE  Quiet(tab'[t], tab[t])
  <2> DEFINE s == [Cleared(tab[u]) EXCEPT !.me = FALSE, !.status = "unauthenticated"]
  <2>1. tab' = [tab EXCEPT ![u] = s]
    BY <1>14 DEF NotIdentified
  <2>2. s.status # "initializing"
    BY <1>0 DEF TabState
  <2> HIDE DEF s
  <2> QED
    BY <1>8, <2>1, <2>2
<1> QED
  BY <1>1, <1>2, <1>3, <1>4, <1>6, <1>7, <1>10, <1>11, <1>12, <1>13, <1>14
     DEF Next, Send, Login, Logout, ServeRefresh, ServeLogin, ServeLogout, ServeAdrift,
         GraceEnds, RunOut

-----------------------------------------------------------------------------
(* How far a refresh is from its end.                                       *)

Phase(c) == IF At(c, "send") THEN 2 ELSE IF At(c, "sent") THEN 1 ELSE 0

(* What call c has before it at most, and a tab, in sends and answers. *)
Left(c) == 3 * (3 - call[c].attempt) + Phase(c)
Rank(t) == IF tab[t].promise = None THEN 0 ELSE 1 + Left(tab[t].promise)

LEMMA LeftType ==
  ASSUME TypeOK, TypeOK', NEW c \in Call
  PROVE  Left(c) \in Nat /\ Left(c)' \in Nat
<1>1. call[c].attempt \in 1 .. 3 /\ call'[c].attempt \in 1 .. 3
  BY DEF TypeOK, CallState
<1> QED
  BY <1>1 DEF Left, Phase

(* A call that goes on comes nearer to its end with every step it makes. *)
LEMMA LeftShrinks ==
  ASSUME Base, TypeOK', Moves, NEW p \in Call, ~At(p, "idle"), ~At(p, "idle")'
  PROVE  Left(p)' <= Left(p) /\ (call'[p].pc # call[p].pc => Left(p)' < Left(p))
<1>0. TypeOK /\ call \in Calls /\ jar \in Token \cup {None}
  BY DEF Base, TypeOK, Calls
<1>1. call[p].attempt \in 1 .. 3 /\ Left(p) \in Nat /\ Left(p)' \in Nat
  BY <1>0, CallTypes, LeftType
<1>2. ASSUME call'[p].pc = call[p].pc, call'[p].attempt = call[p].attempt
      PROVE  Left(p)' = Left(p)
  BY <1>2 DEF Left, Phase, At
<1>3. ASSUME NEW cs, Ends(cs)
      PROVE  call'[p].pc = call[p].pc /\ call'[p].attempt = call[p].attempt
  BY <1>3 DEF Ends, Same, At, Idle
<1>4. ASSUME NEW c \in Call, NEW u \in Tab, Began(c, u)
      PROVE  call'[p].pc = call[p].pc /\ call'[p].attempt = call[p].attempt
  BY <1>4 DEF Began, At, Idle
<1>5. ASSUME NEW c \in Call, NEW h \in CallState, SentAs(c, h)
      PROVE  \/ call'[p].pc = call[p].pc /\ call'[p].attempt = call[p].attempt
             \/ Left(p)' < Left(p)
  <2>1. call' = Sent(c, h)
    BY <1>5 DEF SentAs
  <2>2. CASE p = c
    <3>1. At(p, "send") /\ h = call[p]
      BY <1>5, <2>2 DEF SentAs
    <3>2. call'[p].pc = "sent" /\ call'[p].attempt = call[p].attempt
      BY <1>0, <2>1, <2>2, <3>1, SentFacts
    <3> QED
      BY <1>1, <3>1, <3>2 DEF Left, Phase, At
  <2>3. CASE p # c
    BY <1>0, <2>1, <2>3, SentFacts
  <2> QED
    BY <2>2, <2>3
<1>6. ASSUME NEW c \in Call, NEW answer, NEW fresh, ServedAs(c, answer, fresh)
      PROVE  \/ call'[p].pc = call[p].pc /\ call'[p].attempt = call[p].attempt
             \/ Left(p)' < Left(p)
  <2>1. CASE p = c
    <3>1. /\ At(p, "sent") /\ call'[p].pc = "answered"
          /\ call'[p].attempt = call[p].attempt
      BY <1>6, <2>1 DEF ServedAs, Served
    <3> QED
      BY <1>1, <3>1 DEF Left, Phase, At
  <2>2. CASE p # c
    BY <1>6, <2>2 DEF ServedAs
  <2> QED
    BY <2>1, <2>2
<1>7. ASSUME NEW c \in Call, RetriedAs(c)
      PROVE  \/ call'[p].pc = call[p].pc /\ call'[p].attempt = call[p].attempt
             \/ Left(p)' < Left(p)
  <2>1. CASE p = c
    <3>1. At(p, "answered") /\ call'[p].pc = "send" /\ call'[p].attempt = call[p].attempt + 1
      BY <1>0, <1>7, <2>1, RetriedFacts DEF RetriedAs
    <3> QED
      BY <1>1, <3>1 DEF Left, Phase, At
  <2>2. CASE p # c
    BY <1>0, <1>7, <2>2, RetriedFacts DEF RetriedAs
  <2> QED
    BY <2>1, <2>2
<1>8. \/ call'[p].pc = call[p].pc /\ call'[p].attempt = call[p].attempt
      \/ Left(p)' < Left(p)
  BY <1>3, <1>4, <1>5, <1>6, <1>7 DEF Moves
<1> QED
  BY <1>1, <1>2, <1>8

-----------------------------------------------------------------------------
(* A tab that is initializing waits for /me or for a refresh of its own,    *)
(* which the browser is about to send or may give up: initializeSession of  *)
(* AuthProvider.tsx never waits for nothing. *)
WaitsForSomething ==
  \A t \in Tab : Initializing(t) =>
    \/ tab[t].me
    \/ tab[t].promise # None /\ (At(tab[t].promise, "send") \/ GivesUp(tab[t].promise))

(* Until its page is loaded anew a tab that goes on initializing comes no   *)
(* further from the end of its refresh, whatever the other tabs and the API *)
(* do, and nearer when the browser acts; and the answer of /me ends it.     *)
Advances(t) ==
  Initializing(t) /\ Initializing(t)' /\ ~(\E c \in Call : Load(c, t)) =>
    /\ Rank(t)' <= Rank(t)
    /\ \A c \in Call : c = tab[t].promise /\ (Send(c) \/ Timeout(c)) => Rank(t)' < Rank(t)
    /\ ~Identified(t) /\ ~NotIdentified(t)

Waiting == \A t \in Tab : Initializing(t) => tab[t].me \/ tab[t].promise # None

LEMMA NextWaiting ==
  ASSUME Base, Waiting, Next
  PROVE  Waiting'
<1>1. ASSUME NEW t \in Tab, Initializing(t)'
      PROVE  tab'[t].me \/ tab'[t].promise # None
  <2>1. ASSUME NEW c \in Call, Load(c, t)
        PROVE  tab'[t].promise # None
    <3>1. tab'[t] = [Closed EXCEPT !.status = "initializing", !.promise = c]
      BY <2>1 DEF Load, Base, TypeOK
    <3> QED
      BY <3>1, NoneIsNothing DEF Closed
  <2>2. CASE Quiet(tab'[t], tab[t])
    BY <2>2 DEF Quiet, Waiting, Initializing
  <2> QED
    BY <1>1, <2>1, <2>2, NextInitializing
<1> QED
  BY <1>1 DEF Waiting

LEMMA WaitingAlways == Spec => [](Base /\ Waiting)
<1>1. Init => Base /\ Waiting
  <2>1. ASSUME Init PROVE Waiting
    BY <2>1 DEF Init, Waiting, Initializing, Closed
  <2> QED
    BY <2>1, InitBase
<1>2. Base /\ Waiting /\ [Next]_vars => (Base /\ Waiting)'
  <2>1. CASE Next
    BY <2>1, NextBase, NextWaiting
  <2>2. CASE UNCHANGED vars
    BY <2>2, NextBase DEF Waiting, Initializing, vars
  <2> QED
    BY <2>1, <2>2
<1> QED
  BY <1>1, <1>2, PTL DEF Spec

(* No tab is on "Checking your admin session" with nothing under way, in    *)
(* any number of tabs: WaitsForSomething, for initializeSession. *)
THEOREM InitializingWaits == Spec => []WaitsForSomething
<1>1. ASSUME Base, Waiting
      PROVE  WaitsForSomething
  <2>1. ASSUME NEW t \in Tab, tab[t].promise # None
        PROVE  At(tab[t].promise, "send") \/ GivesUp(tab[t].promise)
    <3>1. tab[t].promise \in Call /\ call[tab[t].promise].pc # "idle"
      BY <1>1, <2>1 DEF Base, TypeOK, TabState
    <3>2. call[tab[t].promise].pc \in {"idle", "send", "sent", "answered"}
      BY <1>1, <3>1 DEF Base, TypeOK, CallState
    <3> QED
      BY <3>1, <3>2 DEF At, GivesUp, UnderWay
  <2> QED
    BY <1>1, <2>1 DEF Waiting, WaitsForSomething
<1>2. Base /\ Waiting => WaitsForSomething
  BY <1>1
<1> QED
  BY <1>2, WaitingAlways, PTL

LEMMA NextAdvances ==
  ASSUME Base, Next, NEW t \in Tab
  PROVE  Advances(t)
<1> SUFFICES ASSUME Initializing(t), Initializing(t)', ~(\E c \in Call : Load(c, t))
             PROVE  /\ Rank(t)' <= Rank(t)
                    /\ \A c \in Call : c = tab[t].promise /\ (Send(c) \/ Timeout(c)) =>
                         Rank(t)' < Rank(t)
                    /\ ~Identified(t) /\ ~NotIdentified(t)
  BY DEF Advances
<1>0. TypeOK /\ TypeOK' /\ Shapes /\ Moves /\ Quiet(tab'[t], tab[t])
  BY NextMoves, NextInitializing DEF Base
<1>1. Cleared(tab[t]) \in TabState /\ tab \in [Tab -> TabState]
  BY <1>0, TabOf DEF TypeOK
<1>2. ~Identified(t)
  BY <1>1 DEF Identified, Initializing, TabState
<1>3. ~NotIdentified(t)
  <2> DEFINE s == [Cleared(tab[t]) EXCEPT !.me = FALSE, !.status = "unauthenticated"]
  <2>1. s.status = "unauthenticated"
    BY <1>1 DEF TabState
  <2>2. NotIdentified(t) => tab' = [tab EXCEPT ![t] = s]
    BY DEF NotIdentified
  <2> HIDE DEF s
  <2> QED
    BY <1>1, <2>1, <2>2 DEF Initializing
<1>4. ASSUME tab[t].promise = None
      PROVE  /\ Rank(t)' <= Rank(t)
             /\ \A c \in Call : c # tab[t].promise
  BY <1>0, <1>4, NoneIsNothing DEF Quiet, Rank
<1>5. ASSUME NEW p \in Call, p = tab[t].promise
      PROVE  Rank(t)' <= Rank(t) /\ (Send(p) \/ Timeout(p) => Rank(t)' < Rank(t))
  <2>1. p # None /\ Rank(t) = 1 + Left(p) /\ Left(p) \in Nat
    BY <1>0, <1>5, NoneIsNothing, LeftType DEF Rank
  <2>2. CASE tab'[t].promise = None
    BY <2>1, <2>2 DEF Rank
  <2>3. CASE tab'[t].promise = p
    <3>1. ~At(p, "idle") /\ ~At(p, "idle")'
      BY <1>0, <1>5, <2>1, <2>3 DEF TypeOK, At
    <3>2. Left(p)' <= Left(p) /\ (call'[p].pc # call[p].pc => Left(p)' < Left(p))
      BY <1>0, <3>1, LeftShrinks
    <3>3. Rank(t)' = 1 + Left(p)' /\ Left(p)' \in Nat
      BY <1>0, <2>1, <2>3, LeftType DEF Rank
    <3>4. ASSUME Send(p) PROVE call'[p].pc # call[p].pc
      <4>1. call \in Calls /\ jar \in Token \cup {None} /\ call[p] \in CallState
        BY <1>0 DEF TypeOK, Calls
      <4>2. call'[p].pc = "sent"
        BY <3>4, <4>1, SentFacts DEF Send
      <4> QED
        BY <3>4, <4>2 DEF Send, At
    <3>5. ~Timeout(p)
      <4>1. ASSUME Timeout(p) PROVE Ends({p})
        BY <1>0, <4>1, TimeoutType, HomedByShape
      <4> QED
        BY <3>1, <4>1 DEF Ends, At, Idle
    <3> QED
      BY <2>1, <3>2, <3>3, <3>4, <3>5
  <2> QED
    BY <1>0, <1>5, <2>2, <2>3 DEF Quiet
<1>6. tab[t].promise \in Call \cup {None}
  BY <1>1 DEF TabState
<1> QED
  BY <1>2, <1>3, <1>4, <1>5, <1>6

(* While a tab initializes, its refresh runs to an end that no other tab,   *)
(* and no answer of the API, can put off: Advances, which holds of every    *)
(* step of any number of tabs. *)
THEOREM InitializingAdvances == Spec => [][\A t \in Tab : Advances(t)]_vars
<1>1. Base /\ [Next]_vars => [\A t \in Tab : Advances(t)]_vars
  BY NextAdvances
<1> QED
  BY <1>1, BaseAlways, PTL DEF Spec
===============================================================================

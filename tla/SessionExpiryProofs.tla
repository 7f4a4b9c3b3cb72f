------------------------- MODULE SessionExpiryProofs -------------------------
(* Proofs about SessionExpiry, for any number of tabs and any clocks that the  *)
(* assumption allows.                                                          *)
EXTENDS SessionExpiry, TLAPS

\* The request of a tab will extend the session once the handler is done.
Extending(t) ==
  /\ request[t] # None /\ request[t].answer = "none"
  /\ request[t].of \in {"claimant", "nobody", "none"}

\* It has extended the session, and that is still there.
Extended(t) ==
  /\ request[t] # None /\ request[t].answer # "none"
  /\ request[t].of \in {"claimant", "nobody"}

Fetches(t) == request[t] # None /\ request[t].kind = "whoami"

\* The cache keeps a session longer than its expires_at, and only an open tab
\* counts down, with the buffer.
CacheInv == session.who # "none" => session.left =< session.kept

TabInv ==
  \A t \in Tabs : deadline[t] # None => IsOpen(t) /\ deadline[t] =< COOKIE_AGE - TIMEOUT_BUFFER

\* A cookie, and an answer that brings one, has the whole of a session less an
\* answer's time.
Brings(r) ==
  /\ r.of # "none"
  /\ r.answer # "400" /\ r.of # "expired" => COOKIE_AGE - Lag =< r.seconds
  /\ r.answer = "400" => r.of = "ended"
  /\ r.of = "expired" => r.answer = "401"

CookieInv ==
  /\ cookie # None => COOKIE_AGE - Lag =< cookie.seconds
  /\ \A t \in Tabs : request[t] # None /\ request[t].answer # "none" => Brings(request[t])

\* An extended session is at most as much older than its request as an answer
\* that has overtaken it.
ExtendedInv ==
  \A t \in Tabs : Extended(t) =>
    /\ session.who # "none"
    /\ COOKIE_AGE - Lag - request[t].age =< session.left

\* The cookie of a session that is there is read within a second, or a request
\* that will extend the session has been under way since.
Unread == cookie # None /\ ~ cookie.stale

Fresh == COOKIE_AGE - 2 * Lag

Late ==
  \/ session.left < Fresh - 1
  \/ session.left < Fresh /\ \E t \in Tabs : IsOpen(t) /\ t \notin due

UnreadInv ==
  Unread =>
    /\ session.who # "none"
    /\ Late => \E t \in Tabs : Extending(t) /\ Fresh - 1 - session.left =< request[t].age

\* A countdown that has reached zero logs out within a second, unless a fetch of
\* whoami has just put its interval off.
ZeroInv ==
  \A t \in Tabs : Counting(t) /\ deadline[t] = 0 /\ t \notin due =>
    Fetches(t) /\ request[t].age = 0

\* The first half of the promise. Without an overrun it takes more: when a
\* countdown may be as long as the session, which is when that is about to be
\* extended, or when the fetch that has put the last interval off is still under
\* way.
CountdownInv ==
  \A t \in Tabs : Counting(t) /\ counts[t] # "other" =>
    /\ deadline[t] =< secondsKept + Overrun
    /\ Overrun = 0 /\ deadline[t] = session.left =>
         \/ Lag = 0
         \/ \E u \in Tabs : Extending(u) /\ request[u].age = Lag
         \/ deadline[t] = 0 /\ Fetches(t) /\ 1 =< request[t].age

\* The second half, but for what the cookie and the answers under way will tell.
LatestInv ==
  \A t \in Tabs : Counting(t) /\ counts[t] = "latest" =>
    \/ session.left - TIMEOUT_BUFFER - Lag =< deadline[t]
    \/ cookie # None
    \/ \E u \in Tabs : Extended(u)

-----------------------------------------------------------------------------
(* The type invariant *)

LEMMA Numbers ==
  /\ COOKIE_AGE \in Nat /\ TIMEOUT_BUFFER \in Nat /\ Lag \in Nat
  /\ TIMEOUT_BUFFER + Lag < COOKIE_AGE /\ 4 * Lag + 1 < COOKIE_AGE
  /\ None \notin Int /\ None \notin Cookie /\ None \notin Request
BY ExpiryAssumption

LEMMA Overruns ==
  /\ Overrun \in Nat /\ 3 * Lag + 1 =< TIMEOUT_BUFFER + Overrun
BY Numbers DEF Overrun

LEMMA InitType == Init => TypeOK
BY Numbers DEF Init, TypeOK, Gone, Seconds

LEMMA GoneType == Gone \in [who : {"claimant", "nobody", "none"}, kept : Seconds,
                            left : -1 .. COOKIE_AGE, logout_url : BOOLEAN]
BY Numbers DEF Gone, Seconds

LEMMA LeaveType ==
  ASSUME TypeOK, NEW t \in Tabs, NEW to \in {"away", "leaving"}, Leave(t, to)
  PROVE  /\ tab' \in [Tabs -> {"away", "open", "leaving", "idp"}]
         /\ deadline' \in [Tabs -> Seconds \cup {None}]
         /\ shown' \in [Tabs -> Seconds \cup {None}]
         /\ due' \subseteq Tabs
BY DEF TypeOK, Leave

LEMMA ExpiresType ==
  ASSUME TypeOK, NEW t \in Tabs, NEW jar \in Cookie \cup {None}
  PROVE  expiresAt(t, jar) \in Seconds \cup {None}
<1>1. CASE jar = None
  BY <1>1 DEF TypeOK, expiresAt, getSecondsLeft
<1>2. CASE jar # None
  <2> DEFINE left == jar.seconds - TIMEOUT_BUFFER
  <2>1. jar.seconds \in Seconds /\ left \in Int /\ left =< COOKIE_AGE
    BY <1>2, Numbers DEF Cookie, Seconds
  <2>2. getSecondsLeft(jar) = left
    BY <1>2 DEF getSecondsLeft
  <2>3. deadline[t] \in Seconds \cup {None} /\ 0 \in Seconds
    BY Numbers DEF TypeOK, Seconds
  <2> HIDE DEF left
  <2>4. left >= 0 => left \in Seconds
    BY <2>1, Numbers DEF Seconds
  <2> QED
    BY <2>1, <2>2, <2>3, <2>4 DEF expiresAt
<1> QED
  BY <1>1, <1>2

LEMMA CheckType ==
  ASSUME TypeOK, NEW t \in Tabs, NEW jar \in Cookie \cup {None}, checkExpiry(t, jar)
  PROVE  /\ tab' \in [Tabs -> {"away", "open", "leaving", "idp"}]
         /\ deadline' \in [Tabs -> Seconds \cup {None}]
         /\ shown' \in [Tabs -> Seconds \cup {None}]
         /\ due' \subseteq Tabs
         /\ cookie' \in Cookie \cup {None}
         /\ counts' \in [Tabs -> {"latest", "missed", "other"}]
<1>1. cookie' = None /\ counts' \in [Tabs -> {"latest", "missed", "other"}]
  BY DEF checkExpiry, TypeOK, Missed
<1>2. CASE Leave(t, "leaving")
  BY <1>1, <1>2, LeaveType
<1>3. CASE /\ deadline' = [deadline EXCEPT ![t] = expiresAt(t, jar)]
           /\ shown' = [shown EXCEPT ![t] = secondsRemaining(t, jar)]
           /\ due' = due \ {t}
           /\ UNCHANGED tab
  BY <1>1, <1>3, ExpiresType DEF TypeOK, secondsRemaining
<1> QED
  BY <1>2, <1>3 DEF checkExpiry

LEMMA EndedType ==
  ASSUME TypeOK
  PROVE  /\ Ended \in [Tabs -> Request \cup {None}]
         /\ \A t \in Tabs : \/ Ended[t] = request[t]
                            \/ /\ request[t] # None
                               /\ request[t].of \in {"claimant", "nobody"}
                               /\ Ended[t] = [request[t] EXCEPT !.of = "ended"]
         /\ \A t \in Tabs : request[t] # None /\ request[t].of \in {"claimant", "nobody"} =>
              Ended[t] = [request[t] EXCEPT !.of = "ended"]
<1>1. ASSUME NEW t \in Tabs, request[t] # None, request[t].of \in {"claimant", "nobody"}
      PROVE  [request[t] EXCEPT !.of = "ended"] \in Request
  BY <1>1 DEF TypeOK, Request
<1>2. ASSUME NEW t \in Tabs
      PROVE  Ended[t] = IF request[t] # None /\ request[t].of \in {"claimant", "nobody"}
                        THEN [request[t] EXCEPT !.of = "ended"] ELSE request[t]
  BY DEF Ended
<1>3. \A t \in Tabs : Ended[t] \in Request \cup {None}
  BY <1>1, <1>2 DEF TypeOK
<1>4. Ended \in [Tabs -> Request \cup {None}]
  BY <1>3 DEF Ended
<1> QED
  BY <1>2, <1>4

LEMMA BeginType ==
  ASSUME TypeOK, NEW t \in Tabs, NEW kind \in {"whoami", "save"}, Begin(t, kind)
  PROVE  /\ session' \in [who : {"claimant", "nobody", "none"}, kept : Seconds,
                          left : -1 .. COOKIE_AGE, logout_url : BOOLEAN]
         /\ request' \in [Tabs -> Request \cup {None}]
         /\ due' \subseteq Tabs
<1> DEFINE of == IF SessionIsOver THEN "expired" ELSE session.who
           new == [kind |-> kind, age |-> 0, of |-> of, logout_url |-> session.logout_url,
                   answer |-> "none", seconds |-> 0]
<1>1. new \in Request
  <2>1. of \in {"claimant", "nobody", "none", "expired", "ended"} /\ session.logout_url \in BOOLEAN
    BY DEF TypeOK
  <2> HIDE DEF of
  <2> QED
    BY <2>1, Numbers DEF Request, Seconds
<1>2. \E old \in [Tabs -> Request \cup {None}] : request' = [old EXCEPT ![t] = new]
  <2>1. request' = [IF SessionIsOver THEN Ended ELSE request EXCEPT ![t] = new]
    BY DEF Begin
  <2>2. Ended \in [Tabs -> Request \cup {None}]
    BY EndedType
  <2>3. request \in [Tabs -> Request \cup {None}]
    BY DEF TypeOK
  <2> HIDE DEF new
  <2>4. CASE SessionIsOver
    BY <2>1, <2>2, <2>4
  <2>5. CASE ~ SessionIsOver
    BY <2>1, <2>3, <2>5
  <2> QED
    BY <2>4, <2>5
<1> HIDE DEF new
<1>3. request' \in [Tabs -> Request \cup {None}]
  BY <1>1, <1>2
<1>4. session' \in [who : {"claimant", "nobody", "none"}, kept : Seconds,
                    left : -1 .. COOKIE_AGE, logout_url : BOOLEAN]
  BY GoneType DEF Begin, TypeOK
<1>5. due' \subseteq Tabs
  BY DEF Begin, TypeOK
<1> QED
  BY <1>3, <1>4, <1>5

LEMMA AnswerType ==
  ASSUME TypeOK, NEW t \in Tabs, Answer(t)
  PROVE  TypeOK'
<1>1. request[t] \in Request /\ request[t] # None
  BY DEF Answer, TypeOK
<1>2. secondsLeft(t) \in Seconds
  BY <1>1, Numbers DEF secondsLeft, Request, Seconds
<1>3. session' \in [who : {"claimant", "nobody", "none"}, kept : Seconds,
                    left : -1 .. COOKIE_AGE, logout_url : BOOLEAN]
  <2>1. ASSUME NEW who \in {"claimant", "nobody"}, Store(t, who)
        PROVE  session' \in [who : {"claimant", "nobody", "none"}, kept : Seconds,
                             left : -1 .. COOKIE_AGE, logout_url : BOOLEAN]
    <3>1. COOKIE_AGE \in Seconds /\ secondsLeft(t) \in -1 .. COOKIE_AGE
      BY <1>2, Numbers DEF Seconds
    <3>2. (who = "claimant" /\ request[t].logout_url) \in BOOLEAN
      OBVIOUS
    <3> QED
      BY <2>1, <3>1, <3>2 DEF Store
  <2>2. CASE UNCHANGED session
    BY <2>2 DEF TypeOK
  <2> QED
    BY <2>1, <2>2 DEF Answer
<1>4. request' \in [Tabs -> Request \cup {None}]
  <2>1. PICK status \in {"ok", "401", "400"}, seconds \in {secondsLeft(t), 0} :
          request' = [request EXCEPT
             ![t].answer = status, ![t].seconds = seconds,
             ![t].of = IF request[t].of = "none" THEN "nobody" ELSE request[t].of]
    BY DEF Answer
  <2>2. seconds \in Seconds
    BY <1>2, Numbers DEF Seconds
  <2> DEFINE of == IF request[t].of = "none" THEN "nobody" ELSE request[t].of
  <2>3. of \in {"claimant", "nobody", "none", "expired", "ended"}
    BY <1>1 DEF Request
  <2> HIDE DEF of
  <2>4. [request[t] EXCEPT !.answer = status, !.seconds = seconds, !.of = of] \in Request
    BY <1>1, <2>2, <2>3 DEF Request
  <2>5. request' = [request EXCEPT ![t] =
          [request[t] EXCEPT !.answer = status, !.seconds = seconds, !.of = of]]
    BY <2>1 DEF of, TypeOK
  <2> QED
    BY <2>4, <2>5 DEF TypeOK
<1> QED
  BY <1>3, <1>4 DEF Answer, TypeOK

LEMMA SetCookieType ==
  ASSUME TypeOK, NEW t \in Tabs, request[t] # None
  PROVE  SetCookie(t) \in Cookie \cup {None}
BY DEF SetCookie, TypeOK, Cookie, Request

LEMMA ArriveType ==
  ASSUME TypeOK, NEW t \in Tabs, Arrive(t)
  PROVE  TypeOK'
<1>1. request' \in [Tabs -> Request \cup {None}] /\ UNCHANGED session
  BY DEF Arrive, TypeOK
<1>2. SetCookie(t) \in Cookie \cup {None}
  BY SetCookieType DEF Arrive
<1>3. Missed \in [Tabs -> {"latest", "missed", "other"}]
  BY DEF Missed, TypeOK
<1>4. CASE cookie' \in {cookie, SetCookie(t)} /\ counts' \in {Missed, counts}
           /\ UNCHANGED <<tab, deadline, shown, due>>
  BY <1>1, <1>2, <1>3, <1>4 DEF TypeOK
<1>5. CASE checkExpiry(t, SetCookie(t))
  BY <1>1, <1>2, <1>5, CheckType DEF TypeOK
<1>6. CASE Leave(t, "away") /\ cookie' = None /\ counts' = Missed
  BY <1>1, <1>3, <1>6, LeaveType DEF TypeOK
<1> QED
  BY <1>4, <1>5, <1>6 DEF Arrive

LEMMA TickType ==
  ASSUME TypeOK, Tick
  PROVE  TypeOK'
<1> DEFINE drops == session.kept = 0
<1>1. session' \in [who : {"claimant", "nobody", "none"}, kept : Seconds,
                    left : -1 .. COOKIE_AGE, logout_url : BOOLEAN]
  <2>1. CASE drops
    BY <2>1, GoneType DEF Tick
  <2>2. CASE ~ drops
    <3> DEFINE left == IF session.left < 0 THEN session.left ELSE session.left - 1
    <3>1. left \in -1 .. COOKIE_AGE /\ session.kept - 1 \in Seconds
      BY <2>2, Numbers DEF TypeOK, Seconds
    <3>2. session' = [session EXCEPT !.left = left, !.kept = @ - 1]
      BY <2>2 DEF Tick
    <3> HIDE DEF left
    <3> QED
      BY <3>1, <3>2 DEF TypeOK
  <2> QED
    BY <2>1, <2>2
<1>2. request' \in [Tabs -> Request \cup {None}]
  <2>1. ASSUME NEW t \in Tabs, request[t] # None
        PROVE  /\ [request[t] EXCEPT !.age = @ + 1] \in Request
               /\ [[request[t] EXCEPT !.age = @ + 1] EXCEPT !.of = "ended"] \in Request
    <3>1. request[t] \in Request /\ request[t].age < Lag /\ request[t].age \in 0 .. Lag
      BY <2>1 DEF Tick, TypeOK, Request
    <3>2. request[t].age + 1 \in 0 .. Lag
      BY <3>1, Numbers
    <3> QED
      BY <3>1, <3>2 DEF Request
  <2>2. ASSUME NEW t \in Tabs
        PROVE  request'[t] \in {None} \cup
                 (IF request[t] = None THEN {} ELSE
                  {[request[t] EXCEPT !.age = @ + 1],
                   [[request[t] EXCEPT !.age = @ + 1] EXCEPT !.of = "ended"]})
    BY DEF Tick
  <2>3. \A t \in Tabs : request'[t] \in Request \cup {None}
    BY <2>1, <2>2
  <2> QED
    BY <2>3 DEF Tick
<1>3. deadline' \in [Tabs -> Seconds \cup {None}]
  <2>1. ASSUME NEW t \in Tabs
        PROVE  Less(deadline[t]) \in Seconds \cup {None}
    BY Numbers DEF Less, TypeOK, Seconds
  <2> QED
    BY <2>1 DEF Tick
<1>4. cookie' \in Cookie \cup {None}
  <2>1. CASE cookie # None
    <3> DEFINE stale == cookie.stale \/ \A t \in Tabs : ~IsOpen(t)
    <3>1. cookie' = [cookie EXCEPT !.stale = stale]
      BY <2>1 DEF Tick
    <3>2. stale \in BOOLEAN
      OBVIOUS
    <3> HIDE DEF stale
    <3> QED
      BY <2>1, <3>1, <3>2 DEF TypeOK, Cookie
  <2> QED
    BY <2>1 DEF Tick
<1> QED
  BY <1>1, <1>2, <1>3, <1>4 DEF Tick, TypeOK

LEMMA RestType ==
  ASSUME TypeOK, NEW t \in Tabs,
         \/ OpenTab(t) \/ CloseTab(t) \/ Save(t) \/ StayLoggedIn(t) \/ LogOut(t)
         \/ ServeLogout(t) \/ ReturnFromIdp(t) \/ Interval(t)
  PROVE  TypeOK'
<1>1. cookie # None => [cookie EXCEPT !.stale = TRUE] \in Cookie
  BY DEF TypeOK, Cookie
<1>3. CASE OpenTab(t)
  BY <1>3, BeginType DEF OpenTab, TypeOK
<1>4. CASE CloseTab(t) \/ LogOut(t)
  BY <1>4, LeaveType DEF CloseTab, LogOut, TypeOK
<1>5. CASE Save(t) \/ StayLoggedIn(t)
  BY <1>5, BeginType DEF Save, StayLoggedIn, TypeOK
<1>6. CASE ServeLogout(t)
  <2>1. COOKIE_AGE \in Seconds
    BY Numbers DEF Seconds
  <2>2. Ended \in [Tabs -> Request \cup {None}]
    BY EndedType
  <2>3. CASE session.logout_url
    <3>1. session' \in [who : {"claimant", "nobody", "none"}, kept : Seconds,
                        left : -1 .. COOKIE_AGE, logout_url : BOOLEAN]
      BY <1>6, <2>1, <2>3 DEF ServeLogout, TypeOK
    <3> QED
      BY <1>6, <2>3, <3>1 DEF ServeLogout, TypeOK
  <2>4. CASE ~ session.logout_url
    BY <1>1, <1>6, <2>2, <2>4, GoneType, ZenonT(30) DEF ServeLogout, TypeOK
  <2> QED
    BY <2>3, <2>4
<1>7. CASE ReturnFromIdp(t)
  BY <1>7 DEF ReturnFromIdp, TypeOK
<1>8. CASE Interval(t)
  <2>1. cookie \in Cookie \cup {None}
    BY DEF TypeOK
  <2> QED
    BY <1>8, <2>1, CheckType DEF Interval, TypeOK
<1> QED
  BY <1>3, <1>4, <1>5, <1>6, <1>7, <1>8

LEMMA NextType == TypeOK /\ [Next]_vars => TypeOK'
<1> SUFFICES ASSUME TypeOK, [Next]_vars PROVE TypeOK'
  OBVIOUS
<1>1. CASE UNCHANGED vars
  BY <1>1 DEF vars, TypeOK
<1>2. CASE LogIn
  <2>1. COOKIE_AGE \in -1 .. COOKIE_AGE /\ COOKIE_AGE \in Seconds
    BY Numbers DEF Seconds
  <2>2. cookie # None => [cookie EXCEPT !.stale = TRUE] \in Cookie
    BY DEF TypeOK, Cookie
  <2> QED
    BY <1>2, <2>1, <2>2 DEF LogIn, TypeOK
<1> QED
  BY <1>1, <1>2, TickType, RestType, AnswerType, ArriveType DEF Next

(* The session, the cookie, the countdowns and the requests are always what    *)
(* they are declared to be: no countdown below zero or above a whole session,  *)
(* no answer older than its bound.                                             *)
THEOREM TypeCorrect == Spec => []TypeOK
<1>1. Init => TypeOK
  BY InitType
<1>2. TypeOK /\ [Next]_vars => TypeOK'
  BY NextType
<1> QED
  BY <1>1, <1>2, PTL DEF Spec

-----------------------------------------------------------------------------
(* What a step does, in the parts the invariants need *)

\* The request of a tab stays what it is, n seconds older; or it loses the
\* session it has loaded.
Goes(t, n, ends) ==
  /\ request'[t] = None <=> request[t] = None
  /\ request[t] # None =>
       /\ request'[t].kind = request[t].kind
       /\ request'[t].age = request[t].age + n
       /\ request'[t].answer = request[t].answer
       /\ request'[t].seconds = request[t].seconds
       /\ request'[t].of = IF ends /\ request[t].of \in {"claimant", "nobody"}
                           THEN "ended" ELSE request[t].of

LEMMA Ranges ==
  ASSUME TypeOK
  PROVE  /\ session.left \in Int /\ session.left =< COOKIE_AGE
         /\ session.kept \in Int /\ 0 =< session.kept /\ session.kept =< COOKIE_AGE
         /\ cookie # None => cookie.seconds \in Int /\ cookie.seconds =< COOKIE_AGE
         /\ \A t \in Tabs : deadline[t] # None => deadline[t] \in Int /\ 0 =< deadline[t]
         /\ \A t \in Tabs : request[t] # None =>
              /\ request[t] \in Request
              /\ request[t].age \in Int /\ 0 =< request[t].age /\ request[t].age =< Lag
              /\ request[t].seconds \in Int /\ request[t].seconds =< COOKIE_AGE
<1>1. session.left \in -1 .. COOKIE_AGE /\ session.kept \in Seconds
  BY DEF TypeOK
<1>2. cookie # None => cookie.seconds \in Seconds
  BY DEF TypeOK, Cookie
<1>3. ASSUME NEW t \in Tabs, request[t] # None
      PROVE  request[t] \in Request /\ request[t].age \in 0 .. Lag /\ request[t].seconds \in Seconds
  BY <1>3 DEF TypeOK, Request
<1>4. ASSUME NEW t \in Tabs, deadline[t] # None
      PROVE  deadline[t] \in Seconds
  BY <1>4 DEF TypeOK
<1> QED
  BY <1>1, <1>2, <1>3, <1>4, Numbers DEF Seconds

LEMMA EndedStep ==
  ASSUME TypeOK, NEW t \in Tabs, request'[t] = Ended[t]
  PROVE  Goes(t, 0, TRUE)
<1>1. Ended[t] = IF request[t] # None /\ request[t].of \in {"claimant", "nobody"}
                 THEN [request[t] EXCEPT !.of = "ended"] ELSE request[t]
  BY DEF Ended
<1>2. request[t] # None => request[t] \in Request /\ request[t].age + 0 = request[t].age
  BY Ranges
<1>3. request[t] # None => [request[t] EXCEPT !.of = "ended"] \in Request
  BY <1>2 DEF Request
<1> QED
  BY <1>1, <1>2, <1>3, Numbers DEF Goes, Request

LEMMA BeginStep ==
  ASSUME TypeOK, NEW t \in Tabs, NEW kind \in {"whoami", "save"}, Begin(t, kind)
  PROVE  /\ request[t] = None /\ request'[t] # None
         /\ request'[t].kind = kind /\ request'[t].age = 0 /\ request'[t].answer = "none"
         /\ request'[t].of = IF SessionIsOver THEN "expired" ELSE session.who
         /\ SessionIsOver => session' = Gone
         /\ ~ SessionIsOver => session' = session
         /\ \A u \in Tabs \ {t} : Goes(u, 0, SessionIsOver)
<1> DEFINE new == [kind |-> kind, age |-> 0,
                   of |-> IF SessionIsOver THEN "expired" ELSE session.who,
                   logout_url |-> session.logout_url, answer |-> "none", seconds |-> 0]
<1>1. request' = [IF SessionIsOver THEN Ended ELSE request EXCEPT ![t] = new]
  BY DEF Begin
<1>2. new.kind = kind /\ new.age = 0 /\ new.answer = "none"
      /\ new.of = IF SessionIsOver THEN "expired" ELSE session.who
  OBVIOUS
<1>3. Ended \in [Tabs -> Request \cup {None}] /\ request \in [Tabs -> Request \cup {None}]
  BY EndedType DEF TypeOK
<1> HIDE DEF new
<1>4. request'[t] = new
  <2>1. CASE SessionIsOver
    BY <1>1, <1>3, <2>1
  <2>2. CASE ~ SessionIsOver
    BY <1>1, <1>3, <2>2
  <2> QED
    BY <2>1, <2>2
<1>5. ASSUME NEW u \in Tabs \ {t}
      PROVE  Goes(u, 0, SessionIsOver)
  <2>1. CASE SessionIsOver
    <3>1. request'[u] = Ended[u]
      BY <1>1, <1>3, <2>1
    <3> QED
      BY <2>1, <3>1, EndedStep DEF Goes
  <2>2. CASE ~ SessionIsOver
    <3>1. request'[u] = request[u]
      BY <1>1, <1>3, <2>2
    <3>2. request[u] # None => request[u].age + 0 = request[u].age
      BY Ranges
    <3> QED
      BY <2>2, <3>1, <3>2 DEF Goes
  <2> QED
    BY <2>1, <2>2
<1>6. request'[t] # None
  <2>1. session.logout_url \in BOOLEAN
        /\ (IF SessionIsOver THEN "expired" ELSE session.who)
             \in {"claimant", "nobody", "none", "expired", "ended"}
    BY DEF TypeOK
  <2>2. new \in Request
    BY <2>1, Numbers DEF new, Request, Seconds
  <2> QED
    BY <1>4, <2>2, Numbers
<1> QED
  BY <1>2, <1>4, <1>5, <1>6 DEF Begin

LEMMA TickStep ==
  ASSUME TypeOK, Tick
  PROVE  /\ session.kept = 0 => session' = Gone
         /\ session.kept # 0 =>
              /\ session'.who = session.who
              /\ session'.kept = session.kept - 1
              /\ session'.left = IF session.left < 0 THEN session.left ELSE session.left - 1
         /\ \A t \in Tabs : Goes(t, 1, session.kept = 0)
         /\ \A t \in Tabs : request[t] # None => request[t].age < Lag
         /\ \A t \in Tabs : deadline'[t] = Less(deadline[t])
         /\ cookie' # None =>
              /\ cookie # None /\ cookie'.seconds = cookie.seconds
              /\ ~ cookie'.stale => ~ cookie.stale /\ \E t \in Tabs : IsOpen(t)
         /\ cookie # None => cookie' # None
         /\ due = {} /\ due' = {t \in Tabs : IsOpen(t)} /\ UNCHANGED <<tab, counts>>
<1>1. session.kept # 0 =>
        /\ session'.who = session.who
        /\ session'.kept = session.kept - 1
        /\ session'.left = IF session.left < 0 THEN session.left ELSE session.left - 1
  <2> DEFINE left == IF session.left < 0 THEN session.left ELSE session.left - 1
             kept == session.kept - 1
  <2>1. session.kept # 0 => session' = [session EXCEPT !.left = left, !.kept = kept]
    BY DEF Tick
  <2> HIDE DEF left, kept
  <2>2. session.kept # 0 => session'.who = session.who /\ session'.kept = kept /\ session'.left = left
    BY <2>1 DEF TypeOK
  <2> QED
    BY <2>2 DEF left, kept
<1>2. ASSUME NEW t \in Tabs
      PROVE  Goes(t, 1, session.kept = 0)
  <2>1. CASE request[t] = None
    BY <2>1 DEF Tick, Goes
  <2>2. CASE request[t] # None
    <3> DEFINE n == request[t].age + 1
               ends == session.kept = 0 /\ request[t].of \in {"claimant", "nobody"}
               aged == [request[t] EXCEPT !.age = n]
    <3>1. request[t] \in Request /\ n \in 0 .. Lag
      <4>1. request[t] \in Request /\ request[t].age \in Int /\ 0 =< request[t].age
        BY <2>2, Ranges
      <4>2. request[t].age < Lag
        BY <2>2 DEF Tick
      <4> QED
        BY <4>1, <4>2, Numbers
    <3>2. Ended[t] # request[t] <=> request[t].of \in {"claimant", "nobody"}
      <4>1. Ended[t] = IF request[t].of \in {"claimant", "nobody"}
                       THEN [request[t] EXCEPT !.of = "ended"] ELSE request[t]
        BY <2>2 DEF Ended
      <4>2. [request[t] EXCEPT !.of = "ended"].of = "ended"
        BY <3>1 DEF Request
      <4> QED
        BY <4>1, <4>2
    <3>3. request'[t] = IF ends THEN [aged EXCEPT !.of = "ended"] ELSE aged
      BY <2>2, <3>2 DEF Tick
    <3> HIDE DEF n
    <3>4. aged \in Request /\ [aged EXCEPT !.of = "ended"] \in Request
      BY <3>1 DEF Request
    <3>5. /\ request'[t] # None
          /\ request'[t].kind = request[t].kind
          /\ request'[t].age = n
          /\ request'[t].answer = request[t].answer
          /\ request'[t].seconds = request[t].seconds
          /\ request'[t].of = IF ends THEN "ended" ELSE request[t].of
      BY <3>1, <3>3, <3>4, Numbers DEF Request
    <3> QED
      BY <2>2, <3>5 DEF Goes, n
  <2> QED
    BY <2>1, <2>2
<1>3. /\ cookie' # None =>
           /\ cookie # None /\ cookie'.seconds = cookie.seconds
           /\ ~ cookie'.stale => ~ cookie.stale /\ \E t \in Tabs : IsOpen(t)
      /\ cookie # None => cookie' # None
  <2>1. CASE cookie = None
    BY <2>1 DEF Tick
  <2>2. CASE cookie # None
    <3> DEFINE stale == cookie.stale \/ \A t \in Tabs : ~IsOpen(t)
    <3>1. cookie' = [cookie EXCEPT !.stale = stale]
      BY <2>2 DEF Tick
    <3>2. stale \in BOOLEAN
      OBVIOUS
    <3>4. ~ stale => ~ cookie.stale /\ \E t \in Tabs : IsOpen(t)
      OBVIOUS
    <3> HIDE DEF stale
    <3>3. cookie' \in Cookie /\ cookie'.seconds = cookie.seconds /\ cookie'.stale = stale
      BY <2>2, <3>1, <3>2 DEF TypeOK, Cookie
    <3> QED
      BY <2>2, <3>3, <3>4, Numbers
  <2> QED
    BY <2>1, <2>2
<1>4. ASSUME NEW t \in Tabs
      PROVE  /\ deadline'[t] = Less(deadline[t])
             /\ request[t] # None => request[t].age < Lag
  BY DEF Tick
<1> QED
  BY <1>1, <1>2, <1>3, <1>4 DEF Tick

LEMMA AnswerStep ==
  ASSUME TypeOK, NEW t \in Tabs, Answer(t)
  PROVE  /\ request[t] # None /\ request[t].answer = "none"
         /\ request'[t] # None
         /\ request'[t].kind = request[t].kind /\ request'[t].age = request[t].age
         /\ request[t].of \in {"claimant", "nobody", "none", "expired", "ended"}
         /\ request[t].of \in {"claimant", "nobody", "none"} =>
              /\ session'.who \in {"claimant", "nobody"}
              /\ session'.left = COOKIE_AGE - request[t].age
              /\ session'.kept = COOKIE_AGE
              /\ request'[t].of \in {"claimant", "nobody"}
              /\ request'[t].answer \in {"ok", "401"}
              /\ request'[t].seconds = COOKIE_AGE - request[t].age
         /\ request[t].of \in {"expired", "ended"} =>
              /\ session' = session
              /\ request'[t].of = request[t].of
              /\ request'[t].answer = IF request[t].of = "expired" THEN "401" ELSE "400"
         /\ \A u \in Tabs \ {t} : Goes(u, 0, FALSE)
         /\ UNCHANGED <<cookie, tab, deadline, shown, due, counts>>
<1>1. /\ request[t] # None /\ request[t].answer = "none" /\ request[t] \in Request
      /\ request[t].of \in {"claimant", "nobody", "none", "expired", "ended"}
      /\ request[t].age \in Int
  BY Ranges DEF Answer, Request
<1>2. PICK status, seconds :
        /\ request' = [request EXCEPT
             ![t].answer = status, ![t].seconds = seconds,
             ![t].of = IF request[t].of = "none" THEN "nobody" ELSE request[t].of]
        /\ request[t].of \in {"claimant", "nobody", "none"} =>
             /\ status \in {"ok", "401"} /\ seconds = secondsLeft(t)
             /\ \E who \in {"claimant", "nobody"} : Store(t, who)
        /\ request[t].of \in {"expired", "ended"} =>
             /\ status = IF request[t].of = "expired" THEN "401" ELSE "400"
             /\ seconds = 0 /\ UNCHANGED session
  <2> DEFINE left == secondsLeft(t)
             Reply(status, seconds) ==
               request' = [request EXCEPT
                 ![t].answer = status, ![t].seconds = seconds,
                 ![t].of = IF request[t].of = "none" THEN "nobody" ELSE request[t].of]
  <2>1. \/ request[t].of = "claimant" /\ Store(t, "claimant") /\ Reply("ok", left)
        \/ request[t].of \in {"nobody", "none"} /\ Store(t, "nobody") /\ Reply("401", left)
        \/ request[t].of = "expired" /\ Reply("401", 0) /\ UNCHANGED session
        \/ request[t].of = "ended" /\ Reply("400", 0) /\ UNCHANGED session
    BY DEF Answer
  <2> HIDE DEF left, Reply
  <2>2. \E status, seconds :
        /\ Reply(status, seconds)
        /\ request[t].of \in {"claimant", "nobody", "none"} =>
             /\ status \in {"ok", "401"} /\ seconds = left
             /\ \E who \in {"claimant", "nobody"} : Store(t, who)
        /\ request[t].of \in {"expired", "ended"} =>
             /\ status = IF request[t].of = "expired" THEN "401" ELSE "400"
             /\ seconds = 0 /\ UNCHANGED session
    BY <2>1
  <2> QED
    BY <2>2 DEF left, Reply
<1> DEFINE of == IF request[t].of = "none" THEN "nobody" ELSE request[t].of
           new == [request[t] EXCEPT !.answer = status, !.seconds = seconds, !.of = of]
<1>3. request' = [request EXCEPT ![t] = new] /\ request'[t] = new
  BY <1>2 DEF TypeOK
<1>4. /\ new.kind = request[t].kind /\ new.age = request[t].age
      /\ new.answer = status /\ new.seconds = seconds /\ new.of = of
  <2> HIDE DEF of
  <2> QED
    BY <1>1 DEF Request
<1>5. request'[t] # None
  <2>1. request' \in [Tabs -> Request \cup {None}]
    BY AnswerType DEF TypeOK
  <2>2. status # "none"
    BY <1>1, <1>2
  <2>3. CASE new = None
    <3>1. request' = [request EXCEPT ![t] = None]
      BY <1>3, <2>3
    <3>2. seconds \in Seconds /\ status \in {"ok", "401", "400"}
          /\ of \in {"claimant", "nobody", "none", "expired", "ended"}
      <4>1. seconds \in {secondsLeft(t), 0} /\ status \in {"ok", "401", "400"}
        BY <1>1, <1>2
      <4>2. secondsLeft(t) \in Seconds
        BY <1>1, Numbers DEF secondsLeft, Seconds, Request
      <4> QED
        BY <1>1, <4>1, <4>2, Numbers DEF Seconds
    <3>3. new \in Request
      <4> HIDE DEF of
      <4> QED
        BY <1>1, <3>2 DEF Request
    <3> QED
      BY <2>3, <3>3, Numbers
  <2> QED
    BY <1>3, <2>3
<1>6. ASSUME NEW u \in Tabs \ {t}
      PROVE  Goes(u, 0, FALSE)
  <2>1. request'[u] = request[u]
    BY <1>3 DEF TypeOK
  <2>2. request[u] # None => request[u].age + 0 = request[u].age
    BY Ranges
  <2> QED
    BY <2>1, <2>2 DEF Goes
<1> HIDE DEF new
<1>7. ASSUME request[t].of \in {"claimant", "nobody", "none"}
      PROVE  /\ session'.who \in {"claimant", "nobody"}
             /\ session'.left = COOKIE_AGE - request[t].age
             /\ session'.kept = COOKIE_AGE
             /\ seconds = COOKIE_AGE - request[t].age
  <2>1. PICK who \in {"claimant", "nobody"} : Store(t, who)
    BY <1>2, <1>7
  <2> QED
    BY <1>2, <1>7, <2>1 DEF Store, secondsLeft
<1> QED
  BY <1>1, <1>2, <1>3, <1>4, <1>5, <1>6, <1>7 DEF Answer

\* A tab that the step does not touch.
Rests(t) ==
  /\ tab'[t] = tab[t] /\ deadline'[t] = deadline[t]
  /\ t \in due' <=> t \in due

LEMMA LeaveStep ==
  ASSUME TypeOK, NEW t \in Tabs, NEW to, Leave(t, to)
  PROVE  /\ tab'[t] = to /\ deadline'[t] = None
         /\ \A u \in Tabs \ {t} : Rests(u)
BY DEF TypeOK, Leave, Rests

\* A cookie has enough left for the countdown to start at it.
Long(jar) == jar # None => COOKIE_AGE - Lag =< jar.seconds

LEMMA CheckStep ==
  ASSUME TypeOK, NEW t \in Tabs, NEW jar \in Cookie \cup {None}, Long(jar),
         checkExpiry(t, jar)
  PROVE  /\ cookie' = None
         /\ \A u \in Tabs \ {t} :
              /\ Rests(u)
              /\ counts'[u] \in {counts[u], "missed"}
              /\ counts'[u] # "other" => counts[u] # "other"
              /\ counts'[u] = "latest" => jar = None /\ counts[u] = "latest"
         /\ \/ tab'[t] = "leaving" /\ deadline'[t] = None
            \/ /\ tab'[t] = tab[t] /\ deadline'[t] # 0
               /\ jar = None => deadline'[t] = deadline[t] /\ counts'[t] = counts[t]
               /\ jar # None =>
                    /\ deadline'[t] = jar.seconds - TIMEOUT_BUFFER
                    /\ counts'[t] = IF jar.stale THEN "other" ELSE "latest"
<1>1. cookie' = None
  BY DEF checkExpiry
<1>2. ASSUME NEW u \in Tabs \ {t}
      PROVE  /\ counts'[u] \in {counts[u], "missed"}
             /\ counts'[u] # "other" => counts[u] # "other"
             /\ counts'[u] = "latest" => jar = None /\ counts[u] = "latest"
  <2>1. CASE jar = None
    BY <2>1 DEF checkExpiry
  <2>2. CASE jar # None
    <3>1. counts'[u] = Missed[u]
      BY <2>2 DEF checkExpiry, Missed, TypeOK
    <3>2. Missed[u] = IF counts[u] = "latest" THEN "missed" ELSE counts[u]
      BY DEF Missed
    <3> QED
      BY <2>2, <3>1, <3>2
  <2> QED
    BY <2>1, <2>2
<1>3. CASE Leave(t, "leaving")
  BY <1>1, <1>2, <1>3, LeaveStep
<1>4. CASE /\ secondsRemaining(t, jar) # 0
           /\ deadline' = [deadline EXCEPT ![t] = expiresAt(t, jar)]
           /\ due' = due \ {t}
           /\ UNCHANGED tab
  <2>1. \A u \in Tabs \ {t} : Rests(u)
    BY <1>4 DEF TypeOK, Rests
  <2>2. deadline'[t] = expiresAt(t, jar) /\ deadline'[t] # 0 /\ tab'[t] = tab[t]
    BY <1>4 DEF TypeOK, secondsRemaining
  <2>3. CASE jar = None
    BY <1>1, <1>2, <2>1, <2>2, <2>3 DEF expiresAt, getSecondsLeft, checkExpiry
  <2>4. CASE jar # None
    <3> DEFINE left == jar.seconds - TIMEOUT_BUFFER
    <3>1. left \in Int /\ left > 0
      BY <2>4, Numbers DEF Long, Cookie, Seconds
    <3>2. getSecondsLeft(jar) = left
      BY <2>4 DEF getSecondsLeft
    <3>3. left \notin {None, 0} /\ ~ (left < 0)
      BY <3>1, Numbers
    <3> HIDE DEF left
    <3>4. expiresAt(t, jar) = left
      BY <3>2, <3>3 DEF expiresAt
    <3>5. counts'[t] = IF jar.stale THEN "other" ELSE "latest"
      <4>1. counts' = [Missed EXCEPT ![t] = IF jar.stale THEN "other" ELSE "latest"]
        BY <2>4 DEF checkExpiry
      <4> QED
        BY <4>1 DEF Missed
    <3> QED
      BY <1>1, <1>2, <2>1, <2>2, <2>4, <3>4, <3>5 DEF left
  <2> QED
    BY <2>3, <2>4
<1> QED
  BY <1>3, <1>4 DEF checkExpiry

-----------------------------------------------------------------------------
(* The kinds of steps                                                          *)

RestsOrCloses(t) ==
  \/ Rests(t)
  \/ tab'[t] # "open" /\ deadline'[t] = None

\* Tabs close, go to login.gov and back, or nothing happens.
Quiet ==
  /\ session'.who = session.who /\ session'.left = session.left
  /\ session.kept =< session'.kept
  /\ UNCHANGED <<cookie, request, counts>>
  /\ \A t \in Tabs : RestsOrCloses(t)

\* A session begins or ends: nothing that is about counts for it.
Anew ==
  /\ session'.left =< session'.kept
  /\ \A t \in Tabs : Goes(t, 0, TRUE) /\ counts'[t] = "other" /\ RestsOrCloses(t)
  /\ cookie' # None =>
       /\ cookie # None
       /\ cookie'.seconds = cookie.seconds /\ cookie'.stale

Begun(t, kind) ==
  /\ Begin(t, kind)
  /\ UNCHANGED <<cookie, deadline, counts>>
  /\ tab'[t] = "open"
  /\ \A u \in Tabs \ {t} : Rests(u)
  /\ kind = "save" => Rests(t)
  /\ kind = "whoami" => t \notin due'

LEMMA Stale ==
  ASSUME TypeOK, cookie' = IF cookie = None THEN None ELSE [cookie EXCEPT !.stale = TRUE]
  PROVE  cookie' # None =>
           /\ cookie # None
           /\ cookie'.seconds = cookie.seconds /\ cookie'.stale
BY DEF TypeOK, Cookie

LEMMA QuietSteps ==
  ASSUME TypeOK, TabInv, NEW t \in Tabs,
         \/ CloseTab(t) \/ LogOut(t) \/ ReturnFromIdp(t)
         \/ ServeLogout(t) /\ session.logout_url
  PROVE  Quiet
<1>1. session.kept \in Int /\ session.kept =< session.kept /\ session.kept =< COOKIE_AGE
  BY Ranges
<1>2. CASE CloseTab(t) \/ LogOut(t)
  <2>1. PICK to \in {"away", "leaving"} : Leave(t, to)
    BY <1>2 DEF CloseTab, LogOut
  <2>2. \A u \in Tabs : RestsOrCloses(u)
    BY <2>1, LeaveStep DEF RestsOrCloses
  <2> QED
    BY <1>1, <1>2, <2>2 DEF CloseTab, LogOut, Quiet
<1>3. CASE ReturnFromIdp(t)
  <2>1. \A u \in Tabs : RestsOrCloses(u)
    BY <1>3 DEF ReturnFromIdp, RestsOrCloses, Rests, TypeOK, TabInv, IsOpen
  <2> QED
    BY <1>1, <1>3, <2>1 DEF ReturnFromIdp, Quiet
<1>4. CASE ServeLogout(t) /\ session.logout_url
  <2>1. \A u \in Tabs : RestsOrCloses(u)
    BY <1>4 DEF ServeLogout, RestsOrCloses, Rests, TypeOK, TabInv, IsOpen
  <2>2. session'.who = session.who /\ session'.left = session.left /\ session'.kept = COOKIE_AGE
    BY <1>4 DEF ServeLogout, TypeOK
  <2> QED
    BY <1>1, <1>4, <2>1, <2>2 DEF ServeLogout, Quiet
<1> QED
  BY <1>2, <1>3, <1>4

LEMMA AnewSteps ==
  ASSUME TypeOK, TabInv,
         LogIn \/ \E t \in Tabs : ServeLogout(t) /\ ~ session.logout_url
  PROVE  Anew
<1>1. CASE LogIn
  <2>1. \A t \in Tabs : Goes(t, 0, TRUE) /\ counts'[t] = "other" /\ RestsOrCloses(t)
    BY <1>1 DEF LogIn, Idle, Goes, RestsOrCloses, Rests
  <2>2. session'.left = COOKIE_AGE /\ session'.kept = COOKIE_AGE
    BY <1>1 DEF LogIn
  <2>3. cookie' # None =>
           /\ cookie # None
           /\ cookie'.seconds = cookie.seconds /\ cookie'.stale
    BY <1>1, Stale DEF LogIn
  <2>4. session'.left =< session'.kept
    BY <2>2, Numbers
  <2> QED
    BY <2>1, <2>3, <2>4 DEF Anew
<1>2. ASSUME NEW t \in Tabs, ServeLogout(t), ~ session.logout_url
      PROVE  Anew
  <2>1. \A u \in Tabs : counts'[u] = "other" /\ RestsOrCloses(u)
    BY <1>2 DEF ServeLogout, RestsOrCloses, Rests, TypeOK, TabInv, IsOpen
  <2>2. session' = Gone /\ request' = Ended
    BY <1>2 DEF ServeLogout
  <2>3. \A u \in Tabs : Goes(u, 0, TRUE)
    BY <2>2, EndedStep
  <2>4. cookie' # None =>
           /\ cookie # None
           /\ cookie'.seconds = cookie.seconds /\ cookie'.stale
    BY <1>2, Stale DEF ServeLogout
  <2>5. session'.left =< session'.kept
    BY <2>2 DEF Gone
  <2> QED
    BY <2>1, <2>3, <2>4, <2>5 DEF Anew
<1> QED
  BY <1>1, <1>2

LEMMA BegunSteps ==
  ASSUME TypeOK, NEW t \in Tabs, OpenTab(t) \/ Save(t) \/ StayLoggedIn(t)
  PROVE  \E kind \in {"whoami", "save"} : Begun(t, kind)
<1>1. CASE OpenTab(t) \/ StayLoggedIn(t)
  <2>1. Begin(t, "whoami")
    BY <1>1 DEF OpenTab, StayLoggedIn
  <2>2. due' = due \ {t}
    BY <2>1 DEF Begin
  <2>3. Begun(t, "whoami")
    BY <1>1, <2>1, <2>2 DEF OpenTab, StayLoggedIn, IsOpen, Begun, Rests, TypeOK
  <2> QED
    BY <2>3
<1>2. CASE Save(t)
  <2>1. Begin(t, "save")
    BY <1>2 DEF Save
  <2>2. due' = due
    BY <2>1 DEF Begin
  <2>3. Begun(t, "save")
    BY <1>2, <2>1, <2>2 DEF Save, IsOpen, Begun, Rests
  <2> QED
    BY <2>3
<1> QED
  BY <1>1, <1>2

LEMMA Steps ==
  ASSUME TypeOK, TabInv, [Next]_vars
  PROVE  \/ Quiet \/ Anew \/ Tick
         \/ \E t \in Tabs :
              \/ \E kind \in {"whoami", "save"} : Begun(t, kind)
              \/ Answer(t) \/ Arrive(t) \/ Interval(t)
<1>1. CASE UNCHANGED vars
  <2>1. session.kept =< session.kept
    BY Ranges
  <2> QED
    BY <1>1, <2>1 DEF vars, Quiet, RestsOrCloses, Rests
<1>2. ASSUME NEW t \in Tabs, ServeLogout(t)
      PROVE  Quiet \/ Anew
  BY <1>2, QuietSteps, AnewSteps
<1> QED
  BY <1>1, <1>2, QuietSteps, AnewSteps, BegunSteps DEF Next

LEMMA Unmoved ==
  ASSUME TypeOK, UNCHANGED request
  PROVE  \A t \in Tabs : Goes(t, 0, FALSE)
BY Ranges DEF Goes

LEMMA ArriveStep ==
  ASSUME TypeOK, NEW t \in Tabs, Arrive(t)
  PROVE  /\ request[t] # None /\ request[t].answer # "none" /\ request'[t] = None
         /\ \A u \in Tabs \ {t} : Goes(u, 0, FALSE)
         /\ UNCHANGED session
<1>1. request' = [request EXCEPT ![t] = None]
  BY DEF Arrive
<1>2. ASSUME NEW u \in Tabs \ {t}
      PROVE  Goes(u, 0, FALSE)
  <2>1. request'[u] = request[u]
    BY <1>1 DEF TypeOK
  <2>2. request[u] # None => request[u].age + 0 = request[u].age
    BY Ranges
  <2> QED
    BY <2>1, <2>2 DEF Goes
<1> QED
  BY <1>1, <1>2 DEF Arrive, TypeOK

\* The browser has taken what the answer says of the cookie.
Takes(t) ==
  /\ cookie' = SetCookie(t)
  /\ counts' = IF cookie' = None THEN Missed ELSE counts
  /\ request[t].kind = "save"

LEMMA ArriveCases ==
  ASSUME TypeOK, NEW t \in Tabs, Arrive(t)
  PROVE  \/ Takes(t) /\ \A u \in Tabs : Rests(u)
         \/ /\ checkExpiry(t, SetCookie(t))
            /\ IsOpen(t) /\ request[t].kind = "whoami" /\ request[t].answer # "401"
         \/ Leave(t, "away") /\ cookie' = None /\ counts' = Missed
         \/ /\ ~ IsOpen(t) /\ cookie' = cookie /\ counts' = Missed
            /\ \A u \in Tabs : Rests(u)
BY DEF Arrive, Takes, Rests, isFetching

LEMMA JarStep ==
  ASSUME TypeOK, CookieInv, NEW t \in Tabs, request[t] # None, request[t].answer # "none"
  PROVE  /\ SetCookie(t) \in Cookie \cup {None} /\ Long(SetCookie(t))
         /\ SetCookie(t) = None => cookie = None \/ request[t].answer = "401"
         /\ SetCookie(t) # None /\ ~ SetCookie(t).stale =>
              \/ SetCookie(t) = cookie
              \/ Extended(t)
<1>1. SetCookie(t) \in Cookie \cup {None}
  BY SetCookieType
<1> DEFINE new == [seconds |-> request[t].seconds, stale |-> request[t].of = "ended"]
<1>2. new \in Cookie /\ new # None
  <2>1. request[t].seconds \in Seconds
    BY DEF TypeOK, Request
  <2>2. (request[t].of = "ended") \in BOOLEAN
    OBVIOUS
  <2>3. new \in Cookie
    BY <2>1, <2>2 DEF Cookie
  <2> QED
    BY <2>3, Numbers
<1>3. CASE request[t].answer = "400"
  BY <1>1, <1>3 DEF SetCookie, CookieInv, Brings, Long
<1>4. CASE request[t].answer # "400" /\ request[t].of = "expired"
  BY <1>1, <1>4 DEF SetCookie, CookieInv, Brings, Long
<1>5. CASE request[t].answer # "400" /\ request[t].of # "expired"
  <2>1. SetCookie(t) = new
    BY <1>5 DEF SetCookie
  <2>2. COOKIE_AGE - Lag =< new.seconds
    BY <1>5 DEF CookieInv, Brings
  <2>3. ~ new.stale => Extended(t)
    <3>1. request[t].of \in {"claimant", "nobody", "none", "expired", "ended"} /\ request[t].of # "none"
      BY Ranges DEF Request, CookieInv, Brings
    <3> QED
      BY <1>5, <3>1 DEF Extended
  <2> HIDE DEF new
  <2> QED
    BY <1>1, <1>2, <2>1, <2>2, <2>3 DEF Long
<1> QED
  BY <1>3, <1>4, <1>5

-----------------------------------------------------------------------------
(* The invariants are kept                                                     *)

LEMMA CacheStep ==
  ASSUME TypeOK, TabInv, CacheInv, [Next]_vars
  PROVE  CacheInv'
<1>1. CASE Quiet
  <2>1. session'.kept \in Int /\ session.kept \in Int /\ session.left \in Int
    BY NextType, Ranges DEF TypeOK, Seconds
  <2> QED
    BY <1>1, <2>1 DEF Quiet, CacheInv
<1>2. CASE Anew
  BY <1>2 DEF Anew, CacheInv
<1>3. CASE Tick
  <2>1. session.kept \in Int /\ session.left \in Int /\ 0 =< session.kept
    BY Ranges
  <2>2. CASE session.kept = 0
    BY <1>3, <2>2, TickStep DEF CacheInv, Gone
  <2>3. CASE session.kept # 0
    <3>1. /\ session'.who = session.who
          /\ session'.kept = session.kept - 1
          /\ session'.left = IF session.left < 0 THEN session.left ELSE session.left - 1
      BY <1>3, <2>3, TickStep
    <3> QED
      BY <2>1, <2>3, <3>1 DEF CacheInv
  <2> QED
    BY <2>2, <2>3
<1>4. ASSUME NEW t \in Tabs, NEW kind \in {"whoami", "save"}, Begun(t, kind)
      PROVE  CacheInv'
  BY <1>4, BeginStep DEF Begun, CacheInv, Gone
<1>5. ASSUME NEW t \in Tabs, Answer(t)
      PROVE  CacheInv'
  <2>1. request[t].age \in Int /\ 0 =< request[t].age
    BY <1>5, AnswerStep, Ranges
  <2>2. CASE request[t].of \in {"claimant", "nobody", "none"}
    <3>1. session'.left = COOKIE_AGE - request[t].age /\ session'.kept = COOKIE_AGE
      BY <1>5, <2>2, AnswerStep
    <3> QED
      BY <2>1, <3>1, Numbers DEF CacheInv
  <2>3. CASE request[t].of \in {"expired", "ended"}
    BY <1>5, <2>3, AnswerStep DEF CacheInv
  <2> QED
    BY <1>5, <2>2, <2>3, AnswerStep
<1>6. CASE UNCHANGED session
  BY <1>6 DEF CacheInv
<1> QED
  BY <1>1, <1>2, <1>3, <1>4, <1>5, <1>6, Steps DEF Arrive, Interval

LEMMA CheckTab ==
  ASSUME TypeOK, TabInv, NEW t \in Tabs, NEW jar \in Cookie \cup {None}, Long(jar),
         IsOpen(t), checkExpiry(t, jar)
  PROVE  TabInv'
<1>1. ASSUME NEW u \in Tabs, u # t
      PROVE  (deadline[u] # None => IsOpen(u) /\ deadline[u] =< COOKIE_AGE - TIMEOUT_BUFFER)'
  BY <1>1, CheckStep DEF Rests, TabInv, IsOpen
<1>2. jar # None => jar.seconds \in Int /\ jar.seconds =< COOKIE_AGE
  BY Numbers DEF Cookie, Seconds
<1>3. jar # None => jar.seconds - TIMEOUT_BUFFER =< COOKIE_AGE - TIMEOUT_BUFFER
  BY <1>2, Numbers
<1>4. (deadline[t] # None => IsOpen(t) /\ deadline[t] =< COOKIE_AGE - TIMEOUT_BUFFER)'
  BY <1>3, CheckStep DEF TabInv, IsOpen
<1> QED
  BY <1>1, <1>4 DEF TabInv

LEMMA TabStep ==
  ASSUME TypeOK, TabInv, CookieInv, [Next]_vars
  PROVE  TabInv'
<1> DEFINE In(t) == deadline[t] # None => IsOpen(t) /\ deadline[t] =< COOKIE_AGE - TIMEOUT_BUFFER
<1>1. ASSUME NEW t \in Tabs, RestsOrCloses(t)
      PROVE  In(t)'
  BY <1>1 DEF RestsOrCloses, Rests, TabInv, IsOpen
<1>2. CASE Quiet \/ Anew
  BY <1>1, <1>2 DEF Quiet, Anew, TabInv
<1>3. CASE Tick
  <2>1. ASSUME NEW t \in Tabs
        PROVE  In(t)'
    <3>1. deadline[t] # None => deadline[t] \in Int /\ 0 =< deadline[t]
      BY Ranges
    <3>2. deadline'[t] = Less(deadline[t]) /\ tab'[t] = tab[t]
      BY <1>3, TickStep
    <3> QED
      BY <3>1, <3>2, Numbers DEF Less, TabInv, IsOpen
  <2> QED
    BY <2>1 DEF TabInv
<1>4. ASSUME NEW t \in Tabs, NEW kind \in {"whoami", "save"}, Begun(t, kind)
      PROVE  TabInv'
  BY <1>4 DEF Begun, Rests, TabInv, IsOpen
<1>5. ASSUME NEW t \in Tabs, Answer(t)
      PROVE  TabInv'
  BY <1>5, AnswerStep DEF TabInv, IsOpen
<1>6. ASSUME NEW t \in Tabs, Arrive(t)
      PROVE  TabInv'
  <2>1. CASE \A u \in Tabs : Rests(u)
    BY <2>1 DEF Rests, TabInv, IsOpen
  <2>2. CASE Leave(t, "away")
    BY <2>2, LeaveStep DEF Rests, TabInv, IsOpen
  <2>3. CASE checkExpiry(t, SetCookie(t)) /\ IsOpen(t)
    BY <1>6, <2>3, ArriveStep, JarStep, CheckTab
  <2> QED
    BY <1>6, <2>1, <2>2, <2>3, ArriveCases
<1>7. ASSUME NEW t \in Tabs, Interval(t)
      PROVE  TabInv'
  <2>1. cookie \in Cookie \cup {None} /\ Long(cookie)
    BY DEF TypeOK, CookieInv, Long
  <2> QED
    BY <1>7, <2>1, CheckTab DEF Interval
<1> QED
  BY <1>2, <1>3, <1>4, <1>5, <1>6, <1>7, Steps

LEMMA GoesBrings ==
  ASSUME NEW t \in Tabs, NEW n, NEW ends, Goes(t, n, ends),
         request[t] # None /\ request[t].answer # "none" => Brings(request[t])
  PROVE  request'[t] # None /\ request'[t].answer # "none" => Brings(request'[t])
BY DEF Goes, Brings

LEMMA CookieStep ==
  ASSUME TypeOK, TabInv, CookieInv, [Next]_vars
  PROVE  CookieInv'
<1> DEFINE Jar == cookie # None => COOKIE_AGE - Lag =< cookie.seconds
           Good(t) == request[t] # None /\ request[t].answer # "none" => Brings(request[t])
<1>1. Jar /\ \A t \in Tabs : Good(t)
  BY DEF CookieInv
<1>2. SUFFICES Jar' /\ \A t \in Tabs : Good(t)'
  BY DEF CookieInv
<1>3. ASSUME NEW t \in Tabs, NEW n, NEW ends, Goes(t, n, ends)
      PROVE  Good(t)'
  BY <1>1, <1>3, GoesBrings
<1>4. CASE Quiet
  BY <1>1, <1>4 DEF Quiet
<1>5. CASE Anew
  <2>1. Jar'
    BY <1>1, <1>5 DEF Anew
  <2>2. \A t \in Tabs : Good(t)'
    BY <1>3, <1>5 DEF Anew
  <2> QED
    BY <2>1, <2>2
<1>6. CASE Tick
  <2>1. Jar'
    BY <1>1, <1>6, TickStep
  <2>2. \A t \in Tabs : Good(t)'
    BY <1>3, <1>6, TickStep
  <2> QED
    BY <2>1, <2>2
<1>7. ASSUME NEW t \in Tabs, NEW kind \in {"whoami", "save"}, Begun(t, kind)
      PROVE  Jar' /\ \A u \in Tabs : Good(u)'
  <2>1. Jar'
    BY <1>1, <1>7 DEF Begun
  <2>2. \A u \in Tabs \ {t} : Good(u)'
    BY <1>3, <1>7, BeginStep DEF Begun
  <2>3. Good(t)'
    BY <1>7, BeginStep DEF Begun
  <2> QED
    BY <2>1, <2>2, <2>3
<1>8. ASSUME NEW t \in Tabs, Answer(t)
      PROVE  Jar' /\ \A u \in Tabs : Good(u)'
  <2>1. Jar'
    BY <1>1, <1>8, AnswerStep
  <2>2. \A u \in Tabs \ {t} : Good(u)'
    BY <1>3, <1>8, AnswerStep
  <2>3. CASE request[t].of \in {"claimant", "nobody", "none"}
    <3>1. request[t].age \in Int /\ request[t].age =< Lag
      BY <1>8, AnswerStep, Ranges
    <3>2. /\ request'[t].of \in {"claimant", "nobody"}
          /\ request'[t].answer \in {"ok", "401"}
          /\ request'[t].seconds = COOKIE_AGE - request[t].age
      BY <1>8, <2>3, AnswerStep
    <3>3. Brings(request'[t])
      BY <3>1, <3>2, Numbers DEF Brings
    <3> QED
      BY <2>1, <2>2, <3>3
  <2>4. CASE request[t].of \in {"expired", "ended"}
    <3>1. /\ request'[t].of = request[t].of
          /\ request'[t].answer = IF request[t].of = "expired" THEN "401" ELSE "400"
      BY <1>8, <2>4, AnswerStep
    <3>2. Brings(request'[t])
      BY <2>4, <3>1 DEF Brings
    <3> QED
      BY <2>1, <2>2, <3>2
  <2> QED
    BY <1>8, <2>3, <2>4, AnswerStep
<1>9. ASSUME NEW t \in Tabs, Arrive(t)
      PROVE  Jar' /\ \A u \in Tabs : Good(u)'
  <2>1. \A u \in Tabs : Good(u)'
    BY <1>3, <1>9, ArriveStep
  <2>2. Long(SetCookie(t))
    BY <1>9, ArriveStep, JarStep
  <2>3. cookie' \in {None, cookie, SetCookie(t)}
    BY <1>9, ArriveCases DEF Takes, checkExpiry
  <2> QED
    BY <1>1, <2>1, <2>2, <2>3 DEF Long
<1>10. ASSUME NEW t \in Tabs, Interval(t)
       PROVE  Jar' /\ \A u \in Tabs : Good(u)'
  BY <1>1, <1>10 DEF Interval, checkExpiry
<1> QED
  BY <1>4, <1>5, <1>6, <1>7, <1>8, <1>9, <1>10, Steps

LEMMA ExtendedStep ==
  ASSUME TypeOK, TabInv, CookieInv, ExtendedInv, [Next]_vars
  PROVE  ExtendedInv'
<1> DEFINE Holds(t) == Extended(t) => /\ session.who # "none"
                                      /\ COOKIE_AGE - Lag - request[t].age =< session.left
<1>1. \A t \in Tabs : Holds(t)
  BY DEF ExtendedInv
<1>2. SUFFICES \A t \in Tabs : Holds(t)'
  BY DEF ExtendedInv
<1>3. ASSUME NEW t \in Tabs, Goes(t, 0, FALSE),
             session'.who = session.who, session'.left = session.left
      PROVE  Holds(t)'
  <2>1. request[t] # None => request[t].age + 0 = request[t].age
    BY Ranges
  <2> QED
    BY <1>1, <1>3, <2>1 DEF Goes, Extended
<1>4. ASSUME NEW t \in Tabs, NEW n, Goes(t, n, TRUE)
      PROVE  Holds(t)'
  BY <1>4 DEF Goes, Extended
<1>5. CASE Quiet
  BY <1>3, <1>5, Unmoved DEF Quiet
<1>6. CASE Anew
  BY <1>4, <1>6 DEF Anew
<1>7. CASE Tick
  <2>1. ASSUME NEW t \in Tabs, session.kept # 0
        PROVE  Holds(t)'
    <3>1. /\ session'.who = session.who
          /\ session'.left = IF session.left < 0 THEN session.left ELSE session.left - 1
      BY <1>7, <2>1, TickStep
    <3>2. request[t] # None => request[t].age \in Int
      BY Ranges
    <3>3. session.left \in Int
      BY Ranges
    <3>4. Extended(t)' => Extended(t) /\ request'[t].age = request[t].age + 1 /\ request[t] # None
      BY <1>7, <2>1, TickStep DEF Goes, Extended
    <3> QED
      BY <1>1, <3>1, <3>2, <3>3, <3>4, Numbers
  <2>2. ASSUME NEW t \in Tabs, session.kept = 0
        PROVE  Holds(t)'
    <3>1. Goes(t, 1, TRUE)
      BY <1>7, <2>2, TickStep DEF Goes
    <3> QED
      BY <1>4, <3>1
  <2> QED
    BY <2>1, <2>2
<1>8. ASSUME NEW t \in Tabs, NEW kind \in {"whoami", "save"}, Begun(t, kind)
      PROVE  \A u \in Tabs : Holds(u)'
  <2>1. Holds(t)'
    BY <1>8, BeginStep DEF Begun, Extended
  <2>2. ASSUME NEW u \in Tabs \ {t}
        PROVE  Holds(u)'
    <3>1. CASE SessionIsOver
      <4>1. Goes(u, 0, TRUE)
        BY <1>8, <3>1, BeginStep DEF Begun, Goes
      <4> QED
        BY <1>4, <4>1
    <3>2. CASE ~ SessionIsOver
      <4>1. Goes(u, 0, FALSE) /\ session' = session
        BY <1>8, <3>2, BeginStep DEF Begun, Goes
      <4> QED
        BY <1>3, <4>1
    <3> QED
      BY <3>1, <3>2
  <2> QED
    BY <2>1, <2>2
<1>9. ASSUME NEW t \in Tabs, Answer(t)
      PROVE  \A u \in Tabs : Holds(u)'
  <2>1. CASE request[t].of \in {"claimant", "nobody", "none"}
    <3>1. /\ session'.who \in {"claimant", "nobody"}
          /\ session'.left = COOKIE_AGE - request[t].age
      BY <1>9, <2>1, AnswerStep
    <3>2. request[t].age \in Int /\ request[t].age =< Lag
      BY <1>9, AnswerStep, Ranges
    <3>3. ASSUME NEW u \in Tabs, request'[u] # None
          PROVE  request'[u].age \in Int /\ 0 =< request'[u].age
      <4>1. request'[u].age \in 0 .. Lag
        BY <1>9, <3>3, AnswerType DEF TypeOK, Request
      <4> QED
        BY <4>1, Numbers
    <3>4. ASSUME NEW u \in Tabs, request'[u] # None
          PROVE  COOKIE_AGE - Lag - request'[u].age =< session'.left
      BY <3>1, <3>2, <3>3, <3>4, Numbers
    <3> QED
      BY <3>1, <3>4 DEF Extended
  <2>2. CASE request[t].of \in {"expired", "ended"}
    <3>1. session' = session /\ request'[t].of = request[t].of
      BY <1>9, <2>2, AnswerStep
    <3>2. Holds(t)'
      BY <2>2, <3>1 DEF Extended
    <3>3. \A u \in Tabs \ {t} : Holds(u)'
      BY <1>3, <1>9, <3>1, AnswerStep
    <3> QED
      BY <3>2, <3>3
  <2> QED
    BY <1>9, <2>1, <2>2, AnswerStep
<1>10. ASSUME NEW t \in Tabs, Arrive(t)
       PROVE  \A u \in Tabs : Holds(u)'
  <2>1. Holds(t)'
    BY <1>10, ArriveStep DEF Extended
  <2>2. \A u \in Tabs \ {t} : Holds(u)'
    BY <1>3, <1>10, ArriveStep
  <2> QED
    BY <2>1, <2>2
<1>11. ASSUME NEW t \in Tabs, Interval(t)
       PROVE  \A u \in Tabs : Holds(u)'
  BY <1>3, <1>11, Unmoved DEF Interval
<1> QED
  BY <1>5, <1>6, <1>7, <1>8, <1>9, <1>10, <1>11, Steps

LEMMA ZeroStep ==
  ASSUME TypeOK, TabInv, CookieInv, ZeroInv, [Next]_vars
  PROVE  ZeroInv'
<1> DEFINE Holds(t) == Counting(t) /\ deadline[t] = 0 /\ t \notin due =>
                         Fetches(t) /\ request[t].age = 0
<1>1. \A t \in Tabs : Holds(t)
  BY DEF ZeroInv
<1>2. SUFFICES \A t \in Tabs : Holds(t)'
  BY DEF ZeroInv
<1>3. ASSUME NEW t \in Tabs, NEW ends, Goes(t, 0, ends), Rests(t)
      PROVE  Holds(t)'
  <2>1. request[t] # None => request[t].age + 0 = request[t].age
    BY Ranges
  <2> QED
    BY <1>1, <1>3, <2>1 DEF Goes, Rests, Counting, IsOpen, Fetches
<1>4. ASSUME NEW t \in Tabs, tab'[t] # "open" \/ deadline'[t] = None
      PROVE  Holds(t)'
  BY <1>4 DEF Counting, IsOpen
<1>5. CASE Quiet
  BY <1>3, <1>4, <1>5, Unmoved DEF Quiet, RestsOrCloses
<1>6. CASE Anew
  BY <1>3, <1>4, <1>6 DEF Anew, RestsOrCloses
<1>7. CASE Tick
  BY <1>7, TickStep DEF Counting, IsOpen
<1>8. ASSUME NEW t \in Tabs, NEW kind \in {"whoami", "save"}, Begun(t, kind)
      PROVE  \A u \in Tabs : Holds(u)'
  <2>1. Holds(t)'
    <3>1. CASE kind = "whoami"
      BY <1>8, <3>1, BeginStep DEF Begun, Fetches
    <3>2. CASE kind = "save"
      <4>1. request[t] = None /\ Rests(t)
        BY <1>8, <3>2, BeginStep DEF Begun
      <4> QED
        BY <1>1, <4>1 DEF Rests, Counting, IsOpen, Fetches
    <3> QED
      BY <3>1, <3>2
  <2>2. \A u \in Tabs \ {t} : Holds(u)'
    BY <1>3, <1>8, BeginStep DEF Begun
  <2> QED
    BY <2>1, <2>2
<1>9. ASSUME NEW t \in Tabs, Answer(t)
      PROVE  \A u \in Tabs : Holds(u)'
  <2>1. Holds(t)'
    BY <1>1, <1>9, AnswerStep DEF Counting, IsOpen, Fetches
  <2>2. \A u \in Tabs \ {t} : Holds(u)'
    BY <1>3, <1>9, AnswerStep DEF Rests
  <2> QED
    BY <2>1, <2>2
<1>10. ASSUME NEW t \in Tabs, NEW jar \in Cookie \cup {None}, Long(jar), checkExpiry(t, jar),
              \A u \in Tabs \ {t} : Goes(u, 0, FALSE)
       PROVE  \A u \in Tabs : Holds(u)'
  <2>1. Holds(t)'
    <3>1. tab'[t] = "leaving" \/ deadline'[t] # 0
      BY <1>10, CheckStep
    <3> QED
      BY <3>1 DEF Counting, IsOpen
  <2>2. \A u \in Tabs \ {t} : Rests(u)
    BY <1>10, CheckStep
  <2>3. \A u \in Tabs \ {t} : Holds(u)'
    BY <1>3, <1>10, <2>2
  <2> QED
    BY <2>1, <2>3
<1>11. ASSUME NEW t \in Tabs, Arrive(t)
       PROVE  \A u \in Tabs : Holds(u)'
  <2>1. \A u \in Tabs \ {t} : Goes(u, 0, FALSE)
    BY <1>11, ArriveStep
  <2>2. CASE /\ \A u \in Tabs : Rests(u)
             /\ request[t].kind = "save" \/ ~ IsOpen(t)
    <3>1. Holds(t)'
      BY <1>1, <2>2 DEF Rests, Counting, IsOpen, Fetches
    <3> QED
      BY <1>3, <2>1, <2>2, <3>1
  <2>3. CASE checkExpiry(t, SetCookie(t))
    BY <1>10, <1>11, <2>1, <2>3, ArriveStep, JarStep
  <2>4. CASE Leave(t, "away")
    BY <1>3, <1>4, <2>1, <2>4, LeaveStep
  <2> QED
    BY <1>11, <2>2, <2>3, <2>4, ArriveCases DEF Takes
<1>12. ASSUME NEW t \in Tabs, Interval(t)
       PROVE  \A u \in Tabs : Holds(u)'
  <2>1. cookie \in Cookie \cup {None} /\ Long(cookie)
    BY DEF TypeOK, CookieInv, Long
  <2>2. \A u \in Tabs : Goes(u, 0, FALSE)
    BY <1>12, Unmoved DEF Interval
  <2> QED
    BY <1>10, <1>12, <2>1, <2>2 DEF Interval
<1> QED
  BY <1>5, <1>6, <1>7, <1>8, <1>9, <1>11, <1>12, Steps

\* A session whose cookie lies unread has, but for the overrun, more left than a
\* countdown that reads the cookie will give it; as much only when its extension
\* is due.
LEMMA UnreadLeft ==
  ASSUME TypeOK, UnreadInv, Unread
  PROVE  /\ session.who # "none"
         /\ COOKIE_AGE - 3 * Lag - 1 =< session.left
         /\ COOKIE_AGE - TIMEOUT_BUFFER =< session.left + Overrun
         /\ 0 < session.left
         /\ Overrun = 0 /\ COOKIE_AGE - TIMEOUT_BUFFER = session.left =>
              Lag = 0 \/ \E u \in Tabs : Extending(u) /\ request[u].age = Lag
<1>1. session.left \in Int
  BY Ranges
<1>2. CASE Late
  <2>1. PICK u \in Tabs : Extending(u) /\ Fresh - 1 - session.left =< request[u].age
    BY <1>2 DEF UnreadInv
  <2>2. request[u].age \in Int /\ request[u].age =< Lag
    BY <2>1, Ranges DEF Extending
  <2>3. COOKIE_AGE - 3 * Lag - 1 =< session.left
    BY <1>1, <2>1, <2>2, Numbers DEF Fresh
  <2>4. Overrun = 0 /\ COOKIE_AGE - TIMEOUT_BUFFER = session.left => request[u].age = Lag
    BY <1>1, <2>1, <2>2, Numbers, Overruns DEF Fresh
  <2>5. COOKIE_AGE - TIMEOUT_BUFFER =< session.left + Overrun /\ 0 < session.left
    BY <1>1, <2>3, Numbers, Overruns
  <2> QED
    BY <2>1, <2>3, <2>4, <2>5 DEF UnreadInv
<1>3. CASE ~ Late
  <2>1. COOKIE_AGE - 2 * Lag - 1 =< session.left
    BY <1>1, <1>3, Numbers DEF Late, Fresh
  <2>2. /\ COOKIE_AGE - 3 * Lag - 1 =< session.left /\ 0 < session.left
        /\ COOKIE_AGE - TIMEOUT_BUFFER =< session.left + Overrun
        /\ Overrun = 0 /\ COOKIE_AGE - TIMEOUT_BUFFER = session.left => Lag = 0
    BY <1>1, <2>1, Numbers, Overruns
  <2> QED
    BY <2>2 DEF UnreadInv
<1> QED
  BY <1>2, <1>3

LEMMA UnreadStep ==
  ASSUME TypeOK, TabInv, CacheInv, CookieInv, ExtendedInv, UnreadInv, [Next]_vars
  PROVE  UnreadInv'
<1> DEFINE Made(u) == Extending(u) /\ Fresh - 1 - session.left =< request[u].age
           Held == session.who # "none" /\ (Late => \E u \in Tabs : Made(u))
<1>1. Unread => Held
  BY DEF UnreadInv
<1>2. SUFFICES ASSUME Unread' PROVE Held'
  BY DEF UnreadInv
<1> HIDE DEF Held
<1>3. ASSUME Held, session'.who = session.who, session'.left = session.left,
             Late' => Late,
             \A u \in Tabs : Extending(u) => Goes(u, 0, FALSE)
      PROVE  Held'
  <2>1. ASSUME NEW u \in Tabs, Made(u)
        PROVE  Made(u)'
    <3>1. request[u].age + 0 = request[u].age
      BY <2>1, Ranges DEF Extending
    <3>2. Extending(u)' /\ request'[u].age = request[u].age
      BY <1>3, <2>1, <3>1 DEF Goes, Extending
    <3> QED
      BY <1>3, <2>1, <3>2 DEF Fresh
  <2>2. Late' => \E u \in Tabs : Made(u)'
    BY <1>3, <2>1 DEF Held
  <2> QED
    BY <1>3, <2>2 DEF Held
<1>4. ASSUME session'.left = session.left, \A u \in Tabs : RestsOrCloses(u)
      PROVE  Late' => Late
  <2>1. \A u \in Tabs : tab'[u] = "open" /\ u \notin due' => tab[u] = "open" /\ u \notin due
    BY <1>4 DEF RestsOrCloses, Rests
  <2> QED
    BY <1>4, <2>1 DEF Late, Fresh, IsOpen
<1>5. CASE Quiet
  <2>1. Late' => Late
    BY <1>4, <1>5 DEF Quiet
  <2>2. Unread
    BY <1>2, <1>5 DEF Quiet, Unread
  <2> QED
    BY <1>1, <1>3, <1>5, <2>1, <2>2, Unmoved DEF Quiet
<1>6. CASE Anew
  BY <1>2, <1>6 DEF Anew, Unread
<1>7. CASE Tick
  <2>1. Unread /\ \E t \in Tabs : IsOpen(t)
    BY <1>2, <1>7, TickStep DEF Unread
  <2>2. session.who # "none" /\ 0 < session.left
    BY <2>1, UnreadLeft
  <2>3. session.kept # 0
    BY <2>2, Ranges DEF CacheInv
  <2>4. session'.who = session.who /\ session'.left = session.left - 1
    BY <1>7, <2>2, <2>3, TickStep, Ranges
  <2>5. Late' => session'.left < Fresh - 1
    BY <1>7, TickStep DEF Late, Fresh, IsOpen
  <2>6. Late' => Late
    <3>1. session'.left < Fresh - 1 => session.left < Fresh
      BY <2>4, Ranges, Numbers DEF Fresh
    <3>2. due = {}
      BY <1>7, TickStep
    <3> QED
      BY <2>1, <2>5, <3>1, <3>2 DEF Late
  <2>7. ASSUME NEW u \in Tabs, Made(u)
        PROVE  Made(u)'
    <3>1. Goes(u, 1, FALSE) /\ request[u].age \in Int /\ session.left \in Int
      BY <1>7, <2>3, <2>7, TickStep, Ranges DEF Extending, Goes
    <3>2. Extending(u)' /\ request'[u].age = request[u].age + 1
      BY <2>7, <3>1 DEF Goes, Extending
    <3>3. (Fresh - 1 - session.left =< request[u].age)'
      BY <2>4, <2>7, <3>1, <3>2, Numbers DEF Fresh
    <3> QED
      BY <3>2, <3>3
  <2>8. Late' => \E u \in Tabs : Made(u)'
    BY <1>1, <2>1, <2>6, <2>7 DEF Held
  <2> QED
    BY <2>2, <2>4, <2>8 DEF Held
<1>8. ASSUME NEW t \in Tabs, NEW kind \in {"whoami", "save"}, Begun(t, kind)
      PROVE  Held'
  <2>1. Unread
    BY <1>2, <1>8 DEF Begun, Unread
  <2>2. ~ SessionIsOver
    BY <2>1, UnreadLeft, Ranges DEF SessionIsOver
  <2>3. session' = session /\ request[t] = None /\ \A u \in Tabs \ {t} : Goes(u, 0, FALSE)
    BY <1>8, <2>2, BeginStep DEF Begun, Goes
  <2>4. CASE Late' => Late
    <3>1. \A u \in Tabs : Extending(u) => Goes(u, 0, FALSE)
      BY <2>3 DEF Extending
    <3> QED
      BY <1>1, <1>3, <2>1, <2>3, <2>4, <3>1
  <2>5. CASE ~ Late
    <3>1. Fresh - 1 - session'.left =< 0
      BY <2>3, <2>5, Ranges, Numbers DEF Late, Fresh
    <3>2. Made(t)'
      <4>1. session.who \in {"claimant", "nobody", "none"}
        BY DEF TypeOK
      <4>2. Extending(t)' /\ request'[t].age = 0
        BY <1>8, <2>2, <4>1, BeginStep DEF Begun, Extending
      <4> QED
        BY <3>1, <4>2 DEF Fresh
    <3>3. session'.who # "none"
      BY <1>1, <2>1, <2>3 DEF Held
    <3> QED
      BY <3>2, <3>3 DEF Held
  <2> QED
    BY <2>4, <2>5
<1>9. ASSUME NEW t \in Tabs, Answer(t)
      PROVE  Held'
  <2>1. Unread
    BY <1>2, <1>9, AnswerStep DEF Unread
  <2>2. CASE request[t].of \in {"claimant", "nobody", "none"}
    <3>1. /\ session'.who \in {"claimant", "nobody"}
          /\ session'.left = COOKIE_AGE - request[t].age
      BY <1>9, <2>2, AnswerStep
    <3>2. request[t].age \in Int /\ request[t].age =< Lag
      BY <1>9, AnswerStep, Ranges
    <3>3. ~ (session'.left < Fresh) /\ ~ (session'.left < Fresh - 1)
      BY <3>1, <3>2, Numbers DEF Fresh
    <3>4. ~ Late'
      BY <3>3 DEF Late, Fresh
    <3> QED
      BY <3>1, <3>4 DEF Held
  <2>3. CASE request[t].of \in {"expired", "ended"}
    <3>1. session' = session /\ UNCHANGED <<tab, due>>
      BY <1>9, <2>3, AnswerStep
    <3>2. Late' => Late
      BY <3>1 DEF Late, Fresh, IsOpen
    <3>3. \A u \in Tabs : Extending(u) => Goes(u, 0, FALSE)
      BY <1>9, <2>3, AnswerStep DEF Extending
    <3> QED
      BY <1>1, <1>3, <2>1, <3>1, <3>2, <3>3
  <2> QED
    BY <1>9, <2>2, <2>3, AnswerStep
<1>10. ASSUME NEW t \in Tabs, Arrive(t)
       PROVE  Held'
  <2>1. \A u \in Tabs : Extending(u) => Goes(u, 0, FALSE)
    BY <1>10, ArriveStep DEF Extending
  <2>2. session' = session /\ request[t] # None /\ request[t].answer # "none"
    BY <1>10, ArriveStep
  <2>3. /\ cookie' \in {cookie, SetCookie(t)}
        /\ \A u \in Tabs : Rests(u)
    BY <1>2, <1>10, ArriveCases DEF Takes, checkExpiry, Unread
  <2>4. Late' => Late
    BY <1>4, <2>2, <2>3 DEF RestsOrCloses
  <2>5. CASE cookie' = cookie
    BY <1>1, <1>2, <1>3, <2>1, <2>2, <2>4, <2>5 DEF Unread
  <2>6. CASE cookie' = SetCookie(t) /\ cookie' # cookie
    <3>1. Extended(t)
      BY <1>2, <2>2, <2>6, JarStep DEF Unread
    <3>2. /\ session.who # "none"
          /\ COOKIE_AGE - Lag - request[t].age =< session.left
      BY <3>1 DEF ExtendedInv
    <3>3. request[t].age \in Int /\ request[t].age =< Lag /\ session.left \in Int
      BY <2>2, Ranges
    <3>4. ~ (session'.left < Fresh) /\ ~ (session'.left < Fresh - 1)
      BY <2>2, <3>2, <3>3, Numbers DEF Fresh
    <3>5. ~ Late'
      BY <3>4 DEF Late, Fresh
    <3> QED
      BY <2>2, <3>2, <3>5 DEF Held
  <2> QED
    BY <2>3, <2>5, <2>6
<1>11. ASSUME NEW t \in Tabs, Interval(t)
       PROVE  Held'
  BY <1>2, <1>11 DEF Interval, checkExpiry, Unread
<1> QED
  BY <1>5, <1>6, <1>7, <1>8, <1>9, <1>10, <1>11, Steps

\* When the answers outlast the buffer, every second costs the countdown as much
\* as the session, and what it reads is no more than the overrun ahead.
LEMMA LooseStep ==
  ASSUME TypeOK, TabInv, CacheInv, CookieInv, ExtendedInv, UnreadInv, CountdownInv,
         [Next]_vars, Overrun # 0
  PROVE  CountdownInv'
<1> DEFINE Holds(t) == Counting(t) /\ counts[t] # "other" => deadline[t] =< secondsKept + Overrun
<1>1. \A t \in Tabs : Holds(t)
  BY DEF CountdownInv
<1>2. SUFFICES \A t \in Tabs : Holds(t)'
  BY DEF CountdownInv, Overrun
<1>3. /\ secondsKept \in Int /\ -1 =< secondsKept
      /\ secondsKept' \in Int /\ -1 =< secondsKept'
      /\ session.left \in Int /\ -1 =< session.left
      /\ Overrun \in Int /\ 1 =< Overrun /\ Overrun' = Overrun
  BY NextType, Overruns, Numbers DEF TypeOK, secondsKept, Overrun
<1>4. ASSUME NEW t \in Tabs, Counting(t)' => deadline'[t] \in Int
                            /\ deadline'[t] =< secondsKept' + Overrun
      PROVE  Holds(t)'
  BY <1>3, <1>4
<1>5. ASSUME NEW t \in Tabs, tab'[t] # "open" \/ deadline'[t] = None \/ counts'[t] = "other"
      PROVE  Holds(t)'
  BY <1>5 DEF Counting, IsOpen
<1>6. ASSUME NEW t \in Tabs, tab'[t] = tab[t], deadline'[t] = deadline[t],
             counts'[t] # "other" => counts[t] # "other", secondsKept =< secondsKept'
      PROVE  Holds(t)'
  <2> SUFFICES ASSUME Counting(t)', counts'[t] # "other"
               PROVE  deadline'[t] =< secondsKept' + Overrun
    BY <1>3
  <2>1. Counting(t) /\ deadline[t] =< secondsKept + Overrun
    BY <1>1, <1>6 DEF Counting, IsOpen
  <2>2. deadline[t] \in Int
    BY <2>1, Ranges DEF Counting
  <2> QED
    BY <1>3, <1>6, <2>1, <2>2
<1>7. ASSUME NEW t \in Tabs, deadline'[t] # None
      PROVE  deadline'[t] \in Int /\ deadline'[t] =< COOKIE_AGE - TIMEOUT_BUFFER
  BY <1>7, NextType, TabStep, Numbers DEF TypeOK, Seconds, TabInv
<1>8. session' = session => secondsKept' = secondsKept
  BY DEF secondsKept
<1> HIDE DEF Holds
<1>9. CASE Quiet
  <2>1. secondsKept' = secondsKept
    BY <1>9 DEF Quiet, secondsKept
  <2>2. ASSUME NEW t \in Tabs
        PROVE  Holds(t)'
    BY <1>3, <1>5, <1>6, <1>9, <2>1 DEF Quiet, RestsOrCloses, Rests
  <2> QED
    BY <2>2
<1>10. CASE Anew
  BY <1>5, <1>10 DEF Anew
<1>11. CASE Tick
  <2> SUFFICES ASSUME NEW t \in Tabs, Counting(t)', counts'[t] # "other"
               PROVE  deadline'[t] =< secondsKept' + Overrun
    BY <1>3 DEF Holds
  <2>1. deadline'[t] = Less(deadline[t]) /\ Counting(t) /\ counts[t] # "other"
    BY <1>11, TickStep, Numbers DEF Less, Counting, IsOpen
  <2>2. deadline[t] \in Int /\ 0 =< deadline[t] /\ deadline[t] =< secondsKept + Overrun
    BY <1>1, <2>1, Ranges DEF Counting, Holds
  <2>3. deadline'[t] = IF deadline[t] = 0 THEN 0 ELSE deadline[t] - 1
    BY <2>1, <2>2, Numbers DEF Less
  <2>4. secondsKept - 1 =< secondsKept'
    <3>1. CASE session.kept = 0
      <4>1. secondsKept =< 0
        BY <1>3, <3>1 DEF CacheInv, secondsKept
      <4> QED
        BY <1>3, <4>1
    <3>2. CASE session.kept # 0
      <4>1. /\ session'.who = session.who
            /\ session'.left = IF session.left < 0 THEN session.left ELSE session.left - 1
        BY <1>11, <3>2, TickStep
      <4> QED
        BY <1>3, <4>1 DEF secondsKept
    <3> QED
      BY <3>1, <3>2
  <2> QED
    BY <1>3, <2>2, <2>3, <2>4
<1>12. ASSUME NEW t \in Tabs, NEW kind \in {"whoami", "save"}, Begun(t, kind)
       PROVE  \A u \in Tabs : Holds(u)'
  <2> SUFFICES ASSUME NEW u \in Tabs, deadline'[u] # None
               PROVE  Holds(u)'
    BY <1>5
  <2>1. deadline'[u] = deadline[u] /\ tab'[u] = tab[u] /\ counts'[u] = counts[u]
    BY <1>12 DEF Begun, Rests, TabInv, IsOpen
  <2>2. secondsKept =< secondsKept'
    <3>1. CASE SessionIsOver
      BY <1>3, <3>1 DEF SessionIsOver, secondsKept
    <3>2. CASE ~ SessionIsOver
      BY <1>3, <1>8, <1>12, <3>2, BeginStep DEF Begun
    <3> QED
      BY <3>1, <3>2
  <2> QED
    BY <1>6, <2>1, <2>2
<1>13. ASSUME NEW t \in Tabs, Answer(t)
       PROVE  \A u \in Tabs : Holds(u)'
  <2>1. CASE request[t].of \in {"claimant", "nobody", "none"}
    <3>1. secondsKept' = COOKIE_AGE - request[t].age
      BY <1>13, <2>1, AnswerStep DEF secondsKept
    <3>2. request[t].age \in Int /\ request[t].age =< Lag
      BY <1>13, AnswerStep, Ranges
    <3>3. ASSUME NEW u \in Tabs
          PROVE  Counting(u)' => deadline'[u] \in Int /\ deadline'[u] =< secondsKept' + Overrun
      BY <1>3, <1>7, <3>1, <3>2, Numbers, Overruns DEF Counting
    <3> QED
      BY <1>4, <3>3
  <2>2. CASE request[t].of \in {"expired", "ended"}
    <3>1. session' = session /\ UNCHANGED <<tab, deadline, counts>>
      BY <1>13, <2>2, AnswerStep
    <3>2. secondsKept =< secondsKept'
      BY <1>3, <1>8, <3>1
    <3> QED
      BY <1>6, <3>1, <3>2
  <2> QED
    BY <1>13, <2>1, <2>2, AnswerStep
<1>14. ASSUME NEW t \in Tabs, Unread \/ Extended(t), session' = session, deadline'[t] # None
       PROVE  Holds(t)'
  <2>1. deadline'[t] \in Int /\ deadline'[t] =< COOKIE_AGE - TIMEOUT_BUFFER
    BY <1>7, <1>14
  <2>2. CASE Unread
    <3>1. session.who # "none" /\ COOKIE_AGE - TIMEOUT_BUFFER =< session.left + Overrun
      BY <2>2, UnreadLeft
    <3>2. deadline'[t] =< secondsKept' + Overrun
      BY <1>3, <1>8, <1>14, <2>1, <3>1, Numbers DEF secondsKept
    <3> QED
      BY <1>4, <2>1, <3>2
  <2>3. CASE Extended(t)
    <3>1. session.who # "none" /\ COOKIE_AGE - Lag - request[t].age =< session.left
      BY <2>3 DEF ExtendedInv
    <3>2. request[t].age \in Int /\ request[t].age =< Lag
      BY <2>3, Ranges DEF Extended
    <3>3. COOKIE_AGE - TIMEOUT_BUFFER =< session.left + Overrun
      BY <1>3, <3>1, <3>2, Numbers, Overruns
    <3>4. deadline'[t] =< secondsKept' + Overrun
      BY <1>3, <1>8, <1>14, <2>1, <3>1, <3>3, Numbers DEF secondsKept
    <3> QED
      BY <1>4, <2>1, <3>4
  <2> QED
    BY <1>14, <2>2, <2>3
<1>15. ASSUME NEW t \in Tabs, NEW jar \in Cookie \cup {None}, Long(jar), checkExpiry(t, jar),
              session' = session,
              jar # None /\ ~ jar.stale => Unread \/ Extended(t)
       PROVE  \A u \in Tabs : Holds(u)'
  <2>1. secondsKept =< secondsKept'
    BY <1>3, <1>8, <1>15
  <2>2. ASSUME NEW u \in Tabs \ {t}
        PROVE  Holds(u)'
    <3>1. tab'[u] = tab[u] /\ deadline'[u] = deadline[u]
          /\ (counts'[u] # "other" => counts[u] # "other")
      BY <1>15, CheckStep DEF Rests
    <3> QED
      BY <1>6, <2>1, <3>1
  <2>3. Holds(t)'
    <3>1. CASE tab'[t] = "leaving" \/ counts'[t] = "other" \/ deadline'[t] = None
      BY <1>5, <3>1
    <3>2. CASE tab'[t] # "leaving" /\ counts'[t] # "other" /\ deadline'[t] # None
      <4>1. CASE jar = None
        <5>1. tab'[t] = tab[t] /\ deadline'[t] = deadline[t] /\ counts'[t] = counts[t]
          BY <1>15, <3>2, <4>1, CheckStep
        <5> QED
          BY <1>6, <2>1, <5>1
      <4>2. CASE jar # None
        <5>1. ~ jar.stale
          BY <1>15, <3>2, <4>2, CheckStep
        <5> QED
          BY <1>14, <1>15, <3>2, <4>2, <5>1
      <4> QED
        BY <4>1, <4>2
    <3> QED
      BY <3>1, <3>2
  <2> QED
    BY <2>2, <2>3
<1>16. ASSUME NEW t \in Tabs, Arrive(t)
       PROVE  \A u \in Tabs : Holds(u)'
  <2>1. request[t] # None /\ request[t].answer # "none" /\ session' = session
    BY <1>16, ArriveStep
  <2>2. secondsKept =< secondsKept'
    BY <1>3, <1>8, <2>1
  <2>3. CASE (\A u \in Tabs : Rests(u)) /\ (counts' = Missed \/ counts' = counts)
    <3>1. ASSUME NEW u \in Tabs
          PROVE  tab'[u] = tab[u] /\ deadline'[u] = deadline[u]
                 /\ (counts'[u] # "other" => counts[u] # "other")
      BY <2>3 DEF Rests, Missed
    <3> QED
      BY <1>6, <2>2, <3>1
  <2>4. CASE Leave(t, "away") /\ counts' = Missed
    <3>1. ASSUME NEW u \in Tabs \ {t}
          PROVE  tab'[u] = tab[u] /\ deadline'[u] = deadline[u]
                 /\ (counts'[u] # "other" => counts[u] # "other")
      BY <2>4, LeaveStep DEF Rests, Missed
    <3>2. Holds(t)'
      BY <1>5, <2>4, LeaveStep
    <3> QED
      BY <1>6, <2>2, <3>1, <3>2
  <2>5. CASE checkExpiry(t, SetCookie(t))
    <3> DEFINE jar == SetCookie(t)
    <3>1. /\ jar \in Cookie \cup {None} /\ Long(jar)
          /\ jar # None /\ ~ jar.stale => Unread \/ Extended(t)
      BY <2>1, JarStep DEF Unread
    <3>2. checkExpiry(t, jar)
      BY <2>5
    <3> HIDE DEF jar
    <3> QED
      BY <1>15, <2>1, <3>1, <3>2
  <2> QED
    BY <1>16, <2>3, <2>4, <2>5, ArriveCases DEF Takes
<1>17. ASSUME NEW t \in Tabs, Interval(t)
       PROVE  \A u \in Tabs : Holds(u)'
  <2>1. /\ cookie \in Cookie \cup {None} /\ Long(cookie) /\ checkExpiry(t, cookie)
        /\ session' = session
        /\ cookie # None /\ ~ cookie.stale => Unread
    BY <1>17 DEF Interval, TypeOK, CookieInv, Long, Unread
  <2> QED
    BY <1>15, <2>1
<1> QED
  BY <1>9, <1>10, <1>11, <1>12, <1>13, <1>16, <1>17, Steps

\* When the buffer outlasts the answers.
LEMMA StrictStep ==
  ASSUME TypeOK, TabInv, CacheInv, CookieInv, ExtendedInv, UnreadInv, ZeroInv, CountdownInv,
         [Next]_vars, Overrun = 0
  PROVE  CountdownInv'
<1> DEFINE Reached(t) ==
             \/ Lag = 0
             \/ \E u \in Tabs : Extending(u) /\ request[u].age = Lag
             \/ deadline[t] = 0 /\ Fetches(t) /\ 1 =< request[t].age
           Holds(t) == Counting(t) /\ counts[t] # "other" =>
                         /\ session.who # "none" /\ deadline[t] =< session.left
                         /\ deadline[t] = session.left => Reached(t)
<1>1. \A t \in Tabs : Holds(t)
  <2> SUFFICES ASSUME NEW t \in Tabs, Counting(t), counts[t] # "other"
               PROVE  /\ session.who # "none" /\ deadline[t] =< session.left
                      /\ deadline[t] = session.left => Reached(t)
    OBVIOUS
  <2>1. deadline[t] \in Int /\ 0 =< deadline[t] /\ session.left \in Int
    BY Ranges DEF Counting
  <2>2. session.who # "none" /\ deadline[t] =< session.left
    BY <2>1 DEF CountdownInv, secondsKept
  <2> QED
    BY <2>2 DEF CountdownInv
<1>2. SUFFICES \A t \in Tabs : Holds(t)'
  <2>1. Overrun' = Overrun
    BY DEF Overrun
  <2>2. ASSUME NEW t \in Tabs, Holds(t)', Counting(t)', counts'[t] # "other"
        PROVE  deadline'[t] =< secondsKept' + Overrun'
    <3>1. secondsKept' = session'.left /\ session'.left \in Int
      BY <2>2, NextType DEF TypeOK, secondsKept
    <3> QED
      BY <2>1, <2>2, <3>1
  <2> QED
    BY <2>1, <2>2 DEF CountdownInv
<1>3. ASSUME NEW t \in Tabs,
             tab'[t] = tab[t], deadline'[t] = deadline[t],
             counts'[t] # "other" => counts[t] # "other",
             session'.who = session.who, session'.left = session.left,
             \A u \in Tabs : Extending(u) => Goes(u, 0, FALSE),
             Fetches(t) /\ deadline[t] = 0 => Goes(t, 0, FALSE)
      PROVE  Holds(t)'
  <2>1. ASSUME NEW u \in Tabs, Goes(u, 0, FALSE), request[u] # None
        PROVE  request'[u].age = request[u].age
    <3>1. request[u].age + 0 = request[u].age
      BY <2>1, Ranges
    <3> QED
      BY <2>1, <3>1 DEF Goes
  <2>2. ASSUME NEW u \in Tabs, Extending(u)
        PROVE  Extending(u)' /\ request'[u].age = request[u].age
    BY <1>3, <2>1, <2>2 DEF Goes, Extending
  <2>3. Fetches(t) /\ deadline[t] = 0 => Fetches(t)' /\ request'[t].age = request[t].age
    BY <1>3, <2>1 DEF Goes, Fetches
  <2>4. Reached(t) => Reached(t)'
    BY <1>3, <2>2, <2>3
  <2>5. (Counting(t) /\ counts[t] # "other")' => Counting(t) /\ counts[t] # "other"
    BY <1>3 DEF Counting, IsOpen
  <2> HIDE DEF Reached
  <2> QED
    BY <1>1, <1>3, <2>4, <2>5
<1>4. ASSUME NEW t \in Tabs, tab'[t] # "open" \/ deadline'[t] = None \/ counts'[t] = "other"
      PROVE  Holds(t)'
  BY <1>4 DEF Counting, IsOpen
<1>5. ASSUME NEW t \in Tabs, Counting(t), counts[t] # "other"
      PROVE  /\ session.who # "none" /\ session.left \in Int /\ 0 =< session.left
             /\ deadline[t] \in Int /\ 0 =< deadline[t] /\ deadline[t] =< session.left
             /\ ~ SessionIsOver
  <2>1. session.who # "none" /\ deadline[t] =< session.left
    BY <1>1, <1>5
  <2>2. deadline[t] \in Int /\ 0 =< deadline[t] /\ session.left \in Int
    BY <1>5, Ranges DEF Counting
  <2> QED
    BY <2>1, <2>2 DEF SessionIsOver
<1>6. ASSUME NEW t \in Tabs, \A u \in Tabs : Extending(u) => Goes(u, 0, FALSE),
             session'.who = session.who, session'.left = session.left,
             Unread, deadline'[t] \in Int, deadline'[t] =< COOKIE_AGE - TIMEOUT_BUFFER
      PROVE  Holds(t)'
  <2>1. /\ session.who # "none"
        /\ COOKIE_AGE - TIMEOUT_BUFFER =< session.left
        /\ COOKIE_AGE - TIMEOUT_BUFFER = session.left =>
              Lag = 0 \/ \E u \in Tabs : Extending(u) /\ request[u].age = Lag
    BY <1>6, UnreadLeft, Ranges, Numbers
  <2>2. deadline'[t] =< session'.left
    BY <1>6, <2>1, Ranges, Numbers
  <2>3. deadline'[t] = session'.left => COOKIE_AGE - TIMEOUT_BUFFER = session.left
    BY <1>6, <2>1, Ranges, Numbers
  <2>4. ASSUME NEW u \in Tabs, Extending(u)
        PROVE  Extending(u)' /\ request'[u].age = request[u].age
    <3>1. request[u].age + 0 = request[u].age
      BY <2>4, Ranges DEF Extending
    <3> QED
      BY <1>6, <2>4, <3>1 DEF Goes, Extending
  <2> QED
    BY <1>6, <2>1, <2>2, <2>3, <2>4
<1> DEFINE Strict(t) == session'.who # "none" /\ deadline'[t] \in Int
                        /\ session'.left \in Int /\ deadline'[t] < session'.left
<1>7. ASSUME NEW t \in Tabs, Counting(t)' => Strict(t)
      PROVE  Holds(t)'
  <2>1. Strict(t) => deadline'[t] =< session'.left /\ deadline'[t] # session'.left
    OBVIOUS
  <2> HIDE DEF Reached, Strict
  <2> QED
    BY <1>7, <2>1 DEF Strict
<1>8. ASSUME NEW t \in Tabs, deadline'[t] # None
      PROVE  deadline'[t] \in Int /\ deadline'[t] =< COOKIE_AGE - TIMEOUT_BUFFER
  BY <1>8, NextType, TabStep, Numbers DEF TypeOK, Seconds, TabInv
<1> HIDE DEF Holds
<1>9. CASE Quiet
  <2>1. \A u \in Tabs : Goes(u, 0, FALSE)
    BY <1>9, Unmoved DEF Quiet
  <2> QED
    BY <1>3, <1>4, <1>9, <2>1 DEF Quiet, RestsOrCloses, Rests
<1>10. CASE Anew
  BY <1>4, <1>10 DEF Anew
<1>11. CASE Tick
  <2> SUFFICES ASSUME NEW t \in Tabs, Counting(t)', counts'[t] # "other"
               PROVE  Holds(t)'
    BY DEF Holds
  <2>1. /\ deadline'[t] = Less(deadline[t]) /\ Counting(t) /\ counts[t] # "other"
        /\ due = {} /\ Goes(t, 1, session.kept = 0)
        /\ \A u \in Tabs : request[u] # None => request[u].age < Lag
    BY <1>11, TickStep, Numbers DEF Less, Counting, IsOpen
  <2>2. /\ session.who # "none" /\ session.left \in Int /\ 0 =< session.left
        /\ deadline[t] \in Int /\ 0 =< deadline[t] /\ deadline[t] =< session.left
    BY <1>5, <2>1
  <2>3. deadline[t] = 0 => Fetches(t) /\ request[t].age = 0
    BY <2>1 DEF ZeroInv
  <2>4. Reached(t) => Lag = 0
    <3>1. ~ \E u \in Tabs : Extending(u) /\ request[u].age = Lag
      BY <2>1, Ranges, Numbers DEF Extending
    <3>2. ~ (deadline[t] = 0 /\ Fetches(t) /\ 1 =< request[t].age)
      BY <2>3
    <3> QED
      BY <3>1, <3>2
  <2>5. Lag = 0 => deadline[t] # 0
    BY <2>1, <2>3 DEF Fetches
  <2>6. deadline[t] = session.left => Lag = 0
    BY <1>1, <2>1, <2>4 DEF Holds
  <2>7. 0 < session.left
    BY <2>2, <2>5, <2>6
  <2>8. session.kept # 0
    BY <2>2, <2>7, Ranges DEF CacheInv
  <2>9. session'.who = session.who /\ session'.left = session.left - 1
    BY <1>11, <2>2, <2>7, <2>8, TickStep
  <2>10. CASE deadline[t] = 0
    <3>1. deadline'[t] = 0
      BY <2>1, <2>10 DEF Less
    <3>2. Fetches(t)' /\ request'[t].age = 1
      BY <2>1, <2>3, <2>10 DEF Goes, Fetches
    <3>3. Reached(t)'
      BY <3>1, <3>2
    <3>4. session'.who # "none" /\ deadline'[t] =< session'.left
      BY <2>2, <2>7, <2>9, <3>1
    <3> HIDE DEF Reached
    <3> QED
      BY <3>3, <3>4 DEF Holds
  <2>11. CASE deadline[t] # 0
    <3>1. deadline'[t] = deadline[t] - 1
      BY <2>1, <2>2, <2>11, Numbers DEF Less
    <3>2. CASE deadline[t] = session.left
      <4>1. Reached(t)'
        BY <2>6, <3>2
      <4>2. session'.who # "none" /\ deadline'[t] =< session'.left
        BY <2>2, <2>9, <3>1
      <4> HIDE DEF Reached
      <4> QED
        BY <4>1, <4>2 DEF Holds
    <3>3. CASE deadline[t] # session.left
      <4>1. Strict(t)
        BY <2>2, <2>9, <3>1, <3>3
      <4> QED
        BY <1>7, <4>1
    <3> QED
      BY <3>2, <3>3
  <2> QED
    BY <2>10, <2>11
<1>12. ASSUME NEW t \in Tabs, NEW kind \in {"whoami", "save"}, Begun(t, kind)
       PROVE  \A u \in Tabs : Holds(u)'
  <2> SUFFICES ASSUME NEW u \in Tabs, Counting(u)', counts'[u] # "other"
               PROVE  Holds(u)'
    BY DEF Holds
  <2>1. /\ deadline'[u] = deadline[u] /\ tab'[u] = tab[u]
        /\ Counting(u) /\ counts'[u] = counts[u]
    BY <1>12 DEF Begun, Rests, Counting, TabInv, IsOpen
  <2>2. ~ SessionIsOver
    BY <1>5, <2>1
  <2>3. session' = session /\ request[t] = None /\ \A v \in Tabs \ {t} : Goes(v, 0, FALSE)
    BY <1>12, <2>2, BeginStep DEF Begun, Goes
  <2>4. \A v \in Tabs : Extending(v) \/ Fetches(v) => Goes(v, 0, FALSE)
    BY <2>3 DEF Extending, Fetches
  <2> QED
    BY <1>3, <2>1, <2>3, <2>4
<1>13. ASSUME NEW t \in Tabs, Answer(t)
       PROVE  \A u \in Tabs : Holds(u)'
  <2> SUFFICES ASSUME NEW u \in Tabs
               PROVE  Holds(u)'
    OBVIOUS
  <2>1. CASE request[t].of \in {"claimant", "nobody", "none"}
    <3>1. /\ session'.who \in {"claimant", "nobody"}
          /\ session'.left = COOKIE_AGE - request[t].age
      BY <1>13, <2>1, AnswerStep
    <3>2. request[t].age \in Int /\ request[t].age =< Lag
      BY <1>13, AnswerStep, Ranges
    <3>3. Counting(u)' => Strict(u)
      BY <1>8, <3>1, <3>2, Numbers, Overruns DEF Counting
    <3> QED
      BY <1>7, <3>3
  <2>2. CASE request[t].of \in {"expired", "ended"}
    <3>1. session' = session /\ UNCHANGED <<tab, deadline, counts>>
      BY <1>13, <2>2, AnswerStep
    <3>2. \A v \in Tabs : Extending(v) => Goes(v, 0, FALSE)
      BY <1>13, <2>2, AnswerStep DEF Extending
    <3>3. CASE u # t
      <4>1. Goes(u, 0, FALSE)
        BY <1>13, <3>3, AnswerStep
      <4> QED
        BY <1>3, <3>1, <3>2, <4>1
    <3>4. CASE u = t
      <4>1. request[t] # None /\ request'[t].kind = request[t].kind
            /\ request'[t].age = request[t].age /\ request'[t] # None
        BY <1>13, AnswerStep
      <4>2. ASSUME NEW v \in Tabs, Extending(v)
            PROVE  Extending(v)' /\ request'[v].age = request[v].age
        <5>1. request[v].age + 0 = request[v].age
          BY <4>2, Ranges DEF Extending
        <5> QED
          BY <3>2, <4>2, <5>1 DEF Goes, Extending
      <4>3. Reached(t) => Reached(t)'
        BY <3>1, <4>1, <4>2 DEF Fetches
      <4> HIDE DEF Reached
      <4> QED
        BY <1>1, <3>1, <3>4, <4>3 DEF Holds, Counting, IsOpen
    <3> QED
      BY <3>3, <3>4
  <2> QED
    BY <1>13, <2>1, <2>2, AnswerStep
<1>14. ASSUME NEW t \in Tabs, Arrive(t)
       PROVE  \A u \in Tabs : Holds(u)'
  <2>1. /\ request[t] # None /\ request[t].answer # "none" /\ session' = session
        /\ \A u \in Tabs \ {t} : Goes(u, 0, FALSE)
    BY <1>14, ArriveStep
  <2>2. \A u \in Tabs : Extending(u) => Goes(u, 0, FALSE)
    BY <2>1 DEF Extending
  <2>3. ASSUME NEW u \in Tabs
        PROVE  Missed[u] # "other" => counts[u] # "other"
    BY DEF Missed
  <2>4. CASE /\ \A u \in Tabs : Rests(u) /\ (counts' = Missed \/ counts' = counts)
             /\ request[t].kind = "save" \/ ~ IsOpen(t)
    <3> SUFFICES ASSUME NEW u \in Tabs
                 PROVE  Holds(u)'
      OBVIOUS
    <3>1. CASE u = t /\ ~ IsOpen(t)
      BY <1>4, <2>4, <3>1 DEF Rests, IsOpen
    <3>2. CASE u # t \/ request[t].kind = "save"
      <4>1. Fetches(u) => Goes(u, 0, FALSE)
        BY <2>1, <3>2 DEF Fetches
      <4>2. tab'[u] = tab[u] /\ deadline'[u] = deadline[u]
            /\ (counts'[u] # "other" => counts[u] # "other")
        BY <2>3, <2>4 DEF Rests
      <4> QED
        BY <1>3, <2>1, <2>2, <4>1, <4>2
    <3> QED
      BY <2>4, <3>1, <3>2
  <2>5. CASE Leave(t, "away") /\ counts' = Missed
    <3>1. Holds(t)'
      BY <1>4, <2>5, LeaveStep
    <3>2. ASSUME NEW u \in Tabs \ {t}
          PROVE  Holds(u)'
      <4>1. Rests(u)
        BY <2>5, LeaveStep
      <4>2. tab'[u] = tab[u] /\ deadline'[u] = deadline[u]
            /\ (counts'[u] # "other" => counts[u] # "other")
        BY <2>3, <2>5, <4>1 DEF Rests
      <4> QED
        BY <1>3, <2>1, <2>2, <4>2
    <3> QED
      BY <3>1, <3>2
  <2>6. CASE checkExpiry(t, SetCookie(t))
    <3> DEFINE jar == SetCookie(t)
    <3>1. /\ jar \in Cookie \cup {None} /\ Long(jar)
          /\ jar # None /\ ~ jar.stale => jar = cookie \/ Extended(t)
      BY <2>1, JarStep
    <3> HIDE DEF jar
    <3>2. checkExpiry(t, jar)
      BY <2>6 DEF jar
    <3>3. ASSUME NEW u \in Tabs \ {t}
          PROVE  Holds(u)'
      <4>1. tab'[u] = tab[u] /\ deadline'[u] = deadline[u]
            /\ (counts'[u] # "other" => counts[u] # "other")
        BY <3>1, <3>2, CheckStep DEF Rests
      <4> QED
        BY <1>3, <2>1, <2>2, <4>1
    <3>4. CASE tab'[t] = "leaving" \/ counts'[t] = "other" \/ deadline'[t] = None
      BY <1>4, <3>3, <3>4
    <3>5. CASE ~ (tab'[t] = "leaving" \/ counts'[t] = "other" \/ deadline'[t] = None) /\ jar = None
      <4>1. tab'[t] = tab[t] /\ deadline'[t] = deadline[t] /\ counts'[t] = counts[t]
            /\ deadline[t] # 0
        BY <3>1, <3>2, <3>5, CheckStep
      <4>2. Holds(t)'
        BY <1>3, <2>1, <2>2, <4>1
      <4> QED
        BY <3>3, <4>2
    <3>6. CASE ~ (tab'[t] = "leaving" \/ counts'[t] = "other" \/ deadline'[t] = None) /\ jar # None
      <4>1. ~ jar.stale
        BY <3>1, <3>2, <3>6, CheckStep
      <4>2. deadline'[t] \in Int /\ deadline'[t] =< COOKIE_AGE - TIMEOUT_BUFFER
        BY <1>8, <3>6
      <4>3. CASE jar = cookie
        <5>1. Unread
          BY <3>6, <4>1, <4>3 DEF Unread
        <5>2. Holds(t)'
          BY <1>6, <2>1, <2>2, <4>2, <5>1
        <5> QED
          BY <3>3, <5>2
      <4>4. CASE Extended(t)
        <5>1. /\ session.who # "none"
              /\ COOKIE_AGE - Lag - request[t].age =< session.left
          BY <4>4 DEF ExtendedInv
        <5>2. request[t].age \in Int /\ request[t].age =< Lag /\ session.left \in Int
          BY <2>1, Ranges
        <5>3. Strict(t)
          BY <2>1, <4>2, <5>1, <5>2, Numbers, Overruns
        <5>4. Holds(t)'
          BY <1>7, <5>3
        <5> QED
          BY <3>3, <5>4
      <4> QED
        BY <3>1, <3>6, <4>1, <4>3, <4>4
    <3> QED
      BY <3>4, <3>5, <3>6
  <2> QED
    BY <1>14, <2>4, <2>5, <2>6, ArriveCases DEF Takes
<1>15. ASSUME NEW t \in Tabs, Interval(t)
       PROVE  \A u \in Tabs : Holds(u)'
  <2>1. cookie \in Cookie \cup {None} /\ Long(cookie) /\ checkExpiry(t, cookie)
        /\ session' = session
    BY <1>15 DEF Interval, TypeOK, CookieInv, Long
  <2>2. \A u \in Tabs : Goes(u, 0, FALSE)
    BY <1>15, Unmoved DEF Interval
  <2>3. ASSUME NEW u \in Tabs \ {t}
        PROVE  Holds(u)'
    <3>1. tab'[u] = tab[u] /\ deadline'[u] = deadline[u]
          /\ (counts'[u] # "other" => counts[u] # "other")
      BY <2>1, CheckStep DEF Rests
    <3> QED
      BY <1>3, <2>1, <2>2, <3>1
  <2>4. CASE tab'[t] = "leaving" \/ counts'[t] = "other" \/ deadline'[t] = None
    BY <1>4, <2>3, <2>4
  <2>5. CASE ~ (tab'[t] = "leaving" \/ counts'[t] = "other" \/ deadline'[t] = None) /\ cookie = None
    <3>1. tab'[t] = tab[t] /\ deadline'[t] = deadline[t] /\ counts'[t] = counts[t]
      BY <2>1, <2>5, CheckStep
    <3>2. Holds(t)'
      BY <1>3, <2>1, <2>2, <3>1
    <3> QED
      BY <2>3, <3>2
  <2>6. CASE ~ (tab'[t] = "leaving" \/ counts'[t] = "other" \/ deadline'[t] = None) /\ cookie # None
    <3>1. Unread
      BY <2>1, <2>6, CheckStep DEF Unread
    <3>2. deadline'[t] \in Int /\ deadline'[t] =< COOKIE_AGE - TIMEOUT_BUFFER
      BY <1>8, <2>6
    <3>3. Holds(t)'
      BY <1>6, <2>1, <2>2, <3>1, <3>2
    <3> QED
      BY <2>3, <3>3
  <2> QED
    BY <2>4, <2>5, <2>6
<1> QED
  BY <1>9, <1>10, <1>11, <1>12, <1>13, <1>14, <1>15, Steps

LEMMA CountdownStep ==
  ASSUME TypeOK, TabInv, CacheInv, CookieInv, ExtendedInv, UnreadInv, ZeroInv, CountdownInv,
         [Next]_vars
  PROVE  CountdownInv'
BY LooseStep, StrictStep

LEMMA LatestStep ==
  ASSUME TypeOK, TabInv, CookieInv, LatestInv, [Next]_vars
  PROVE  LatestInv'
<1> DEFINE Near(t) == session.left - TIMEOUT_BUFFER - Lag =< deadline[t]
           Told == cookie # None \/ \E u \in Tabs : Extended(u)
           Holds(t) == Counting(t) /\ counts[t] = "latest" => Near(t) \/ Told
<1>1. \A t \in Tabs : Holds(t)
  BY DEF LatestInv
<1>2. SUFFICES \A t \in Tabs : Holds(t)'
  BY DEF LatestInv
<1>3. ASSUME NEW t \in Tabs,
             tab'[t] = tab[t], deadline'[t] = deadline[t],
             counts'[t] = "latest" => counts[t] = "latest",
             session'.left = session.left, Told => Told'
      PROVE  Holds(t)'
  BY <1>1, <1>3 DEF Counting, IsOpen
<1>4. ASSUME NEW t \in Tabs, tab'[t] # "open" \/ deadline'[t] = None \/ counts'[t] # "latest"
      PROVE  Holds(t)'
  BY <1>4 DEF Counting, IsOpen
<1>5. ASSUME session' = Gone
      PROVE  \A t \in Tabs : Holds(t)'
  <2>1. ASSUME NEW t \in Tabs, deadline'[t] # None
        PROVE  deadline'[t] \in Int /\ 0 =< deadline'[t]
    BY <2>1, NextType, Numbers DEF TypeOK, Seconds
  <2>2. session'.left = 0
    BY <1>5 DEF Gone
  <2> QED
    BY <2>1, <2>2, Numbers DEF Counting
<1>6. ASSUME NEW t \in Tabs, \A u \in Tabs \ {t} : Goes(u, 0, FALSE), ~ Extended(t)
      PROVE  (\E u \in Tabs : Extended(u)) => (\E u \in Tabs : Extended(u)')
  BY <1>6 DEF Goes, Extended
<1> HIDE DEF Holds
<1>7. CASE Quiet
  <2>1. Told => Told'
    BY <1>7 DEF Quiet, Extended
  <2> QED
    BY <1>3, <1>4, <1>7, <2>1 DEF Quiet, RestsOrCloses, Rests
<1>8. CASE Anew
  BY <1>4, <1>8 DEF Anew
<1>9. CASE Tick
  <2>1. CASE session.kept = 0
    BY <1>5, <1>9, <2>1, TickStep
  <2>2. CASE session.kept # 0
    <3>1. Told => Told'
      <4>1. ASSUME NEW u \in Tabs, Extended(u)
            PROVE  Extended(u)'
        BY <1>9, <2>2, <4>1, TickStep DEF Goes, Extended
      <4>2. cookie # None => cookie' # None
        BY <1>9, TickStep
      <4> QED
        BY <4>1, <4>2
    <3> SUFFICES ASSUME NEW t \in Tabs, Counting(t)', counts'[t] = "latest"
                 PROVE  Near(t)' \/ Told'
      BY DEF Holds
    <3>2. deadline'[t] = Less(deadline[t]) /\ Counting(t) /\ counts[t] = "latest"
      BY <1>9, TickStep, Numbers DEF Less, Counting, IsOpen
    <3>3. Near(t) \/ Told
      BY <1>1, <3>2 DEF Holds
    <3>4. /\ session'.left = IF session.left < 0 THEN session.left ELSE session.left - 1
          /\ session.left \in Int
      BY <1>9, <2>2, TickStep, Ranges
    <3>5. deadline[t] \in Int /\ 0 =< deadline[t]
      BY <3>2, Ranges DEF Counting
    <3>6. deadline'[t] = IF deadline[t] = 0 THEN 0 ELSE deadline[t] - 1
      BY <3>2, <3>5, Numbers DEF Less
    <3>7. Near(t) => Near(t)'
      BY <3>4, <3>5, <3>6, Numbers
    <3> HIDE DEF Near, Told
    <3> QED
      BY <3>1, <3>3, <3>7
  <2> QED
    BY <2>1, <2>2
<1>10. ASSUME NEW t \in Tabs, NEW kind \in {"whoami", "save"}, Begun(t, kind)
       PROVE  \A u \in Tabs : Holds(u)'
  <2>1. CASE SessionIsOver
    BY <1>5, <1>10, <2>1, BeginStep DEF Begun
  <2>2. CASE ~ SessionIsOver
    <3>1. session' = session /\ request[t] = None /\ \A v \in Tabs \ {t} : Goes(v, 0, FALSE)
      BY <1>10, <2>2, BeginStep DEF Begun, Goes
    <3>2. Told => Told'
      BY <1>6, <1>10, <3>1 DEF Begun, Extended
    <3>3. ASSUME NEW u \in Tabs
          PROVE  Holds(u)'
      <4>1. CASE deadline'[u] = None
        BY <1>4, <4>1
      <4>2. CASE deadline'[u] # None
        <5>1. tab'[u] = tab[u] /\ deadline'[u] = deadline[u] /\ counts'[u] = counts[u]
          BY <1>10, <4>2 DEF Begun, Rests, TabInv, IsOpen
        <5> QED
          BY <1>3, <3>1, <3>2, <5>1
      <4> QED
        BY <4>1, <4>2
    <3> QED
      BY <3>3
  <2> QED
    BY <2>1, <2>2
<1>11. ASSUME NEW t \in Tabs, Answer(t)
       PROVE  \A u \in Tabs : Holds(u)'
  <2>1. CASE request[t].of \in {"claimant", "nobody", "none"}
    <3>1. Extended(t)'
      <4>1. /\ request'[t] # None /\ request'[t].of \in {"claimant", "nobody"}
            /\ request'[t].answer \in {"ok", "401"}
        BY <1>11, <2>1, AnswerStep
      <4> QED
        BY <4>1 DEF Extended
    <3> QED
      BY <3>1 DEF Holds
  <2>2. CASE request[t].of \in {"expired", "ended"}
    <3>1. /\ session' = session /\ UNCHANGED <<cookie, tab, deadline, counts>>
          /\ \A v \in Tabs \ {t} : Goes(v, 0, FALSE)
          /\ ~ Extended(t)
      BY <1>11, <2>2, AnswerStep DEF Extended
    <3>2. (\E u \in Tabs : Extended(u)) => (\E u \in Tabs : Extended(u)')
      BY <1>6, <3>1
    <3>3. Told => Told'
      BY <3>1, <3>2
    <3> QED
      BY <1>3, <3>1, <3>3
  <2> QED
    BY <1>11, <2>1, <2>2, AnswerStep
<1>12. ASSUME NEW t \in Tabs, NEW jar \in Cookie \cup {None}, Long(jar), checkExpiry(t, jar),
              session' = session, jar = None => cookie = None,
              (\E u \in Tabs : Extended(u)) => jar # None \/ (\E u \in Tabs : Extended(u)')
       PROVE  \A u \in Tabs : Holds(u)'
  <2>1. jar = None => (Told => Told')
    BY <1>12
  <2>2. ASSUME NEW u \in Tabs \ {t}
        PROVE  Holds(u)'
    <3>1. CASE counts'[u] # "latest"
      BY <1>4, <3>1
    <3>2. CASE counts'[u] = "latest"
      <4>1. /\ jar = None /\ counts[u] = "latest"
            /\ tab'[u] = tab[u] /\ deadline'[u] = deadline[u]
        BY <1>12, <3>2, CheckStep DEF Rests
      <4> QED
        BY <1>3, <1>12, <2>1, <4>1
    <3> QED
      BY <3>1, <3>2
  <2>3. CASE tab'[t] = "leaving" \/ counts'[t] # "latest"
    BY <1>4, <2>2, <2>3
  <2>4. CASE tab'[t] # "leaving" /\ counts'[t] = "latest" /\ jar = None
    <3>1. tab'[t] = tab[t] /\ deadline'[t] = deadline[t] /\ counts'[t] = counts[t]
      BY <1>12, <2>4, CheckStep
    <3>2. Holds(t)'
      BY <1>3, <1>12, <2>1, <2>4, <3>1
    <3> QED
      BY <2>2, <3>2
  <2>5. CASE tab'[t] # "leaving" /\ counts'[t] = "latest" /\ jar # None
    <3>1. deadline'[t] = jar.seconds - TIMEOUT_BUFFER
      BY <1>12, <2>5, CheckStep
    <3>2. COOKIE_AGE - Lag =< jar.seconds /\ jar.seconds \in Int
      BY <1>12, <2>5, Numbers DEF Long, Cookie, Seconds
    <3>3. session'.left \in Int /\ session'.left =< COOKIE_AGE
      BY <1>12, Ranges
    <3>4. Near(t)'
      BY <3>1, <3>2, <3>3, Numbers
    <3>5. Holds(t)'
      BY <3>4 DEF Holds
    <3> QED
      BY <2>2, <3>5
  <2> QED
    BY <2>3, <2>4, <2>5
<1>13. ASSUME NEW t \in Tabs, Arrive(t)
       PROVE  \A u \in Tabs : Holds(u)'
  <2>1. /\ request[t] # None /\ request[t].answer # "none" /\ session' = session
        /\ \A u \in Tabs \ {t} : Goes(u, 0, FALSE)
    BY <1>13, ArriveStep
  <2>2. CASE counts' = Missed
    <3>1. \A u \in Tabs : counts'[u] # "latest"
      BY <2>2 DEF Missed
    <3> QED
      BY <1>4, <3>1
  <2>3. CASE Takes(t) /\ counts' # Missed
    <3>1. cookie' # None
      BY <2>3 DEF Takes
    <3> QED
      BY <3>1 DEF Holds
  <2>4. CASE checkExpiry(t, SetCookie(t)) /\ request[t].answer # "401"
    <3>1. /\ SetCookie(t) \in Cookie \cup {None} /\ Long(SetCookie(t))
          /\ SetCookie(t) = None => cookie = None
      BY <2>1, <2>4, JarStep
    <3>2. SetCookie(t) = None => ~ Extended(t)
      <4>1. ASSUME Extended(t)
            PROVE  SetCookie(t) # None
        <5>1. request[t].of \in {"claimant", "nobody"} /\ request[t].answer # "400"
          BY <2>1, <4>1 DEF Extended, CookieInv, Brings
        <5>2. SetCookie(t) = [seconds |-> request[t].seconds, stale |-> request[t].of = "ended"]
          BY <5>1 DEF SetCookie
        <5>3. request[t].seconds \in Seconds
          BY <2>1 DEF TypeOK, Request
        <5>4. [seconds |-> request[t].seconds, stale |-> request[t].of = "ended"] \in Cookie
          <6>1. (request[t].of = "ended") \in BOOLEAN
            OBVIOUS
          <6> QED
            BY <5>3, <6>1 DEF Cookie
        <5> QED
          BY <5>2, <5>4, Numbers
      <4> QED
        BY <4>1
    <3>3. (\E u \in Tabs : Extended(u)) => SetCookie(t) # None \/ (\E u \in Tabs : Extended(u)')
      BY <1>6, <2>1, <3>2
    <3> QED
      BY <1>12, <2>1, <2>4, <3>1, <3>3
  <2> QED
    BY <1>13, <2>2, <2>3, <2>4, ArriveCases
<1>14. ASSUME NEW t \in Tabs, Interval(t)
       PROVE  \A u \in Tabs : Holds(u)'
  <2>1. cookie \in Cookie \cup {None} /\ Long(cookie) /\ checkExpiry(t, cookie)
        /\ session' = session /\ request' = request
    BY <1>14 DEF Interval, TypeOK, CookieInv, Long
  <2>2. (\E u \in Tabs : Extended(u)) => cookie # None \/ (\E u \in Tabs : Extended(u)')
    BY <2>1 DEF Extended
  <2> QED
    BY <1>12, <2>1, <2>2
<1> QED
  BY <1>7, <1>8, <1>9, <1>10, <1>11, <1>13, <1>14, Steps

-----------------------------------------------------------------------------
(* The theorem                                                                 *)

IInv ==
  /\ TypeOK /\ CacheInv /\ TabInv /\ CookieInv /\ ExtendedInv
  /\ UnreadInv /\ ZeroInv /\ CountdownInv /\ LatestInv

LEMMA InitInv == Init => IInv
<1> SUFFICES ASSUME Init PROVE IInv
  OBVIOUS
<1>1. TypeOK
  BY InitType
<1>2. /\ session.who = "none" /\ cookie = None
      /\ \A t \in Tabs : tab[t] = "away" /\ deadline[t] = None /\ request[t] = None
  BY DEF Init, Gone
<1> QED
  BY <1>1, <1>2 DEF IInv, CacheInv, TabInv, CookieInv, ExtendedInv, UnreadInv, ZeroInv,
                    CountdownInv, LatestInv, Unread, Counting, Extended

LEMMA NextInv == IInv /\ [Next]_vars => IInv'
BY NextType, CacheStep, TabStep, CookieStep, ExtendedStep, UnreadStep, ZeroStep, CountdownStep,
   LatestStep DEF IInv

LEMMA Promise == IInv => CountdownTracksSession
<1> SUFFICES ASSUME IInv, NEW t \in Tabs, Counting(t), counts[t] # "other"
             PROVE  /\ deadline[t] =< secondsKept + Overrun
                    /\ counts[t] = "latest" /\ cookie = None /\ Idle =>
                         session.left - TIMEOUT_BUFFER - Lag =< deadline[t]
  BY DEF CountdownTracksSession
<1>1. deadline[t] =< secondsKept + Overrun
  BY DEF IInv, CountdownInv
<1>2. ASSUME counts[t] = "latest", cookie = None, Idle
      PROVE  session.left - TIMEOUT_BUFFER - Lag =< deadline[t]
  BY <1>2 DEF IInv, LatestInv, Idle, Extended
<1> QED
  BY <1>1, <1>2

(* For any number of tabs and answers that take up to a quarter of a session:  *)
(* a countdown runs past the session the server keeps by no more than what     *)
(* three answers and a second take beyond the buffer (SessionManager.tsx:20,   *)
(* api/middleware/session.py), however the requests of the tabs, their answers *)
(* and their intervals interleave; and it ends no sooner than the buffer and   *)
(* an answer before it, once what was given out has been read.                 *)
THEOREM CountdownAlwaysTracksSession == Spec => []CountdownTracksSession
<1>1. Spec => []IInv
  BY InitInv, NextInv, PTL DEF Spec
<1>2. IInv => CountdownTracksSession
  BY Promise
<1> QED
  BY <1>1, <1>2, PTL

=============================================================================

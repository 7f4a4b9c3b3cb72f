---------------------------- MODULE SessionExpiry ----------------------------
(* The end of a session that is not used: the middleware that extends the      *)
(* session on every request to /api/ and answers with the seconds it has left  *)
(* (api/middleware/session.py), the countdown each tab of the browser derives  *)
(* from that cookie (SessionManager.tsx), and the logout at its end            *)
(* (home/views.py). A Tick is a second. Three bounds: an answer takes at most  *)
(* Lag seconds, a tab has one request under way at a time, and a claimant logs *)
(* in when the server has no session of hers and nothing is under way.         *)
EXTENDS Integers

CONSTANTS
  Tabs,             \* tabs of one browser: they share the cookies
  COOKIE_AGE,       \* SESSION_COOKIE_AGE
  TIMEOUT_BUFFER,   \* TIMOUT_BUFFER_SECONDS
  NOTIFY_UNDER,     \* NOTIFY_UNDER_MINUTES, in seconds
  Lag,              \* how long an answer takes at most
  None

Seconds == 0 .. COOKIE_AGE

Cookie == [seconds : Seconds, stale : BOOLEAN]

\* of: the session the request has loaded; "ended" when that is gone since.
Request == [kind : {"whoami", "save"}, age : 0 .. Lag, logout_url : BOOLEAN,
            of : {"claimant", "nobody", "none", "expired", "ended"},
            answer : {"none", "ok", "401", "400"}, seconds : Seconds]

ASSUME ExpiryAssumption ==
  /\ {COOKIE_AGE, TIMEOUT_BUFFER, NOTIFY_UNDER, Lag} \subseteq Nat
  \* Half an hour, against the 30 seconds after which gunicorn ends a request.
  /\ TIMEOUT_BUFFER + Lag < COOKIE_AGE
  /\ 4 * Lag + 1 < COOKIE_AGE
  /\ None \notin Int \cup Cookie \cup Request

VARIABLES
  session,   \* the session in the cache: whose it is, seconds until its expires_at
             \* (left, -1 when it is past) and until the cache drops it (kept), the pending logout_url
  cookie,    \* expires_at in the browser: seconds, and (history) whether they are
             \* of a session since ended, or lay there while no tab was open
  tab,       \* per tab: away, open, on its way to /logout/ (leaving), at login.gov (idp)
  deadline,  \* per tab: seconds until expiresAt.current
  shown,     \* per tab: secondsRemaining
  request,   \* per tab: the request under way
  due,       \* tabs whose interval has not fired in this second
  counts     \* history, per tab: its countdown is the last one given out ("latest"),
             \* a later one went elsewhere ("missed"), or it is of no session ("other")
vars == <<session, cookie, tab, deadline, shown, request, due, counts>>

Gone == [who |-> "none", left |-> 0, kept |-> 0, logout_url |-> FALSE]

TypeOK ==
  /\ session \in [who : {"claimant", "nobody", "none"}, kept : Seconds,
                  left : -1 .. COOKIE_AGE, logout_url : BOOLEAN]
  /\ cookie \in Cookie \cup {None}
  /\ tab \in [Tabs -> {"away", "open", "leaving", "idp"}]
  /\ deadline \in [Tabs -> Seconds \cup {None}]
  /\ shown \in [Tabs -> Seconds \cup {None}]
  /\ request \in [Tabs -> Request \cup {None}]
  /\ due \subseteq Tabs
  /\ counts \in [Tabs -> {"latest", "missed", "other"}]

IsOpen(t) == tab[t] = "open"
Counting(t) == IsOpen(t) /\ deadline[t] # None
isFetching(t) == request[t] # None /\ request[t].kind = "whoami"
ModalIsOpen(t) == IsOpen(t) /\ shown[t] # None /\ shown[t] =< NOTIFY_UNDER
Idle == \A t \in Tabs : request[t] = None

Missed == [t \in Tabs |-> IF counts[t] = "latest" THEN "missed" ELSE counts[t]]

-----------------------------------------------------------------------------
(* The countdown of a tab                                                      *)

(* Variant: the countdown runs to the end of the session, without the buffer.  *)
getSecondsLeft_unbuffered(jar) == IF jar = None THEN None ELSE jar.seconds

getSecondsLeft(jar) == IF jar = None THEN None ELSE jar.seconds - TIMEOUT_BUFFER

(* Zero counts as no cookie: the code tests the number.                        *)
expiresAt(t, jar) ==
  LET seconds == getSecondsLeft(jar)
  IN IF seconds \in {None, 0} THEN deadline[t]
     ELSE IF seconds < 0 THEN 0 ELSE seconds

(* Variant: what is shown is only brought up to date when there is a cookie.   *)
secondsRemaining_with_cookie(t, jar) ==
  IF jar = None THEN shown[t] ELSE expiresAt(t, jar)

secondsRemaining(t, jar) == expiresAt(t, jar)

Leave(t, to) ==
  /\ tab' = [tab EXCEPT ![t] = to]
  /\ deadline' = [deadline EXCEPT ![t] = None]
  /\ shown' = [shown EXCEPT ![t] = None]
  /\ due' = due \ {t}

(* Reading the cookie removes it, for every tab; the effect on                 *)
(* secondsRemaining logs out at zero.                                          *)
checkExpiry(t, jar) ==
  /\ cookie' = None
  /\ counts' = IF jar = None THEN counts
               ELSE [Missed EXCEPT ![t] = IF jar.stale THEN "other" ELSE "latest"]
  /\ IF secondsRemaining(t, jar) = 0
     THEN Leave(t, "leaving")
     ELSE /\ deadline' = [deadline EXCEPT ![t] = expiresAt(t, jar)]
          /\ shown' = [shown EXCEPT ![t] = secondsRemaining(t, jar)]
          /\ due' = due \ {t}
          /\ UNCHANGED tab

Interval(t) ==
  /\ IsOpen(t) /\ t \in due
  /\ checkExpiry(t, cookie)
  /\ UNCHANGED <<session, request>>

-----------------------------------------------------------------------------
(* A request, from the middleware's first line to the browser                  *)

(* The session's key is deleted: what has loaded it cannot store it any more.  *)
Ended == [t \in Tabs |->
            IF request[t] # None /\ request[t].of \in {"claimant", "nobody"}
            THEN [request[t] EXCEPT !.of = "ended"] ELSE request[t]]

SessionIsOver == session.who # "none" /\ session.left < 0

(* SessionTimeout before the handler: a session past its expires_at is         *)
(* flushed; any other is extended, also that of nobody. A fetch of whoami      *)
(* starts the tab's interval anew.                                             *)
Begin(t, kind) ==
  LET of == IF SessionIsOver THEN "expired" ELSE session.who
  IN /\ request[t] = None
     /\ request' = [IF SessionIsOver THEN Ended ELSE request EXCEPT ![t] =
          [kind |-> kind, age |-> 0, of |-> of, logout_url |-> session.logout_url,
           answer |-> "none", seconds |-> 0]]
     /\ session' = IF SessionIsOver THEN Gone ELSE session
     /\ due' = IF kind = "whoami" THEN due \ {t} ELSE due

(* expires_at was set as the request began, so what is left is less the time   *)
(* the handler took.                                                           *)
secondsLeft(t) == COOKIE_AGE - request[t].age

Store(t, who) ==
  session' = [who |-> who, left |-> secondsLeft(t), kept |-> COOKIE_AGE,
              logout_url |-> who = "claimant" /\ request[t].logout_url]

(* The handler is done and the session stored, all of it as it was loaded: the *)
(* handlers of a session without a claimant refuse, but the session is stored  *)
(* and extended. A session deleted meanwhile cannot be stored: 400.            *)
Answer(t) ==
  /\ request[t] # None /\ request[t].answer = "none"
  /\ LET of == request[t].of
         Reply(status, seconds) ==
           request' = [request EXCEPT
             ![t].answer = status, ![t].seconds = seconds,
             ![t].of = IF of = "none" THEN "nobody" ELSE of]
     IN \/ /\ of = "claimant"
           /\ Store(t, "claimant") /\ Reply("ok", secondsLeft(t))
        \/ /\ of \in {"nobody", "none"}
           /\ Store(t, "nobody") /\ Reply("401", secondsLeft(t))
        \/ /\ of = "expired"
           /\ Reply("401", 0) /\ UNCHANGED session
        \/ /\ of = "ended"
           /\ Reply("400", 0) /\ UNCHANGED session
  /\ UNCHANGED <<cookie, tab, deadline, shown, due, counts>>

(* The cookies once the answer is in: set, deleted, or left alone with a 400.  *)
SetCookie(t) ==
  LET r == request[t]
  IN IF r.answer = "400" THEN cookie
     ELSE IF r.of = "expired" THEN None
     ELSE [seconds |-> r.seconds, stale |-> r.of = "ended"]

(* A refused save is an error on the page; a refused whoami sends the tab to   *)
(* the login page, after the countdown has looked at the cookie.               *)
Arrive(t) ==
  /\ request[t] # None /\ request[t].answer # "none"
  /\ request' = [request EXCEPT ![t] = None]
  /\ \/ /\ IsOpen(t) /\ request[t].kind = "save"
        /\ cookie' = SetCookie(t)
        /\ counts' = IF cookie' = None THEN Missed ELSE counts
        /\ UNCHANGED <<tab, deadline, shown, due>>
     \/ /\ IsOpen(t) /\ isFetching(t) /\ request[t].answer # "401"
        /\ checkExpiry(t, SetCookie(t))
     \/ /\ IsOpen(t) /\ isFetching(t) /\ request[t].answer = "401"
        /\ Leave(t, "away")
        /\ cookie' = None
        /\ counts' = Missed
     \/ /\ ~IsOpen(t)
        /\ counts' = Missed
        /\ UNCHANGED <<cookie, tab, deadline, shown, due>>
  /\ UNCHANGED session

-----------------------------------------------------------------------------
(* The claimant                                                                *)

(* The login page is not under /api/: the session has no expires_at until the  *)
(* application's first request. Only login.gov leaves a logout_url.            *)
LogIn ==
  /\ session.who # "claimant" /\ Idle
  /\ \E url \in BOOLEAN :
       session' = [who |-> "claimant", left |-> COOKIE_AGE, kept |-> COOKIE_AGE,
                   logout_url |-> url]
  /\ cookie' = IF cookie = None THEN None ELSE [cookie EXCEPT !.stale = TRUE]
  /\ counts' = [t \in Tabs |-> "other"]
  /\ UNCHANGED <<tab, deadline, shown, request, due>>

OpenTab(t) ==
  /\ tab[t] = "away"
  /\ tab' = [tab EXCEPT ![t] = "open"]
  /\ Begin(t, "whoami")
  /\ UNCHANGED <<cookie, deadline, shown, counts>>

CloseTab(t) ==
  /\ tab[t] \in {"open", "idp"}
  /\ Leave(t, "away")
  /\ UNCHANGED <<session, cookie, request, counts>>

(* The modal covers the page, so behind it nothing is saved.                   *)
Save(t) ==
  /\ IsOpen(t) /\ ~ModalIsOpen(t)
  /\ Begin(t, "save")
  /\ UNCHANGED <<cookie, tab, deadline, shown, counts>>

(* The button of the modal, or a page that reads a stale whoami.               *)
StayLoggedIn(t) ==
  /\ IsOpen(t)
  /\ Begin(t, "whoami")
  /\ UNCHANGED <<cookie, tab, deadline, shown, counts>>

LogOut(t) ==
  /\ IsOpen(t) /\ ~(ModalIsOpen(t) /\ isFetching(t))
  /\ Leave(t, "leaving")
  /\ UNCHANGED <<session, cookie, request, counts>>

(* /logout/: the session goes, but one that has a logout_url goes on to        *)
(* login.gov first, and is only dropped when the browser is sent back.         *)
ServeLogout(t) ==
  /\ tab[t] = "leaving"
  /\ \/ /\ session.logout_url
        /\ session' = [session EXCEPT !.logout_url = FALSE, !.kept = COOKIE_AGE]
        /\ tab' = [tab EXCEPT ![t] = "idp"]
        /\ UNCHANGED <<cookie, request, counts>>
     \/ /\ ~session.logout_url
        /\ session' = Gone
        /\ tab' = [tab EXCEPT ![t] = "away"]
        /\ request' = Ended
        /\ cookie' = IF cookie = None THEN None ELSE [cookie EXCEPT !.stale = TRUE]
        /\ counts' = [u \in Tabs |-> "other"]
  /\ UNCHANGED <<deadline, shown, due>>

ReturnFromIdp(t) ==
  /\ tab[t] = "idp"
  /\ tab' = [tab EXCEPT ![t] = "leaving"]
  /\ UNCHANGED <<session, cookie, deadline, shown, request, due, counts>>

-----------------------------------------------------------------------------
(* A second passes                                                             *)

Less(seconds) == IF seconds \in {None, 0} THEN seconds ELSE seconds - 1

Tick ==
  /\ due = {}
  /\ \A t \in Tabs : request[t] # None => request[t].age < Lag
  /\ LET drops == session.kept = 0
         aged == [t \in Tabs |-> IF request[t] = None THEN None
                                 ELSE [request[t] EXCEPT !.age = @ + 1]]
     IN /\ session' = IF drops THEN Gone
                      ELSE [session EXCEPT !.left = IF @ < 0 THEN @ ELSE @ - 1, !.kept = @ - 1]
        /\ request' = [t \in Tabs |->
             IF request[t] = None THEN None
             ELSE IF drops /\ Ended[t] # request[t]
                  THEN [aged[t] EXCEPT !.of = "ended"] ELSE aged[t]]
  /\ deadline' = [t \in Tabs |-> Less(deadline[t])]
  /\ due' = {t \in Tabs : IsOpen(t)}
  /\ cookie' = IF cookie = None THEN None
               ELSE [cookie EXCEPT !.stale = @ \/ \A t \in Tabs : ~IsOpen(t)]
  /\ UNCHANGED <<tab, shown, counts>>

-----------------------------------------------------------------------------
Init ==
  /\ session = Gone
  /\ cookie = None
  /\ tab = [t \in Tabs |-> "away"]
  /\ deadline = [t \in Tabs |-> None]
  /\ shown = [t \in Tabs |-> None]
  /\ request = [t \in Tabs |-> None]
  /\ due = {}
  /\ counts = [t \in Tabs |-> "other"]

Next ==
  \/ LogIn
  \/ Tick
  \/ \E t \in Tabs :
       \/ OpenTab(t) \/ CloseTab(t) \/ Save(t) \/ StayLoggedIn(t) \/ LogOut(t)
       \/ Answer(t) \/ Arrive(t) \/ ServeLogout(t) \/ ReturnFromIdp(t)
       \/ Interval(t)

(* Time passes and setInterval fires. Nothing is assumed of the claimant.      *)
Fairness == WF_vars(Tick) /\ \A t \in Tabs : WF_vars(Interval(t))

Spec == Init /\ [][Next]_vars /\ Fairness

-----------------------------------------------------------------------------
(* How far two answers that overtake each other, and the time until a          *)
(* countdown reads the cookie, go beyond the buffer. That time is a second,    *)
(* and as long as fetches of whoami, each in another tab, put the intervals    *)
(* off; the first one's answer ends that.                                      *)
Overrun == IF TIMEOUT_BUFFER =< 3 * Lag THEN 3 * Lag + 1 - TIMEOUT_BUFFER ELSE 0

secondsKept == IF session.who = "none" THEN -1 ELSE session.left

(* A countdown promises no time the server will not give, but for what slow    *)
(* answers add to the buffer (with answers of a second there is nothing of the *)
(* kind, and while a countdown runs the server has a session). And it does not *)
(* cut a session short: once what was given out has been read, the countdown   *)
(* ends no sooner than the buffer, and the time two answers can be apart,      *)
(* before the session. Left out are countdowns of a session since ended, and,  *)
(* for the second half, those whose extension another tab has read and removed *)
(* (SessionManager.tsx:20) or that went to a tab that closed.                  *)
CountdownTracksSession ==
  \A t \in Tabs : Counting(t) /\ counts[t] # "other" =>
    /\ deadline[t] =< secondsKept + Overrun
    /\ counts[t] = "latest" /\ cookie = None /\ Idle =>
         session.left - TIMEOUT_BUFFER - Lag =< deadline[t]

(* Once every claimant leaves the application alone, no tab that has a         *)
(* countdown stays open: what it shows does not outlive the session. A tab     *)
(* that was never given a cookie stays.                                        *)
IdleTabsClose == <>[]Idle => <>[](\A t \in Tabs : ~Counting(t))
=============================================================================

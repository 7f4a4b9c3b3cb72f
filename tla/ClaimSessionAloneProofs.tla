----------------------- MODULE ClaimSessionAloneProofs -----------------------
(* Proofs about ClaimSession for a claimant with one session whose requests *)
(* follow one another; any number of claims, any drafts.                    *)
EXTENDS ClaimSessionProofs, FiniteSetTheorems

Alone == \E s, w : Sessions = {s} /\ Workers = {w}

(* A save that makes a claim does not fail halfway.                         *)
FirstSavesArrive == "first_put" \notin Faults

(* Her session, what the application shows and holds, the request under way. *)
Her == CHOOSE s \in Sessions : TRUE
Its == CHOOSE w \in Workers : TRUE

mine  == session[Her]
view  == shows[Her]
knows == known[Her]
req   == work[Its]

posts   == {"post_partial", "post_completed"}
cancels == {"cancel_draft", "cancel_filed"}

(* A save of a form without an id is under way.                             *)
makes == req.op = "post_partial" /\ req.claim \notin knows

(* The most recent claim that the finder would consider.                    *)
top(c) == \A other \in candidates : other <= c

Filed(c) == c \in candidates /\ is_completed(events[c])

(* A claim that holds nothing that she could miss.                          *)
lost(c) == overdue[c] \/ NoDraft \in latest[c] \/ ~open(c)

-----------------------------------------------------------------------------
(* The invariants.                                                          *)

LoadedInv == req.op # "none" => req.loaded = mine

(* What a request works on.                                                 *)
RequestInv ==
  /\ mine.claim # NoId => mine.claim \in knows
  /\ req.op \in {"get_partial", "bootstrap"} => view \in {"ready", "form"}
  /\ req.op = "bootstrap" =>
       mine.claim = NoId /\ candidates = {req.claim} /\ ~is_completed(events[req.claim])
  /\ req.op \in posts =>
       /\ view = "form"
       /\ req.claim \in knows \/ (makes /\ knows = {} /\ req.claim \in candidates)

(* Of the claims that the finder would consider, she is led to the latest.  *)
(* While a new claim is being made, the memo of an old one leads nowhere.   *)
Near(c) ==
  \/ c \in knows \/ c = mine.claim
  \/ c = mine.memo.id /\ ~makes
  \/ c = req.claim /\ req.op \in posts \cup {"get_partial", "bootstrap"}

NearestInv == \A c \in candidates : Near(c) => top(c)

(* While a claim is on file, she gets to no form without an id.             *)
FiledInv ==
  \A c \in Ids : Filed(c) =>
    /\ top(c)
    /\ view \in {"ready", "form"} => knows # {}
    /\ req.op = "get_completed" /\ mine.claim = NoId => req.claim = c

QueueInv == LoadedInv /\ RequestInv /\ NearestInv /\ FiledInv

-----------------------------------------------------------------------------
(* The steps, as one session and one worker see them.                       *)

LEMMA One ==
  ASSUME Alone
  PROVE  /\ Her \in Sessions /\ \A s \in Sessions : s = Her
         /\ Its \in Workers /\ \A w \in Workers : w = Its
BY DEF Alone, Her, Its

(* The types, in these terms.                                               *)
LEMMA MineType ==
  ASSUME Alone, TypeOK
  PROVE  /\ made \in Nat /\ made =< MaxClaims
         /\ mine.claim \in 0 .. made
         /\ mine.memo.id \in 0 .. made
         /\ mine.memo = NoMemo <=> mine.memo.id = NoId
         /\ mine \in Session
         /\ knows \subseteq 1 .. made
         /\ view \in {"closed", "loading", "ready", "form", "success"}
         /\ req.op \in Operation
         /\ req.claim \in 0 .. made
         /\ req.op \notin {"none", "get_completed"} => req.claim \in Ids
         /\ mine.claim # NoId => mine.claim \in Ids
         /\ mine.memo.id # NoId => mine.memo.id \in Ids
         /\ candidates \subseteq Ids
<1> USE One, SessionAssumption
<1>1. /\ made \in Nat /\ made =< MaxClaims
      /\ mine \in Session /\ knows \subseteq 1 .. made
      /\ view \in {"closed", "loading", "ready", "form", "success"}
      /\ req.op \in Operation /\ req.claim \in 0 .. made
      /\ req.op \notin {"none", "get_completed"} => req.claim # NoId
  BY DEF TypeOK, mine, view, knows, req
<1>2. mine.claim \in 0 .. made /\ mine.memo \in Memo
  BY <1>1 DEF Session
<1>3. mine.memo = NoMemo \/ mine.memo.id \in 1 .. made
  BY <1>2 DEF Memo
<1>4. NoMemo.id = NoId /\ NoId = 0
  BY DEF NoMemo, NoId
<1> QED
  BY <1>1, <1>2, <1>3, <1>4 DEF Ids, candidates

(* A request begins.                                                        *)
Asks(op, c) ==
  /\ req.op = "none"
  /\ req'.op = op /\ req'.claim = c /\ req'.loaded = mine
  /\ UNCHANGED <<mine, view, knows>>

LEMMA Begins ==
  ASSUME Alone, TypeOK, NEW w \in Workers, NEW s \in Sessions, NEW op, NEW c, NEW d,
         begin(w, s, op, c, d), UNCHANGED <<session, browser>>
  PROVE  Asks(op, c) /\ req'.text = d
<1>1. w = Its /\ s = Her /\ Its \in Workers
  BY One
<1> QED
  BY <1>1 DEF begin, TypeOK, Asks, req, mine, view, knows, browser

(* It ends.                                                                 *)
Ends(op, new, v, k) ==
  /\ req.op = op
  /\ req'.op = "none"
  /\ mine' = new /\ view' = v /\ knows' = k

LEMMA Answers ==
  ASSUME Alone, TypeOK, NEW w \in Workers, NEW new, answer(w, new), work[w].op # "none"
  PROVE  req'.op = "none" /\ mine' = new
<1>1. w = Its /\ Its \in Workers /\ work[w].s = Her /\ Her \in Sessions
  BY One DEF TypeOK
<1> QED
  BY <1>1 DEF answer, TypeOK, req, mine, Idle

(* What the finder returns, in these terms.                                 *)
Finds(c) ==
  IF mine.claim # NoId THEN c = mine.claim
  ELSE (c \in candidates /\ top(c)) \/ (c = NoId /\ candidates = {})

(* The steps of a request that begins.                                      *)
AsksCompleted(c) ==
  /\ Asks("get_completed", c)
  /\ view # "closed" /\ Finds(c)
  /\ UNCHANGED database

AsksPartial(c) ==
  /\ Asks("get_partial", c)
  /\ view \in {"ready", "form"} /\ Finds(c) /\ c # NoId
  /\ UNCHANGED database

AsksNew ==
  /\ Asks("bootstrap", made + 1)
  /\ view \in {"ready", "form"} /\ Finds(NoId)
  /\ made' = made + 1 /\ made' \in Ids
  /\ UNCHANGED <<events, overdue, draft, latest>>

Posts(op, c) ==
  /\ Asks(op, c)
  /\ op \in posts /\ view = "form" /\ c \in Ids
  /\ \/ c \in knows /\ UNCHANGED made
     \/ op = "post_partial" /\ knows = {} /\ c = made + 1 /\ made' = c
  /\ log(c, {"SUBMITTED"})
  /\ UNCHANGED <<overdue, draft, latest>>

AsksCancel(op, c) ==
  /\ Asks(op, c)
  /\ c \in 1 .. made
  /\ op = "cancel_draft" \/ (op = "cancel_filed" /\ is_completed(events[c]))
  /\ log(c, {"RESOLVED"})
  /\ UNCHANGED <<made, overdue, draft, latest>>

LEMMA FindsHer ==
  ASSUME Alone, NEW s \in Sessions, NEW c, finds(s, c)
  PROVE  Finds(c)
BY One DEF finds, Finds, mine, top

LEMMA RequestSteps ==
  ASSUME Alone, TypeOK, NEW w \in Workers, NEW s \in Sessions, Request(w, s)
  PROVE  \/ \E c \in 0 .. made : AsksCompleted(c) \/ AsksPartial(c)
         \/ AsksNew
         \/ \E c \in Ids, op \in posts : Posts(op, c)
         \/ \E c \in Ids, op \in cancels : AsksCancel(op, c)
<1>0. s = Her /\ shows[s] = view /\ known[s] = knows
  BY One DEF view, knows
<1>1. ASSUME NEW c \in 0 .. made, GET_completed_claim(w, s, c)
      PROVE  AsksCompleted(c)
  BY <1>0, <1>1, Begins, FindsHer DEF GET_completed_claim, AsksCompleted
<1>2. ASSUME NEW c \in 0 .. made, GET_partial_claim(w, s, c)
      PROVE  AsksPartial(c) \/ AsksNew
  <2>1. Finds(c) /\ view \in {"ready", "form"} /\ UNCHANGED <<events, overdue, draft, latest, session, browser>>
    BY <1>0, <1>2, FindsHer DEF GET_partial_claim
  <2>2. CASE c # NoId
    <3>1. begin(w, s, "get_partial", c, NoDraft) /\ UNCHANGED made
      BY <1>2, <2>2 DEF GET_partial_claim
    <3> QED
      BY <2>1, <2>2, <3>1, Begins DEF AsksPartial, database
  <2>3. CASE c = NoId
    <3>1. begin(w, s, "bootstrap", made + 1, Blank) /\ made < MaxClaims /\ made' = made + 1
      BY <1>2, <2>3 DEF GET_partial_claim
    <3>2. made' \in Ids
      BY <3>1, MineType, SessionAssumption DEF Ids
    <3> QED
      BY <2>1, <2>3, <3>1, <3>2, Begins DEF AsksNew
  <2> QED
    BY <2>2, <2>3
<1>3. ASSUME NEW c \in Ids, NEW op \in posts, NEW d, post(w, s, op, c, d)
      PROVE  Posts(op, c)
  BY <1>0, <1>3, Begins DEF post, Posts
<1>4. ASSUME NEW c \in Ids, NEW op \in cancels, cancel_claim(w, s, op, c)
      PROVE  AsksCancel(op, c)
  <2>1. op = "cancel_filed" => is_completed(events[c])
    BY <1>4 DEF cancel_claim, status_for_claimant
  <2>2. Asks(op, c)
    BY <1>0, <1>4, Begins DEF cancel_claim
  <2> QED
    BY <1>4, <2>1, <2>2 DEF cancel_claim, AsksCancel
<1> QED
  BY <1>1, <1>2, <1>3, <1>4 DEF Request, POST_partial_claim, POST_completed_claim, posts, cancels

(* The steps of a request that ends.                                        *)
TellsCompleted ==
  LET c == req.claim IN
  /\ \/ /\ Ends("get_completed", req.loaded, "success", knows)
        /\ c # NoId /\ is_completed(events[c]) /\ ~is_resolved(events[c])
     \/ /\ Ends("get_completed", req.loaded, IF view = "form" THEN "form" ELSE "ready", knows)
        /\ c # NoId => ~is_completed(events[c]) \/ is_resolved(events[c])
  /\ UNCHANGED database

TellsNothing ==
  /\ Ends("get_partial", req.loaded, "form", knows)
  /\ \/ due(req.claim)
     \/ ~due(req.claim) /\ req.loaded.memo = NoMemo /\ draft[req.claim] = NoDraft
  /\ UNCHANGED database

TellsMemo ==
  /\ Ends("get_partial", req.loaded, "form", knows \cup {req.loaded.memo.id})
  /\ ~due(req.claim) /\ req.loaded.memo # NoMemo
  /\ UNCHANGED database

TellsStored ==
  LET c == req.claim IN
  /\ Ends("get_partial", [req.loaded EXCEPT !.memo = [id |-> c, text |-> draft[c]]],
          "form", knows \cup {c})
  /\ ~due(c) /\ req.loaded.memo = NoMemo /\ draft[c] # NoDraft
  /\ UNCHANGED database

Bootstraps ==
  LET c == req.claim IN
  /\ Ends("bootstrap", [claim |-> c, memo |-> [id |-> c, text |-> Blank]], "form", knows \cup {c})
  /\ \/ /\ draft' = [draft EXCEPT ![c] = Blank]
        /\ latest' = [latest EXCEPT ![c] = {Blank}]
        /\ log(c, {"STORED"})
     \/ /\ latest' = [latest EXCEPT ![c] = {Blank, NoDraft}]
        /\ UNCHANGED <<draft, events>>
  /\ UNCHANGED <<made, overdue>>

Saves ==
  LET c == req.claim IN
  /\ Ends("post_partial", [claim |-> c, memo |-> [id |-> c, text |-> req.text]],
          view, knows \cup {c})
  /\ draft' = [draft EXCEPT ![c] = req.text]
  /\ latest' = [latest EXCEPT ![c] = {req.text}]
  /\ overdue' = [overdue EXCEPT ![c] = FALSE]
  /\ log(c, {"STORED"})
  /\ UNCHANGED made

Fails ==
  LET c == req.claim IN
  /\ \/ Ends("post_partial", mine, view, knows) /\ (FirstSavesArrive => c \in knows)
     \/ Ends("post_completed", mine, view, knows)
  /\ \/ /\ draft' = [draft EXCEPT ![c] = req.text]
        /\ latest' = [latest EXCEPT ![c] = @ \cup {req.text}]
     \/ UNCHANGED <<draft, latest>>
  /\ UNCHANGED <<made, events, overdue>>

Files ==
  LET c == req.claim IN
  /\ Ends("post_completed", [req.loaded EXCEPT !.claim = NoId], view, knows)
  /\ draft' = [draft EXCEPT ![c] = NoDraft]
  /\ overdue' = [overdue EXCEPT ![c] = FALSE]
  /\ log(c, {"COMPLETED", "STORED"})
  /\ UNCHANGED <<made, latest>>

Erases ==
  LET c == req.claim IN
  /\ \/ Ends("cancel_draft", NewSession, "loading", {})
     \/ Ends("cancel_filed", NewSession, view, knows)
  /\ draft' = [draft EXCEPT ![c] = NoDraft]
  /\ log(c, {}) \/ log(c, {"DELETED"})
  /\ UNCHANGED <<made, overdue, latest>>

LEMMA AnswerSteps ==
  ASSUME Alone, TypeOK, NEW w \in Workers, Answer(w)
  PROVE  \/ TellsCompleted \/ TellsNothing \/ TellsMemo \/ TellsStored
         \/ Bootstraps \/ Saves \/ Fails \/ Files \/ Erases
<1>0. /\ w = Its /\ work[w] = req /\ Her \in Sessions
      /\ work[w].op # "none" => work[w].s = Her
  BY One DEF req, TypeOK
<1>1. \A v, s : show(s, v) /\ s = Her => view' = v
  BY <1>0 DEF show, view, TypeOK
<1>2. \A c, s : learn(s, c) /\ s = Her => knows' = knows \cup {c}
  BY <1>0 DEF learn, knows, TypeOK
<1>3. known' = [known EXCEPT ![work[w].s] = {}] /\ req.op # "none" => knows' = {}
  BY <1>0 DEF knows, TypeOK
<1>4. /\ shows' = shows => view' = view
      /\ known' = known => knows' = knows
      /\ session' = session => mine' = mine
  BY DEF view, knows, mine
<1>5. \A new : answer(w, new) /\ req.op # "none" => req'.op = "none" /\ mine' = new
  BY <1>0, Answers
<1>6. answer_500(w) => req'.op = "none" /\ mine' = mine /\ view' = view /\ knows' = knows
  BY <1>0 DEF answer_500, browser, req, mine, view, knows, TypeOK, Idle
<1>7. CASE answer_completed(w)
  BY <1>0, <1>1, <1>4, <1>5, <1>7
     DEF answer_completed, serves, TellsCompleted, Ends, view
<1>8. CASE answer_overdue(w) \/ answer_unread(w)
  BY <1>0, <1>1, <1>4, <1>5, <1>8
     DEF answer_overdue, answer_unread, serves, TellsNothing, Ends
<1>9. CASE answer_memo(w)
  BY <1>0, <1>1, <1>2, <1>5, <1>9 DEF answer_memo, serves, TellsMemo, Ends
<1>10. CASE answer_stored(w)
  BY <1>0, <1>1, <1>2, <1>5, <1>10 DEF answer_stored, serves, TellsStored, Ends
<1>11. CASE bootstrap(w)
  BY <1>0, <1>1, <1>2, <1>5, <1>11 DEF bootstrap, serves, Bootstraps, Ends
<1>12. CASE save_partial(w)
  BY <1>0, <1>2, <1>4, <1>5, <1>12 DEF save_partial, serves, Saves, Ends
<1>13. CASE save_partial_error(w) \/ write_completed_error(w)
  <2>1. CASE save_partial_error(w)
    <3>1. FirstSavesArrive => req.claim \in knows
      BY <1>0, <2>1 DEF save_partial_error, serves, FirstSavesArrive, knows
    <3> QED
      BY <1>0, <1>6, <2>1, <3>1 DEF save_partial_error, serves, Fails, Ends
  <2>2. CASE write_completed_error(w)
    BY <1>0, <1>6, <2>2 DEF write_completed_error, serves, Fails, Ends, database
  <2> QED
    BY <1>13, <2>1, <2>2
<1>14. CASE write_completed(w)
  BY <1>0, <1>4, <1>5, <1>14 DEF write_completed, serves, Files, Ends, browser
<1>15. CASE delete_artifacts(w)
  <2>1. CASE serves(w, "cancel_draft")
    BY <1>0, <1>1, <1>3, <1>5, <1>15, <2>1 DEF delete_artifacts, serves, Erases, Ends
  <2>2. CASE serves(w, "cancel_filed")
    BY <1>0, <1>4, <1>5, <1>15, <2>2 DEF delete_artifacts, serves, Erases, Ends, browser
  <2> QED
    BY <1>15, <2>1, <2>2 DEF delete_artifacts
<1> QED
  BY <1>7, <1>8, <1>9, <1>10, <1>11, <1>12, <1>13, <1>14, <1>15 DEF Answer

(* The steps without a request.                                             *)
Opens ==
  /\ req.op = "none"
  /\ view' = "loading" /\ knows' = {mine.claim} \cap Ids
  /\ UNCHANGED <<database, mine, req>>

Leaves ==
  /\ req.op = "none"
  /\ view' = "closed" /\ knows' = {} /\ mine' = NewSession
  /\ UNCHANGED <<database, req>>

(* Others: the agency, the job, time.                                       *)
Elsewhere(c) == swa(c) \/ Age(c) \/ expire(c)

LEMMA BrowserSteps ==
  ASSUME Alone, TypeOK, NEW s \in Sessions, GET_whoami(s) \/ logout(s)
  PROVE  Opens \/ Leaves
<1>1. s = Her /\ Its \in Workers
  BY One
<1>2. Quiet(s) => req.op = "none"
  BY <1>1, One DEF Quiet, TypeOK, req
<1>3. CASE GET_whoami(s)
  BY <1>1, <1>2, <1>3 DEF GET_whoami, show, Opens, view, knows, mine, req, TypeOK
<1>4. CASE logout(s)
  BY <1>1, <1>2, <1>4 DEF logout, show, Leaves, view, knows, mine, req, TypeOK
<1> QED
  BY <1>3, <1>4

LEMMA Steps ==
  ASSUME Alone, TypeOK, Next
  PROVE  \/ \E c \in 0 .. made : AsksCompleted(c) \/ AsksPartial(c)
         \/ AsksNew
         \/ \E c \in Ids, op \in posts : Posts(op, c)
         \/ \E c \in Ids, op \in cancels : AsksCancel(op, c)
         \/ TellsCompleted \/ TellsNothing \/ TellsMemo \/ TellsStored
         \/ Bootstraps \/ Saves \/ Fails \/ Files \/ Erases
         \/ Opens \/ Leaves
         \/ \E c \in Ids : Elsewhere(c) /\ UNCHANGED <<mine, view, knows, req>>
<1>1. ASSUME NEW c \in Ids, Elsewhere(c)
      PROVE  UNCHANGED <<mine, view, knows, req>>
  BY <1>1 DEF Elsewhere, swa, Age, expire, browser, mine, view, knows, req
<1> QED
  BY <1>1, RequestSteps, AnswerSteps, BrowserSteps DEF Next, Elsewhere

-----------------------------------------------------------------------------
(* What the steps do to the finder's candidates.                            *)

LEMMA SameCandidates ==
  ASSUME UNCHANGED <<made, events>>
  PROVE  /\ candidates' = candidates
         /\ \A c : (top(c)' <=> top(c)) /\ (Filed(c)' <=> Filed(c))
BY DEF candidates, top, Filed

LEMMA Logged ==
  ASSUME TypeOK, NEW c \in 1 .. made, NEW k \in SUBSET Category, log(c, k), UNCHANGED made
  PROVE  /\ k \cap {"FETCHED", "RESOLVED"} = {} => candidates' = candidates
         /\ k \cap {"FETCHED", "RESOLVED"} # {} => candidates' = candidates \ {c}
         /\ \A e \in Ids : e # c => events'[e] = events[e]
         /\ events'[c] = events[c] \cup k
<1>1. c \in Ids
  BY SessionAssumption DEF TypeOK, Ids
<1>2. /\ \A e \in Ids : e # c => events'[e] = events[e]
      /\ events'[c] = events[c] \cup k
  BY <1>1 DEF log, TypeOK
<1>3. 1 .. made \subseteq Ids
  BY SessionAssumption DEF TypeOK, Ids
<1> QED
  BY <1>2, <1>3 DEF candidates

(* A new claim is the latest candidate.                                     *)
LEMMA NewCandidate ==
  ASSUME TypeOK, NEW c \in Ids, c = made + 1, made' = c,
         events' = events \/ log(c, {"SUBMITTED"})
  PROVE  /\ candidates' = candidates \cup {c}
         /\ c \notin candidates
         /\ top(c)'
         /\ \A e \in Ids : Filed(e)' => Filed(e)
<1>1. made \in Nat /\ c > made /\ events[c] = {}
  BY DEF TypeOK, Ids
<1>2. /\ \A e \in Ids : e # c => events'[e] = events[e]
      /\ events'[c] \subseteq {"SUBMITTED"}
  BY <1>1 DEF log, TypeOK
<1>3. 1 .. made' \subseteq Ids /\ 1 .. made' = 1 .. made \cup {c}
  BY <1>1, SessionAssumption DEF Ids
<1>4. c \notin candidates
  BY <1>1 DEF candidates
<1>5. candidates' = candidates \cup {c}
  BY <1>2, <1>3 DEF candidates
<1>6. top(c)'
  BY <1>1, <1>5 DEF top, candidates
<1>7. \A e \in Ids : Filed(e)' => Filed(e)
  BY <1>2, <1>5 DEF Filed, is_completed
<1> QED
  BY <1>4, <1>5, <1>6, <1>7

(* The others take filed claims away and log nothing that files one.        *)
LEMMA ElsewhereFacts ==
  ASSUME Alone, TypeOK, NEW c \in Ids, Elsewhere(c)
  PROVE  /\ made' = made
         /\ \/ candidates' = candidates
            \/ Filed(c) /\ candidates' = candidates \ {c}
         /\ \A e \in Ids : is_completed(events'[e]) <=> is_completed(events[e])
         /\ \A e \in Ids : Filed(e)' => Filed(e)
<1>1. CASE Age(c)
  BY <1>1, SameCandidates DEF Age
<1>2. CASE swa(c) \/ expire(c)
  <2>1. /\ made' = made
        /\ c \in 1 .. made
        /\ \E k \in {"FETCHED", "RESOLVED", "DELETED"} :
             log(c, {k}) /\ (k = "DELETED" \/ is_completed(events[c]))
    BY <1>2 DEF swa, expire, ExpiredPartial, TypeOK, Ids
  <2>2. PICK k \in {"FETCHED", "RESOLVED", "DELETED"} :
          log(c, {k}) /\ (k = "DELETED" \/ is_completed(events[c]))
    BY <2>1
  <2>3. /\ {k} \cap {"FETCHED", "RESOLVED"} = {} => candidates' = candidates
        /\ {k} \cap {"FETCHED", "RESOLVED"} # {} => candidates' = candidates \ {c}
        /\ \A e \in Ids : e # c => events'[e] = events[e]
        /\ events'[c] = events[c] \cup {k}
    BY <2>1, <2>2, Logged DEF Category
  <2>4. \A e \in Ids : is_completed(events'[e]) <=> is_completed(events[e])
    BY <2>2, <2>3 DEF is_completed
  <2>5. \A e \in Ids : Filed(e)' => Filed(e)
    BY <2>3, <2>4 DEF Filed
  <2>6. candidates' = candidates \/ (Filed(c) /\ candidates' = candidates \ {c})
    BY <2>2, <2>3 DEF Filed
  <2> QED
    BY <2>1, <2>4, <2>5, <2>6
<1> QED
  BY <1>1, <1>2 DEF Elsewhere

-----------------------------------------------------------------------------
(* Every step keeps her to one claim.                                       *)

LEMMA QueueElsewhere ==
  ASSUME Alone, TypeOK, QueueInv, NEW c \in Ids, Elsewhere(c),
         UNCHANGED <<mine, view, knows, req>>
  PROVE  QueueInv'
<1>1. /\ candidates' = candidates \/ (Filed(c) /\ candidates' = candidates \ {c})
      /\ \A e \in Ids : is_completed(events'[e]) <=> is_completed(events[e])
      /\ \A e \in Ids : Filed(e)' => Filed(e)
  BY ElsewhereFacts
<1>2. candidates' \subseteq candidates /\ \A e : top(e) => top(e)'
  BY <1>1 DEF top
<1>3. makes' <=> makes
  BY DEF makes
<1>4. RequestInv'
  <2>1. req.op \in posts /\ knows = {} => candidates' = candidates
    BY <1>1 DEF QueueInv, RequestInv, FiledInv
  <2>2. req.op = "bootstrap" => candidates' = candidates /\ req.claim \in Ids
    BY <1>1, MineType DEF QueueInv, RequestInv, Filed
  <2> QED
    BY <1>1, <1>3, <2>1, <2>2 DEF QueueInv, RequestInv
<1>5. NearestInv'
  BY <1>2, <1>3 DEF QueueInv, NearestInv, Near
<1>6. FiledInv'
  BY <1>1, <1>2 DEF QueueInv, FiledInv
<1>7. LoadedInv'
  BY DEF QueueInv, LoadedInv
<1> QED
  BY <1>4, <1>5, <1>6, <1>7 DEF QueueInv

(* Requests that ask.                                                       *)
LEMMA QueueAsks ==
  ASSUME Alone, TypeOK, QueueInv, NEW c \in 0 .. made, AsksCompleted(c) \/ AsksPartial(c)
  PROVE  QueueInv'
<1>0. /\ req.op = "none" /\ req'.claim = c /\ req'.loaded = mine
      /\ UNCHANGED <<made, events, mine, view, knows>>
      /\ Finds(c)
      /\ req'.op \in {"get_completed", "get_partial"}
      /\ req'.op = "get_partial" => view \in {"ready", "form"} /\ c # NoId
  BY DEF AsksCompleted, AsksPartial, Asks, database
<1>1. candidates' = candidates /\ \A e : (top(e)' <=> top(e)) /\ (Filed(e)' <=> Filed(e))
  BY <1>0, SameCandidates
<1>2. /\ c \in candidates => mine.claim = c \/ top(c)
      /\ mine.claim = NoId /\ c # NoId => c \in candidates /\ top(c)
  BY <1>0, MineType DEF Finds, Ids, NoId
<1>3. LoadedInv' /\ RequestInv'
  BY <1>0 DEF QueueInv, LoadedInv, RequestInv, posts
<1>4. NearestInv'
  BY <1>0, <1>1, <1>2 DEF QueueInv, NearestInv, Near, posts, makes
<1>5. FiledInv'
  <2>1. ASSUME NEW e \in Ids, Filed(e), mine.claim = NoId
        PROVE  c = e
    <3>1. top(e) /\ e \in candidates
      BY <2>1 DEF QueueInv, FiledInv, Filed
    <3>2. c \in candidates /\ top(c)
      BY <1>0, <2>1, <3>1 DEF Finds
    <3>3. c =< e /\ e =< c /\ c \in Nat /\ e \in Nat
      BY <3>1, <3>2 DEF top, Ids
    <3> QED
      BY <3>3
  <2> QED
    BY <1>0, <1>1, <2>1 DEF QueueInv, FiledInv
<1> QED
  BY <1>3, <1>4, <1>5 DEF QueueInv

(* Requests that make a claim, or work on one that the form holds.          *)
LEMMA QueueNew ==
  ASSUME Alone, TypeOK, QueueInv, AsksNew
  PROVE  QueueInv'
<1> SUFFICES ASSUME NEW c, c = made + 1 PROVE QueueInv'
  OBVIOUS
<1>0. /\ req.op = "none" /\ req'.op = "bootstrap" /\ req'.claim = c /\ req'.loaded = mine
      /\ made' = c /\ c \in Ids
      /\ UNCHANGED <<events, mine, view, knows>>
      /\ view \in {"ready", "form"}
      /\ Finds(NoId)
  BY DEF AsksNew, Asks
<1>1. candidates' = candidates \cup {c} /\ top(c)' /\ \A e \in Ids : Filed(e)' => Filed(e)
  BY <1>0, NewCandidate
<1>2. mine.claim = NoId /\ candidates = {}
  BY <1>0, MineType DEF Finds, Ids, NoId
<1>3. ~ is_completed(events[c])
  <2>1. events[c] = {}
    BY <1>0, MineType DEF TypeOK
  <2> QED
    BY <2>1 DEF is_completed
<1>4. LoadedInv' /\ RequestInv'
  BY <1>0, <1>1, <1>2, <1>3 DEF LoadedInv, RequestInv, posts
<1>5. NearestInv'
  BY <1>1, <1>2 DEF NearestInv
<1>6. FiledInv'
  BY <1>0, <1>1, <1>2 DEF FiledInv, Filed
<1> QED
  BY <1>4, <1>5, <1>6 DEF QueueInv

LEMMA QueuePosts ==
  ASSUME Alone, TypeOK, QueueInv, NEW c \in Ids, NEW op \in posts, Posts(op, c)
  PROVE  QueueInv'
<1>0. /\ req.op = "none" /\ req'.op = op /\ req'.claim = c /\ req'.loaded = mine
      /\ UNCHANGED <<mine, view, knows>>
      /\ view = "form"
      /\ \/ c \in knows /\ UNCHANGED made
         \/ op = "post_partial" /\ knows = {} /\ c = made + 1 /\ made' = c
      /\ log(c, {"SUBMITTED"})
  BY DEF Posts, Asks
<1>1. LoadedInv'
  BY <1>0 DEF LoadedInv
<1>2. CASE c \in knows /\ UNCHANGED made
  <2>1. /\ c \in 1 .. made
        /\ candidates' = candidates
        /\ \A e \in Ids : e # c => events'[e] = events[e]
        /\ events'[c] = events[c] \cup {"SUBMITTED"}
    BY <1>0, <1>2, MineType, Logged DEF Category
  <2>2. \A e : top(e)' <=> top(e)
    BY <2>1 DEF top
  <2>3. \A e \in Ids : Filed(e)' => Filed(e)
    BY <2>1 DEF Filed, is_completed
  <2>4. RequestInv'
    BY <1>0, <1>2 DEF QueueInv, RequestInv, posts
  <2>5. NearestInv'
    BY <1>0, <1>2, <2>1, <2>2 DEF QueueInv, NearestInv, Near, makes
  <2>6. FiledInv'
    BY <1>0, <2>2, <2>3 DEF QueueInv, FiledInv, posts
  <2> QED
    BY <1>1, <2>4, <2>5, <2>6 DEF QueueInv
<1>3. CASE op = "post_partial" /\ knows = {} /\ c = made + 1 /\ made' = c
  <2>1. candidates' = candidates \cup {c} /\ top(c)' /\ \A e \in Ids : Filed(e)' => Filed(e)
    BY <1>0, <1>3, NewCandidate
  <2>2. makes' /\ mine.claim = NoId
    BY <1>0, <1>3 DEF makes, QueueInv, RequestInv
  <2>3. RequestInv'
    BY <1>0, <1>3, <2>1, <2>2 DEF RequestInv, posts
  <2>4. candidates \subseteq Ids /\ NoId \notin Ids
    BY MineType DEF Ids, NoId
  <2>5. NearestInv'
    BY <1>0, <1>3, <2>1, <2>2, <2>4 DEF NearestInv, Near
  <2>6. FiledInv'
    BY <1>0, <1>3, <2>1 DEF QueueInv, FiledInv
  <2> QED
    BY <1>1, <2>3, <2>5, <2>6 DEF QueueInv
<1> QED
  BY <1>0, <1>2, <1>3

(* A cancelled claim is no candidate.                                       *)
LEMMA QueueCancel ==
  ASSUME Alone, TypeOK, QueueInv, NEW c \in Ids, NEW op \in cancels, AsksCancel(op, c)
  PROVE  QueueInv'
<1>0. /\ req.op = "none" /\ req'.op \in cancels /\ req'.loaded = mine
      /\ UNCHANGED <<made, mine, view, knows>>
      /\ c \in 1 .. made /\ log(c, {"RESOLVED"})
  BY DEF AsksCancel, Asks
<1>1. /\ candidates' = candidates \ {c}
      /\ \A e \in Ids : e # c => events'[e] = events[e]
      /\ events'[c] = events[c] \cup {"RESOLVED"}
  BY <1>0, Logged DEF Category
<1>2. \A e : top(e) => top(e)'
  BY <1>1 DEF top
<1>3. \A e \in Ids : Filed(e)' => Filed(e)
  BY <1>1 DEF Filed, is_completed
<1>4. LoadedInv' /\ RequestInv'
  BY <1>0 DEF QueueInv, LoadedInv, RequestInv, posts, cancels
<1>5. NearestInv'
  BY <1>0, <1>1, <1>2 DEF QueueInv, NearestInv, Near, posts, cancels, makes
<1>6. FiledInv'
  BY <1>0, <1>2, <1>3 DEF QueueInv, FiledInv, cancels
<1> QED
  BY <1>4, <1>5, <1>6 DEF QueueInv

(* Answers that leave the claims alone.                                     *)
LEMMA QueueTells ==
  ASSUME Alone, TypeOK, QueueInv,
         TellsCompleted \/ TellsNothing \/ TellsMemo \/ TellsStored
  PROVE  QueueInv'
<1> DEFINE c == req.claim
<1>0. /\ req'.op = "none" /\ UNCHANGED database
      /\ req.op \in {"get_completed", "get_partial"}
  BY DEF TellsCompleted, TellsNothing, TellsMemo, TellsStored, Ends
<1>1. req.loaded = mine
  BY <1>0 DEF QueueInv, LoadedInv
<1>2. /\ candidates' = candidates
      /\ \A e : (top(e)' <=> top(e)) /\ (Filed(e)' <=> Filed(e))
  BY <1>0, SameCandidates DEF database
<1>3. LoadedInv' /\ ~ makes /\ ~ makes'
  BY <1>0 DEF LoadedInv, makes
<1>4. ASSUME mine'.claim = mine.claim, knows \subseteq knows',
             \A e \in candidates : Near(e)' => Near(e)
      PROVE  RequestInv' /\ NearestInv'
  BY <1>0, <1>2, <1>4 DEF QueueInv, RequestInv, NearestInv, posts
<1>5. CASE TellsCompleted
  <2>1. mine' = mine /\ knows' = knows
    BY <1>1, <1>5 DEF TellsCompleted, Ends
  <2>2. \A e \in candidates : Near(e)' => Near(e)
    BY <1>0, <1>3, <2>1 DEF Near, posts
  <2>3. FiledInv'
    <3>1. ASSUME NEW e \in Ids, Filed(e), knows = {}
          PROVE  view' = "success"
      <4>1. view' # "form"
        BY <1>5, <3>1 DEF QueueInv, FiledInv, TellsCompleted, Ends
      <4>2. mine.claim = NoId /\ req.op = "get_completed"
        BY <1>5, <3>1 DEF QueueInv, RequestInv, TellsCompleted, Ends
      <4>3. c = e
        BY <3>1, <4>2 DEF QueueInv, FiledInv
      <4>4. is_completed(events[c]) /\ ~ is_resolved(events[c]) /\ c # NoId
        BY <3>1, <4>3 DEF Filed, candidates, is_resolved, Ids, NoId
      <4> QED
        BY <1>5, <4>4 DEF TellsCompleted, Ends
    <3> QED
      BY <1>0, <1>2, <2>1, <3>1 DEF QueueInv, FiledInv
  <2> QED
    BY <1>3, <1>4, <2>1, <2>2, <2>3 DEF QueueInv
<1>6. ASSUME req.op = "get_partial", knows \subseteq knows' PROVE FiledInv'
  BY <1>0, <1>2, <1>6 DEF QueueInv, FiledInv, RequestInv
<1>7. CASE TellsNothing \/ TellsMemo
  <2>1. mine' = mine /\ req.op = "get_partial"
        /\ (knows' = knows \/ knows' = knows \cup {mine.memo.id})
    BY <1>1, <1>7 DEF TellsNothing, TellsMemo, Ends
  <2>2. \A e \in candidates : Near(e)' => Near(e)
    BY <1>0, <1>3, <2>1 DEF Near, posts
  <2> QED
    BY <1>3, <1>4, <1>6, <2>1, <2>2 DEF QueueInv
<1>8. CASE TellsStored
  <2>1. /\ mine' = [mine EXCEPT !.memo = [id |-> c, text |-> draft[c]]]
        /\ knows' = knows \cup {c} /\ req.op = "get_partial"
    BY <1>1, <1>8 DEF TellsStored, Ends
  <2>2. mine'.claim = mine.claim /\ mine'.memo.id = c
    BY <2>1, MineType DEF Session
  <2>3. \A e \in candidates : Near(e)' => Near(e)
    BY <1>0, <2>1, <2>2 DEF Near, posts
  <2> QED
    BY <1>3, <1>4, <1>6, <2>1, <2>2, <2>3 DEF QueueInv
<1> QED
  BY <1>5, <1>7, <1>8

(* What a write does to the claims.                                         *)
LEMMA Written ==
  ASSUME Alone, TypeOK, Bootstraps \/ Saves \/ Fails \/ Files \/ Erases
  PROVE  /\ req'.op = "none" /\ req.claim \in Ids
         /\ candidates' = candidates /\ made' = made
         /\ \A e : top(e)' <=> top(e)
         /\ \A e \in Ids : Filed(e)' => Filed(e) \/ (Files /\ e = req.claim)
<1> DEFINE c == req.claim
<1>1. req'.op = "none" /\ c \in Ids /\ c \in 1 .. made /\ made' = made
  BY MineType DEF Bootstraps, Saves, Fails, Files, Erases, Ends, Ids
<1>2. events' = events \/ \E k \in SUBSET {"STORED", "COMPLETED", "DELETED"} :
                             log(c, k) /\ ("COMPLETED" \in k => Files)
  <2>1. CASE Bootstraps \/ Saves
    BY <2>1 DEF Bootstraps, Saves
  <2>2. CASE Fails
    BY <2>2 DEF Fails
  <2>3. CASE Files
    BY <2>3 DEF Files
  <2>4. CASE Erases
    BY <2>4 DEF Erases
  <2> QED
    BY <2>1, <2>2, <2>3, <2>4
<1>3. CASE events' = events
  BY <1>1, <1>3, SameCandidates
<1>4. ASSUME NEW k \in SUBSET {"STORED", "COMPLETED", "DELETED"}, log(c, k),
             "COMPLETED" \in k => Files
      PROVE  /\ candidates' = candidates
             /\ \A e : top(e)' <=> top(e)
             /\ \A e \in Ids : Filed(e)' => Filed(e) \/ (Files /\ e = c)
  <2>1. /\ candidates' = candidates
        /\ \A e \in Ids : e # c => events'[e] = events[e]
        /\ events'[c] = events[c] \cup k
    BY <1>1, <1>4, Logged DEF Category
  <2>2. \A e : top(e)' <=> top(e)
    BY <2>1 DEF top
  <2>3. \A e \in Ids : Filed(e)' => Filed(e) \/ (Files /\ e = c)
    BY <1>4, <2>1 DEF Filed, is_completed
  <2> QED
    BY <2>1, <2>2, <2>3
<1> QED
  BY <1>1, <1>2, <1>3, <1>4

(* Answers that write.                                                      *)
LEMMA QueueWrites ==
  ASSUME Alone, FirstSavesArrive, TypeOK, QueueInv,
         Bootstraps \/ Saves \/ Fails \/ Files \/ Erases
  PROVE  QueueInv'
<1> SUFFICES ASSUME NEW c, c = req.claim PROVE QueueInv'
  OBVIOUS
<1>1. /\ req'.op = "none" /\ c \in Ids /\ c # NoId
      /\ candidates' = candidates
      /\ \A e : top(e)' <=> top(e)
      /\ \A e \in Ids : Filed(e)' => Filed(e) \/ (Files /\ e = c)
  BY Written DEF Ids, NoId
<1>2. LoadedInv' /\ ~ makes'
  BY <1>1 DEF LoadedInv, makes
<1>3. req.op # "none" => req.loaded = mine
  BY DEF QueueInv, LoadedInv
<1>4. ASSUME mine'.claim # NoId => mine'.claim \in knows',
             \A e \in candidates : Near(e)' => Near(e)
      PROVE  RequestInv' /\ NearestInv'
  BY <1>1, <1>4 DEF QueueInv, RequestInv, NearestInv, posts
<1>5. CASE Bootstraps \/ Saves
  <2>1. /\ mine'.claim = c /\ mine'.memo.id = c /\ knows' = knows \cup {c}
        /\ req.op \in {"bootstrap", "post_partial"}
    BY <1>5 DEF Bootstraps, Saves, Ends
  <2>2. \A e \in candidates : Near(e)' => Near(e)
    BY <1>1, <2>1 DEF Near, posts
  <2>3. ~ Files
    BY <2>1 DEF Files, Ends
  <2>4. FiledInv'
    BY <1>1, <2>1, <2>3 DEF QueueInv, FiledInv
  <2> QED
    BY <1>2, <1>4, <2>1, <2>2, <2>4 DEF QueueInv
<1>6. CASE Fails
  <2>1. UNCHANGED <<mine, view, knows>> /\ ~ makes
    BY <1>6 DEF Fails, Ends, makes
  <2>2. \A e \in candidates : Near(e)' => Near(e)
    BY <1>1, <2>1 DEF Near, posts
  <2>3. \A e \in Ids : Filed(e)' => Filed(e)
    BY <1>6, SameCandidates DEF Fails
  <2>4. FiledInv'
    BY <1>1, <2>1, <2>3 DEF QueueInv, FiledInv
  <2> QED
    BY <1>2, <1>4, <2>1, <2>2, <2>4 DEF QueueInv, RequestInv
<1>7. CASE Files
  <2>1. /\ req.op = "post_completed" /\ UNCHANGED <<view, knows>> /\ ~ makes
        /\ mine' = [mine EXCEPT !.claim = NoId]
    BY <1>3, <1>7 DEF Files, Ends, makes
  <2>2. mine'.claim = NoId /\ mine'.memo.id = mine.memo.id
    BY <2>1, MineType DEF Session
  <2>3. candidates \subseteq Ids /\ NoId \notin Ids
    BY MineType DEF Ids, NoId
  <2>4. \A e \in candidates : Near(e)' => Near(e)
    BY <1>1, <2>1, <2>2, <2>3 DEF Near, posts
  <2>5. FiledInv'
    <3>1. c \in knows
      BY <2>1 DEF QueueInv, RequestInv, posts
    <3>2. c \in candidates => top(c)
      BY <2>1 DEF QueueInv, NearestInv, Near, posts
    <3>3. ASSUME NEW e \in Ids, Filed(e)'
          PROVE  top(e)'
      BY <1>1, <3>2, <3>3 DEF QueueInv, FiledInv, Filed
    <3> QED
      BY <1>1, <2>1, <3>1, <3>3 DEF FiledInv
  <2> QED
    BY <1>2, <1>4, <2>2, <2>4, <2>5 DEF QueueInv
<1>8. CASE Erases
  <2>1. /\ req.op \in cancels /\ mine' = NewSession
        /\ knows' \subseteq knows
        /\ view' = "loading" \/ (view' = view /\ knows' = knows)
    BY <1>8 DEF Erases, Ends, cancels
  <2>2. mine'.claim = NoId /\ mine'.memo.id = NoId
    BY <2>1 DEF NewSession, NoMemo
  <2>3. candidates \subseteq Ids /\ NoId \notin Ids
    BY MineType DEF Ids, NoId
  <2>4. \A e \in candidates : Near(e)' => Near(e)
    BY <1>1, <2>1, <2>2, <2>3 DEF Near, posts
  <2>5. ~ Files
    BY <2>1 DEF Files, Ends, cancels
  <2>6. FiledInv'
    BY <1>1, <2>1, <2>5 DEF QueueInv, FiledInv
  <2> QED
    BY <1>2, <1>4, <2>2, <2>4, <2>6 DEF QueueInv
<1> QED
  BY <1>5, <1>6, <1>7, <1>8

(* The application is opened, or she logs out.                              *)
LEMMA QueueOpens ==
  ASSUME Alone, TypeOK, QueueInv, Opens \/ Leaves
  PROVE  QueueInv'
<1>1. req.op = "none" /\ req' = req /\ UNCHANGED database
  BY DEF Opens, Leaves
<1>2. /\ candidates' = candidates
      /\ \A e : (top(e)' <=> top(e)) /\ (Filed(e)' <=> Filed(e))
  BY <1>1, SameCandidates DEF database
<1>3. candidates \subseteq Ids /\ NoId \notin Ids /\ mine.claim # NoId => mine.claim \in Ids
  BY MineType DEF Ids, NoId
<1>4. /\ view' \in {"loading", "closed"}
      /\ mine'.claim \in {mine.claim, NoId} /\ mine'.memo.id \in {mine.memo.id, NoId}
      /\ knows' \subseteq {mine.claim}
      /\ mine'.claim # NoId => mine'.claim \in knows'
  BY MineType DEF Opens, Leaves, NewSession, NoMemo
<1>5. LoadedInv' /\ RequestInv'
  BY <1>1, <1>4 DEF LoadedInv, RequestInv, posts
<1>6. \A e \in candidates : Near(e)' => Near(e)
  <2>1. candidates \subseteq Ids /\ NoId \notin Ids /\ ~ makes
    BY <1>1, MineType DEF Ids, NoId, makes
  <2> QED
    BY <1>1, <1>4, <2>1 DEF Near, posts
<1>7. NearestInv'
  BY <1>2, <1>6 DEF QueueInv, NearestInv
<1>8. FiledInv'
  BY <1>1, <1>2, <1>4 DEF QueueInv, FiledInv
<1> QED
  BY <1>5, <1>7, <1>8 DEF QueueInv

LEMMA QueueStep == Alone /\ FirstSavesArrive /\ TypeOK /\ QueueInv /\ [Next]_vars => QueueInv'
<1> SUFFICES ASSUME Alone, FirstSavesArrive, TypeOK, QueueInv, [Next]_vars
             PROVE  QueueInv'
  OBVIOUS
<1>1. CASE Next
  BY <1>1, Steps, QueueAsks, QueueNew, QueuePosts, QueueCancel, QueueTells, QueueWrites,
     QueueOpens, QueueElsewhere
<1>2. CASE UNCHANGED vars
  <2>1. UNCHANGED <<mine, view, knows, req, made, events>>
    BY <1>2 DEF vars, database, browser, mine, view, knows, req
  <2>2. /\ candidates' = candidates
        /\ \A e : (top(e)' <=> top(e)) /\ (Filed(e)' <=> Filed(e))
        /\ makes' <=> makes
        /\ \A e : Near(e)' <=> Near(e)
    BY <2>1, SameCandidates DEF makes, Near
  <2> QED
    BY <2>1, <2>2 DEF QueueInv, LoadedInv, RequestInv, NearestInv, FiledInv
<1> QED
  BY <1>1, <1>2

LEMMA QueueInit == Alone /\ Init => QueueInv
<1> SUFFICES ASSUME Alone, Init PROVE QueueInv
  OBVIOUS
<1>1. candidates = {}
  BY DEF Init, candidates
<1>2. mine.claim = NoId /\ req.op = "none"
  BY One DEF Init, mine, req, Idle, NewSession
<1> QED
  BY <1>1, <1>2 DEF QueueInv, LoadedInv, RequestInv, NearestInv, FiledInv, Filed, posts

(* However she reloads, logs out, cancels and starts anew, whatever else     *)
(* fails and whatever the agency and the job do meanwhile: a claimant with   *)
(* one session whose requests follow one another never has two claims in the *)
(* agency's queue, although the finder works by a query (claim_finder.py:46) *)
(* and a save without an id makes a claim (claim_request.py:69).             *)
THEOREM OneClaimInQueue ==
  ASSUME Alone, FirstSavesArrive
  PROVE  Spec => []OneInQueue
<1>1. QueueInv /\ TypeOK => OneInQueue
  <2> SUFFICES ASSUME QueueInv, TypeOK PROVE OneInQueue
    OBVIOUS
  <2> DEFINE Q == {c \in 1 .. made : InQueue(events[c])}
  <2>1. \A c \in Q : c \in candidates /\ Filed(c)
    BY DEF InQueue, candidates, Filed
  <2>2. \A c \in Q : c \in Nat /\ top(c)
    BY <2>1, MineType DEF QueueInv, FiledInv, Ids
  <2>3. \A c, d \in Q : c = d
    BY <2>1, <2>2 DEF top
  <2>4. Q = {} \/ \E c : Q = {c}
    BY <2>3
  <2> HIDE DEF Q
  <2>5. Cardinality(Q) = 0 \/ Cardinality(Q) = 1
    BY <2>4, FS_EmptySet, FS_Singleton
  <2> QED
    BY <2>5 DEF OneInQueue, Q
<1> QED
  BY <1>1, QueueInit, QueueStep, TypeInit, TypeStep, PTL DEF Spec

-----------------------------------------------------------------------------
(* What she cancelled is not filed.                                          *)

(* The claims that the finder skips although they were never filed.          *)
Gone(c) == ~is_completed(events[c]) /\ events[c] \cap {"RESOLVED", "FETCHED"} # {}

(* She is not led to such a claim, but for the time until the answer to the  *)
(* cancellation that Home sent.                                              *)
CancelInv ==
  \A c \in Ids : Gone(c) /\ (Near(c) \/ c = mine.memo.id) =>
    req.op = "cancel_draft" /\ req.claim = c

(* The invariant stays if no claim becomes gone and she is led to no         *)
(* further one.                                                              *)
LEMMA CancelKept ==
  ASSUME CancelInv, req.op # "cancel_draft",
         \A e \in Ids : Gone(e)' => Gone(e),
         \A e \in Ids : Near(e)' \/ e = mine'.memo.id =>
                          Near(e) \/ e = mine.memo.id \/ ~ Gone(e)'
  PROVE  CancelInv'
BY DEF CancelInv, Ids

LEMMA GoneLogged ==
  ASSUME events \in [Ids -> SUBSET Category], NEW c \in Ids, NEW k, log(c, k),
         k \cap {"RESOLVED", "FETCHED"} = {}
  PROVE  \A e \in Ids : Gone(e)' => Gone(e)
BY DEF log, Gone, is_completed

LEMMA CancelAsks ==
  ASSUME Alone, TypeOK, CancelInv, NEW c \in 0 .. made, AsksCompleted(c) \/ AsksPartial(c)
  PROVE  CancelInv'
<1>1. /\ req.op = "none" /\ req'.op \in {"get_completed", "get_partial"} /\ req'.claim = c
      /\ UNCHANGED <<events, mine, knows>> /\ Finds(c)
  BY DEF AsksCompleted, AsksPartial, Asks, database
<1>2. \A e \in Ids : Gone(e)' <=> Gone(e)
  BY <1>1 DEF Gone
<1>3. \A e \in Ids : Near(e)' => Near(e) \/ e = mine.claim \/ e \in candidates \/ e = NoId
  BY <1>1 DEF Near, posts, Finds, makes
<1>4. \A e \in candidates : ~ Gone(e)
  BY DEF candidates, Gone
<1>5. NoId \notin Ids
  BY DEF NoId, Ids
<1> QED
  BY <1>1, <1>2, <1>3, <1>4, <1>5, CancelKept DEF Near

LEMMA CancelNew ==
  ASSUME Alone, TypeOK, CancelInv,
         AsksNew \/ \E c \in Ids, op \in posts : Posts(op, c)
  PROVE  CancelInv'
<1>1. CASE AsksNew
  <2>1. /\ req.op = "none" /\ req'.op = "bootstrap" /\ req'.claim = made + 1 /\ made + 1 \in Ids
        /\ UNCHANGED <<events, mine, knows>>
    BY <1>1 DEF AsksNew, Asks
  <2>2. \A e \in Ids : Gone(e)' <=> Gone(e)
    BY <2>1 DEF Gone
  <2>3. ~ Gone(made + 1)
    BY <2>1, MineType DEF TypeOK, Gone
  <2>4. \A e \in Ids : Near(e)' => Near(e) \/ e = mine.memo.id \/ e = made + 1
    BY <2>1 DEF Near, posts, makes
  <2> QED
    BY <2>1, <2>2, <2>3, <2>4, CancelKept
<1>2. ASSUME NEW c \in Ids, NEW op \in posts, Posts(op, c)
      PROVE  CancelInv'
  <2>1. /\ req.op = "none" /\ req'.op = op /\ req'.claim = c /\ UNCHANGED <<mine, knows>>
        /\ log(c, {"SUBMITTED"})
        /\ c \in knows \/ c = made + 1
    BY <1>2 DEF Posts, Asks
  <2>2. \A e \in Ids : Gone(e)' => Gone(e)
    BY <2>1, GoneLogged DEF TypeOK
  <2>3. c \in knows \/ ~ Gone(c)
    BY <2>1, MineType DEF TypeOK, Gone
  <2>4. \A e \in Ids : Near(e)' => Near(e) \/ e = mine.memo.id \/ e = c
    BY <2>1 DEF Near, posts, makes
  <2> QED
    BY <2>1, <2>2, <2>3, <2>4, CancelKept DEF Near
<1> QED
  BY <1>1, <1>2

LEMMA CancelCancel ==
  ASSUME Alone, TypeOK, CancelInv, NEW c \in Ids, NEW op \in cancels, AsksCancel(op, c)
  PROVE  CancelInv'
<1>1. /\ req.op = "none" /\ req'.op = op /\ req'.claim = c /\ UNCHANGED <<mine, knows>>
      /\ op = "cancel_draft" \/ is_completed(events[c])
      /\ events' = [events EXCEPT ![c] = @ \cup {"RESOLVED"}]
  BY DEF AsksCancel, Asks, log
<1>2. \A e \in Ids : e # c => events'[e] = events[e]
  BY <1>1 DEF TypeOK
<1>3. \A e \in Ids : e # c => (Gone(e)' <=> Gone(e))
  BY <1>2 DEF Gone
<1>4. op # "cancel_draft" => ~ Gone(c)'
  BY <1>1 DEF Gone, is_completed, TypeOK
<1>5. \A e \in Ids : Near(e)' => Near(e) \/ e = mine.memo.id
  BY <1>1 DEF Near, posts, cancels
<1> QED
  BY <1>1, <1>3, <1>4, <1>5 DEF CancelInv, Ids

LEMMA CancelTells ==
  ASSUME Alone, TypeOK, LoadedInv, CancelInv,
         TellsCompleted \/ TellsNothing \/ TellsMemo \/ TellsStored
  PROVE  CancelInv'
<1>1. /\ req.op \in {"get_completed", "get_partial"} /\ req'.op = "none"
      /\ req.loaded = mine /\ events' = events
  BY DEF TellsCompleted, TellsNothing, TellsMemo, TellsStored, Ends, database, LoadedInv
<1>2. \A e \in Ids : Gone(e)' <=> Gone(e)
  BY <1>1 DEF Gone
<1>3. CASE TellsCompleted \/ TellsNothing \/ TellsMemo
  <2>1. mine' = mine /\ knows' \subseteq knows \cup {mine.memo.id}
    BY <1>1, <1>3 DEF TellsCompleted, TellsNothing, TellsMemo, Ends
  <2>2. \A e \in Ids : Near(e)' => Near(e) \/ e = mine.memo.id
    BY <1>1, <2>1 DEF Near, posts
  <2> QED
    BY <1>1, <1>2, <2>1, <2>2, CancelKept
<1>4. CASE TellsStored
  <2>1. /\ mine' = [mine EXCEPT !.memo = [id |-> req.claim, text |-> draft[req.claim]]]
        /\ knows' = knows \cup {req.claim} /\ req.op = "get_partial"
    BY <1>1, <1>4 DEF TellsStored, Ends
  <2>2. mine'.claim = mine.claim /\ mine'.memo.id = req.claim
    BY <2>1, MineType DEF Session
  <2>3. \A e \in Ids : Near(e)' \/ e = mine'.memo.id => Near(e)
    BY <1>1, <2>1, <2>2 DEF Near, posts
  <2> QED
    BY <1>1, <1>2, <2>3, CancelKept
<1> QED
  BY <1>3, <1>4

LEMMA CancelWrites ==
  ASSUME Alone, TypeOK, LoadedInv, CancelInv, Bootstraps \/ Saves \/ Fails \/ Files \/ Erases
  PROVE  CancelInv'
<1>0. events \in [Ids -> SUBSET Category] /\ req.claim \in Ids /\ req'.op = "none"
  BY Written DEF TypeOK
<1>1. CASE Bootstraps \/ Saves
  <2>1. /\ mine'.claim = req.claim /\ mine'.memo.id = req.claim
        /\ knows' = knows \cup {req.claim} /\ req.op \in {"bootstrap", "post_partial"}
        /\ events' = events \/ log(req.claim, {"STORED"})
    BY <1>1 DEF Bootstraps, Saves, Ends
  <2>2. \A e \in Ids : Gone(e)' => Gone(e)
    <3>1. CASE events' = events
      BY <3>1 DEF Gone
    <3>2. CASE log(req.claim, {"STORED"})
      BY <1>0, <3>2, GoneLogged
    <3> QED
      BY <2>1, <3>1, <3>2
  <2>3. \A e \in Ids : Near(e)' \/ e = mine'.memo.id => Near(e)
    BY <1>0, <2>1 DEF Near, posts
  <2> QED
    BY <2>1, <2>2, <2>3, CancelKept
<1>2. CASE Fails
  <2>1. req.op \in posts /\ UNCHANGED <<mine, knows, events>>
    BY <1>2 DEF Fails, Ends, posts
  <2>2. \A e \in Ids : (Gone(e)' => Gone(e)) /\ (Near(e)' => Near(e) \/ e = mine.memo.id)
    BY <1>0, <2>1 DEF Near, posts, Gone
  <2> QED
    BY <2>1, <2>2, CancelKept DEF posts
<1>3. CASE Files
  <2>1. /\ req.op = "post_completed" /\ knows' = knows /\ req.loaded = mine
        /\ mine' = [mine EXCEPT !.claim = NoId]
        /\ log(req.claim, {"COMPLETED", "STORED"})
    BY <1>3 DEF Files, Ends, LoadedInv
  <2>2. mine'.claim = NoId /\ mine'.memo.id = mine.memo.id /\ NoId \notin Ids
    BY <2>1, MineType DEF Session, NoId, Ids
  <2>3. \A e \in Ids : Gone(e)' => Gone(e)
    BY <1>0, <2>1, GoneLogged
  <2>4. \A e \in Ids : Near(e)' => Near(e) \/ e = mine.memo.id
    BY <1>0, <2>1, <2>2 DEF Near, posts
  <2> QED
    BY <2>1, <2>2, <2>3, <2>4, CancelKept
<1>4. CASE Erases
  <2>1. /\ mine'.claim = NoId /\ mine'.memo.id = NoId /\ NoId \notin Ids
        /\ log(req.claim, {}) \/ log(req.claim, {"DELETED"})
    BY <1>4 DEF Erases, Ends, NewSession, NoMemo, NoId, Ids
  <2>2. \A e \in Ids : Gone(e)' => Gone(e)
    BY <1>0, <2>1, GoneLogged
  <2>3. CASE req.op = "cancel_draft"
    <3>1. knows' = {}
      BY <1>4, <2>3 DEF Erases, Ends
    <3>2. \A e \in Ids : ~ Near(e)' /\ e # mine'.memo.id
      BY <1>0, <2>1, <3>1 DEF Near, posts
    <3>3. Ids' = Ids
      BY DEF Ids
    <3> QED
      BY <3>2, <3>3 DEF CancelInv
  <2>4. CASE req.op = "cancel_filed"
    <3>1. knows' = knows
      BY <1>4, <2>4 DEF Erases, Ends
    <3>2. \A e \in Ids : Near(e)' \/ e = mine'.memo.id => Near(e)
      BY <1>0, <2>1, <3>1 DEF Near, posts
    <3> QED
      BY <2>2, <2>4, <3>2, CancelKept
  <2> QED
    BY <1>4, <2>3, <2>4 DEF Erases, Ends
<1> QED
  BY <1>1, <1>2, <1>3, <1>4

LEMMA CancelOpens ==
  ASSUME Alone, TypeOK, CancelInv, Opens \/ Leaves
  PROVE  CancelInv'
<1>1. req.op = "none" /\ req' = req /\ events' = events
  BY DEF Opens, Leaves, database
<1>2. /\ mine'.claim \in {mine.claim, NoId} /\ mine'.memo.id \in {mine.memo.id, NoId}
      /\ knows' \subseteq {mine.claim} /\ NoId \notin Ids
  BY MineType DEF Opens, Leaves, NewSession, NoMemo, NoId, Ids
<1>3. \A e \in Ids : (Gone(e)' => Gone(e)) /\ (Near(e)' => Near(e) \/ e = mine.memo.id)
  BY <1>1, <1>2 DEF Near, posts, Gone
<1> QED
  BY <1>1, <1>2, <1>3, CancelKept

LEMMA CancelElsewhere ==
  ASSUME Alone, TypeOK, CancelInv, NEW c \in Ids, Elsewhere(c),
         UNCHANGED <<mine, view, knows, req>>
  PROVE  CancelInv'
<1>1. \A e \in Ids : Gone(e)' => Gone(e)
  <2>1. CASE Age(c)
    BY <2>1 DEF Age, Gone
  <2>2. CASE expire(c)
    BY <2>2, GoneLogged DEF expire, TypeOK
  <2>3. CASE swa(c)
    BY <2>3 DEF swa, log, Gone, is_completed, TypeOK
  <2> QED
    BY <2>1, <2>2, <2>3 DEF Elsewhere
<1>2. \A e \in Ids : Near(e)' <=> Near(e)
  BY DEF Near, makes
<1>3. Ids' = Ids
  BY DEF Ids
<1> QED
  BY <1>1, <1>2, <1>3 DEF CancelInv

LEMMA CancelStep ==
  Alone /\ TypeOK /\ LoadedInv /\ CancelInv /\ [Next]_vars => LoadedInv' /\ CancelInv'
<1> SUFFICES ASSUME Alone, TypeOK, LoadedInv, CancelInv, [Next]_vars
             PROVE  LoadedInv' /\ CancelInv'
  OBVIOUS
<1>1. CASE Next
  <2>1. CancelInv'
    BY <1>1, Steps, CancelAsks, CancelNew, CancelCancel, CancelTells, CancelWrites,
       CancelOpens, CancelElsewhere
  <2>2. LoadedInv'
    <3>1. \A c : AsksCompleted(c) \/ AsksPartial(c) \/ AsksNew => LoadedInv'
      BY DEF AsksCompleted, AsksPartial, AsksNew, Asks, LoadedInv
    <3>2. \A c, op : Posts(op, c) \/ AsksCancel(op, c) => LoadedInv'
      BY DEF Posts, AsksCancel, Asks, LoadedInv
    <3>3. TellsCompleted \/ TellsNothing \/ TellsMemo \/ TellsStored => LoadedInv'
      BY DEF TellsCompleted, TellsNothing, TellsMemo, TellsStored, Ends, LoadedInv
    <3>4. Bootstraps \/ Saves \/ Fails \/ Files \/ Erases => LoadedInv'
      BY Written DEF LoadedInv
    <3>5. Opens \/ Leaves => LoadedInv'
      BY DEF Opens, Leaves, LoadedInv
    <3>6. UNCHANGED <<mine, view, knows, req>> => LoadedInv'
      BY DEF LoadedInv
    <3> QED
      BY <1>1, <3>1, <3>2, <3>3, <3>4, <3>5, <3>6, Steps
  <2> QED
    BY <2>1, <2>2
<1>2. CASE UNCHANGED vars
  <2>1. UNCHANGED <<mine, knows, req, events>>
    BY <1>2 DEF vars, database, browser, mine, knows, req
  <2> QED
    BY <2>1 DEF LoadedInv, CancelInv, Gone, Near, makes, Ids
<1> QED
  BY <1>1, <1>2

LEMMA CancelInit == Alone /\ Init => LoadedInv /\ CancelInv
<1> SUFFICES ASSUME Alone, Init PROVE LoadedInv /\ CancelInv
  OBVIOUS
<1>1. req.op = "none" /\ \A c \in Ids : events[c] = {}
  BY One DEF Init, req, Idle
<1> QED
  BY <1>1 DEF LoadedInv, CancelInv, Gone

\* Only a filing completes a claim.
LEMMA CompletesByFiling ==
  ASSUME Alone, TypeOK, [Next]_vars, NEW c \in Ids,
         ~ is_completed(events[c]), is_completed(events'[c])
  PROVE  Files /\ c = req.claim
<1> USE DEF log, is_completed
<1>0. events \in [Ids -> SUBSET Category]
  BY DEF TypeOK
<1>1. CASE UNCHANGED vars
  BY <1>1 DEF vars, database
<1>2. \A e : ~ (AsksCompleted(e) \/ AsksPartial(e)) /\ ~ AsksNew
  BY DEF AsksCompleted, AsksPartial, AsksNew, database
<1>3. \A e, op : ~ Posts(op, e) /\ ~ AsksCancel(op, e)
  BY <1>0 DEF Posts, AsksCancel
<1>4. ~ (TellsCompleted \/ TellsNothing \/ TellsMemo \/ TellsStored \/ Fails \/ Opens \/ Leaves)
  BY DEF TellsCompleted, TellsNothing, TellsMemo, TellsStored, Fails, Opens, Leaves, database
<1>5. ~ (Bootstraps \/ Saves \/ Erases)
  BY <1>0 DEF Bootstraps, Saves, Erases
<1>6. \A e : ~ Elsewhere(e)
  BY <1>0 DEF Elsewhere, swa, Age, expire
<1>7. Files
  BY <1>1, <1>2, <1>3, <1>4, <1>5, <1>6, Steps
<1> QED
  BY <1>0, <1>7 DEF Files

(* Whatever fails and whatever she filed, abandoned or cancelled before: a   *)
(* claimant with one session whose requests follow one another does not file *)
(* a claim that she has cancelled, although the server takes a post to a     *)
(* claim in any state (claim_request.py:61) and the memo of the session is   *)
(* answered whatever became of its claim (views.py:300).                     *)
THEOREM CancelledIsNeverFiled ==
  ASSUME Alone
  PROVE  Spec => CancelledIsNotFiled
<1>1. TypeOK /\ LoadedInv /\ CancelInv /\ [Next]_vars =>
        [\A c \in Ids : ~is_completed(events[c]) /\ is_completed(events'[c])
                          => ~is_resolved(events[c])]_vars
  <2> SUFFICES ASSUME TypeOK, CancelInv, [Next]_vars, NEW c \in Ids,
                      ~ is_completed(events[c]), is_completed(events'[c])
               PROVE  ~ is_resolved(events[c])
    OBVIOUS
  <2>1. c = req.claim /\ req.op = "post_completed"
    BY CompletesByFiling DEF Files, Ends
  <2> QED
    BY <2>1 DEF CancelInv, Near, posts, Gone, is_resolved
<1> QED
  BY <1>1, CancelInit, CancelStep, TypeInit, TypeStep, PTL DEF Spec, CancelledIsNotFiled

-----------------------------------------------------------------------------
(* The last save is shown.                                                   *)

(* A draft that is memoized or stored is one that it would be right to show. *)
SavedInv ==
  /\ mine.memo.id # NoId /\ open(mine.memo.id) => mine.memo.text \in latest[mine.memo.id]
  /\ \A c \in Ids : open(c) => draft[c] \in latest[c]
  /\ \A c \in Ids : c > made => latest[c] = {NoDraft}
  /\ req.op = "bootstrap" => latest[req.claim] = {NoDraft}
  /\ req.op \in cancels => ~open(req.claim)

(* The claims she is not led to, or that a memo of another would hide, hold  *)
(* nothing that she could miss.                                              *)
MemoHides ==
  mine.memo.id # NoId /\ ~is_completed(events[mine.memo.id]) /\ req.op # "cancel_draft"

LostInv ==
  /\ \A c \in candidates : top(c) \/ lost(c)
  /\ view = "form" /\ knows = {} => \A c \in candidates : lost(c)
  /\ req.op = "get_partial" /\ mine.claim = NoId =>
       \A c \in candidates : c = req.claim \/ lost(c)
  /\ MemoHides => \A c \in candidates : c = mine.memo.id \/ lost(c)

ShownInv == SavedInv /\ LostInv

(* Time and events only take from what she could miss.                       *)
LEMMA LostStays ==
  ASSUME NEW e, events[e] \subseteq events'[e], overdue[e] => overdue'[e],
         latest[e] \subseteq latest'[e]
  PROVE  (open(e)' => open(e)) /\ (lost(e) => lost(e)')
BY DEF open, lost

LEMMA TopIsOne ==
  ASSUME candidates \subseteq Ids, NEW c \in candidates, NEW e \in candidates, top(c), top(e)
  PROVE  c = e
<1>1. c =< e /\ e =< c /\ c \in Nat /\ e \in Nat
  BY DEF top, Ids
<1> QED
  BY <1>1

LEMMA ShownElsewhere ==
  ASSUME Alone, TypeOK, ShownInv, NEW c \in Ids, Elsewhere(c),
         UNCHANGED <<mine, view, knows, req>>
  PROVE  ShownInv'
<1>1. /\ made' = made
      /\ candidates' = candidates \/ (Filed(c) /\ candidates' = candidates \ {c})
      /\ \A e \in Ids : is_completed(events'[e]) <=> is_completed(events[e])
  BY ElsewhereFacts
<1>2. /\ latest' = latest
      /\ \A e \in Ids : events[e] \subseteq events'[e]
      /\ \A e \in Ids : overdue[e] => overdue'[e]
  BY DEF Elsewhere, swa, Age, expire, log, TypeOK
<1>3. \A e \in Ids : (open(e)' => open(e)) /\ (lost(e) => lost(e)')
  BY <1>2, LostStays
<1>4. \A e \in Ids : draft'[e] = draft[e] \/ ~ open(e)'
  <2>1. draft' = draft \/ (draft' = [draft EXCEPT ![c] = NoDraft] /\ log(c, {"DELETED"}))
    BY DEF Elsewhere, swa, Age, expire
  <2>2. log(c, {"DELETED"}) => ~ open(c)'
    BY ZenonT(30) DEF log, open, TypeOK
  <2> QED
    BY <2>1, <2>2 DEF TypeOK
<1>5. candidates \subseteq Ids /\ candidates' \subseteq candidates
  BY <1>1, MineType
<1>6. \A e : top(e) => top(e)'
  BY <1>1 DEF top
<1>7. SavedInv'
  <2>1. mine.memo.id # NoId => mine.memo.id \in Ids
    BY MineType
  <2>2. req.op \in cancels => req.claim \in Ids
    BY MineType DEF cancels
  <2> QED
    BY <1>1, <1>2, <1>3, <1>4, <2>1, <2>2 DEF ShownInv, SavedInv
<1>8. LostInv'
  <2>1. MemoHides' <=> MemoHides
    BY <1>1, MineType DEF MemoHides
  <2> QED
    BY <1>3, <1>5, <1>6, <2>1 DEF ShownInv, LostInv
<1> QED
  BY <1>7, <1>8 DEF ShownInv

LEMMA ShownAsks ==
  ASSUME Alone, TypeOK, ShownInv, NEW c \in 0 .. made, AsksCompleted(c) \/ AsksPartial(c)
  PROVE  ShownInv'
<1>1. /\ req.op = "none" /\ req'.op \in {"get_completed", "get_partial"} /\ req'.claim = c
      /\ UNCHANGED database /\ UNCHANGED <<mine, view, knows>>
      /\ Finds(c)
      /\ req'.op = "get_partial" => c # NoId
  BY DEF AsksCompleted, AsksPartial, Asks
<1>2. /\ candidates' = candidates /\ UNCHANGED <<made, draft, latest, events>>
      /\ \A e : (top(e)' <=> top(e)) /\ (open(e)' <=> open(e)) /\ (lost(e)' <=> lost(e))
  BY <1>1, SameCandidates DEF database, open, lost
<1>3. SavedInv'
  BY <1>1, <1>2 DEF ShownInv, SavedInv, cancels
<1>4. mine.claim = NoId /\ c # NoId => \A e \in candidates : e = c \/ lost(e)
  BY <1>1, MineType, TopIsOne DEF Finds, ShownInv, LostInv
<1>5. MemoHides' <=> MemoHides
  BY <1>1, <1>2 DEF MemoHides
<1>6. LostInv'
  BY <1>1, <1>2, <1>4, <1>5 DEF ShownInv, LostInv
<1> QED
  BY <1>3, <1>6 DEF ShownInv

LEMMA ShownNew ==
  ASSUME Alone, TypeOK, ShownInv, AsksNew
  PROVE  ShownInv'
<1> SUFFICES ASSUME NEW c, c = made + 1 PROVE ShownInv'
  OBVIOUS
<1>1. /\ req.op = "none" /\ req'.op = "bootstrap" /\ req'.claim = c
      /\ made' = c /\ c \in Ids
      /\ UNCHANGED <<events, overdue, draft, latest, mine, view, knows>>
      /\ Finds(NoId)
  BY DEF AsksNew, Asks
<1>2. candidates' = candidates \cup {c} /\ top(c)'
  BY <1>1, NewCandidate
<1>3. candidates = {}
  BY <1>1, MineType DEF Finds, Ids, NoId
<1>4. latest[c] = {NoDraft} /\ lost(c)'
  BY <1>1, MineType DEF ShownInv, SavedInv, lost
<1>5. SavedInv'
  <2>1. \A e : open(e)' <=> open(e)
    BY <1>1 DEF open
  <2>2. \A e \in Ids : e > made' => e > made
    BY <1>1, MineType DEF Ids
  <2> QED
    BY <1>1, <1>4, <2>1, <2>2 DEF ShownInv, SavedInv, cancels
<1>6. LostInv'
  BY <1>2, <1>3, <1>4 DEF LostInv
<1> QED
  BY <1>5, <1>6 DEF ShownInv

LEMMA ShownPosts ==
  ASSUME Alone, TypeOK, ShownInv, NEW c \in Ids, NEW op \in posts, Posts(op, c)
  PROVE  ShownInv'
<1>1. /\ req.op = "none" /\ req'.op \in posts
      /\ UNCHANGED <<overdue, draft, latest, mine, view, knows>>
      /\ view = "form"
      /\ \/ c \in knows /\ UNCHANGED made
         \/ knows = {} /\ c = made + 1 /\ made' = c
      /\ log(c, {"SUBMITTED"})
  BY DEF Posts, Asks
<1>2. \A e \in Ids : /\ (open(e)' <=> open(e)) /\ (lost(e)' <=> lost(e))
                     /\ is_completed(events'[e]) <=> is_completed(events[e])
  BY <1>1 DEF log, TypeOK, open, lost, is_completed
<1>3. \A e \in Ids : e > made' => e > made
  BY <1>1, MineType DEF Ids
<1>4. SavedInv'
  BY <1>1, <1>2, <1>3, MineType DEF ShownInv, SavedInv, posts, cancels
<1>5. MemoHides' <=> MemoHides
  BY <1>1, <1>2, MineType DEF MemoHides, posts
<1>6. CASE c \in knows /\ UNCHANGED made
  <2>1. candidates' = candidates /\ candidates \subseteq Ids
    BY <1>1, <1>6, MineType, Logged DEF Category
  <2>2. \A e : top(e)' <=> top(e)
    BY <2>1 DEF top
  <2>3. LostInv'
    BY <1>1, <1>2, <1>5, <2>1, <2>2 DEF ShownInv, LostInv, posts
  <2> QED
    BY <1>4, <2>3 DEF ShownInv
<1>7. CASE knows = {} /\ c = made + 1 /\ made' = c
  <2>1. candidates' = candidates \cup {c} /\ candidates \subseteq Ids
    BY <1>1, <1>7, NewCandidate, MineType
  <2>2. c > made
    BY <1>7, MineType
  <2>3. lost(c)
    BY <2>2 DEF ShownInv, SavedInv, lost
  <2>4. \A e \in candidates' : lost(e)'
    BY <1>1, <1>2, <1>7, <2>1, <2>3 DEF ShownInv, LostInv
  <2>5. LostInv'
    BY <2>4 DEF LostInv
  <2> QED
    BY <1>4, <2>5 DEF ShownInv
<1> QED
  BY <1>1, <1>6, <1>7

LEMMA ShownCancel ==
  ASSUME Alone, TypeOK, ShownInv, NEW c \in Ids, NEW op \in cancels, AsksCancel(op, c)
  PROVE  ShownInv'
<1>1. /\ req.op = "none" /\ req'.op \in cancels /\ req'.claim = c
      /\ UNCHANGED <<made, overdue, draft, latest, mine, view, knows>>
      /\ c \in 1 .. made /\ log(c, {"RESOLVED"})
  BY DEF AsksCancel, Asks
<1>2. /\ candidates' = candidates \ {c} /\ candidates \subseteq Ids
      /\ \A e \in Ids : events[e] \subseteq events'[e]
      /\ \A e \in Ids : is_completed(events'[e]) <=> is_completed(events[e])
      /\ ~ open(c)'
  <2>1. candidates' = candidates \ {c} /\ candidates \subseteq Ids
    BY <1>1, Logged, MineType DEF Category
  <2>2. events'[c] = events[c] \cup {"RESOLVED"} /\ \A e \in Ids : e # c => events'[e] = events[e]
    BY <1>1 DEF log, TypeOK
  <2>3. ~ open(c)'
    BY <2>2 DEF open
  <2>4. \A e \in Ids : is_completed(events'[e]) <=> is_completed(events[e])
    BY <2>2 DEF is_completed
  <2> QED
    BY <2>1, <2>2, <2>3, <2>4
<1>3. \A e \in Ids : (open(e)' => open(e)) /\ (lost(e) => lost(e)')
  BY <1>1, <1>2, LostStays
<1>4. \A e : top(e) => top(e)'
  BY <1>2 DEF top
<1>5. SavedInv'
  BY <1>1, <1>2, <1>3, MineType DEF ShownInv, SavedInv, cancels
<1>6. MemoHides' => MemoHides
  BY <1>1, <1>2, MineType DEF MemoHides
<1>7. LostInv'
  BY <1>1, <1>2, <1>3, <1>4, <1>6 DEF ShownInv, LostInv, cancels
<1> QED
  BY <1>5, <1>7 DEF ShownInv

LEMMA ShownTells ==
  ASSUME Alone, TypeOK, QueueInv, ShownInv, follows(mine),
         TellsCompleted \/ TellsNothing \/ TellsMemo \/ TellsStored
  PROVE  ShownInv'
<1> SUFFICES ASSUME NEW c, c = req.claim PROVE ShownInv'
  OBVIOUS
<1>0. /\ req'.op = "none" /\ UNCHANGED database
      /\ req.op \in {"get_completed", "get_partial"}
  BY DEF TellsCompleted, TellsNothing, TellsMemo, TellsStored, Ends
<1>1. req.loaded = mine
  BY <1>0 DEF QueueInv, LoadedInv
<1>2. /\ candidates' = candidates /\ UNCHANGED <<made, draft, latest, events>>
      /\ \A e : (top(e)' <=> top(e)) /\ (open(e)' <=> open(e)) /\ (lost(e)' <=> lost(e))
  BY <1>0, SameCandidates DEF database, open, lost
<1>3. ASSUME mine' = mine, view' = "form" /\ knows' = {} => \A e \in candidates : lost(e)
      PROVE  ShownInv'
  <2>1. SavedInv'
    BY <1>0, <1>2, <1>3 DEF ShownInv, SavedInv, cancels
  <2>2. MemoHides' => MemoHides
    BY <1>0, <1>2, <1>3 DEF MemoHides
  <2>3. LostInv'
    BY <1>0, <1>2, <1>3, <2>2 DEF ShownInv, LostInv
  <2> QED
    BY <2>1, <2>3 DEF ShownInv
<1>4. CASE TellsCompleted
  <2>1. mine' = mine /\ knows' = knows /\ (view' = "form" => view = "form")
    BY <1>1, <1>4 DEF TellsCompleted, Ends
  <2> QED
    BY <1>3, <2>1 DEF ShownInv, LostInv
<1>5. CASE TellsNothing
  <2>1. mine' = mine /\ knows' = knows /\ req.op = "get_partial"
    BY <1>1, <1>5 DEF TellsNothing, Ends
  <2>2. knows = {} => mine.claim = NoId
    BY DEF QueueInv, RequestInv
  <2>3. c \in Ids /\ lost(c)
    BY <2>1, <1>5, MineType DEF TellsNothing, due, lost, ShownInv, SavedInv, open, is_deleted, is_completed
  <2> QED
    BY <1>3, <2>1, <2>2, <2>3 DEF ShownInv, LostInv
<1>6. CASE TellsMemo
  <2>1. mine' = mine /\ knows' # {}
    BY <1>1, <1>6 DEF TellsMemo, Ends
  <2> QED
    BY <1>3, <2>1
<1>7. CASE TellsStored
  <2>1. /\ mine' = [mine EXCEPT !.memo = [id |-> c, text |-> draft[c]]]
        /\ knows' = knows \cup {c} /\ req.op = "get_partial"
        /\ mine.memo = NoMemo /\ c \in Ids
    BY <1>1, <1>7, MineType DEF TellsStored, Ends
  <2>2. mine'.claim = mine.claim /\ mine'.memo.id = c /\ mine'.memo.text = draft[c]
    BY <2>1, MineType DEF Session
  <2>3. mine.claim = NoId
    BY <2>1, MineType DEF follows
  <2>4. \A e \in candidates : e = c \/ lost(e)
    BY <2>1, <2>3 DEF ShownInv, LostInv
  <2>5. SavedInv'
    BY <1>0, <1>2, <2>1, <2>2 DEF ShownInv, SavedInv, cancels
  <2>6. LostInv'
    BY <1>0, <1>2, <2>1, <2>2, <2>4 DEF ShownInv, LostInv
  <2> QED
    BY <2>5, <2>6 DEF ShownInv
<1> QED
  BY <1>4, <1>5, <1>6, <1>7

LEMMA ShownWrites ==
  ASSUME Alone, FirstSavesArrive, TypeOK, QueueInv, CancelInv, ShownInv,
         Bootstraps \/ Saves \/ Fails \/ Files \/ Erases
  PROVE  ShownInv'
<1> SUFFICES ASSUME NEW c, c = req.claim PROVE ShownInv'
  OBVIOUS
<1>1. /\ req'.op = "none" /\ c \in Ids /\ c # NoId
      /\ candidates' = candidates /\ made' = made
      /\ \A e : top(e)' <=> top(e)
  BY Written DEF Ids, NoId
<1>2. candidates \subseteq Ids
  BY MineType
<1>3. c \in 1 .. made
  BY <1>1, MineType DEF Ids, NoId
<1>4. /\ \A e \in Ids : events[e] \subseteq events'[e]
      /\ \A e \in Ids : e # c => events'[e] = events[e] /\ draft'[e] = draft[e]
                                 /\ latest'[e] = latest[e] /\ overdue'[e] = overdue[e]
  BY <1>1 DEF Bootstraps, Saves, Fails, Files, Erases, log, TypeOK
<1>5. \A e \in Ids : /\ open(e)' => open(e)
                     /\ e # c => (lost(e)' <=> lost(e))
                     /\ is_completed(events[e]) => is_completed(events'[e])
  BY <1>4 DEF open, lost, is_completed
<1>6. \A e \in Ids : e > made => e # c
  BY <1>3, MineType
<1>7. CASE Bootstraps
  <2>1. /\ mine'.claim = c /\ mine'.memo.id = c /\ mine'.memo.text = Blank
        /\ knows' = knows \cup {c} /\ req.op = "bootstrap"
    BY <1>7 DEF Bootstraps, Ends
  <2>2. candidates = {c} /\ latest[c] = {NoDraft}
    BY <2>1 DEF QueueInv, RequestInv, ShownInv, SavedInv
  <2>3. Blank \in latest'[c] /\ (draft'[c] \in latest'[c] \/ ~ open(c))
    BY <1>1, <1>7, <2>2 DEF Bootstraps, ShownInv, SavedInv, TypeOK
  <2>4. SavedInv'
    BY <1>1, <1>4, <1>5, <1>6, <2>1, <2>3 DEF ShownInv, SavedInv, cancels
  <2>5. top(c)
    BY <2>2, <1>1 DEF top, Ids
  <2>6. LostInv'
    BY <1>1, <2>1, <2>2, <2>5 DEF LostInv
  <2> QED
    BY <2>4, <2>6 DEF ShownInv
<1>8. CASE Saves
  <2>1. /\ mine'.claim = c /\ mine'.memo.id = c /\ mine'.memo.text = req.text
        /\ knows' = knows \cup {c} /\ req.op = "post_partial"
        /\ events' = [events EXCEPT ![c] = @ \cup {"STORED"}]
    BY <1>8 DEF Saves, Ends, log
  <2>2. req.text \in latest'[c] /\ draft'[c] \in latest'[c]
    BY <1>1, <1>8 DEF Saves, TypeOK
  <2>3. SavedInv'
    BY <1>1, <1>4, <1>5, <1>6, <2>1, <2>2 DEF ShownInv, SavedInv, cancels
  <2>4. c \in candidates => top(c)
    BY <2>1 DEF QueueInv, NearestInv, Near, posts
  <2>5. \A e \in candidates' : top(e)' \/ lost(e)'
    BY <1>1, <1>2, <1>5, <2>4 DEF ShownInv, LostInv
  <2>6. c \in candidates => \A e \in candidates' : e = c \/ lost(e)'
    BY <1>1, <1>2, <2>4, <2>5, TopIsOne
  <2>7. c \notin candidates => is_completed(events[c])
    BY <1>1, <1>3, <2>1 DEF CancelInv, Near, posts, Gone, candidates
  <2>8. MemoHides' => \A e \in candidates' : e = mine'.memo.id \/ lost(e)'
    BY <1>1, <1>5, <2>1, <2>6, <2>7 DEF MemoHides
  <2>9. LostInv'
    BY <1>1, <2>1, <2>5, <2>8 DEF LostInv
  <2> QED
    BY <2>3, <2>9 DEF ShownInv
<1>9. CASE Fails
  <2>1. UNCHANGED <<mine, view, knows, events, overdue>> /\ req.op \in posts
    BY <1>9 DEF Fails, Ends, posts
  <2>2. /\ latest[c] \subseteq latest'[c]
        /\ draft'[c] \in latest'[c] \/ (draft'[c] = draft[c] /\ latest'[c] = latest[c])
    BY <1>1, <1>9 DEF Fails, TypeOK
  <2>3. \A e \in Ids : latest[e] \subseteq latest'[e]
    BY <1>4, <2>2
  <2>4. SavedInv'
    BY <1>1, <1>4, <1>5, <1>6, <2>1, <2>2, <2>3, MineType DEF ShownInv, SavedInv, cancels
  <2>5. \A e \in Ids : lost(e) => lost(e)'
    BY <2>1, <2>3, LostStays
  <2>6. MemoHides' => MemoHides
    BY <2>1 DEF MemoHides, posts
  <2>7. LostInv'
    BY <1>1, <1>2, <2>1, <2>5, <2>6 DEF ShownInv, LostInv
  <2> QED
    BY <2>4, <2>7 DEF ShownInv
<1>10. CASE Files
  <2>1. /\ req.op = "post_completed" /\ UNCHANGED <<view, knows, latest>>
        /\ mine' = [mine EXCEPT !.claim = NoId]
    BY <1>10 DEF Files, Ends, QueueInv, LoadedInv
  <2>2. mine'.memo = mine.memo
    BY <2>1, MineType DEF Session
  <2>3. ~ open(c)'
    BY <1>1, <1>10 DEF Files, log, TypeOK, open
  <2>4. SavedInv'
    BY <1>1, <1>4, <1>5, <2>1, <2>2, <2>3, MineType DEF ShownInv, SavedInv, cancels
  <2>5. \A e \in Ids : lost(e) => lost(e)'
    BY <1>5, <2>3 DEF lost
  <2>6. MemoHides' => MemoHides
    BY <1>5, <2>1, <2>2, MineType DEF MemoHides
  <2>7. LostInv'
    BY <1>1, <1>2, <2>1, <2>2, <2>5, <2>6 DEF ShownInv, LostInv
  <2> QED
    BY <2>4, <2>7 DEF ShownInv
<1>11. CASE Erases
  <2>1. /\ req.op \in cancels /\ mine' = NewSession /\ UNCHANGED <<latest, overdue>>
        /\ view' = "loading" \/ (view' = view /\ knows' = knows)
    BY <1>11 DEF Erases, Ends, cancels
  <2>2. mine'.memo.id = NoId
    BY <2>1 DEF NewSession, NoMemo
  <2>3. ~ open(c)
    BY <2>1 DEF ShownInv, SavedInv
  <2>4. SavedInv'
    BY <1>1, <1>4, <1>5, <2>1, <2>2, <2>3 DEF ShownInv, SavedInv, cancels
  <2>5. \A e \in Ids : lost(e) => lost(e)'
    BY <1>4, <2>1, LostStays
  <2>6. LostInv'
    BY <1>1, <1>2, <2>1, <2>2, <2>5 DEF ShownInv, LostInv, MemoHides
  <2> QED
    BY <2>4, <2>6 DEF ShownInv
<1> QED
  BY <1>7, <1>8, <1>9, <1>10, <1>11

LEMMA ShownOpens ==
  ASSUME Alone, TypeOK, ShownInv, Opens \/ Leaves
  PROVE  ShownInv'
<1>1. req.op = "none" /\ req' = req /\ UNCHANGED database /\ view' # "form"
  BY DEF Opens, Leaves
<1>2. /\ candidates' = candidates /\ UNCHANGED <<made, draft, latest, events>>
      /\ \A e : (top(e)' <=> top(e)) /\ (open(e)' <=> open(e)) /\ (lost(e)' <=> lost(e))
  BY <1>1, SameCandidates DEF database, open, lost
<1>3. mine'.memo = mine.memo \/ mine'.memo.id = NoId
  BY DEF Opens, Leaves, NewSession, NoMemo
<1>4. SavedInv'
  BY <1>1, <1>2, <1>3 DEF ShownInv, SavedInv, cancels
<1>5. LostInv'
  BY <1>1, <1>2, <1>3 DEF ShownInv, LostInv, MemoHides
<1> QED
  BY <1>4, <1>5 DEF ShownInv

LEMMA ShownStep ==
  Alone /\ FirstSavesArrive /\ TypeOK /\ MemoInv /\ QueueInv /\ CancelInv /\ ShownInv
    /\ [Next]_vars => ShownInv'
<1> SUFFICES ASSUME Alone, FirstSavesArrive, TypeOK, MemoInv, QueueInv, CancelInv, ShownInv,
                    [Next]_vars
             PROVE  ShownInv'
  OBVIOUS
<1>1. follows(mine)
  BY One DEF MemoInv, mine
<1>2. CASE Next
  BY <1>1, <1>2, Steps, ShownAsks, ShownNew, ShownPosts, ShownCancel, ShownTells, ShownWrites,
     ShownOpens, ShownElsewhere
<1>3. CASE UNCHANGED vars
  <2>1. UNCHANGED <<mine, view, knows, req>> /\ UNCHANGED database
    BY <1>3 DEF vars, browser, mine, view, knows, req
  <2>2. /\ candidates' = candidates /\ UNCHANGED <<made, draft, latest, events>>
        /\ \A e : (top(e)' <=> top(e)) /\ (open(e)' <=> open(e)) /\ (lost(e)' <=> lost(e))
    BY <2>1, SameCandidates DEF database, open, lost
  <2>3. SavedInv' /\ LostInv'
    BY <2>1, <2>2 DEF ShownInv, SavedInv, LostInv, MemoHides
  <2> QED
    BY <2>3 DEF ShownInv
<1> QED
  BY <1>2, <1>3

LEMMA ShownInit == Alone /\ Init => ShownInv
<1> SUFFICES ASSUME Alone, Init PROVE ShownInv
  OBVIOUS
<1>1. candidates = {}
  BY DEF Init, candidates
<1>2. req.op = "none" /\ mine.memo.id = NoId
  BY One DEF Init, mine, req, Idle, NewSession, NoMemo
<1>3. \A c \in Ids : draft[c] = NoDraft /\ latest[c] = {NoDraft}
  BY DEF Init
<1> QED
  BY <1>1, <1>2, <1>3 DEF ShownInv, SavedInv, LostInv, cancels

LEMMA MemoStart == Init => MemoInv
BY DEF Init, MemoInv, follows, Idle, NewSession

(* Whether her draft comes from the session's memo or from S3 (views.py:300),*)
(* and whatever else failed, was cancelled or filed before: a claimant with  *)
(* one session whose requests follow one another is shown her open claim as  *)
(* she last saved it, unless the memo is that of a filed claim which the     *)
(* agency has taken.  session_overlap shows that overlapping requests break  *)
(* it.                                                                       *)
THEOREM LastSaveIsAlwaysShown ==
  ASSUME Alone, FirstSavesArrive
  PROVE  Spec => []LastSaveIsShown
<1>1. ShownInv /\ MemoInv /\ TypeOK => LastSaveIsShown
  <2> SUFFICES ASSUME ShownInv, MemoInv, TypeOK,
                      NEW s \in Sessions, NEW c \in 1 .. made,
                      Quiet(s), finds(s, c), open(c), ~ overdue[c], NoDraft \notin latest[c],
                      ~ left_by_filing(session[s].memo)
               PROVE  shown(s, c).id = c /\ shown(s, c).text \in latest[c]
    BY DEF LastSaveIsShown
  <2>1. s = Her /\ follows(mine) /\ Finds(c) /\ ~ left_by_filing(mine.memo)
    BY One, FindsHer DEF MemoInv, mine
  <2>2. shown(s, c) = IF mine.memo # NoMemo THEN mine.memo ELSE [id |-> c, text |-> draft[c]]
    BY <2>1 DEF shown, mine
  <2>3. c \in Ids /\ c # NoId
    BY MineType, SessionAssumption DEF Ids, NoId
  <2>4. req.op = "none" /\ ~ lost(c)
    BY <2>1, One DEF lost, Quiet, TypeOK, req
  <2>5. mine.memo # NoMemo => mine.memo.id = c
    <3>1. CASE mine.claim # NoId
      BY <2>1, <3>1 DEF Finds, follows
    <3>2. CASE mine.claim = NoId
      <4>1. c \in candidates
        BY <2>1, <2>3, <3>2 DEF Finds
      <4>2. mine.memo # NoMemo => MemoHides
        BY <2>1, <2>4, MineType DEF MemoHides, left_by_filing
      <4> QED
        BY <2>4, <4>1, <4>2 DEF ShownInv, LostInv
    <3> QED
      BY <3>1, <3>2
  <2>6. CASE mine.memo # NoMemo
    BY <2>2, <2>3, <2>5, <2>6 DEF ShownInv, SavedInv
  <2>7. CASE mine.memo = NoMemo
    BY <2>2, <2>3, <2>7 DEF ShownInv, SavedInv
  <2> QED
    BY <2>6, <2>7
<1> QED
  BY <1>1, ShownInit, ShownStep, QueueInit, QueueStep, CancelInit, CancelStep, TypeInit, TypeStep,
     MemoStart, MemoStep, PTL DEF Spec, QueueInv
=============================================================================

---------------------------- MODULE ClaimSession ----------------------------
(***************************************************************************)
(* Which claim a claimant sees and writes to.  The browser learns ids and  *)
(* drafts from the API; the server keeps, per session, the id of a claim   *)
(* and a copy of its draft, and falls back on a query over the claimant's  *)
(* claims.  One claimant with one agency, any number of her sessions.      *)
(*                                                                         *)
(* A session lives in the cache as one value: a request loads it when it   *)
(* begins and stores all of it when it is answered (SessionTimeout has     *)
(* always changed it), unless the answer is a 500.  So requests are two    *)
(* steps: what they look up and commit at once, and the write to S3 with   *)
(* the answer.  The steps in between are the subject of ClaimLifecycle.    *)
(***************************************************************************)
EXTENDS ClaimEvents, Naturals, FiniteSets

CONSTANTS
  Sessions,   \* browser sessions of the claimant
  Workers,    \* web workers
  MaxClaims,  \* bound: claims she can come to have
  Drafts,     \* contents of the form
  Blank,      \* the draft that a new claim starts with
  NoDraft, NoSession,
  Faults      \* what may fail: the put to S3 of a save that makes a claim, or
              \* any other

Ids == 1..MaxClaims     \* in the order of created_at
NoId == 0
Texts == Drafts \cup {Blank, NoDraft}

ASSUME SessionAssumption ==
  /\ MaxClaims \in Nat
  /\ NoSession \notin Sessions
  /\ NoDraft \notin Drafts \cup {Blank}
  /\ Faults \subseteq {"put", "first_put"}

VARIABLES
  made,       \* how many claims have a row
  events,     \* event categories of a claim
  overdue,    \* has updated_at fallen behind the expiry threshold?
  draft,      \* S3: the partial document of a claim
  latest,     \* drafts it would be right to show: the last acknowledged
              \* save, and saves since then that failed but may be stored
  session,    \* whoami.claim_id and the memoized partial_claim
  shows,      \* what the application shows in the browser of a session
  known,      \* ids the application holds: of whoami, of the form, of a reply
  work        \* the request a worker serves

database == <<made, events, overdue, draft, latest>>
browser  == <<shows, known>>
vars == <<database, session, browser, work>>

NoMemo == [id |-> NoId, text |-> NoDraft]
Memo == [id : 1..made, text : Texts] \cup {NoMemo}

Session == [claim : 0..made, memo : Memo]
NewSession == [claim |-> NoId, memo |-> NoMemo]

Operation == {"none", "get_completed", "get_partial", "bootstrap",
              "post_partial", "post_completed", "cancel_draft", "cancel_filed"}
Idle == [op |-> "none", s |-> NoSession, loaded |-> NewSession,
         claim |-> NoId, text |-> NoDraft]

TypeOK ==
  /\ made \in 0..MaxClaims
  /\ events \in [Ids -> SUBSET Category]
  /\ \A c \in Ids : c > made => events[c] = {}
  /\ overdue \in [Ids -> BOOLEAN]
  /\ draft \in [Ids -> Texts]
  /\ latest \in [Ids -> SUBSET Texts]
  /\ session \in [Sessions -> Session]
  /\ shows \in [Sessions -> {"closed", "loading", "ready", "form", "success"}]
  /\ known \in [Sessions -> SUBSET (1..made)]
  /\ work \in [Workers -> [op : Operation, s : Sessions \cup {NoSession},
                           loaded : Session, claim : 0..made, text : Texts]]
  /\ \A w \in Workers :
       /\ work[w].op # "none" => work[w].s \in Sessions
       /\ work[w].op \notin {"none", "get_completed"} => work[w].claim # NoId

Init ==
  /\ made = 0
  /\ events = [c \in Ids |-> {}]
  /\ overdue = [c \in Ids |-> FALSE]
  /\ draft = [c \in Ids |-> NoDraft]
  /\ latest = [c \in Ids |-> {NoDraft}]
  /\ session = [s \in Sessions |-> NewSession]
  /\ shows = [s \in Sessions |-> "closed"]
  /\ known = [s \in Sessions |-> {}]
  /\ work = [w \in Workers |-> Idle]

-----------------------------------------------------------------------------
(* Parts that the handlers share.                                          *)

(* No request of the session is under way.                                 *)
Quiet(s) == \A w \in Workers : work[w].s # s

(* Variant: claims on file are skipped, too.                               *)
candidates_unfiled ==
  {c \in 1..made : events[c] \cap {"COMPLETED", "FETCHED", "RESOLVED"} = {}}

(* The claims that the finder's query is left with.                        *)
candidates ==
  {c \in 1..made : events[c] \cap {"FETCHED", "RESOLVED"} = {}}

(* What ClaimFinder.find returns for a session: the claim it names, in     *)
(* whatever state that is, or else the most recent candidate, if any.      *)
finds(s, c) ==
  IF session[s].claim # NoId
    THEN c = session[s].claim
    ELSE \/ c \in candidates /\ \A other \in candidates : other <= c
         \/ c = NoId /\ candidates = {}

(* should_be_deleted_after lies in the past.                               *)
due(c) == overdue[c] /\ ~is_deleted(events[c]) /\ ~is_completed(events[c])

log(c, categories) == events' = [events EXCEPT ![c] = @ \cup categories]

(* A worker takes a request of session s and loads the session.            *)
begin(w, s, op, c, d) ==
  /\ work[w].op = "none"
  /\ work' = [work EXCEPT ![w] =
                [op |-> op, s |-> s, loaded |-> session[s], claim |-> c, text |-> d]]

serves(w, op) == work[w].op = op

(* The answer, with the session stored as the handler leaves it; an        *)
(* answer of 500 stores nothing.                                           *)
answer(w, new) ==
  /\ session' = [session EXCEPT ![work[w].s] = new]
  /\ work' = [work EXCEPT ![w] = Idle]

answer_500(w) ==
  /\ work' = [work EXCEPT ![w] = Idle]
  /\ UNCHANGED <<session, browser>>

show(s, what) == shows' = [shows EXCEPT ![s] = what]
learn(s, c) == known' = [known EXCEPT ![s] = @ \cup {c}]

-----------------------------------------------------------------------------
(* The browser opens or reloads the application: it keeps nothing from     *)
(* before and asks for whoami.                                             *)
GET_whoami(s) ==
  /\ Quiet(s)
  /\ show(s, "loading")
  /\ known' = [known EXCEPT ![s] = {session[s].claim} \cap Ids]
  /\ UNCHANGED <<database, session, work>>

logout(s) ==
  /\ Quiet(s)
  /\ shows[s] # "closed"
  /\ show(s, "closed")
  /\ session' = [session EXCEPT ![s] = NewSession]
  /\ known' = [known EXCEPT ![s] = {}]
  /\ UNCHANGED <<database, work>>

(* Asked when the application opens, when a filing was accepted, and when  *)
(* a page that shows the answer opens with an old one; a claim on file     *)
(* leaves nothing to show but the success page.                            *)
GET_completed_claim(w, s, c) ==
  /\ shows[s] # "closed"
  /\ finds(s, c)
  /\ begin(w, s, "get_completed", c, NoDraft)
  /\ UNCHANGED <<database, session, browser>>

answer_completed(w) ==
  LET c == work[w].claim
      s == work[w].s
  IN
  /\ serves(w, "get_completed")
  /\ \/ /\ c # NoId
        /\ is_completed(events[c]) /\ ~is_resolved(events[c])
        /\ show(s, "success")
     \/ /\ c # NoId => ~is_completed(events[c]) \/ is_resolved(events[c])
        /\ show(s, IF shows[s] = "form" THEN "form" ELSE "ready")
  /\ answer(w, work[w].loaded)
  /\ UNCHANGED <<database, known>>

-----------------------------------------------------------------------------
(* GET partial-claim: the draft of the claim found, or a new claim.        *)

GET_partial_claim(w, s, c) ==
  /\ shows[s] \in {"ready", "form"}
  /\ finds(s, c)
  /\ \/ /\ c # NoId
        /\ begin(w, s, "get_partial", c, NoDraft)
        /\ UNCHANGED made
     \/ /\ c = NoId
        /\ made < MaxClaims
        /\ begin(w, s, "bootstrap", made + 1, Blank)
        /\ made' = made + 1
  /\ UNCHANGED <<events, overdue, draft, latest, session, browser>>

(* The claim is overdue: the program pretends not to have it.              *)
answer_overdue(w) ==
  /\ serves(w, "get_partial")
  /\ due(work[w].claim)
  /\ show(work[w].s, "form")
  /\ answer(w, work[w].loaded)
  /\ UNCHANGED <<database, known>>

(* The memoized draft, if there is one.                                    *)
answer_memo(w) ==
  LET memo == work[w].loaded.memo IN
  /\ serves(w, "get_partial")
  /\ ~due(work[w].claim)
  /\ memo # NoMemo
  /\ show(work[w].s, "form")
  /\ learn(work[w].s, memo.id)
  /\ answer(w, work[w].loaded)
  /\ UNCHANGED database

(* Else the stored draft, which is memoized.                               *)
answer_stored(w) ==
  LET c == work[w].claim IN
  /\ serves(w, "get_partial")
  /\ ~due(c)
  /\ work[w].loaded.memo = NoMemo
  /\ draft[c] # NoDraft
  /\ show(work[w].s, "form")
  /\ learn(work[w].s, c)
  /\ answer(w, [work[w].loaded EXCEPT !.memo = [id |-> c, text |-> draft[c]]])
  /\ UNCHANGED database

(* No draft to be read: an empty form, without an id.                      *)
answer_unread(w) ==
  LET c == work[w].claim IN
  /\ serves(w, "get_partial")
  /\ ~due(c)
  /\ work[w].loaded.memo = NoMemo
  /\ draft[c] = NoDraft
  /\ show(work[w].s, "form")
  /\ answer(w, work[w].loaded)
  /\ UNCHANGED <<database, known>>

(* Variant: a new claim is noted in the session, its draft is not.         *)
bootstrap_unmemoized(w) ==
  LET c == work[w].claim
      s == work[w].s
  IN
  /\ serves(w, "bootstrap")
  /\ draft' = [draft EXCEPT ![c] = Blank]
  /\ latest' = [latest EXCEPT ![c] = {Blank}]
  /\ log(c, {"STORED"})
  /\ show(s, "form")
  /\ learn(s, c)
  /\ answer(w, [work[w].loaded EXCEPT !.claim = c])
  /\ UNCHANGED <<made, overdue>>

(* ClaimMaker.create ignores a failed write, so the answer is the same.    *)
bootstrap(w) ==
  LET c == work[w].claim
      s == work[w].s
  IN
  /\ serves(w, "bootstrap")
  /\ \/ /\ draft' = [draft EXCEPT ![c] = Blank]
        /\ latest' = [latest EXCEPT ![c] = {Blank}]
        /\ log(c, {"STORED"})
     \/ /\ "put" \in Faults
        /\ latest' = [latest EXCEPT ![c] = {Blank, NoDraft}]
        /\ UNCHANGED <<draft, events>>
  /\ show(s, "form")
  /\ learn(s, c)
  /\ answer(w, [claim |-> c, memo |-> [id |-> c, text |-> Blank]])
  /\ UNCHANGED <<made, overdue>>

-----------------------------------------------------------------------------
(* Variant: ClaimRequest does not save the claim that it makes.            *)
post_unsaved(w, s, op, c, d) ==
  /\ shows[s] = "form"
  /\ c \in known[s] \/ (op = "post_partial" /\ known[s] = {} /\ c = made + 1 /\ c \in Ids)
  /\ begin(w, s, op, c, d)
  /\ log(c, {"SUBMITTED"})
  /\ UNCHANGED <<made, overdue, draft, latest, session, browser>>

(* Saving and filing.  The browser posts under an id it holds; a form that *)
(* was answered without one is saved without one, which makes a claim.     *)
(* What Home files was answered or saved.  The server takes a claim in any *)
(* state.                                                                  *)
post(w, s, op, c, d) ==
  /\ shows[s] = "form"
  /\ \/ /\ c \in known[s]
        /\ UNCHANGED made
     \/ /\ op = "post_partial" /\ known[s] = {}
        /\ c = made + 1
        /\ c \in Ids
        /\ made' = c
  /\ begin(w, s, op, c, d)
  /\ log(c, {"SUBMITTED"})
  /\ UNCHANGED <<overdue, draft, latest, session, browser>>

POST_partial_claim(w, s, c, d) == post(w, s, "post_partial", c, d)

(* Variant: the memoized draft is left as it was.                          *)
save_partial_unmemoized(w) ==
  LET c == work[w].claim IN
  /\ serves(w, "post_partial")
  /\ draft' = [draft EXCEPT ![c] = work[w].text]
  /\ latest' = [latest EXCEPT ![c] = {work[w].text}]
  /\ overdue' = [overdue EXCEPT ![c] = FALSE]
  /\ log(c, {"STORED"})
  /\ learn(work[w].s, c)
  /\ answer(w, [work[w].loaded EXCEPT !.claim = c])
  /\ UNCHANGED <<made, shows>>

save_partial(w) ==
  LET c == work[w].claim IN
  /\ serves(w, "post_partial")
  /\ draft' = [draft EXCEPT ![c] = work[w].text]
  /\ latest' = [latest EXCEPT ![c] = {work[w].text}]
  /\ overdue' = [overdue EXCEPT ![c] = FALSE]
  /\ log(c, {"STORED"})
  /\ learn(work[w].s, c)
  /\ answer(w, [claim |-> c, memo |-> [id |-> c, text |-> work[w].text]])
  /\ UNCHANGED <<made, shows>>

(* S3 reports an error, having stored the draft or not.                    *)
save_partial_error(w) ==
  LET c == work[w].claim
      d == work[w].text
  IN
  /\ serves(w, "post_partial")
  /\ IF c \in known[work[w].s] THEN "put" \in Faults ELSE "first_put" \in Faults
  /\ \/ /\ draft' = [draft EXCEPT ![c] = d]
        /\ latest' = [latest EXCEPT ![c] = @ \cup {d}]
     \/ UNCHANGED <<draft, latest>>
  /\ answer_500(w)
  /\ UNCHANGED <<made, events, overdue>>

POST_completed_claim(w, s, c) == post(w, s, "post_completed", c, NoDraft)

(* The claim is filed: forget its id (the memoized draft stays), erase the *)
(* draft.  The browser keeps its caches; it only asks again for the        *)
(* completed claim.                                                        *)
write_completed(w) ==
  LET c == work[w].claim IN
  /\ serves(w, "post_completed")
  /\ log(c, {"COMPLETED", "STORED"})
  /\ draft' = [draft EXCEPT ![c] = NoDraft]
  /\ overdue' = [overdue EXCEPT ![c] = FALSE]
  /\ answer(w, [work[w].loaded EXCEPT !.claim = NoId])
  /\ UNCHANGED <<made, latest, browser>>

write_completed_error(w) ==
  /\ "put" \in Faults
  /\ serves(w, "post_completed")
  /\ answer_500(w)
  /\ UNCHANGED database

-----------------------------------------------------------------------------
(* Cancelling: from Home, the draft that is shown there; from the          *)
(* dashboard, a claim it lists as processing.  The server asks only that   *)
(* the claim is not fetched.                                               *)

cancel_claim(w, s, op, c) ==
  /\ shows[s] # "closed"
  /\ c \in 1..made
  /\ ~is_fetched(events[c])
  /\ \/ op = "cancel_draft" /\ shows[s] = "form" /\ c \in known[s]
     \/ op = "cancel_filed" /\ status_for_claimant(events[c]) = "processing"
  /\ begin(w, s, op, c, NoDraft)
  /\ log(c, {"RESOLVED"})
  /\ UNCHANGED <<made, overdue, draft, latest, session, browser>>

(* Variant: Home does not reload.                                          *)
delete_artifacts_kept(w) ==
  LET c == work[w].claim IN
  /\ serves(w, "cancel_draft") \/ serves(w, "cancel_filed")
  /\ draft' = [draft EXCEPT ![c] = NoDraft]
  /\ log(c, IF draft[c] # NoDraft \/ (is_completed(events[c]) /\ ~is_deleted(events[c]))
              THEN {"DELETED"} ELSE {})
  /\ answer(w, NewSession)
  /\ UNCHANGED <<made, overdue, latest, browser>>

(* The artifacts go, DELETED is recorded if there were any, and the        *)
(* session forgets both id and draft.  Home reloads the application, the   *)
(* dashboard only its list of claims.                                      *)
delete_artifacts(w) ==
  LET c == work[w].claim IN
  /\ \/ /\ serves(w, "cancel_draft")
        /\ show(work[w].s, "loading")
        /\ known' = [known EXCEPT ![work[w].s] = {}]
     \/ /\ serves(w, "cancel_filed")
        /\ UNCHANGED browser
  /\ draft' = [draft EXCEPT ![c] = NoDraft]
  /\ log(c, IF draft[c] # NoDraft \/ (is_completed(events[c]) /\ ~is_deleted(events[c]))
              THEN {"DELETED"} ELSE {})
  /\ answer(w, NewSession)
  /\ UNCHANGED <<made, overdue, latest>>

-----------------------------------------------------------------------------
(* The agency fetches, resolves or deletes what is filed.                  *)
swa(c) ==
  /\ c \in 1..made
  /\ is_completed(events[c])
  /\ \/ /\ InQueue(events[c])
        /\ log(c, {"FETCHED"})
        /\ UNCHANGED draft
     \/ /\ log(c, {"RESOLVED"})
        /\ UNCHANGED draft
     \/ /\ log(c, {"DELETED"})
        /\ draft' = [draft EXCEPT ![c] = NoDraft]
  /\ UNCHANGED <<made, overdue, latest, session, browser, work>>

(* Days pass since the claim was made or last saved, whoever reads it in   *)
(* the meantime.                                                           *)
Age(c) ==
  /\ c \in 1..made
  /\ \A w \in Workers : work[w].claim = c => work[w].op \notin {"bootstrap", "post_partial"}
  /\ overdue' = [overdue EXCEPT ![c] = TRUE]
  /\ UNCHANGED <<made, events, draft, latest, session, browser, work>>

(* The nightly job comes to a claim of its list.                           *)
expire(c) ==
  /\ ExpiredPartial(events[c], overdue[c])
  /\ draft' = [draft EXCEPT ![c] = NoDraft]
  /\ log(c, {"DELETED"})
  /\ UNCHANGED <<made, overdue, latest, session, browser, work>>

-----------------------------------------------------------------------------
Request(w, s) ==
  \/ \E c \in 0..made : GET_completed_claim(w, s, c) \/ GET_partial_claim(w, s, c)
  \/ \E c \in Ids : \/ \E d \in Drafts : POST_partial_claim(w, s, c, d)
                    \/ POST_completed_claim(w, s, c)
                    \/ \E op \in {"cancel_draft", "cancel_filed"} : cancel_claim(w, s, op, c)

Answer(w) ==
  \/ answer_completed(w)
  \/ answer_overdue(w) \/ answer_memo(w) \/ answer_stored(w) \/ answer_unread(w)
  \/ bootstrap(w)
  \/ save_partial(w) \/ save_partial_error(w)
  \/ write_completed(w) \/ write_completed_error(w)
  \/ delete_artifacts(w)

Next ==
  \/ \E c \in Ids : swa(c) \/ Age(c) \/ expire(c)
  \/ \E s \in Sessions : \/ GET_whoami(s) \/ logout(s)
                         \/ \E w \in Workers : Request(w, s)
  \/ \E w \in Workers : Answer(w)

Spec == Init /\ [][Next]_vars

-----------------------------------------------------------------------------
(* Properties.                                                             *)

(* A session that names a claim holds the memoized draft of that claim and *)
(* of no other: find() and the memo of GET partial-claim, which does not   *)
(* look at the claim that was found, cannot disagree while it does.        *)
MemoFollowsClaim ==
  \A s \in Sessions :
    session[s].claim # NoId => session[s].memo.id = session[s].claim

(* Whenever no request of hers is under way, a claimant who looks at her   *)
(* open claim is shown that claim as she last saved it, whether the draft  *)
(* comes from the session's memo or from S3.  Excepted is the memo that a  *)
(* filing leaves behind: once the agency has taken the claim that was      *)
(* filed, the finder goes past it and the memo does not.                   *)
open(c) == events[c] \cap {"COMPLETED", "RESOLVED", "DELETED"} = {}

shown(s, c) ==
  IF session[s].memo # NoMemo THEN session[s].memo ELSE [id |-> c, text |-> draft[c]]

left_by_filing(memo) == memo # NoMemo /\ is_completed(events[memo.id])

LastSaveIsShown ==
  \A s \in Sessions : \A c \in 1..made :
    /\ Quiet(s) /\ finds(s, c)
    /\ open(c) /\ ~overdue[c] /\ NoDraft \notin latest[c]
    /\ ~left_by_filing(session[s].memo)
    => shown(s, c).id = c /\ shown(s, c).text \in latest[c]

(* At most one claim of a claimant waits in the agency's queue: once one   *)
(* is filed, neither the finder nor the browser leads her to another.      *)
OneInQueue == Cardinality({c \in 1..made : InQueue(events[c])}) <= 1

(* At most one claim of a claimant is filed and not yet resolved, as the   *)
(* agencies are told of the system (docs/swa-api.md).                      *)
OneUntilResolved ==
  Cardinality({c \in 1..made : is_completed(events[c]) /\ ~is_resolved(events[c])}) <= 1

(* A claim that she has cancelled is not filed any more: Home forgets the  *)
(* ids of everything it shows, and neither session nor finder leads back.  *)
CancelledIsNotFiled ==
  [][\A c \in Ids : ~is_completed(events[c]) /\ is_completed(events'[c])
                      => ~is_resolved(events[c])]_vars

(* A claim that becomes COMPLETED is ready for the agency to fetch.        *)
FiledIsQueued ==
  [][\A c \in Ids : ~is_completed(events[c]) /\ is_completed(events'[c])
                      => InQueue(events'[c])]_vars

-----------------------------------------------------------------------------
(* Inductive invariants.                                                   *)

follows(ses) == ses.claim # NoId => ses.memo.id = ses.claim

(* MemoFollowsClaim holds of what a request has loaded, too.               *)
MemoInv ==
  /\ \A s \in Sessions : follows(session[s])
  /\ \A w \in Workers : follows(work[w].loaded)
=============================================================================

--------------------------- MODULE IdentityLogins ---------------------------
(***************************************************************************)
(* Logins through login.gov and the identity claims they leave behind:     *)
(* the views index and result (login-dot-gov/views.py) with the stash that *)
(* carries a login over to another browser or session, the claims of an    *)
(* agency that takes identities only, known by its swa_xid                 *)
(* (api/models/claim.py, api/identity_claim_maker.py), what the agency     *)
(* does to them (swa/views.py), and the job that completes them when they  *)
(* expire.                                                                 *)
(*                                                                         *)
(* The view result is several steps, since it asks login.gov, the database *)
(* and S3 in turn; what it does to the session is stored at its end.       *)
(* Every swa_xid is well-formed and dated, as those of AR are; sessions    *)
(* are identified with their browsers; a write to S3 with its commit is    *)
(* one step (ClaimLifecycle has its parts).                                *)
(***************************************************************************)
EXTENDS Integers, Sequences

CONSTANTS
  Claimants, Browsers, Workers,
  Agencies,        \* active SWAs
  IdentityOnly,    \* those of the featureset IDENTITY_ONLY
  Xids,            \* swa_xids
  Links,           \* the addresses of index on the pages, with their parameters
  StartPages,      \* the swa_xids in the addresses of start pages
  MaxLogins,       \* bound: logins begun
  MaxUpsets,       \* bound: failures of S3 and what the agency does to a claim
  None

ASSUME LoginsAssumption ==
  /\ IdentityOnly \subseteq Agencies
  /\ MaxLogins \in Nat /\ MaxUpsets \in Nat
  /\ Links \subseteq [ial : {1, 2}, swa : Agencies \cup {None},
                     swa_xid : Xids \cup {None}, skip : BOOLEAN]
  /\ StartPages \subseteq Xids
  /\ None \notin Claimants \cup Browsers \cup Agencies \cup Xids
  /\ None \notin [swa : Agencies, claimant : Claimants]

VARIABLES
  row,        \* the claim with this swa_xid, its swa and claimant; the column is unique
  events,     \* its events: those that decide something, but INITIATED_WITH_SWA_XID,
              \* which it always has
  partial,    \* its partial document, an identity of IAL 1, is in the bucket
  completed,  \* the IAL of its completed document, 0 when there is none
  expired,    \* swa_xids older than EXPIRE_SWA_XID_CLAIMS_AFTER
  session,    \* per browser: the session in the cache, or None
  cookie,     \* per browser: the cookie swa_xid, set by the start page
  logins,     \* the stash, by state: a login's parameters and where it began
  verified,   \* claimants whom login.gov has verified
  work,       \* per worker: the request to result it is serving
  job,        \* the job complete_expired_identity_claims
  upsets      \* how often S3 has failed or the agency has acted

claimVars == <<row, events, partial, completed, expired>>
loginVars == <<session, cookie, logins, verified>>
vars == <<claimVars, loginVars, work, job, upsets>>

Upset == upsets < MaxUpsets /\ upsets' = upsets + 1

Categories == {"STORED", "COMPLETED", "RESOLVED", "DELETED"}

NoJob == [pc |-> "idle", todo |-> {}, claim |-> None, before |-> {}]

\* No keys: what a browser without a session begins with. `refused` is
\* history: index stashed parameters in it and then turned the login down.
NoKeys == [swa |-> None, IAL |-> 0, swa_xid |-> None, state |-> 0,
           whoami |-> None, authenticated |-> FALSE, refused |-> FALSE]

Keys(b) == IF session[b] = None THEN NoKeys ELSE session[b]

Either(x, y) == IF x = None THEN y ELSE x

-----------------------------------------------------------------------------
(* index: to login.gov *)

\* get_swa_xid
get_swa_xid(param, jar, keys) == Either(param, Either(jar, keys.swa_xid))

\* A login of the browser b begins, whose session holds `keys` and which has
\* `before` in the stash. Without an agency nothing is stored; an agency of
\* identities turns a login without swa_xid down, but for a step up and for
\* the link of the page idp, when the parameters are in the session already.
Begins(b, keys, before, ial, swa, param, skip) ==
  LET agency  == Either(swa, keys.swa)
      swa_xid == get_swa_xid(param, cookie[b], keys)
      asked   == [keys EXCEPT !.swa = agency, !.IAL = ial]
  IN \/ /\ agency = None
        /\ session' = [session EXCEPT ![b] = IF keys = NoKeys THEN @ ELSE keys]
        /\ logins' = before
     \/ /\ agency # None
        /\ swa_xid = None /\ ial = 1 /\ agency \in IdentityOnly /\ ~ skip
        /\ session' = [session EXCEPT ![b] = [asked EXCEPT !.refused = TRUE]]
        /\ logins' = before
     \/ /\ agency # None
        /\ swa_xid # None \/ ial = 2 \/ agency \notin IdentityOnly \/ skip
        /\ Len(before) < MaxLogins
        /\ logins' = Append(before, [swa |-> agency, IAL |-> ial, swa_xid |-> swa_xid,
                                     session |-> b, stashed |-> TRUE])
        /\ session' = [session EXCEPT ![b] =
             [asked EXCEPT !.swa_xid = swa_xid, !.state = Len(before) + 1, !.refused = FALSE]]

\* A claimant who is logged in is sent on to the application, unless she
\* steps up.
MayBegin(keys, ial) == keys.authenticated => keys.whoami.IAL = 1 /\ ial = 2

index(b, link) ==
  /\ MayBegin(Keys(b), link.ial)
  /\ Begins(b, Keys(b), logins, link.ial, link.swa, link.swa_xid, link.skip)
  /\ UNCHANGED <<claimVars, cookie, verified, work, job, upsets>>

\* The start page of an agency remembers the swa_xid of its address.
start(b) ==
  /\ cookie' \in {[cookie EXCEPT ![b] = x] : x \in StartPages}
  /\ UNCHANGED <<claimVars, session, logins, verified, work, job, upsets>>

\* Half an hour passes, or a logout.
SessionEnds(b) ==
  /\ session[b] # None
  /\ session' = [session EXCEPT ![b] = None]
  /\ logins' = [s \in DOMAIN logins |->
                  IF logins[s].session = b THEN [logins[s] EXCEPT !.session = None] ELSE logins[s]]
  /\ UNCHANGED <<claimVars, cookie, verified, work, job, upsets>>

\* Twenty-four hours pass, in which the session does not last.
StashEnds(s) ==
  /\ logins[s].stashed /\ logins[s].session = None
  /\ logins' = [logins EXCEPT ![s].stashed = FALSE]
  /\ UNCHANGED <<claimVars, session, cookie, verified, work, job, upsets>>

-----------------------------------------------------------------------------
(* result: back from login.gov *)

Spent == [swa |-> None, IAL |-> 0, swa_xid |-> None, session |-> None, stashed |-> FALSE]
Answered(s) == [logins EXCEPT ![s] = Spent]

\* The session the answer is checked against: the browser's own if it has a
\* login, or the one in which the login began if that is still there.
Resumed(b, s) ==
  IF Keys(b).state # 0 THEN Keys(b)
  ELSE IF logins[s].stashed /\ logins[s].session # None THEN session[logins[s].session]
  ELSE None

\* No session: the login begins again with the parameters of the stash, or
\* with none.
Restarts(b, s) ==
  LET old == logins[s] IN
  /\ Resumed(b, s) = None
  /\ IF old.stashed THEN Begins(b, Keys(b), Answered(s), old.IAL, old.swa, old.swa_xid, FALSE)
     ELSE Begins(b, Keys(b), Answered(s), 1, None, None, FALSE)
  /\ UNCHANGED <<claimVars, cookie, work, job, upsets>>

\* "state mismatch"; what was copied from the other session stays copied.
Mismatched(b, s) ==
  LET keys == Resumed(b, s) IN
  /\ keys # None /\ keys.state # s
  /\ session' = [session EXCEPT ![b] = keys]
  /\ logins' = Answered(s)
  /\ UNCHANGED <<claimVars, cookie, work, job, upsets>>

(* Variant: the state is not compared.                                     *)
StateMatches_any(keys, s) == TRUE

StateMatches(keys, s) == keys.state = s

\* The answer is accepted; who is verified at login.gov has IAL 2, but only a
\* login at IAL 2 brings all attributes (full).
Accepted(w, b, s, who) ==
  LET keys == Resumed(b, s) IN
  /\ keys # None /\ StateMatches(keys, s)
  /\ work' = [work EXCEPT ![w] =
       [pc |-> "initiate", browser |-> b, new |-> session[b] = None, keys |-> keys,
        swa_xid |-> get_swa_xid(None, cookie[b], keys), who |-> who,
        IAL |-> IF who \in verified' THEN 2 ELSE 1, full |-> logins[s].IAL = 2,
        asked |-> [swa |-> logins[s].swa, IAL |-> logins[s].IAL, swa_xid |-> logins[s].swa_xid],
        claim |-> None, target |-> None, outcome |-> "none"]]
  /\ logins' = Answered(s)
  /\ UNCHANGED <<claimVars, session, cookie, job, upsets>>

\* login.gov answers each login once, in whatever browser she is by then.
result(w, b, s, who) ==
  /\ work[w] = None /\ logins[s] # Spent
  /\ verified' = IF logins[s].IAL = 2 THEN verified \cup {who} ELSE verified
  /\ Restarts(b, s) \/ Mismatched(b, s) \/ Accepted(w, b, s, who)

At(w, pc) == work[w] # None /\ work[w].pc = pc
Goes(w, fields) == work' = [work EXCEPT ![w] = fields]

(* Variant: a claim that has its identity of IAL 1 is not pending.         *)
Pending_unstored(who) ==
  {x \in Xids : row[x] # None /\ row[x].claimant = who /\ row[x].swa \in IdentityOnly
                /\ events[x] \cap {"STORED", "COMPLETED", "RESOLVED"} = {}}

\* The claims pending_identity_only_claim chooses from, in no order.
Pending(who) ==
  {x \in Xids : row[x] # None /\ row[x].claimant = who /\ row[x].swa \in IdentityOnly
                /\ events[x] \cap {"COMPLETED", "RESOLVED"} = {}}

\* On to the claim that gets the identity: one of hers that is pending, if
\* she logged in with an agency of identities. An IAL 2 without its
\* attributes does not validate, so nothing is written then.
Choose(w, claim, pending) ==
  LET r == work[w] IN
  IF r.keys.swa \notin IdentityOnly \/ pending = {}
  THEN Goes(w, [r EXCEPT !.pc = "leave", !.claim = claim])
  ELSE \E target \in pending :
         Goes(w, [r EXCEPT !.pc = IF r.IAL = 2 /\ ~ r.full THEN "leave" ELSE "write",
                           !.claim = claim, !.target = target,
                           !.outcome = IF r.IAL = 2 /\ ~ r.full THEN "invalid" ELSE "none"])

Mine(w) == [swa |-> work[w].keys.swa, claimant |-> work[w].who]

(* Variant: whoever has the swa_xid is given its claim.                    *)
MayUse_any(w, x) == TRUE

MayUse(w, x) == row[x] = Mine(w)

\* initiate_with_swa_xid: the claim of the swa_xid is there, and is hers; or
\* it is not there; or it is another's (DuplicateSwaXid). With status 500 the
\* session is not stored.
Initiate(w) ==
  /\ At(w, "initiate")
  /\ LET x == work[w].swa_xid IN
     \/ x = None /\ Choose(w, None, Pending(work[w].who))
     \/ x # None /\ row[x] # None /\ MayUse(w, x) /\ Choose(w, x, Pending(work[w].who))
     \/ x # None /\ row[x] = None /\ Goes(w, [work[w] EXCEPT !.pc = "create"])
     \/ x # None /\ row[x] # None /\ ~ MayUse(w, x) /\ Goes(w, None)
  /\ UNCHANGED <<claimVars, loginVars, job, upsets>>

(* Variant: the claim is made and not saved.                               *)
Create_unsaved(w) ==
  LET x == work[w].swa_xid IN
  /\ At(w, "create") /\ row[x] = None
  /\ Choose(w, x, IF Mine(w).swa \in IdentityOnly THEN {x} ELSE {})
  /\ UNCHANGED <<claimVars, loginVars, job, upsets>>

\* Another request may have created it since: then the insert fails, 500.
Create(w) ==
  LET x == work[w].swa_xid IN
  /\ At(w, "create")
  /\ \/ /\ row[x] = None
        /\ row' = [row EXCEPT ![x] = Mine(w)]
        /\ Choose(w, x, Pending(work[w].who)
                        \cup (IF Mine(w).swa \in IdentityOnly THEN {x} ELSE {}))
     \/ /\ row[x] # None
        /\ Goes(w, None)
        /\ UNCHANGED row
  /\ UNCHANGED <<events, partial, completed, expired, loginVars, job, upsets>>

\* IdentityClaimMaker: at IAL 1 the partial document, at IAL 2 the completed.
WriteIdentity(w) ==
  LET r == work[w]  x == work[w].target IN
  /\ At(w, "write")
  /\ Goes(w, [r EXCEPT !.pc = "leave", !.outcome = IF x = r.claim THEN "written" ELSE "other"])
  /\ IF r.IAL = 1
     THEN /\ partial' = [partial EXCEPT ![x] = TRUE]
          /\ events' = [events EXCEPT ![x] = @ \cup {"STORED"}]
          /\ UNCHANGED completed
     ELSE /\ completed' = [completed EXCEPT ![x] = 2]
          /\ events' = [events EXCEPT ![x] = @ \cup {"STORED", "COMPLETED"}]
          /\ UNCHANGED partial
  /\ UNCHANGED <<row, expired, loginVars, job, upsets>>

\* S3 fails, before or after it has stored the document: the events are
\* rolled back, the error is logged and the login goes on.
FailIdentity(w) ==
  LET r == work[w]  x == work[w].target IN
  /\ At(w, "write") /\ Upset
  /\ Goes(w, [r EXCEPT !.pc = "leave", !.outcome = "failed"])
  /\ \/ UNCHANGED <<partial, completed>>
     \/ /\ r.IAL = 1
        /\ partial' = [partial EXCEPT ![x] = TRUE] /\ UNCHANGED completed
     \/ /\ r.IAL = 2
        /\ completed' = [completed EXCEPT ![x] = 2] /\ UNCHANGED partial
  /\ UNCHANGED <<row, events, expired, loginVars, job>>

whoami(w) ==
  LET r == work[w] IN
  [who |-> r.who, IAL |-> r.IAL, claim |-> r.claim, swa |-> r.keys.swa,
   \* history: what the login asked for (a refused one, or a cookie, may have
   \* come between) and what became of the identity
   asked |-> IF r.keys.refused THEN None ELSE r.asked,
   jar |-> r.swa_xid # r.keys.swa_xid, outcome |-> r.outcome]

\* Verified, but the login was at IAL 1: begin another one at IAL 2 at once.
StepsUp(w) == work[w].keys.IAL = 1 /\ work[w].IAL = 2

\* The end of result: the session is stored as it was read, with what was
\* added, unless it is gone.
Leave(w) ==
  LET r == work[w]  b == work[w].browser
      named == [r.keys EXCEPT !.whoami = whoami(w)]
  IN
  /\ At(w, "leave") /\ Goes(w, None)
  /\ \/ /\ session[b] = None /\ ~ r.new
        /\ UNCHANGED loginVars
     \/ /\ session[b] # None \/ r.new
        /\ StepsUp(w)
        /\ IF MayBegin(named, 2) THEN Begins(b, named, logins, 2, None, None, FALSE)
           ELSE session' = [session EXCEPT ![b] = named] /\ UNCHANGED logins
        /\ UNCHANGED <<cookie, verified>>
     \/ /\ session[b] # None \/ r.new
        /\ ~ StepsUp(w)
        /\ session' = [session EXCEPT ![b] = [named EXCEPT !.authenticated = TRUE]]
        /\ cookie' = [cookie EXCEPT ![b] = None]
        /\ UNCHANGED <<logins, verified>>
  /\ UNCHANGED <<claimVars, job, upsets>>

-----------------------------------------------------------------------------
(* The agency, with its own claims; its other patches decide nothing here. *)

Theirs == {x \in Xids : row[x] # None /\ row[x].swa \in IdentityOnly}

\* PATCH resolved, as soon as the claim has its row; once it is complete
\* the event decides nothing.
PATCH_resolved(x) ==
  /\ x \in Theirs /\ events[x] \cap {"COMPLETED", "RESOLVED"} = {} /\ Upset
  /\ events' = [events EXCEPT ![x] = @ \cup {"RESOLVED"}]
  /\ UNCHANGED <<row, partial, completed, expired, loginVars, work, job>>

\* DELETE: whatever documents there are; without any it is a NOOP.
DELETE_claim(x) ==
  /\ x \in Theirs /\ (partial[x] \/ completed[x] # 0) /\ Upset
  /\ partial' = [partial EXCEPT ![x] = FALSE]
  /\ completed' = [completed EXCEPT ![x] = 0]
  /\ events' = [events EXCEPT ![x] = @ \cup {"DELETED"}]
  /\ UNCHANGED <<row, expired, loginVars, work, job>>

\* S3 deletes one document, both or neither and fails: no event.
DELETE_fail(x) ==
  /\ x \in Theirs /\ (partial[x] \/ completed[x] # 0) /\ Upset
  /\ partial' \in {partial, [partial EXCEPT ![x] = FALSE]}
  /\ completed' \in {completed, [completed EXCEPT ![x] = 0]}
  /\ UNCHANGED <<row, events, expired, loginVars, work, job>>

Agency(x) == PATCH_resolved(x) \/ DELETE_claim(x) \/ DELETE_fail(x)

-----------------------------------------------------------------------------
(* The job *)

\* is_swa_xid_expired from now on. Nothing depends on it before the claim is
\* stored, nor once it is complete.
Expire(x) ==
  /\ x \notin expired /\ "STORED" \in events[x] /\ "COMPLETED" \notin events[x]
  /\ expired' = expired \cup {x}
  /\ UNCHANGED <<row, events, partial, completed, loginVars, work, job, upsets>>

Completed == {x \in Xids : "COMPLETED" \in events[x]}

(* Variant: the query lists completed claims as well.                      *)
ExpiredIdentityClaims_all ==
  {x \in Xids : row[x] # None /\ "STORED" \in events[x] /\ "DELETED" \notin events[x]}

\* The queryset of ExpiredIdentityClaimsManager.
ExpiredIdentityClaims ==
  {x \in Xids : row[x] # None /\ "STORED" \in events[x]
                /\ events[x] \cap {"COMPLETED", "DELETED"} = {}}

complete_all ==
  /\ job.pc = "idle" /\ ExpiredIdentityClaims # {}
  /\ job' = [pc |-> "next", todo |-> ExpiredIdentityClaims, claim |-> None,
             before |-> Completed]
  /\ UNCHANGED <<claimVars, loginVars, work, upsets>>

Done(todo) == IF todo = {} THEN NoJob ELSE [job EXCEPT !.pc = "next", !.todo = todo, !.claim = None]

\* One more claim of the list: skipped, or its partial document is read.
complete_next ==
  /\ job.pc = "next"
  /\ \E x \in job.todo :
       job' = IF x \in expired /\ partial[x]
              THEN [job EXCEPT !.pc = "write", !.todo = @ \ {x}, !.claim = x]
              ELSE Done(job.todo \ {x})
  /\ UNCHANGED <<claimVars, loginVars, work, upsets>>

complete_write ==
  LET x == job.claim IN
  /\ job.pc = "write"
  /\ completed' = [completed EXCEPT ![x] = 1]
  /\ events' = [events EXCEPT ![x] = @ \cup {"STORED", "COMPLETED"}]
  /\ job' = [job EXCEPT !.pc = "erase"]
  /\ UNCHANGED <<row, partial, expired, loginVars, work, upsets>>

\* ClaimStorageError ends the job.
complete_fail ==
  LET x == job.claim IN
  /\ job.pc = "write" /\ Upset
  /\ completed' \in {completed, [completed EXCEPT ![x] = 1]}
  /\ job' = NoJob
  /\ UNCHANGED <<row, events, partial, expired, loginVars, work>>

\* delete_artifacts(partial_only): its outcome is not looked at.
complete_erase ==
  /\ job.pc = "erase"
  /\ \/ /\ partial' = [partial EXCEPT ![job.claim] = FALSE]
        /\ UNCHANGED upsets
     \/ /\ Upset
        /\ UNCHANGED partial
  /\ job' = Done(job.todo)
  /\ UNCHANGED <<row, events, completed, expired, loginVars, work>>

Job == complete_all \/ complete_next \/ complete_write \/ complete_fail \/ complete_erase

-----------------------------------------------------------------------------
Init ==
  /\ row = [x \in Xids |-> None]
  /\ events = [x \in Xids |-> {}]
  /\ partial = [x \in Xids |-> FALSE]
  /\ completed = [x \in Xids |-> 0]
  /\ expired = {}
  /\ session = [b \in Browsers |-> None] /\ cookie = [b \in Browsers |-> None]
  /\ logins = <<>> /\ verified = {}
  /\ work = [w \in Workers |-> None]
  /\ job = NoJob /\ upsets = 0

Serve(w) == Initiate(w) \/ Create(w) \/ WriteIdentity(w) \/ FailIdentity(w) \/ Leave(w)

Next ==
  \/ \E b \in Browsers : (\E link \in Links : index(b, link)) \/ start(b) \/ SessionEnds(b)
  \/ \E s \in DOMAIN logins : StashEnds(s)
  \/ \E w \in Workers, b \in Browsers, s \in DOMAIN logins, who \in Claimants :
       result(w, b, s, who)
  \/ \E w \in Workers : Serve(w)
  \/ \E x \in Xids : Expire(x) \/ Agency(x)
  \/ Job

Spec == Init /\ [][Next]_vars
-----------------------------------------------------------------------------

\* The types of a claim's row, of the parameters of a login, of a login, of
\* what is remembered of who logged in, of a session and of a request.
Row == [swa : Agencies, claimant : Claimants]
Asked == [swa : Agencies \cup {None}, IAL : 0 .. 2, swa_xid : Xids \cup {None}]
Login == [swa : Agencies \cup {None}, IAL : 0 .. 2, swa_xid : Xids \cup {None},
          session : Browsers \cup {None}, stashed : BOOLEAN]
Outcomes == {"none", "invalid", "written", "other", "failed"}
Whoami == [who : Claimants, IAL : {1, 2}, claim : Xids \cup {None}, swa : Agencies,
           asked : Asked \cup {None}, jar : BOOLEAN, outcome : Outcomes]
Session == [swa : Agencies \cup {None}, IAL : 0 .. 2, swa_xid : Xids \cup {None},
            state : Nat, whoami : Whoami \cup {None}, authenticated : BOOLEAN,
            refused : BOOLEAN]
Work == [pc : {"initiate", "create", "write", "leave"}, browser : Browsers, new : BOOLEAN,
         keys : Session, swa_xid : Xids \cup {None}, who : Claimants, IAL : {1, 2},
         full : BOOLEAN, asked : Asked, claim : Xids \cup {None},
         target : Xids \cup {None}, outcome : Outcomes]

\* What is written to has a row, and a session with a login has an agency.
TypeOK ==
  /\ row \in [Xids -> Row \cup {None}]
  /\ events \in [Xids -> SUBSET Categories]
  /\ partial \in [Xids -> BOOLEAN] /\ completed \in [Xids -> 0 .. 2]
  /\ expired \subseteq Xids
  /\ \A x \in Xids : row[x] = None => events[x] = {} /\ ~ partial[x] /\ completed[x] = 0
  /\ session \in [Browsers -> Session \cup {None}]
  /\ \A b \in Browsers : session[b] # None /\ session[b].state # 0 =>
       session[b].swa # None /\ session[b].state <= Len(logins)
  /\ cookie \in [Browsers -> Xids \cup {None}]
  /\ logins \in Seq(Login) /\ Len(logins) <= MaxLogins
  /\ verified \subseteq Claimants
  /\ work \in [Workers -> Work \cup {None}]
  /\ \A w \in Workers : work[w] # None =>
       /\ work[w].keys.swa # None
       /\ work[w].keys.state \in 1 .. Len(logins)
       /\ work[w].pc = "create" => work[w].swa_xid # None
       /\ work[w].pc = "write" => work[w].target # None /\ row[work[w].target] # None
  /\ job \in [pc : {"idle", "next", "write", "erase"}, todo : SUBSET Xids,
              claim : Xids \cup {None}, before : SUBSET Xids]
  /\ \A x \in job.todo : row[x] # None
  /\ job.pc \in {"write", "erase"} => job.claim # None /\ row[job.claim] # None
  /\ upsets \in 0 .. MaxUpsets

Sessions == {session[b] : b \in Browsers} \ {None}
LoggedIn == {keys \in Sessions : keys.whoami # None}

(* Whatever claim a session names is the claimant's own, with the agency   *)
(* she logged in to: two people who come with one swa_xid, one after the   *)
(* other or at once, never share a claim.                                  *)
ClaimIsHers ==
  \A keys \in LoggedIn : LET me == keys.whoami IN
    me.claim # None => row[me.claim] = [swa |-> me.swa, claimant |-> me.who]

(* A session belongs to the login whose answer opened it, for the agency   *)
(* and the swa_xid of that login, and one that claims IAL 2 has asked for  *)
(* the attributes of IAL 2.  The exceptions: index stashes the agency and  *)
(* the IAL before it turns a login down (login-dot-gov/views.py:140), in   *)
(* the middle of the login of another tab; and a cookie swa_xid, set by a  *)
(* start page, beats the swa_xid of the session once the answer is there   *)
(* (login-dot-gov/views.py:410).                                           *)
SessionIsOfItsLogin ==
  \A keys \in LoggedIn : LET me == keys.whoami IN
    me.asked # None =>
      /\ me.swa = me.asked.swa
      /\ ~ me.jar => me.claim = me.asked.swa_xid
      /\ keys.authenticated /\ me.IAL = 2 => me.asked.IAL = 2

(* A claimant who is logged in as verified with an agency of identities    *)
(* has her claim filed, and the site will not let her verify again: no     *)
(* overlap of logins, deletions and the job leaves the agency waiting for  *)
(* an identity that she believes she has sent.  (It is the unverified one  *)
(* when the job completed the claim first, claimant.py:52.)  The           *)
(* exceptions: S3 failed; the payload was refused, for a session with      *)
(* another login's IAL; another claim of hers was pending and was          *)
(* completed instead (login-dot-gov/views.py:428); the agency had resolved *)
(* the claim before her identity came, and it is dropped                   *)
(* (claimant.py:56).                                                       *)
VerifiedIsShared ==
  \A keys \in LoggedIn : LET me == keys.whoami IN
    keys.authenticated /\ me.IAL = 2 /\ me.swa \in IdentityOnly /\ me.claim # None
    /\ me.outcome \notin {"failed", "invalid", "other"} =>
      "COMPLETED" \in events[me.claim] \/ "RESOLVED" \in events[me.claim]

(* A verified identity that the agency has is not replaced by an           *)
(* unverified one, unless it came while the job was under way, which reads *)
(* the claims it completes long before it gets to them (claim.py:107); it  *)
(* only goes when the agency deletes it.                                   *)
VerifiedStays ==
  [][\A x \in Completed :
       completed[x] = 2 /\ completed'[x] = 1 => x \notin job.before]_vars
=============================================================================

# A verification project for the claimant experience

The program takes unemployment claims. A claimant logs in through login.gov, fills in a long form that
is saved page by page as an encrypted draft, and files it; the state agency (SWA) picks filed claims up
through an API of its own. Some agencies take only her verified identity. This directory holds TLA+ models of the server where several parties act on one claim,
of the browser application that fills it in and of the sessions between the two, the TLC runs that check them on small instances, and TLAPS proofs for every
size of instance. The models are translated from the code under `src/`; file names below are relative to it.

## 1. Inventory

| Component | State it keeps | Operations | Interacts with | What makes it correct |
| --- | --- | --- | --- | --- |
| Claim lifecycle (`api/views.py`, `api/models/claim.py`, `core/claim_storage.py`, `swa/views.py`) | rows of `claims`, the append-only `events`, objects in two S3 buckets, mail tasks | GET/POST partial-claim, POST completed-claim, DELETE claims/id, the agency's PATCH and DELETE, the expiry job | session, queue, broker, cron | filed means archived; the queue lists only claims that can be handed over; drafts and documents go when they should; a closed claim stays closed |
| Claimant session and finder (`api/claim_finder.py`, `api/views.py`, `api/whoami.py`) | per session: `whoami.claim_id`, the memoized draft | find, memoize, forget | lifecycle, login | the claimant sees and saves the draft she thinks she does; one open claim at a time |
| SWA queue (`api/models/swa.py`, `swa/views.py`) | none: a query over events | list a page, fetch | lifecycle | paging while fetching loses nothing, no claim is listed twice |
| Identity-only claims (`api/models/claim.py`, `api/models/claimant.py`, `api/identity_claim_maker.py`) | `swa_xid` column, `INITIATED_WITH_SWA_XID` events | initiate at login, complete at IAL2, the `complete_all` job | login, lifecycle | one claim per `swa_xid`; completed once, at the best IAL reached |
| login.gov flow (`login-dot-gov/views.py`) | session (`IAL`, `swa`, `logindotgov`), a 24 h stash in the cache | index, result, step-up | identity claims, session | an answer is only accepted by the login that asked; a lost session resumes or restarts |
| Session expiry (`api/middleware/session.py`, `claimant/src/components/SessionManager`) | `expires_at` in session and cookie, the browser's countdown | extend, warn, log out | every `/api/` request | warned before the session is gone |
| Key rotation (`api/management/claimant_key_rotator.py`, `core/claim_encryption.py`) | key of each draft, `encryption_key_hash` | rotate, save, read with a list of keys | lifecycle | no draft becomes unreadable, no save is lost |
| SWA authentication (`swa/middleware`) | nonces in the cache | verify a JWT | queue | a token is honoured once |
| Claim form (`claimant/src/pages/ClaimForm`, `Home`, `EmployerReview`, `useClaimProgress`) | Formik's values and initial values, the query cache, posts in flight | next, back, save and exit, remove an employer, continue, file | lifecycle over HTTP | nothing entered is forgotten; she continues where something is open; what is filed is what was last saved |
| Question pages (`claimant/src/pages/Questions`, `components/form`, `YupBuilder.tsx`, `useClearFields.ts`) | answers of one page, React state of its fields | answer, tick, type, pick, save and return | claim form, schemas | what a page accepts the server takes; what is hidden is forgotten; a refusal says why; the review shows what is filed |
| Cleaner, validator, schemas (`api/claim_cleaner.py`, `api/claim_validator.py`, `schemas/claim-v1.0.json`) | none | clean, validate | lifecycle, question pages | pure functions, which agree with the pages |
| Dashboard and shell (`App.tsx`), 1099-G upload, home site, local identity provider, translations | - | - | - | I/O and presentation |

What is hard here: a handler is a sequence of database commits and S3 calls that no transaction spans
(`ATOMIC_REQUESTS` is off, so only `transaction.atomic()` blocks are atomic); nothing is ever retried or
repaired in the background; several processes (web workers of two audiences, cron) act on one claim; all
progress is recorded as events that are only ever added, and every decision is a query over them.
In the browser, effects rewrite answers after each change, the same answers live in Formik, in the state of a field,
in a query cache and in the stored draft, and requests are answered in any order; sessions end by a clock
that server and browser keep separately; a login comes back after minutes, in whatever browser she is by then.
`PROJECT.json` lists each hazard at its line.

## 2. What is modelled

`ClaimEvents` - what the program reads off a claim's events: `is_completed` and its like, the status shown
to the claimant, membership of the agency's queue, the expiry job's filter. The events of a claim are the
*set* of its categories: no predicate of these counts them.

`ClaimLifecycle` - the lifecycle, one action per step between which other processes may run. A process is
a web worker serving one request, or the job (`Cron`); `pc` is the next step, `req` what it works on.

| TLA+ | Code |
| --- | --- |
| `rows`, `status`, `overdue` | rows of `claims`; `overdue` abstracts `updated_at` against `DELETE_PARTIAL_CLAIM_AFTER_DAYS` |
| `events[c]` | categories among the claim's committed rows of `events` |
| `changedTo[c]` | the `new` value in the latest STATUS_CHANGED event |
| `lock[c]` | the transaction that has updated the row and not ended; it is `write_completed`'s, from its first `save()` to its commit; all others end in the same step |
| `object[c][kind]` | the draft and the completed document in the agency's bucket, and the archive copy |
| `emailed` | claims whose receipt task was handed to Celery |
| `batch` | the rest of the job's result list |

`POST_completed_claim` → `put_completed` → `save_completed` (takes the row) → `put_archive` →
`commit_completed` → `send_later` → `probe_partial` → `delete_objects` follow `write_completed` and the
handler around it line by line; `cancel_claim` → `cancel_resolve` → `probe_completed` → … →
`record_deleted` follow `cancel_claim` and `delete_artifacts`. The rows of the database and of S3 change
in the order of the code, and a request decides on what it read, not on what has become true since: the
cancelling worker has checked `is_fetched` a step before it records RESOLVED, the job goes through a list
read earlier, a save writes back the `status` read when the request began (`req[p].row`).

Failures: a put fails with the object stored or not (`put_error`), a delete erases some objects
(`delete_error`), a read fails and `exists` says False, a process dies or raises where nothing catches
(`abandon`). `Faults` says which of them a run has. Two more switches say how the environment behaves:
`Polite` clients post to a claim only while it is open and no other request of the claimant is under way,
and an agency touches only filed claims (the browser disables its button, the agency knows only the ids
of its queue; the server checks neither); `CronAlone` runs the job only while nothing is served.

A POST that fails validation after `ClaimRequest` created a row leaves a claim with a row and no event,
which is also what is left of an interrupted bootstrap, so it has no action of its own. What the handlers
write to the session (`api/views.py:213`, `:288`, `:356`, `:126`) is the subject of `ClaimSession`.

`FilingPromise` - the abstract specification: what is filed is archived, stays filed and archived, and
only what is filed is mailed a receipt. `ClaimLifecycle!KeepsPromise` is the refinement.

`ClaimSession` - which claim a claimant sees and writes to: one claimant with one agency, any number of
browser sessions, several claims, and requests that may overlap.

| TLA+ | Code |
| --- | --- |
| `session[s]` | the session in the cache, one value: `whoami.claim_id` (`claim`) and `partial_claim` (`memo`, with the id in it) |
| `work[w].loaded` | the session as the request loaded it; `SessionTimeout` writes `expires_at` on every request, so the answer stores all of it (`answer`), except that Django stores nothing with a 500 (`answer_500`) |
| `made`, `events`, `overdue`, `draft` | the claimant's claims in the order of `created_at`, their events, their age, their drafts in S3 |
| `shows[s]` | `App.tsx`: nothing, waiting for completed-claim, the home page, the form, the success page |
| `known[s]` | the ids in the caches of the browser: of `whoami`, of the draft, of the last reply |
| `latest[c]` | for the properties: the drafts it would be right to show |
| `candidates`, `finds` | `ClaimFinder.find`, by id or by query |

A request is two steps: `begin` with the lookups and the commits before the first write to S3, and the
answer with that write, the events after it and the session. What lies between these steps
in the code is in `ClaimLifecycle`. A deletion always succeeds here, and nothing crashes. Home cancels the draft
it shows (`cancel_draft`) and reloads (`Home.tsx:400`); the dashboard cancels a claim it lists as processing
(`cancel_filed`) and keeps its caches, as Home does after a filing (`Home.tsx:477-482`). `Age` comes to any claim,
whoever reads it, unless it is just being made or saved: only a save moves `updated_at`. `Faults` tells the put of a save that
makes a claim (`first_put`) from the others (`put`).

`IdentityLogins` - logins through login.gov and the identity claims they leave behind. `session[b]` is the
browser's session (`swa`, `IAL`, `swa_xid`, `state`, `whoami`, `authenticated`), `logins` the stash by state,
`work[w]` a request to `/logindotgov/result`, which reads the session once and stores it at its end; in between it
asks login.gov, creates or finds the claim of the `swa_xid` (`Initiate`, `Create`) and writes the identity
(`WriteIdentity`, `FailIdentity`). `index` and the job (`complete_all` to `complete_erase`) follow the code in the
same way. The agency resolves a claim at any time (`PATCH_resolved`) and erases what it holds (`DELETE_claim`, `DELETE_fail`).
Left out: malformed and undated `swa_xid`s, the token checks, `redirect_to`.
A write to S3 with its commit is one step, an answer comes back at most once. `Expire` waits until the claim is stored
and `StashEnds` until the session has ended; an earlier one would change nothing that is read.

`SessionExpiry` - the two clocks. `session` has the seconds until `expires_at` and until the cache drops it, `cookie` is
`expires_at` in the browser, which the first tab to look takes (`getSecondsLeft`); per tab `deadline` and `shown` are the
countdown of `SessionManager`, whose `Interval` fires once a second. A request loads the session at `Begin` and stores it
at its answer, up to `Lag` seconds later; a logout goes to `/logout/`, to login.gov and back, or never back.

`ClaimForm` - one walk through the form in one tab. `route` is the page, `values` and `initial` are Formik's, `cache`
is react-query's copy of the draft on Home, `posts` are the requests in flight with what must happen at their answer,
`draft` and `filed` are the server's. `entered`, `sent` and `excuses` are history: what she would expect to find, and
the named ways in which the code disappoints her. An employer is untouched or filled in and then a name; the
answers of the other pages count as complete, so Back from the first employer and the pages between employer-review
and review are left out.

`get` is the GET in flight that refreshes `cache`: the refetch when Home or the form comes up, the one after a removal, and
the query of Home's card to submit. It has read the draft before or after each save (`Apply` decides), and its
answer, however late, replaces the cache, although a save may have put a newer claim there. A post is lost before it is
stored or its answer is (`Fail`); at a full page load a post in flight reaches the server first or never. `Submit` files the
cache whatever was lost or is late. Simplifications, each a bound on what she does and not on what the network does: a name is not
changed once entered; she waits for the answer of save-and-exit, and once something was lost only the network and filing go on
(`Free`); she types nothing while a GET is in flight that a save overtook (`Types`); posts and GET together are at most
`MaxPosts`, and none is posted while a GET is that react-query no longer waits for (`MaySend`).

`QuestionPages` puts the question pages together; she works on one at a time. `PersonPages`, `WorkPages` and
`BenefitPages` have a page's answers as a function from field names to classes of values (`FormValues`: absent, blank, part of an
address, too long, ...), and per page the operators `...Init`, `...Offers` (what its controls can enter), `...Settled`
(the effects), `...Errors` (yup), `...Restored` (`mergeClaimFormValues`), `...Rejects` (schema and validator) and, in
`ReviewPages`, `...Reviewed`. `FormAnswers` is the component over them: one action `Answer`-s a control, one saves and returns.
The page employer is taken in two halves that share no rule, `employer_contact` and `employer_separation`. `AnswerTypes` has the
values that each field can have; `TypeOK` of `FormAnswers` says that the values are of these types and that the effects have
come to rest: none of them would change anything, so no two undo each other's work.
`OtherPay`, `OccupationPicker` and `DateField` have React state of their own besides Formik's and are modules of their own.

## 3. What the runs show

| Run | Instance | Result |
| --- | --- | --- |
| `lifecycle_any_client` | 1 claim, 2 workers and the job's process, 1 payload; every operation except expiry and the agency's DELETE; impolite clients, all faults | `TypeOK`, `QueueEntryServable`, `ClosedStaysClosed`, `KeepsPromise`, `RequestsFinish` hold; ~115,000 states |
| `lifecycle_polite` | the same with 2 payloads and every operation; polite clients, the job at night, failing puts | `AgencyCopyMatchesArchive`, `FiledDraftIsErased`, `DeletedMeansErased`, `StatusFollowsEvents`, `ExpiryOnlyTakesDrafts`, `OverdueDraftsGo` hold; ~12,000 states |
| `expiry_race` | 1 worker and the job, nothing fails | `ExpiryOnlyTakesDrafts` violated |
| `cancel_race` | 2 workers, nothing fails | `CancelOnlyUnfetched` violated |
| `session_alone` | 1 session, 1 worker, 2 claims, 2 drafts; puts may fail, but for those of saves that make a claim | `TypeOK`, `MemoFollowsClaim`, `LastSaveIsShown`, `OneInQueue`, `CancelledIsNotFiled` hold; ~4,200,000 states |
| `session_overlap` | 1 session, 2 workers, 1 claim, nothing fails | `LastSaveIsShown` violated |
| `second_claim` | 1 session, 1 worker, 2 claims, nothing fails | `OneUntilResolved` violated |
| `deleted_then_filed` | 1 session, 1 worker, 1 claim, nothing fails | `FiledIsQueued` violated |
| `identity_logins` | 2 claimants, 2 browsers, 2 workers, an agency of identities and another one, 2 `swa_xid`s, 2 logins, 1 failure of S3 or action of the agency | `TypeOK`, `ClaimIsHers`, `SessionIsOfItsLogin`, `VerifiedIsShared`, `VerifiedStays` hold; ~1,450,000 states up to symmetry |
| `app_session` | 2 tabs, a session of 6 seconds, a buffer of 3, answers within 1 | `CountdownTracksSession`, `IdleTabsClose` hold; ~2,820,000 states |
| `form_walk` | 2 names, up to 2 employers, 2 requests in flight | `TypeOK`, `EmployersAreWhole`, `NothingIsForgotten`, `ContinuesAtOpenQuestion`, `OfferedIsFinished`, `FiledIsLastSaved` hold; ~3,830,000 states up to symmetry |
| `question_pages` | all 12 pages of answers; 2 kinds of pay; 7 occupations, 2 to a page; one date | `TypeOK`, `AcceptedIsFilable`, `RefusalIsExplained`, `HiddenAnswersAreForgotten`, `AnAnswerStays`, `ReturnKeepsAnswers`, `ProgressAgreesWithNext`, `FiledIsReviewed`, `OtherPayIsAsEntered`, `OccupationIsAsPicked`, `AcceptedDateIsShown` hold; ~50,000 states |

Findings. (1) The expiry job deletes the documents of a claim filed between its query and its turn: the
command is documented to delete *expired partial* claims. (2) A claimant can cancel a claim the agency has
just fetched, against the docstring of `cancel_claim`.
(3) A GET that overlaps a save stores the session as it was before, memo included, and that old draft is what
partial-claim answers from then on (and what the home page files), although the form says that progress is saved.
(4) Once the agency has fetched a claim, its claimant is led to a second one, against the agencies' manual.
(5) The expiry job deletes a draft that the browser holds: reading it does not move `updated_at`, and the check that is to
prevent this (`views.py:292`) only covers the time until the job runs. She can still file it: the claim is COMPLETED and
she is mailed a receipt, but it never enters the queue.

Beside the findings, where a document or comment speaks against the code, the properties name the cases in which the code
falls short of them; nothing in the repository says otherwise, but each is worth a look:

- lifecycle: when S3 cannot be read, the expiry job takes the draft for missing and records DELETED, and the draft stays
  (`DeletedMeansErased` holds because `lifecycle_polite` has no failing reads);
- session: when the save that makes a claim fails halfway, while the session still has the memo of an overdue claim, each of the two
  can be filed, and both wait in the queue (`OneInQueue` holds without `first_put`);
- what she passes and the server refuses (`AcceptedIsFilable`): no work authorization, a half-entered work site that was then
  hidden, a last day before the first, a language that is too long;
- a refusal without an explanation (`RefusalIsExplained`): a self-employed employer without a last day of work, a second
  phone that the array does not expect;
- amounts filed for another kind of pay when the boxes are ticked out of order, boxes that show another amount after a
  tick is taken back (`OtherPayIsAsEntered`); a code without its name, an empty list page after a search that finds less, from which Previous
  may lead to another empty one (`OccupationIsAsPicked`);
- Back with an unsaved employer forgets it, a removal resets what came after it, an edit of an affirmed claim is thrown to
  Home (`NothingIsForgotten`, `EmployersAreWhole`); Home files what is in its cache, and an older claim than the one last saved
  is there while it refreshes, or for good after she came to it with a save or a refresh in flight or a save lost, or after one of two
  posts overtook the other (`FiledIsLastSaved`); a claim without employers can be filed (`OfferedIsFinished`);
- a countdown runs past the session the server keeps when answers are slow: by as much as three answers and a second exceed the
  five seconds of the buffer; a tab whose cookie another tab took logs everybody out at its old deadline; a refused save of
  an ended session is given a new countdown, of an anonymous session (`CountdownTracksSession`);
- a login turned down changes agency and IAL under the login of another tab, a cookie `swa_xid` beats the session's
  (`SessionIsOfItsLogin`); a verification completes any pending claim of hers, and then she cannot step up for the other
  (`VerifiedIsShared`); when the agency resolves the claim before she has verified, her identity is dropped, and she is
  verified all the same (`VerifiedIsShared`); the job overwrites a verified identity that came while it ran (`VerifiedStays`).

Why the bounds are enough: claims meet only in `batch` and in a worker's attention, and every property
speaks of one claim at a time, so one claim suffices; two workers and the job give every pair, and the
triple, of operations on it; the two payloads of `lifecycle_polite` are what it takes to tell copies of
different submissions apart. The sets of events and objects are finite, so nothing is cut off: no
counter is bounded and no state constraint is used.

`session_alone`: two claims are what the finder needs to choose between, and to file one while another is
there; two drafts tell the last save from the one before. One session with one request at a time, because
with two sessions or two requests `LastSaveIsShown` and `OneInQueue` do not hold (finding 3 and the hazards
at `api/views.py:300` and `api/claim_request.py:69`); `MemoFollowsClaim` is proved for any number of both, the other
three for any number of claims of one session. `first_put` is not among its faults, because with it `OneInQueue` does not hold either.
`MaxClaims` is a bound, in the guards of `GET_partial_claim` and of `post` (`c \in Ids`).

Why only polite clients in `lifecycle_polite`: without it the properties fail in ways no document of the
repository excludes (two completions of one claim interleave; a late save writes a draft of a closed
claim). They are listed as hazards. `lifecycle_polite` switches deadlock checking off, because a closed
claim with polite clients leaves nothing to do.

`identity_logins`: two logins are what it takes to mix up two logins, for a step-up, or for a claim and its completion; two
browsers for an answer that comes elsewhere; two workers for overlapping answers of one claimant or of two. One `swa_xid`
comes by the cookie, one by a link. Two agencies tell the one of the session from the one of the claim. `MaxLogins` and
`MaxUpsets` are bounds in the guards of `Begins` and of what fails or comes from the agency (`Upset`). Claimants, browsers
and workers are interchangeable; no liveness is checked in this run.

`app_session`: the properties compare clocks, so small numbers in the same order as the real ones do. Up to `3 * Lag + 1` seconds
go by between what a countdown shows and what the server keeps: two answers that overtake each other, a second until
a countdown reads the cookie, and as long as fetches of whoami in other tabs put that off. That is 4 here, the buffer is 3, so the
case that the buffer does not cover (`Overrun`) is met, with an overrun of one second. The site's buffer is five seconds, and gunicorn ends a
request after thirty. Two tabs are what it takes for one to take the cookie of the other.

`form_walk`: two employers are a first and a last one, two names tell an employer from its neighbour, two requests give
either order of arrival, of two posts or of a post and a GET. `MaxEmployers` bounds the segments (in `GoNext` and the links),
`MaxPosts` the requests in flight (`MaySend`).
It switches deadlock checking off, because a filed claim, or a walk in which something was lost, ends there.

`question_pages`: every page with every combination of its classes of values that its controls can produce; a class is a
value some rule treats differently. Four list pages, a first, a last and two between, are what it takes for Previous to
lead from a page the list no longer has to another one; the page numbers are checked for lists of up to eight pages
besides. Two kinds of pay are what it takes to tick them out of order; section 4 has
`OtherPayIsAsEntered` for any.

Fairness. `WF` of each process's `Working` steps: a request that has begun goes on, S3 answers or fails.
`SF` of the steps that wait for the row of a claim: InnoDB grants a row lock in the order of the requests,
so a waiting transaction cannot be overtaken for ever. `WF` of `Expiry`: cron starts the job every night.
`SessionExpiry` has `WF` of `Tick`
(time passes) and of each tab's `Interval` (`setInterval` fires). Nothing is assumed of claimants or the agency. `OverdueDraftsGo` is conditional on the site falling quiet.

## 4. What is proved

`ClaimLifecycleProofs`, for any sets of claims, workers, payloads and statuses, any choice of operations
and any faults, from `LifecycleAssumption` alone (the null values are outside their sets):

- `TypeCorrect`: `Spec => []TypeOK`. Inductive as it stands, because it also says that whatever a process
  works on has a row.
- `ClosedForGood`: `Spec => ClosedStaysClosed`. From two lemmas: events are only ever added
  (`EventsGrow`), and a closed status with more events is still closed (`ClosedWithMoreEvents`).
- `PromiseKept`: `Spec => KeepsPromise`, the refinement. The inductive invariant is `FilingInv`: a process
  about to commit a filing has its document in the archive, one about to mail has filed, and every filed
  claim is archived. It is needed because the commit itself checks nothing: that the archive put came
  first is a fact about `pc`. `QuietSteps` says that all steps but four leave the promise's variables alone.
- `QueueIsServable`: if neither expiry nor the agency's DELETE is among `Ops`, `Spec => []QueueEntryServable`.
  The inductive invariant is `ServableInv`: whoever looks for, or is about to delete, the completed document
  has closed the claim first; whoever is about to commit a filing has put the document, unless the claim
  was closed meanwhile.

`ClaimSessionProofs`, for any sets of sessions, workers and drafts, any number of claims and any faults,
from `SessionAssumption` alone:

- `SessionTypeCorrect`: `Spec => []TypeOK`, which also says that ids in sessions, browsers and requests have a row.
- `MemoIsOfClaim`: `Spec => []MemoFollowsClaim`. Inductive only together with the same fact about the sessions
  that requests have loaded, since an answer stores one of those (`MemoInv`).

`ClaimSessionAloneProofs`, for one session and one worker (`Alone`), and any number of claims and drafts. The
hypothesis is the one under which the properties hold: requests that overlap and a second session break them
(`session_overlap`, the hazards at `api/views.py:300` and `api/claim_request.py:69`).

- `OneClaimInQueue` (`Alone`; `FirstSavesArrive`: a save that makes a claim does not fail halfway): `Spec => []OneInQueue`. The
  inductive invariant is `QueueInv`: what the request under way has loaded is what the session holds (`LoadedInv`); request,
  session and browser name the same claim where they must (`RequestInv`); of the claims the finder would consider, session, memo,
  browser and request name only the most recent (`NearestInv`); while a claim is on file she gets to no form without an id
  (`FiledInv`). It is needed because nothing in the code counts claims: that there is one is a fact about where the finder, the
  session and the browser can lead her.
- `CancelledIsNeverFiled` (`Alone`, whatever fails): `Spec => CancelledIsNotFiled`. The inductive invariant is `CancelInv`, with
  `LoadedInv`: neither session, memo, browser nor request names a claim that the finder skips although it was never filed, but
  for the time until the answer to the cancellation that Home sent. It is needed because the server takes a post to a claim in any
  state, and answers a memo whatever became of its claim.
- `LastSaveIsAlwaysShown` (`Alone`, `FirstSavesArrive`): `Spec => []LastSaveIsShown`, with `ShownInv` on top of `QueueInv`: whatever
  is memoized or stored is right to show (`SavedInv`), and the claims she is not led to, or that the memo of another would
  hide, hold nothing she could miss (`LostInv`).

The second part of `ClaimLifecycleProofs`, for any sets and from the same `LifecycleAssumption`, has the properties that hold only under
conditions; each theorem names the ones it needs as hypotheses, and needs no others of those of the run:

- `StatusAlwaysFollowsEvents` (`Polite`): `Spec => []StatusFollowsEvents`. The strengthening is `WriterInv`: a request
  that stores something is the only one for its claim, the claim is not filed, and the row it will write back is still the
  one in the database.
- `AgencyCopyIsArchived` (`Polite`): `Spec => []AgencyCopyMatchesArchive`, with `CopyInv`: between the two puts of a
  filing nobody puts another document beside its own. Holds whatever fails and whenever the job runs.
- `FiledDraftGoes` (`Polite`; only puts fail): `Spec => []FiledDraftIsErased`, with `DraftInv`: the draft of a filed
  claim is gone, or its request is about to look for it or to delete it.
- `DeletedIsErased` (`Polite`, `CronAlone`; reads do not fail): `Spec => []DeletedMeansErased`, with `AloneInv` (while the job
  is at work no request is) and `ErasedInv`: whoever is about to record DELETED has overlooked no document, because nobody has
  put one since it looked.

`IdentityLoginsProofs`, for any numbers of claimants, browsers, workers, agencies and logins, from `LoginsAssumption` (what
links and start pages name is among the constants; `None` is outside all sets):

- `TypeCorrect`: `Spec => []TypeOK`, which also says that whatever is worked on has a row.
- `ClaimIsAlwaysHers`: `Spec => []ClaimIsHers`. A claim named in a session, in a session a request has loaded, or by a
  request past the creation is that claimant's (`ClaimInv`), and a row never changes once it is there.
- `VerifiedIsAlwaysShared`: `Spec => []VerifiedIsShared`, with its four exceptions (a failure of S3, a payload refused for
  another login's IAL, another pending claim of hers, a claim that the agency had resolved). The invariant adds the same fact
  about loaded sessions and about requests that are done with their claim (`SharedInv`).
- `VerifiedAlwaysStays`: `Spec => VerifiedStays`. The job works at claims that were not complete when it began (`JobInv`).
- `SessionIsAlwaysOfItsLogin`: `Spec => []SessionIsOfItsLogin`. A session that waits for a login has that login's
  parameters until it is answered or turned down (`Fits`); a request that answers one has spent it, and holds them (`Answers`).

`SessionExpiryProofs`, for any number of tabs and any clocks within `ExpiryAssumption`, which asks of the buffer only that
it and an answer fit into a session, and that a session outlasts four answers and a second (half an hour against gunicorn's thirty seconds):

- `TypeCorrect`: `Spec => []TypeOK`.
- `CountdownAlwaysTracksSession`: `Spec => []CountdownTracksSession`, by arithmetic over the ages of requests, cookie and
  countdowns. The inductive invariant `IInv` has nine parts: a cookie and an answer bring nearly a whole session
  (`CookieInv`), an extended session is hardly older than its request (`ExtendedInv`), a cookie is read within a second unless
  a fetch of whoami puts that off (`UnreadInv`), a countdown at zero logs out within a second (`ZeroInv`), a countdown is past
  the session by no more than the overrun (`CountdownInv`), and the latest one is not far below it (`LatestInv`). The step of
  `CountdownInv` comes in two lemmas, for a buffer that answers can use up (`LooseStep`) and for one that covers them
  (`StrictStep`), where the invariant has to be sharper because a second must not be lost.
  The bound is sharp: with the buffer 2 and `Lag = 1`, TLC finds a countdown past the session by the whole overrun, 2.

`ClaimFormProofs`, for any names, affirmations, number of employers and number of requests in flight, from `FormAssumption`:

- `ClaimsAreTyped` and `FormIsWhole`: `Spec => []TypeOK`, `Spec => []EmployersAreWhole`. The inductive invariant `IInv`:
  what is cached, stored or on its way is whole whatever happened, because she posts only as long as nothing was lost
  (`StoredInv`); form, initial values and the claim last sent are whole while nothing was (`FormInv`); the page of an
  employer is not beyond any of them (`PlaceInv`); the answer of a removal finds the page that asked for it and nothing
  sent in between (`RemovalInv`); away from the form no post is in flight, unless she left it in the middle of one (`AwayInv`);
  Home, once refreshed, has the server's draft and says of errors what is true of it, with the same exception (`HomeInv`).
- `ContinuesAtOpen` and `OfferedClaimIsFinished`: `Spec => []ContinuesAtOpenQuestion`, `Spec => []OfferedIsFinished`, from
  `StoredInv` and `HomeInv`: the two ways of deciding whether a page is done agree on every claim that is whole.
- `EmployersAreRemembered`: `Spec => []NothingIsForgotten`, with `MemoryInv` on top of `IInv`: the form has what she entered
  (`NamesInv`), and as long as nothing went wrong every post in flight carries the claim last sent (`SentInv`), what the form falls back
  to has the same employers (`BaseInv`), and Home has nothing unsaved (`DraftInv`). The exceptions are the property's: Back with an unsaved
  employer, a removal that she did not wait for, leaving with something in flight or lost, being sent Home while typing, and for Home two
  posts that differ.
- `FiledAsLastSaved`: `Spec => FiledIsLastSaved`, with `SavedInv`: every post in flight carries the claim last sent, and on Home
  the draft is that claim. `Submit` has no guard on what was lost or is late, so the theorem says that the ways for Home to file an older
  claim which the property names are all there are.

`QuestionPagesProofs`, for a SOC of any size, any titles, scores and length of a list page, and any kinds of pay, from
`OccupationAssumption` and `OtherPayAssumption`:

- `OccupationAlwaysAsPicked`: `PagesSpec => []OccupationIsAsPicked`. The inductive invariant is `OccupationInv`: the name is
  the one the present results give, the code was among the results it was picked from, the list page is one of the list it
  was turned in. Most of the work is about operators: `LoopIsExact` (the loop over the page numbers leaves out exactly what
  is not shown, by the least number at which it would not), `AroundFacts` (two passes widen the window to three numbers),
  `PagesAreExact`, `TurnableFacts`, `ListPages` (every result is on a page, every page has one), `PageOfFacts`.
  The attempt corrected property and bound: with five occupations, as the run had them, a page beyond the end of the list was
  always the one she had turned to; from four pages on Previous leads from one missing page to the next, so `turned_for`
  now records only turns to a page that the list has.
- `OtherPayAlwaysAsEntered`: `PagesSpec => []OtherPayIsAsEntered`. The inductive invariant is `Kept`, of details, boxes and
  initial values together: every kind once, "no other pay" alone, a box for each payment, ticked from the top down the
  details are in the order of the boxes, and what a new box would start from is blank as long as no tick was taken back.
  It rests on `SortFacts`: the sorted copy exists (`ArrangementExists`, by ranks), and is the array itself when that is in
  order (`ArrangementUnique`); and on `RemoveFacts` and `RerenderedFacts`.
- `DateAlwaysShown`: `PagesSpec => []AcceptedDateIsShown`. The inductive invariant is `DateInv`: the value is the one the effect
  wrote for the boxes, or the boxes came up empty, because there is no value yet or one with a slash in it. It rests on
  `DateComesBack`: a value without a slash comes back into the boxes such that the effect would write it again.
- `PagesAnswer`: `PagesSpec => Spec` of `FormAnswers`: on any other page than its own the component stutters. So
  `PagesKeepPromises` has the eight properties below for all pages together.

`FormAnswersProofs`, for any choice of the pages and any sequence of answers, saves and returns, from `PagesAssumption`:

- `AnswersWellTyped`, `AcceptedAnswersFilable`, `RefusalsExplained`, `HiddenForgotten`, `AnswersStay`, `AnswersComeBack`,
  `ProgressAgrees`, `FiledReviewed`: `Spec => []P` for the eight properties of the module, `TypeOK` to `FiledIsReviewed`.
  The inductive invariant is `AnswersInv`: the values of the page are `Sound`, that is every field has a value it can have
  (`AnswerTypes`), the effects leave the values alone, and what is no longer asked is forgotten (`Forgets`). The last part is
  needed because the effects of these pages clear a field at a definite answer, mostly "no": that nothing is there below a
  question that is not answered yet is a fact about what was asked before. `AnAnswerStays` and `ReturnKeepsAnswers` quantify over
  every answer and the values after it, which is what the step lemmas show anyway.
- Page by page there are the same lemmas: `...Effects` (one run of the effects settles the values, where a later effect could
  have undone an earlier one), `...Shown`, `...ErrorsAre` and `...Rejects...` (what page and server ask for, field by field),
  `...Starts`, `...Keeps`, `...Returns` (the values are sound at the start, after an answer, after a return) and `...Says`
  (sound values have the properties). The `EveryPage...` lemmas put them together.
- The run `question_pages` enumerates all pages and values, so the proofs do not widen its instance; they give the reasons,
  page by page: each exception that a property names is derived from the effects and rules of its page.

TLC checked these inductive invariants on small instances before they were proved.

So every invariant and action property that a passing run checks is stated by a theorem, but for `ExpiryOnlyTakesDrafts`: it
holds in `lifecycle_polite` because the job runs while nothing is served, which is the race that `expiry_race` shows, so a theorem
with that hypothesis would say little. Of the five properties that a run refutes only `LastSaveIsShown` has a theorem,
under hypotheses that the run does not meet.

Only model-checked: `ExpiryOnlyTakesDrafts`, and liveness (`RequestsFinish`, `OverdueDraftsGo`, `IdleTabsClose`), which is out of
the prover's reach.

## 5. Plan

Modules left over: `SwaQueue` (listing without `distinct`, pages by offset, fetching while paging), `KeyRotation` (rotation
against a save, readers with a list of keys), `JwtNonce` (the nonce read and written in two steps).

### Not modelled

Page rendering, the dashboard's and the shell's layout, translations, the mocks and the tests of the application; cryptography, whose
library is external; 1099-G files (one put and one row, as in `write_partial`); the local identity provider, a development
stand-in for login.gov; the OIDC client's own checks; payloads that no page produces.

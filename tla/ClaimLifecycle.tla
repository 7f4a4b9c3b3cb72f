--------------------------- MODULE ClaimLifecycle ---------------------------
(***************************************************************************)
(* The life of claims in the API server: HTTP requests of claimants and of *)
(* the state agency (SWA) and the nightly expiry job, which work on the    *)
(* same claims through a database and an object store that no transaction  *)
(* spans.                                                                  *)
(*                                                                         *)
(* The database runs in autocommit except inside transaction.atomic(), so  *)
(* a handler is a sequence of steps: each database commit and each call to *)
(* S3 or to the task broker is one action, and other processes run between *)
(* them.  A process is a web worker serving one request, or the job.  What *)
(* a request sees is what was committed when it looked.                    *)
(*                                                                         *)
(* Only what these handlers do to the claim is here; what they also do to  *)
(* the session that carried the request is a component of its own.         *)
(***************************************************************************)
EXTENDS ClaimEvents

CONSTANTS
  Claims,     \* claims (their uuid)
  Workers,    \* web workers: each serves one request at a time
  Cron,       \* the delete_expired_partial_claims job
  Docs,       \* claim payloads, as far as they must be told apart
  Statuses,   \* values an SWA gives the status column
  NoClaim, NoDoc, NoProc, NoStatus,
  Ops,        \* the operations that occur
  Faults,     \* what may fail: a put, a probe or a delete of S3, a process
  Polite,     \* do clients act on a claim only when its state invites it?
  CronAlone   \* does the job run only while no request is served?

AllOps == {"bootstrap", "post_partial", "post_completed", "cancel", "swa_status",
           "swa_fetched", "swa_resolved", "swa_delete", "expire"}

Procs == Workers \cup {Cron}
Kinds == {"partial", "completed", "archive"}

ASSUME LifecycleAssumption ==
  /\ NoClaim \notin Claims
  /\ NoDoc \notin Docs
  /\ NoStatus \notin Statuses
  /\ Cron \notin Workers
  /\ NoProc \notin Procs
  /\ Ops \subseteq AllOps
  /\ Faults \subseteq {"put", "probe", "delete", "crash"}
  /\ {Polite, CronAlone} \subseteq BOOLEAN

VARIABLES
  rows,       \* claims that have a row in the database
  events,     \* committed event categories of a claim
  status,     \* the status column
  changedTo,  \* the new status in the latest STATUS_CHANGED event
  overdue,    \* has updated_at fallen behind the expiry threshold?
  lock,       \* the transaction that holds the row of a claim
  object,     \* S3: the partial, completed and archived document
  emailed,    \* claims whose receipt was handed to the task broker
  pc,         \* what a process does next
  req,        \* what a process is working on; `row' is its copy of status
  found,      \* artifacts a process has seen and is about to delete
  batch       \* rows of the job's query it has not come to yet

database == <<rows, events, status, changedTo, overdue>>
process  == <<pc, req, found, batch>>
vars == <<database, lock, object, emailed, process>>

NoReq == [op |-> "none", claim |-> NoClaim, doc |-> NoDoc, row |-> NoStatus]

Steps == {"idle", "put_partial", "save_partial", "put_completed",
          "save_completed", "put_archive", "commit", "email", "resolve",
          "probe_completed", "probe_partial", "delete", "record"}

TypeOK ==
  /\ rows \subseteq Claims
  /\ events \in [Claims -> SUBSET Category]
  /\ \A c \in Claims \ rows : events[c] = {}
  /\ status \in [Claims -> Statuses \cup {NoStatus}]
  /\ changedTo \in [Claims -> Statuses \cup {NoStatus}]
  /\ overdue \in [Claims -> BOOLEAN]
  /\ lock \in [Claims -> Procs \cup {NoProc}]
  /\ object \in [Claims -> [Kinds -> Docs \cup {NoDoc}]]
  /\ emailed \subseteq Claims
  /\ pc \in [Procs -> Steps]
  /\ req \in [Procs -> [op : AllOps \cup {"none"}, claim : Claims \cup {NoClaim},
                        doc : Docs \cup {NoDoc}, row : Statuses \cup {NoStatus}]]
  /\ found \in [Procs -> SUBSET {"partial", "completed"}]
  /\ batch \subseteq rows
  /\ \A p \in Procs : pc[p] # "idle" => req[p].claim \in rows

Init ==
  /\ rows = {}
  /\ events = [c \in Claims |-> {}]
  /\ status = [c \in Claims |-> NoStatus]
  /\ changedTo = [c \in Claims |-> NoStatus]
  /\ overdue = [c \in Claims |-> FALSE]
  /\ lock = [c \in Claims |-> NoProc]
  /\ object = [c \in Claims |-> [k \in Kinds |-> NoDoc]]
  /\ emailed = {}
  /\ pc = [p \in Procs |-> "idle"]
  /\ req = [p \in Procs |-> NoReq]
  /\ found = [p \in Procs |-> {}]
  /\ batch = {}

-----------------------------------------------------------------------------
(* Parts that the handlers share.                                          *)

at(p, step) == pc[p] = step

(* events.create: one more committed event.                                *)
log(c, categories) == events' = [events EXCEPT ![c] = @ \cup categories]

(* claim.save() of a process that loaded the row when status was `row':    *)
(* every column is written back, and updated_at becomes now.               *)
save(c, row) ==
  /\ status' = [status EXCEPT ![c] = row]
  /\ overdue' = [overdue EXCEPT ![c] = FALSE]

goto(p, step) == pc' = [pc EXCEPT ![p] = step]

(* The handler has answered, or the process is gone.                       *)
done(p) ==
  /\ goto(p, "idle")
  /\ req' = [req EXCEPT ![p] = NoReq]
  /\ found' = [found EXCEPT ![p] = {}]

(* A rollback, or a commit, gives the row back.                            *)
release(p) == lock' = [c \in Claims |-> IF lock[c] = p THEN NoProc ELSE lock[c]]

Serving(c) == \E p \in Workers : req[p].claim = c

(* What the clients do.  Polite clients post to a claim only while it is   *)
(* open and no other request for it is under way, and an agency touches a  *)
(* claim only once it is filed; the server enforces none of this.          *)
Admitted(op, c) ==
  /\ op \in Ops
  /\ CronAlone => pc[Cron] = "idle" /\ batch = {}
  /\ Polite /\ op \in {"bootstrap", "post_partial", "post_completed", "cancel"} =>
       ~Serving(c)
  /\ Polite /\ op \in {"post_partial", "post_completed"} =>
       events[c] \cap {"COMPLETED", "RESOLVED", "DELETED"} = {}
  /\ Polite /\ op \in {"swa_status", "swa_fetched", "swa_resolved", "swa_delete"} =>
       "COMPLETED" \in events[c]

(* A worker takes a request for claim c and loads its row.                 *)
begin(p, op, c, d, step) ==
  /\ pc[p] = "idle"
  /\ Admitted(op, c)
  /\ goto(p, step)
  /\ req' = [req EXCEPT ![p] = [op |-> op, claim |-> c, doc |-> d, row |-> status[c]]]
  /\ UNCHANGED <<found, batch>>

-----------------------------------------------------------------------------
(* Requests of claimants.                                                  *)

(* GET partial-claim when the claimant has none: a row, then a first       *)
(* draft, with no SUBMITTED event.                                         *)
GET_partial_claim(p, c, d) ==
  /\ c \notin rows
  /\ begin(p, "bootstrap", c, d, "put_partial")
  /\ rows' = rows \cup {c}
  /\ UNCHANGED <<events, status, changedTo, overdue, lock, object, emailed>>

(* Both POST handlers find or create the row, whatever state the claim is  *)
(* in, and record that something was submitted.                            *)
(* Variant: the row of a new claim is not saved before its first event.    *)
POST_partial_claim_unsaved(p, c, d) ==
  /\ begin(p, "post_partial", c, d, "put_partial")
  /\ log(c, {"SUBMITTED"})
  /\ UNCHANGED <<rows, status, changedTo, overdue, lock, object, emailed>>

POST_partial_claim(p, c, d) ==
  /\ begin(p, "post_partial", c, d, "put_partial")
  /\ rows' = rows \cup {c}
  /\ log(c, {"SUBMITTED"})
  /\ UNCHANGED <<status, changedTo, overdue, lock, object, emailed>>

POST_completed_claim(p, c, d) ==
  /\ begin(p, "post_completed", c, d, "put_completed")
  /\ rows' = rows \cup {c}
  /\ log(c, {"SUBMITTED"})
  /\ UNCHANGED <<status, changedTo, overdue, lock, object, emailed>>

(* Variant: the artifacts are deleted without RESOLVED being recorded.     *)
cancel_claim_unresolved(p, c) ==
  /\ c \in rows
  /\ ~is_fetched(events[c])
  /\ begin(p, "cancel", c, NoDoc, "probe_completed")
  /\ UNCHANGED <<database, lock, object, emailed>>

(* The check that the claim is not fetched comes a step before RESOLVED.   *)
cancel_claim(p, c) ==
  /\ c \in rows
  /\ ~is_fetched(events[c])
  /\ begin(p, "cancel", c, NoDoc, "resolve")
  /\ UNCHANGED <<database, lock, object, emailed>>

cancel_resolve(p) ==
  /\ at(p, "resolve")
  /\ log(req[p].claim, {"RESOLVED"})
  /\ goto(p, "probe_completed")
  /\ UNCHANGED <<rows, status, changedTo, overdue, lock, object, emailed,
                 req, found, batch>>

-----------------------------------------------------------------------------
(* Requests of the agency.  Three of them are one commit each.             *)

swa_request(p, op, c) ==
  /\ pc[p] = "idle"
  /\ c \in rows
  /\ Admitted(op, c)

PATCH_v1_claim_status(p, c, s) ==
  /\ swa_request(p, "swa_status", c)
  /\ lock[c] = NoProc
  /\ log(c, {"STATUS_CHANGED"})
  /\ save(c, s)
  /\ changedTo' = [changedTo EXCEPT ![c] = s]
  /\ UNCHANGED <<rows, lock, object, emailed, process>>

PATCH_v1_claim_fetched(p, c) ==
  /\ swa_request(p, "swa_fetched", c)
  /\ log(c, {"FETCHED"})
  /\ UNCHANGED <<rows, status, changedTo, overdue, lock, object, emailed, process>>

PATCH_v1_claim_resolved(p, c) ==
  /\ swa_request(p, "swa_resolved", c)
  /\ log(c, {"RESOLVED"})
  /\ UNCHANGED <<rows, status, changedTo, overdue, lock, object, emailed, process>>

DELETE_v1_claim(p, c) ==
  /\ c \in rows
  /\ begin(p, "swa_delete", c, NoDoc, "probe_completed")
  /\ UNCHANGED <<database, lock, object, emailed>>

-----------------------------------------------------------------------------
(* Claim.write_partial: the object first, then STORED and the row in one   *)
(* transaction.  The reply follows the commit.                             *)

put(p, step, kind, next) ==
  /\ at(p, step)
  /\ object' = [object EXCEPT ![req[p].claim][kind] = req[p].doc]
  /\ goto(p, next)
  /\ UNCHANGED <<database, lock, emailed, req, found, batch>>

put_partial(p) == put(p, "put_partial", "partial", "save_partial")

save_partial(p) ==
  LET c == req[p].claim IN
  /\ at(p, "save_partial")
  /\ lock[c] = NoProc
  /\ log(c, {"STORED"})
  /\ save(c, req[p].row)
  /\ done(p)
  /\ UNCHANGED <<rows, changedTo, lock, object, emailed, batch>>

-----------------------------------------------------------------------------
(* Claim.write_completed: one transaction around two ClaimWriter.write.    *)
(* The first save() takes the row; nothing is visible before the commit.   *)

put_completed(p) == put(p, "put_completed", "completed", "save_completed")

(* Variant: the archive copy is left out.                                  *)
save_completed_unarchived(p) ==
  LET c == req[p].claim IN
  /\ at(p, "save_completed")
  /\ lock[c] = NoProc
  /\ lock' = [lock EXCEPT ![c] = p]
  /\ goto(p, "commit")
  /\ UNCHANGED <<database, object, emailed, req, found, batch>>

save_completed(p) ==
  LET c == req[p].claim IN
  /\ at(p, "save_completed")
  /\ lock[c] = NoProc
  /\ lock' = [lock EXCEPT ![c] = p]
  /\ goto(p, "put_archive")
  /\ UNCHANGED <<database, object, emailed, req, found, batch>>

(* Variant: a document already in the archive is not replaced.             *)
put_archive_once(p) ==
  LET c == req[p].claim IN
  /\ at(p, "put_archive")
  /\ object' = IF object[c]["archive"] = NoDoc
                 THEN [object EXCEPT ![c]["archive"] = req[p].doc]
                 ELSE object
  /\ goto(p, "commit")
  /\ UNCHANGED <<database, lock, emailed, req, found, batch>>

put_archive(p) == put(p, "put_archive", "archive", "commit")

commit_completed(p) ==
  LET c == req[p].claim IN
  /\ at(p, "commit")
  /\ log(c, {"COMPLETED", "STORED"})
  /\ save(c, req[p].row)
  /\ release(p)
  /\ goto(p, "email")
  /\ UNCHANGED <<rows, changedTo, object, emailed, req, found, batch>>

(* Variants: the draft is not deleted afterwards; the claim is saved once  *)
(* more when its receipt is on its way.                                    *)
send_later_last(p) ==
  /\ at(p, "email")
  /\ emailed' = emailed \cup {req[p].claim}
  /\ done(p)
  /\ UNCHANGED <<database, lock, object, batch>>

send_later_saving(p) ==
  /\ at(p, "email")
  /\ emailed' = emailed \cup {req[p].claim}
  /\ save(req[p].claim, req[p].row)
  /\ goto(p, "probe_partial")
  /\ UNCHANGED <<rows, events, changedTo, lock, object, req, found, batch>>

(* InitialClaimConfirmationEmail.send_later, then the draft is deleted.    *)
send_later(p) ==
  /\ at(p, "email")
  /\ emailed' = emailed \cup {req[p].claim}
  /\ goto(p, "probe_partial")
  /\ UNCHANGED <<database, lock, object, req, found, batch>>

-----------------------------------------------------------------------------
(* Claim.delete_artifacts: look for both artifacts (for the draft only,    *)
(* with partial_only), delete what was seen, record DELETED.               *)

(* ClaimReader.exists cannot tell a failed read from a missing object.     *)
exists(p, kind, seen) ==
  /\ seen \in BOOLEAN
  /\ seen => object[req[p].claim][kind] # NoDoc
  /\ ~seen /\ "probe" \notin Faults => object[req[p].claim][kind] = NoDoc

(* Variant: only the draft is ever looked for.                             *)
probe_completed_never(p) ==
  /\ at(p, "probe_completed")
  /\ goto(p, "probe_partial")
  /\ UNCHANGED <<database, lock, object, emailed, req, found, batch>>

probe_completed(p) ==
  /\ at(p, "probe_completed")
  /\ \E seen \in BOOLEAN :
       /\ exists(p, "completed", seen)
       /\ found' = [found EXCEPT ![p] = IF seen THEN {"completed"} ELSE {}]
  /\ goto(p, "probe_partial")
  /\ UNCHANGED <<database, lock, object, emailed, req, batch>>

(* With nothing to delete the outcome is NOOP: the job then writes DELETED *)
(* itself, every other caller answers.                                     *)
probe_partial(p) ==
  /\ at(p, "probe_partial")
  /\ \E seen \in BOOLEAN :
       LET toDelete == found[p] \cup (IF seen THEN {"partial"} ELSE {}) IN
       /\ exists(p, "partial", seen)
       /\ \/ /\ toDelete # {}
             /\ found' = [found EXCEPT ![p] = toDelete]
             /\ goto(p, "delete")
             /\ UNCHANGED req
          \/ /\ toDelete = {}
             /\ req[p].op = "expire"
             /\ goto(p, "record")
             /\ UNCHANGED <<req, found>>
          \/ /\ toDelete = {}
             /\ req[p].op # "expire"
             /\ done(p)
  /\ UNCHANGED <<database, lock, object, emailed, batch>>

erase(c, kinds) ==
  object' = [object EXCEPT ![c] = [k \in Kinds |-> IF k \in kinds THEN NoDoc ELSE @[k]]]

(* ClaimStore.delete; a filed claim's draft leaves no DELETED event.       *)
delete_objects(p) ==
  /\ at(p, "delete")
  /\ erase(req[p].claim, found[p])
  /\ \/ /\ req[p].op = "post_completed"
        /\ done(p)
     \/ /\ req[p].op # "post_completed"
        /\ goto(p, "record")
        /\ UNCHANGED <<req, found>>
  /\ UNCHANGED <<database, lock, emailed, batch>>

(* Variant: the deletion leaves no event.                                  *)
record_deleted_silently(p) ==
  /\ at(p, "record")
  /\ done(p)
  /\ UNCHANGED <<database, lock, object, emailed, batch>>

record_deleted(p) ==
  /\ at(p, "record")
  /\ log(req[p].claim, {"DELETED"})
  /\ done(p)
  /\ UNCHANGED <<rows, status, changedTo, overdue, lock, object, emailed, batch>>

-----------------------------------------------------------------------------
(* ExpiredPartialClaimManager.delete_artifacts, run from cron: the query   *)
(* is evaluated once, then the claims are worked off one by one.           *)

Expired == {c \in rows : ExpiredPartial(events[c], overdue[c])}

expiry_query ==
  /\ "expire" \in Ops
  /\ pc[Cron] = "idle"
  /\ batch = {}
  /\ CronAlone => \A p \in Workers : pc[p] = "idle"
  /\ Expired # {}
  /\ batch' = Expired
  /\ UNCHANGED <<database, lock, object, emailed, pc, req, found>>

expiry_next(c) ==
  /\ pc[Cron] = "idle"
  /\ c \in batch
  /\ batch' = batch \ {c}
  /\ goto(Cron, "probe_completed")
  /\ req' = [req EXCEPT ![Cron] = [op |-> "expire", claim |-> c, doc |-> NoDoc,
                                   row |-> status[c]]]
  /\ UNCHANGED <<database, lock, object, emailed, found>>

(* Days pass without a save of the claim.  Only the job looks at this.     *)
Age(c) ==
  /\ "expire" \in Ops
  /\ c \in rows
  /\ ~overdue[c]
  /\ overdue' = [overdue EXCEPT ![c] = TRUE]
  /\ UNCHANGED <<rows, events, status, changedTo, lock, object, emailed, process>>

-----------------------------------------------------------------------------
(* Failures.                                                               *)

PutStep == [partial |-> "put_partial", completed |-> "put_completed",
            archive |-> "put_archive"]

(* Variant: the transaction is neither committed nor rolled back.          *)
put_error_unreleased(p) ==
  /\ "put" \in Faults
  /\ \E kind \in Kinds :
       /\ at(p, PutStep[kind])
       /\ object' \in {object, [object EXCEPT ![req[p].claim][kind] = req[p].doc]}
  /\ done(p)
  /\ UNCHANGED <<database, lock, emailed, batch>>

(* S3 reports an error on a put, having stored the object or not: the      *)
(* transaction rolls back and the reply is a 500.                          *)
put_error(p) ==
  /\ "put" \in Faults
  /\ \E kind \in Kinds :
       /\ at(p, PutStep[kind])
       /\ object' \in {object, [object EXCEPT ![req[p].claim][kind] = req[p].doc]}
  /\ release(p)
  /\ done(p)
  /\ UNCHANGED <<database, emailed, batch>>

(* S3 deletes some of the objects, or the answer is lost: FAILURE, and no  *)
(* event, whatever is gone by then.                                        *)
delete_error(p) ==
  /\ "delete" \in Faults
  /\ at(p, "delete")
  /\ \E gone \in SUBSET found[p] : erase(req[p].claim, gone)
  /\ done(p)
  /\ UNCHANGED <<database, lock, emailed, batch>>

(* The process dies, or raises what the handler does not catch (a broker   *)
(* that is down, for one).  The job then leaves the rest of its batch.     *)
abandon(p) ==
  /\ "crash" \in Faults
  /\ pc[p] # "idle" \/ (p = Cron /\ batch # {})
  /\ release(p)
  /\ done(p)
  /\ batch' = IF p = Cron THEN {} ELSE batch
  /\ UNCHANGED <<database, object, emailed>>

-----------------------------------------------------------------------------
Request(p) ==
  \E c \in Claims :
    \/ \E d \in Docs : \/ GET_partial_claim(p, c, d)
                       \/ POST_partial_claim(p, c, d)
                       \/ POST_completed_claim(p, c, d)
    \/ cancel_claim(p, c)
    \/ \E s \in Statuses : PATCH_v1_claim_status(p, c, s)
    \/ PATCH_v1_claim_fetched(p, c)
    \/ PATCH_v1_claim_resolved(p, c)
    \/ DELETE_v1_claim(p, c)

(* Steps that wait for the row of a claim, and those that never wait.      *)
Waiting(p) == save_partial(p) \/ save_completed(p)

Working(p) ==
  \/ put_partial(p) \/ put_completed(p) \/ put_archive(p)
  \/ commit_completed(p) \/ send_later(p) \/ cancel_resolve(p)
  \/ probe_completed(p) \/ probe_partial(p)
  \/ delete_objects(p) \/ record_deleted(p)

Failure(p) == put_error(p) \/ delete_error(p) \/ abandon(p)

Expiry == expiry_query \/ \E c \in Claims : expiry_next(c)

Next ==
  \/ \E p \in Workers : Request(p)
  \/ \E p \in Procs : Waiting(p) \/ Working(p) \/ Failure(p)
  \/ Expiry
  \/ \E c \in Claims : Age(c)

Spec == Init /\ [][Next]_vars

(* A running process keeps running, cron starts the job again and again,   *)
(* and the database hands a row to every transaction that waits for it.    *)
Fairness ==
  /\ \A p \in Procs : WF_vars(Working(p)) /\ SF_vars(Waiting(p))
  /\ WF_vars(Expiry)

FairSpec == Spec /\ Fairness

-----------------------------------------------------------------------------
(* Properties.                                                             *)

(* A claim the agency's queue lists can be handed over: the encrypted      *)
(* document that GET_v1_claims reads for it is in the bucket.  Neither a   *)
(* second submission that fails half way, nor a cancellation under way,    *)
(* may leave an entry without its document.                                *)
QueueEntryServable ==
  \A c \in Claims : InQueue(events[c]) => object[c]["completed"] # NoDoc

(* The document on offer to the agency is the one kept in the archive,     *)
(* although the two are written by separate puts, earlier attempts may     *)
(* have left either of them behind, and rollbacks touch neither.           *)
AgencyCopyMatchesArchive ==
  \A c \in Claims :
    is_completed(events[c]) /\ object[c]["completed"] # NoDoc
      => object[c]["completed"] = object[c]["archive"]

(* Once a claim is filed and its request has ended, no draft of it is      *)
(* left: nothing would ever expire it (the job skips filed claims).        *)
FiledDraftIsErased ==
  \A c \in Claims :
    is_completed(events[c]) /\ ~Serving(c) => object[c]["partial"] = NoDoc

(* The event DELETED says that the claim's artifacts are gone from the     *)
(* agency's bucket (delete_artifacts, docs/claim-events-workflow.md).      *)
DeletedMeansErased ==
  \A c \in Claims :
    is_deleted(events[c]) =>
      object[c]["partial"] = NoDoc /\ object[c]["completed"] = NoDoc

(* The status column shows the status the agency set last, as recorded in  *)
(* the STATUS_CHANGED event: no save of a row read earlier takes it back.  *)
StatusFollowsEvents == status = changedTo

(* The expiry job erases only claims that are not filed, at the time it    *)
(* erases them and not only at the time of its query.                      *)
ExpiryOnlyTakesDrafts ==
  [][\A c \in Claims :
       is_completed(events[c]) /\ pc[Cron] = "delete" /\ req[Cron].claim = c
         => pc'[Cron] = "delete" \/ object'[c] = object[c]]_vars

(* A claim is cancelled only while the agency has not fetched it: RESOLVED *)
(* by the claimant never follows FETCHED.                                  *)
CancelOnlyUnfetched ==
  [][\A p \in Workers :
       pc[p] = "resolve" /\ pc'[p] = "probe_completed"
         => ~is_fetched(events[req[p].claim])]_vars

(* A claimant who was told that a claim is cancelled or resolved is never  *)
(* told again that it is under way, whatever late requests still commit.   *)
ClosedStaysClosed ==
  [][\A c \in Claims :
       status_for_claimant(events[c]) \in {"cancelled", "resolved"}
         => status_for_claimant(events'[c]) \in {"cancelled", "resolved"}]_vars

(* Every request and every claim of a job's batch comes to its end: no     *)
(* process waits for a row that is never given back.                       *)
RequestsFinish == \A p \in Procs : pc[p] # "idle" ~> pc[p] = "idle"

(* If the site falls quiet, no overdue draft stays behind.                 *)
OverdueDraftsGo ==
  <>[](\A p \in Workers : pc[p] = "idle")
    => \A c \in Claims : []<>(c \notin Expired)

(* What the program owes whoever files a claim, see FilingPromise.         *)
Promise == INSTANCE FilingPromise WITH
  filed    <- {c \in Claims : is_completed(events[c])},
  receipt  <- [c \in Claims |-> object[c]["archive"]],
  notified <- emailed

(* The lifecycle keeps that promise, step by step.                         *)
KeepsPromise == Promise!Spec

-----------------------------------------------------------------------------
(* Inductive invariants behind the two most important properties.          *)

(* A process that is about to commit a filing has put the document in the  *)
(* archive, and a receipt is only mailed for what was committed.           *)
FilingInv ==
  /\ TypeOK
  /\ \A p \in Procs :
       /\ pc[p] \in {"put_partial", "put_completed", "save_completed", "put_archive"}
            => req[p].doc \in Docs
       /\ pc[p] = "commit" => object[req[p].claim]["archive"] \in Docs
       /\ pc[p] = "email" => is_completed(events[req[p].claim])
  /\ \A c \in Claims : is_completed(events[c]) => object[c]["archive"] \in Docs

(* Without the expiry job and the agency's DELETE, whoever looks for or    *)
(* deletes a filed document has closed the claim first, and the document   *)
(* of a filing under way is there unless the claim is closed.              *)
ServableInv ==
  /\ \A p \in Procs :
       /\ pc[p] \in {"put_partial", "put_completed", "save_completed", "put_archive"}
            => req[p].doc \in Docs
       /\ found[p] # {} => pc[p] \in {"probe_partial", "delete", "record"}
       /\ pc[p] = "probe_completed" \/ "completed" \in found[p]
            => is_resolved(events[req[p].claim])
       /\ pc[p] \in {"save_completed", "put_archive", "commit"}
            => \/ object[req[p].claim]["completed"] \in Docs
               \/ is_resolved(events[req[p].claim])
  /\ pc[Cron] = "idle" /\ batch = {}
  /\ \A c \in Claims :
       is_completed(events[c]) /\ ~is_resolved(events[c])
         => object[c]["completed"] \in Docs
=============================================================================

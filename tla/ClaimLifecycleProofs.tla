------------------------ MODULE ClaimLifecycleProofs ------------------------
(***************************************************************************)
(* Theorems about ClaimLifecycle, for every number of claims, workers and  *)
(* documents, every choice of operations and every combination of faults.  *)
(***************************************************************************)
EXTENDS ClaimLifecycle, TLAPS

Bucket == [Claims -> [Kinds -> Docs \cup {NoDoc}]]

(* Putting one object, or erasing some objects of one claim, leaves the    *)
(* store a store, and leaves the other claims' objects alone.              *)
LEMMA PutKeepsType ==
  ASSUME NEW o \in Bucket, NEW c \in Claims, NEW k \in Kinds,
         NEW d \in Docs \cup {NoDoc}
  PROVE  [o EXCEPT ![c][k] = d] \in Bucket
BY DEF Bucket

LEMMA EraseKeepsType ==
  ASSUME NEW o \in Bucket, NEW c \in Claims, NEW K \in SUBSET Kinds
  PROVE  [o EXCEPT ![c] = [k \in Kinds |-> IF k \in K THEN NoDoc ELSE @[k]]] \in Bucket
<1> DEFINE left == [k \in Kinds |-> IF k \in K THEN NoDoc ELSE o[c][k]]
<1>1. left \in [Kinds -> Docs \cup {NoDoc}]
  BY DEF Bucket
<1>2. [o EXCEPT ![c] = left] \in Bucket
  BY <1>1 DEF Bucket
<1> QED
  BY <1>2

(* Every step keeps the variables in their types, and no event is ever     *)
(* recorded for a claim without a row.                                     *)
LEMMA TypeStep == TypeOK /\ [Next]_vars => TypeOK'
<1> SUFFICES ASSUME TypeOK, [Next]_vars PROVE TypeOK'
  OBVIOUS
<1> USE LifecycleAssumption DEF TypeOK, Procs, Kinds, Steps, AllOps, Category,
        database, process
<1>1. ASSUME NEW p \in Workers, NEW c \in Claims, NEW d \in Docs,
             GET_partial_claim(p, c, d)
      PROVE  TypeOK'
  BY <1>1 DEF GET_partial_claim, begin, Admitted, goto
<1>2. ASSUME NEW p \in Workers, NEW c \in Claims, NEW d \in Docs,
             POST_partial_claim(p, c, d)
      PROVE  TypeOK'
  BY <1>2 DEF POST_partial_claim, begin, Admitted, goto, log
<1>3. ASSUME NEW p \in Workers, NEW c \in Claims, NEW d \in Docs,
             POST_completed_claim(p, c, d)
      PROVE  TypeOK'
  BY <1>3 DEF POST_completed_claim, begin, Admitted, goto, log
<1>4. ASSUME NEW p \in Workers, NEW c \in Claims, cancel_claim(p, c)
      PROVE  TypeOK'
  BY <1>4 DEF cancel_claim, begin, Admitted, goto
<1>5. ASSUME NEW p \in Workers, NEW c \in Claims, NEW s \in Statuses,
             PATCH_v1_claim_status(p, c, s)
      PROVE  TypeOK'
  BY <1>5 DEF PATCH_v1_claim_status, swa_request, log, save
<1>6. ASSUME NEW p \in Workers, NEW c \in Claims, PATCH_v1_claim_fetched(p, c)
      PROVE  TypeOK'
  BY <1>6 DEF PATCH_v1_claim_fetched, swa_request, log
<1>7. ASSUME NEW p \in Workers, NEW c \in Claims, PATCH_v1_claim_resolved(p, c)
      PROVE  TypeOK'
  BY <1>7 DEF PATCH_v1_claim_resolved, swa_request, log
<1>8. ASSUME NEW p \in Workers, NEW c \in Claims, DELETE_v1_claim(p, c)
      PROVE  TypeOK'
  BY <1>8 DEF DELETE_v1_claim, begin, Admitted, goto
<1>9. ASSUME NEW p \in Procs, save_partial(p) PROVE TypeOK'
  BY <1>9 DEF save_partial, at, log, save, done, goto, NoReq
<1>10. ASSUME NEW p \in Procs, save_completed(p) PROVE TypeOK'
  BY <1>10 DEF save_completed, at, goto
<1>11. ASSUME NEW p \in Procs, put_partial(p) \/ put_completed(p) \/ put_archive(p)
       PROVE  TypeOK'
  <2>1. PICK step \in Steps, k \in Kinds, next \in Steps \ {"idle"} :
          step # "idle" /\ put(p, step, k, next)
    BY <1>11 DEF put_partial, put_completed, put_archive
  <2>2. object' \in Bucket
    BY   <2>1, PutKeepsType DEF put, at, Bucket
  <2> QED
    BY   <2>1,   <2>2 DEF put, at, goto, Bucket
<1>12. ASSUME NEW p \in Procs, commit_completed(p) PROVE TypeOK'
  BY <1>12 DEF commit_completed, at, log, save, release, goto
<1>13. ASSUME NEW p \in Procs, send_later(p) PROVE TypeOK'
  BY <1>13 DEF send_later, at, goto
<1>14. ASSUME NEW p \in Procs, cancel_resolve(p) PROVE TypeOK'
  BY <1>14 DEF cancel_resolve, at, log, goto
<1>15. ASSUME NEW p \in Procs, probe_completed(p) PROVE TypeOK'
  BY <1>15 DEF probe_completed, at, exists, goto
<1>16. ASSUME NEW p \in Procs, probe_partial(p) PROVE TypeOK'
  <2>1. PICK seen \in BOOLEAN :
          LET toDelete == found[p] \cup (IF seen THEN {"partial"} ELSE {}) IN
          \/ /\ found' = [found EXCEPT ![p] = toDelete]
             /\ goto(p, "delete")
             /\ UNCHANGED req
          \/ goto(p, "record") /\ UNCHANGED <<req, found>>
          \/ done(p)
    BY <1>16 DEF probe_partial
  <2>2. pc[p] # "idle" /\ UNCHANGED <<database, lock, object, emailed, batch>>
    BY <1>16 DEF probe_partial, at
  <2>3. found[p] \cup (IF seen THEN {"partial"} ELSE {}) \in SUBSET {"partial", "completed"}
    OBVIOUS
  <2>4. CASE done(p)
    BY <2>2, <2>4 DEF done, goto, NoReq
  <2>5. CASE goto(p, "record") /\ UNCHANGED <<req, found>>
    BY <2>2, <2>5 DEF goto
  <2>6. CASE /\ found' = [found EXCEPT ![p] = found[p] \cup (IF seen THEN {"partial"} ELSE {})]
             /\ goto(p, "delete")
             /\ UNCHANGED req
    BY <2>2, <2>3, <2>6 DEF goto
  <2> QED
    BY <2>1, <2>4, <2>5, <2>6
<1>17. ASSUME NEW p \in Procs, delete_objects(p) PROVE TypeOK'
  <2>1. object' \in Bucket
    <3>1. req[p].claim \in Claims /\ found[p] \in SUBSET Kinds
      BY <1>17 DEF delete_objects, at
    <3>2. erase(req[p].claim, found[p])
      BY <1>17 DEF delete_objects
    <3> QED
      BY <3>1, <3>2, EraseKeepsType DEF erase, Bucket
  <2>2. /\ pc[p] # "idle"
        /\ UNCHANGED <<database, lock, emailed, batch>>
        /\ done(p) \/ (goto(p, "record") /\ UNCHANGED <<req, found>>)
    BY <1>17 DEF delete_objects, at
  <2>3. CASE done(p)
    BY <2>1, <2>2, <2>3 DEF done, goto, NoReq, Bucket
  <2>4. CASE goto(p, "record") /\ UNCHANGED <<req, found>>
    BY <2>1, <2>2, <2>4 DEF goto, Bucket
  <2> QED
    BY <2>2, <2>3, <2>4
<1>18. ASSUME NEW p \in Procs, record_deleted(p) PROVE TypeOK'
  BY <1>18 DEF record_deleted, at, log, goto, done, NoReq
<1>19. ASSUME NEW p \in Procs, put_error(p) PROVE TypeOK'
  <2>1. object' \in Bucket
    <3>1. PICK kind \in Kinds :
            /\ pc[p] = PutStep[kind]
            /\ object' \in {object, [object EXCEPT ![req[p].claim][kind] = req[p].doc]}
      BY <1>19 DEF put_error, at
    <3>2. pc[p] # "idle"
      BY <3>1 DEF PutStep
    <3>3. req[p].claim \in Claims /\ req[p].doc \in Docs \cup {NoDoc} /\ object \in Bucket
      BY <3>2 DEF Bucket
    <3> QED
      BY <3>1, <3>3, PutKeepsType
  <2> QED
    BY <1>19, <2>1 DEF put_error, release, goto, done, NoReq, Bucket
<1>20. ASSUME NEW p \in Procs, delete_error(p) PROVE TypeOK'
  <2>1. object' \in Bucket
    <3>1. PICK gone \in SUBSET found[p] : erase(req[p].claim, gone)
      BY <1>20 DEF delete_error
    <3>2. req[p].claim \in Claims /\ gone \in SUBSET Kinds
      BY <1>20, <3>1 DEF delete_error, at
    <3> QED
      BY <3>1, <3>2, EraseKeepsType DEF erase, Bucket
  <2> QED
    BY <1>20, <2>1 DEF delete_error, at, goto, done, NoReq, Bucket
<1>21. ASSUME NEW p \in Procs, abandon(p) PROVE TypeOK'
  BY <1>21 DEF abandon, release, goto, done, NoReq
<1>22. CASE expiry_query
  BY <1>22 DEF expiry_query, Expired
<1>23. ASSUME NEW c \in Claims, expiry_next(c) PROVE TypeOK'
  BY <1>23 DEF expiry_next, goto
<1>24. ASSUME NEW c \in Claims, Age(c) PROVE TypeOK'
  BY <1>24 DEF Age
<1>25. CASE UNCHANGED vars
  BY <1>25 DEF vars
<1> QED
  BY <1>1, <1>2, <1>3, <1>4, <1>5, <1>6, <1>7, <1>8, <1>9, <1>10, <1>11, <1>12,
     <1>13, <1>14, <1>15, <1>16, <1>17, <1>18, <1>19, <1>20, <1>21, <1>22, <1>23,
     <1>24, <1>25
  DEF Next, Request, Waiting, Working, Failure, Expiry

(* TypeOK holds of every state: the sets the variables stay in, events     *)
(* only for claims with a row, and only such claims in anybody's hands.    *)
THEOREM TypeCorrect == Spec => []TypeOK
<1>1. Init => TypeOK
  BY DEF Init, TypeOK, NoReq, Procs, Steps
<1> QED
  BY <1>1, TypeStep, PTL DEF Spec

-----------------------------------------------------------------------------
(* No step takes back an event: the table is only ever added to.           *)
LEMMA EventsGrow ==
  ASSUME TypeOK, [Next]_vars
  PROVE  \A c \in Claims : events[c] \subseteq events'[c]
<1> USE DEF TypeOK, log, database
<1>1. ASSUME NEW p \in Workers, Request(p)
      PROVE  \A c \in Claims : events[c] \subseteq events'[c]
  BY <1>1 DEF Request, GET_partial_claim, POST_partial_claim, POST_completed_claim,
     cancel_claim, PATCH_v1_claim_status, PATCH_v1_claim_fetched,
     PATCH_v1_claim_resolved, DELETE_v1_claim
<1>2. ASSUME NEW p \in Procs, Waiting(p)
      PROVE  \A c \in Claims : events[c] \subseteq events'[c]
  BY <1>2 DEF Waiting, save_partial, save_completed
<1>3. ASSUME NEW p \in Procs, Working(p)
      PROVE  \A c \in Claims : events[c] \subseteq events'[c]
  <2>1. CASE commit_completed(p) \/ cancel_resolve(p) \/ record_deleted(p)
    BY <2>1 DEF commit_completed, cancel_resolve, record_deleted
  <2>2. CASE put_partial(p) \/ put_completed(p) \/ put_archive(p)
    BY <2>2 DEF put_partial, put_completed, put_archive, put
  <2>3. CASE \/ send_later(p) \/ probe_completed(p) \/ probe_partial(p)
             \/ delete_objects(p)
    <3>1. UNCHANGED events
      BY <2>3 DEF send_later, probe_completed, probe_partial, delete_objects
    <3> QED
      BY <3>1
  <2> QED
    BY <1>3, <2>1, <2>2, <2>3 DEF Working
<1>4. ASSUME NEW p \in Procs, Failure(p)
      PROVE  \A c \in Claims : events[c] \subseteq events'[c]
  BY <1>4 DEF Failure, put_error, delete_error, abandon
<1>5. CASE Expiry
  BY <1>5 DEF Expiry, expiry_query, expiry_next
<1>6. ASSUME NEW c \in Claims, Age(c)
      PROVE  \A b \in Claims : events[b] \subseteq events'[b]
  BY <1>6 DEF Age
<1>7. CASE UNCHANGED vars
  BY <1>7 DEF vars
<1> QED
  BY <1>1, <1>2, <1>3, <1>4, <1>5, <1>6, <1>7 DEF Next

(* With more events, a closed status gives way only to a closed status.    *)
LEMMA ClosedWithMoreEvents ==
  ASSUME NEW ev, NEW more, ev \subseteq more,
         status_for_claimant(ev) \in {"cancelled", "resolved"}
  PROVE  status_for_claimant(more) \in {"cancelled", "resolved"}
BY DEF status_for_claimant, is_completed, is_deleted, is_resolved, is_fetched

(* A claim shown as cancelled or resolved is never shown as open again.    *)
THEOREM ClosedForGood == Spec => ClosedStaysClosed
<1>1. TypeOK /\ [Next]_vars =>
        [\A c \in Claims :
           status_for_claimant(events[c]) \in {"cancelled", "resolved"}
             => status_for_claimant(events'[c]) \in {"cancelled", "resolved"}]_vars
  <2> SUFFICES ASSUME TypeOK, [Next]_vars, NEW c \in Claims,
                      status_for_claimant(events[c]) \in {"cancelled", "resolved"}
               PROVE  status_for_claimant(events'[c]) \in {"cancelled", "resolved"}
    OBVIOUS
  <2>1. events[c] \subseteq events'[c]
    BY EventsGrow
  <2> QED
    BY <2>1, ClosedWithMoreEvents
<1> QED
  BY <1>1, TypeCorrect, PTL DEF Spec, ClosedStaysClosed
-----------------------------------------------------------------------------
(* What the steps that file, archive or mail nothing have in common.       *)
Quiet ==
  /\ emailed' = emailed
  /\ \A c \in Claims :
       /\ object'[c]["archive"] = object[c]["archive"]
       /\ is_completed(events'[c]) <=> is_completed(events[c])
  /\ \A q \in Procs :
       /\ pc'[q] \in {"commit", "email"} => pc'[q] = pc[q] /\ req'[q] = req[q]
       /\ pc'[q] \in {"put_partial", "put_completed", "save_completed", "put_archive"}
            => req'[q].doc \in Docs

(* All steps are quiet but the four that matter: the archive's put (also a *)
(* failing one), the commit of a filing and the mailing of a receipt.      *)
LEMMA QuietSteps ==
  ASSUME FilingInv, [Next]_vars
  PROVE  \/ Quiet
         \/ \E p \in Procs : put_archive(p) \/ commit_completed(p) \/ send_later(p)
         \/ \E p \in Procs : put_error(p)
<1> USE LifecycleAssumption DEF FilingInv, TypeOK, Quiet, Procs, is_completed,
        database, process, goto, log
<1>1. ASSUME NEW p \in Workers, Request(p) PROVE Quiet
  <2> PICK c \in Claims :
        \/ \E d \in Docs : \/ GET_partial_claim(p, c, d)
                           \/ POST_partial_claim(p, c, d)
                           \/ POST_completed_claim(p, c, d)
        \/ cancel_claim(p, c)
        \/ \E s \in Statuses : PATCH_v1_claim_status(p, c, s)
        \/ PATCH_v1_claim_fetched(p, c)
        \/ PATCH_v1_claim_resolved(p, c)
        \/ DELETE_v1_claim(p, c)
    BY <1>1 DEF Request
  <2>1. ASSUME NEW d \in Docs, GET_partial_claim(p, c, d) PROVE Quiet
    BY <2>1 DEF GET_partial_claim, begin
  <2>2. ASSUME NEW d \in Docs, POST_partial_claim(p, c, d) PROVE Quiet
    BY <2>2 DEF POST_partial_claim, begin
  <2>3. ASSUME NEW d \in Docs, POST_completed_claim(p, c, d) PROVE Quiet
    BY <2>3 DEF POST_completed_claim, begin
  <2>4. CASE cancel_claim(p, c)
    BY <2>4 DEF cancel_claim, begin
  <2>5. ASSUME NEW s \in Statuses, PATCH_v1_claim_status(p, c, s) PROVE Quiet
    BY <2>5 DEF PATCH_v1_claim_status
  <2>6. CASE PATCH_v1_claim_fetched(p, c)
    BY <2>6 DEF PATCH_v1_claim_fetched
  <2>7. CASE PATCH_v1_claim_resolved(p, c)
    BY <2>7 DEF PATCH_v1_claim_resolved
  <2>8. CASE DELETE_v1_claim(p, c)
    BY <2>8 DEF DELETE_v1_claim, begin
  <2> QED
    BY <2>1, <2>2, <2>3, <2>4, <2>5, <2>6, <2>7, <2>8
<1>2. ASSUME NEW p \in Procs, save_partial(p) PROVE Quiet
  BY <1>2 DEF save_partial, done
<1>3. ASSUME NEW p \in Procs, save_completed(p) PROVE Quiet
  BY <1>3 DEF save_completed, at
<1>4. ASSUME NEW p \in Procs, put_partial(p) PROVE Quiet
  BY <1>4 DEF put_partial, put, Kinds
<1>5. ASSUME NEW p \in Procs, put_completed(p) PROVE Quiet
  BY <1>5 DEF put_completed, put, at, Kinds
<1>6. ASSUME NEW p \in Procs, cancel_resolve(p) PROVE Quiet
  BY <1>6 DEF cancel_resolve
<1>7. ASSUME NEW p \in Procs, probe_completed(p) PROVE Quiet
  BY <1>7 DEF probe_completed
<1>8. ASSUME NEW p \in Procs, probe_partial(p) PROVE Quiet
  BY <1>8 DEF probe_partial, done
<1>9. ASSUME NEW p \in Procs, delete_objects(p) PROVE Quiet
  BY <1>9, SMTT(30) DEF delete_objects, erase, done, Kinds
<1>10. ASSUME NEW p \in Procs, record_deleted(p) PROVE Quiet
  BY <1>10 DEF record_deleted, done
<1>11. ASSUME NEW p \in Procs, delete_error(p) PROVE Quiet
  BY <1>11 DEF delete_error, erase, done, Kinds
<1>12. ASSUME NEW p \in Procs, abandon(p) PROVE Quiet
  BY <1>12 DEF abandon, done
<1>13. CASE Expiry
  BY <1>13 DEF Expiry, expiry_query, expiry_next
<1>14. ASSUME NEW c \in Claims, Age(c) PROVE Quiet
  BY <1>14 DEF Age
<1>15. CASE UNCHANGED vars
  BY <1>15 DEF vars
<1> QED
  BY <1>1, <1>2, <1>3, <1>4, <1>5, <1>6, <1>7, <1>8, <1>9, <1>10, <1>11, <1>12,
     <1>13, <1>14, <1>15
  DEF Next, Waiting, Working, Failure

(* The steps that are not quiet, one by one.                               *)
LEMMA ArchiveSteps ==
  ASSUME FilingInv, NEW p \in Procs, put_archive(p) \/ put_error(p)
  PROVE  /\ UNCHANGED <<events, emailed>>
         /\ \/ \A c \in Claims : object'[c]["archive"] = object[c]["archive"]
            \/ /\ req[p].claim \in Claims
               /\ req[p].doc \in Docs
               /\ \A c \in Claims : object'[c]["archive"] =
                    IF c = req[p].claim THEN req[p].doc ELSE object[c]["archive"]
<1> USE DEF FilingInv, TypeOK, Kinds, database
<1>1. CASE put_archive(p)
  BY <1>1 DEF put_archive, put, at
<1>2. CASE put_error(p)
  <2>1. PICK kind \in Kinds :
          /\ at(p, PutStep[kind])
          /\ object' \in {object, [object EXCEPT ![req[p].claim][kind] = req[p].doc]}
    BY <1>2 DEF put_error
  <2>2. UNCHANGED <<events, emailed>>
    BY <1>2 DEF put_error
  <2>3. CASE kind = "archive"
    BY <2>1, <2>2, <2>3 DEF at, PutStep
  <2>4. CASE kind # "archive"
    BY <2>1, <2>2, <2>4 DEF at
  <2> QED
    BY <2>3, <2>4
<1> QED
  BY <1>1, <1>2

(* Every step preserves the filing invariant.                              *)
LEMMA FilingStep == FilingInv /\ [Next]_vars => FilingInv'
<1> SUFFICES ASSUME FilingInv, [Next]_vars PROVE FilingInv'
  OBVIOUS
<1>1. TypeOK'
  BY TypeStep DEF FilingInv
<1>2. \A c \in Claims : events[c] \subseteq events'[c]
  BY EventsGrow DEF FilingInv
<1>3. CASE Quiet
  <2>1. \A c \in Claims : is_completed(events'[c]) => object'[c]["archive"] \in Docs
    BY <1>3 DEF Quiet, FilingInv
  <2>2. ASSUME NEW q \in Procs, pc'[q] = "commit"
        PROVE  object'[req'[q].claim]["archive"] \in Docs
    BY <1>3, <2>2 DEF Quiet, FilingInv, TypeOK
  <2>3. ASSUME NEW q \in Procs, pc'[q] = "email"
        PROVE  is_completed(events'[req'[q].claim])
    BY <1>3, <2>3 DEF Quiet, FilingInv, TypeOK
  <2> QED
    BY <1>1, <1>3, <2>1, <2>2, <2>3 DEF Quiet, FilingInv
<1>4. ASSUME NEW p \in Procs, put_archive(p) \/ put_error(p) PROVE FilingInv'
  <2>1. /\ UNCHANGED events
        /\ \A c \in Claims : object[c]["archive"] \in Docs => object'[c]["archive"] \in Docs
        /\ put_archive(p) => object'[req[p].claim]["archive"] \in Docs
    <3>1. put_archive(p) => /\ req[p].claim \in Claims /\ req[p].doc \in Docs
                            /\ object'[req[p].claim]["archive"] = req[p].doc
      BY DEF put_archive, put, at, FilingInv, TypeOK, Kinds
    <3> QED
      BY <1>4, <3>1, ArchiveSteps
  <2>2. UNCHANGED req \/ (pc'[p] = "idle" /\ \A q \in Procs \ {p} : req'[q] = req[q])
    BY <1>4 DEF put_archive, put, put_error, done, goto, FilingInv, TypeOK
  <2>3. \A q \in Procs \ {p} : pc'[q] = pc[q] /\ req'[q] = req[q]
    BY <1>4 DEF put_archive, put, put_error, done, goto, FilingInv, TypeOK
  <2>4. pc'[p] = "idle" \/ (put_archive(p) /\ pc'[p] = "commit" /\ req'[p] = req[p])
    BY <1>4 DEF put_archive, put, put_error, done, goto, FilingInv, TypeOK
  <2> QED
    BY <1>1, <2>1, <2>3, <2>4 DEF FilingInv, TypeOK
<1>5. ASSUME NEW p \in Procs, commit_completed(p) PROVE FilingInv'
  <2> USE <1>5 DEF FilingInv, TypeOK, commit_completed, at, goto, log, is_completed
  <2>1. /\ UNCHANGED <<object, req>> /\ pc[p] = "commit"
        /\ pc' = [pc EXCEPT ![p] = "email"]
        /\ \A c \in Claims : is_completed(events'[c]) =>
             is_completed(events[c]) \/ c = req[p].claim
        /\ is_completed(events'[req[p].claim])
    OBVIOUS
  <2> QED
    BY <1>1, <1>2, <2>1
<1>6. ASSUME NEW p \in Procs, send_later(p) PROVE FilingInv'
  BY <1>1, <1>6 DEF FilingInv, TypeOK, send_later, at, goto, database
<1> QED
  BY <1>3, <1>4, <1>5, <1>6, QuietSteps

LEMMA FilingInvariant == Spec => []FilingInv
<1>1. Init => FilingInv
  BY DEF Init, FilingInv, TypeOK, NoReq, Procs, Steps, is_completed
<1> QED
  BY <1>1, FilingStep, PTL DEF Spec

(* The lifecycle implements FilingPromise: whatever the interleaving of    *)
(* requests and the job, and whatever fails, a claim is on record as filed *)
(* only with its archived copy, for ever, and only filed claims are mailed *)
(* a receipt.                                                              *)
THEOREM PromiseKept == Spec => KeepsPromise
<1>1. Init => Promise!Init
  BY DEF Init, Promise!Init, is_completed, Kinds
<1>2. FilingInv /\ [Next]_vars => [Promise!Next]_(Promise!vars)
  <2> SUFFICES ASSUME FilingInv, [Next]_vars
               PROVE  [Promise!Next]_(Promise!vars)
    OBVIOUS
  <2> DEFINE filed == {c \in Claims : is_completed(events[c])}
             receipt == [c \in Claims |-> object[c]["archive"]]
  <2>1. CASE Quiet
    <3>1. filed' = filed /\ receipt' = receipt /\ emailed' = emailed
      BY <2>1 DEF Quiet
    <3> QED
      BY <3>1 DEF Promise!vars
  <2>2. ASSUME NEW p \in Procs, put_archive(p) \/ put_error(p)
        PROVE  [Promise!Next]_(Promise!vars)
    <3>1. filed' = filed /\ emailed' = emailed
      BY <2>2, ArchiveSteps
    <3>2. CASE \A c \in Claims : object'[c]["archive"] = object[c]["archive"]
      BY <3>1, <3>2 DEF Promise!vars
    <3>3. CASE /\ req[p].claim \in Claims /\ req[p].doc \in Docs
               /\ \A c \in Claims : object'[c]["archive"] =
                    IF c = req[p].claim THEN req[p].doc ELSE object[c]["archive"]
      <4> PICK c \in Claims, d \in Docs : c = req[p].claim /\ d = req[p].doc
        BY <3>3
      <4>1. receipt' = [receipt EXCEPT ![c] = d]
        BY <3>3
      <4>2. Promise!Keep(c, d)
        BY <3>1, <4>1 DEF Promise!Keep
      <4>3. \E e \in Docs : Promise!Keep(c, e)
        BY <4>2
      <4> QED
        BY <4>3 DEF Promise!Next
    <3> QED
      BY <2>2, <3>2, <3>3, ArchiveSteps
  <2>3. ASSUME NEW p \in Procs, commit_completed(p)
        PROVE  [Promise!Next]_(Promise!vars)
    <3> DEFINE c == req[p].claim
    <3>1. c \in Claims /\ receipt[c] \in Docs
      BY <2>3 DEF commit_completed, at, FilingInv, TypeOK
    <3>2. filed' = filed \cup {c} /\ receipt' = receipt /\ emailed' = emailed
      BY <2>3, <3>1 DEF commit_completed, log, is_completed, FilingInv, TypeOK
    <3>3. Promise!File(c)
      BY <3>1, <3>2 DEF Promise!File
    <3> QED
      BY <3>1, <3>3 DEF Promise!Next
  <2>4. ASSUME NEW p \in Procs, send_later(p)
        PROVE  [Promise!Next]_(Promise!vars)
    <3> DEFINE c == req[p].claim
    <3>1. c \in filed
      BY <2>4 DEF send_later, at, FilingInv, TypeOK
    <3>2. filed' = filed /\ receipt' = receipt /\ emailed' = emailed \cup {c}
      BY <2>4 DEF send_later, database
    <3>3. Promise!Notify(c)
      BY <3>1, <3>2 DEF Promise!Notify
    <3> QED
      BY <3>1, <3>3 DEF Promise!Next
  <2> QED
    BY <2>1, <2>2, <2>3, <2>4, QuietSteps
<1> QED
  BY <1>1, <1>2, FilingInvariant, PTL DEF Spec, KeepsPromise, Promise!Spec
-----------------------------------------------------------------------------
(* Where neither the expiry job nor the agency's DELETE runs, every step   *)
(* preserves ServableInv: what is looked for and deleted belongs to closed *)
(* claims, and a put only adds a document.                                 *)
LEMMA ServableStep ==
  ASSUME Ops \cap {"expire", "swa_delete"} = {}, TypeOK, ServableInv, [Next]_vars
  PROVE  ServableInv'
<1> USE LifecycleAssumption
    DEF TypeOK, ServableInv, Procs, is_resolved, is_completed, database, process,
        goto, log, at
<1>1. ASSUME NEW p \in Workers, Request(p) PROVE ServableInv'
  <2> PICK c \in Claims :
        \/ \E d \in Docs : \/ GET_partial_claim(p, c, d)
                           \/ POST_partial_claim(p, c, d)
                           \/ POST_completed_claim(p, c, d)
        \/ cancel_claim(p, c)
        \/ \E s \in Statuses : PATCH_v1_claim_status(p, c, s)
        \/ PATCH_v1_claim_fetched(p, c)
        \/ PATCH_v1_claim_resolved(p, c)
        \/ DELETE_v1_claim(p, c)
    BY <1>1 DEF Request
  <2>1. ASSUME NEW d \in Docs, GET_partial_claim(p, c, d) PROVE ServableInv'
    BY <2>1 DEF GET_partial_claim, begin
  <2>2. ASSUME NEW d \in Docs, POST_partial_claim(p, c, d) PROVE ServableInv'
    BY <2>2, SMTT(30) DEF POST_partial_claim, begin
  <2>3. ASSUME NEW d \in Docs, POST_completed_claim(p, c, d) PROVE ServableInv'
    BY <2>3, SMTT(30) DEF POST_completed_claim, begin
  <2>4. CASE cancel_claim(p, c)
    BY <2>4 DEF cancel_claim, begin
  <2>5. ASSUME NEW s \in Statuses, PATCH_v1_claim_status(p, c, s) PROVE ServableInv'
    BY <2>5 DEF PATCH_v1_claim_status
  <2>6. CASE PATCH_v1_claim_fetched(p, c)
    BY <2>6 DEF PATCH_v1_claim_fetched
  <2>7. CASE PATCH_v1_claim_resolved(p, c)
    BY <2>7 DEF PATCH_v1_claim_resolved
  <2>8. ~DELETE_v1_claim(p, c)
    BY DEF DELETE_v1_claim, begin, Admitted
  <2> QED
    BY <2>1, <2>2, <2>3, <2>4, <2>5, <2>6, <2>7, <2>8
<1>2. ASSUME NEW p \in Procs, save_partial(p) PROVE ServableInv'
  BY <1>2 DEF save_partial, done, NoReq
<1>3. ASSUME NEW p \in Procs, save_completed(p) PROVE ServableInv'
  BY <1>3 DEF save_completed
<1>4. ASSUME NEW p \in Procs, put_partial(p) PROVE ServableInv'
  BY <1>4 DEF put_partial, put, Kinds
<1>5. ASSUME NEW p \in Procs, put_completed(p) PROVE ServableInv'
  BY <1>5 DEF put_completed, put, Kinds
<1>6. ASSUME NEW p \in Procs, put_archive(p) PROVE ServableInv'
  BY <1>6 DEF put_archive, put, Kinds
<1>7. ASSUME NEW p \in Procs, commit_completed(p) PROVE ServableInv'
  BY <1>7 DEF commit_completed
<1>8. ASSUME NEW p \in Procs, send_later(p) PROVE ServableInv'
  BY <1>8 DEF send_later
<1>9. ASSUME NEW p \in Procs, cancel_resolve(p) PROVE ServableInv'
  BY <1>9 DEF cancel_resolve
<1>10. ASSUME NEW p \in Procs, probe_completed(p) PROVE ServableInv'
  BY <1>10 DEF probe_completed
<1>11. ASSUME NEW p \in Procs, probe_partial(p) PROVE ServableInv'
  BY <1>11 DEF probe_partial, done, NoReq
<1>12. ASSUME NEW p \in Procs, delete_objects(p) PROVE ServableInv'
  BY <1>12 DEF delete_objects, erase, done, NoReq, Kinds
<1>13. ASSUME NEW p \in Procs, record_deleted(p) PROVE ServableInv'
  BY <1>13 DEF record_deleted, done, NoReq
<1>14. ASSUME NEW p \in Procs, put_error(p) PROVE ServableInv'
  <2>1. PICK kind \in Kinds :
          /\ pc[p] = PutStep[kind]
          /\ object' \in {object, [object EXCEPT ![req[p].claim][kind] = req[p].doc]}
    BY <1>14 DEF put_error
  <2>2. /\ pc[p] \in {"put_partial", "put_completed", "put_archive"}
        /\ UNCHANGED <<events, batch>>
        /\ done(p)
    BY <1>14, <2>1 DEF put_error, PutStep, Kinds
  <2>3. \A c \in Claims : object[c]["completed"] \in Docs => object'[c]["completed"] \in Docs
    <3>1. PICK b \in Claims, d \in Docs : b = req[p].claim /\ d = req[p].doc
      BY <2>2
    <3>2. CASE object' = object
      BY <3>2
    <3>3. CASE object' = [object EXCEPT ![b][kind] = d]
      BY <3>3 DEF Kinds
    <3> QED
      BY <2>1, <3>1, <3>2, <3>3
  <2>4. /\ pc'[p] = "idle" /\ found'[p] = {} /\ p # Cron
        /\ \A q \in Procs \ {p} : pc'[q] = pc[q] /\ req'[q] = req[q] /\ found'[q] = found[q]
    BY <2>2 DEF done
  <2>5. \A q \in Procs \ {p} : pc[q] # "idle" => req[q].claim \in Claims
    OBVIOUS
  <2> HIDE DEF done
  <2>6. \A q \in Procs :
          /\ pc'[q] \in {"put_partial", "put_completed", "save_completed", "put_archive"}
               => req'[q].doc \in Docs
          /\ found'[q] # {} => pc'[q] \in {"probe_partial", "delete", "record"}
          /\ pc'[q] = "probe_completed" \/ "completed" \in found'[q]
               => is_resolved(events'[req'[q].claim])
    BY <2>2, <2>4
  <2>7. \A q \in Procs : pc'[q] \in {"save_completed", "put_archive", "commit"}
            => \/ object'[req'[q].claim]["completed"] \in Docs
               \/ is_resolved(events'[req'[q].claim])
    BY <2>2, <2>3, <2>4, <2>5
  <2> QED
    BY <2>2, <2>3, <2>4, <2>6, <2>7
<1>15. ASSUME NEW p \in Procs, delete_error(p) PROVE ServableInv'
  BY <1>15 DEF delete_error, erase, done, NoReq, Kinds
<1>16. ASSUME NEW p \in Procs, abandon(p) PROVE ServableInv'
  BY <1>16 DEF abandon, done, NoReq
<1>17. ~Expiry
  BY DEF Expiry, expiry_query, expiry_next
<1>18. ASSUME NEW c \in Claims, Age(c) PROVE ServableInv'
  BY <1>18 DEF Age
<1>19. CASE UNCHANGED vars
  BY <1>19 DEF vars
<1> QED
  BY <1>1, <1>2, <1>3, <1>4, <1>5, <1>6, <1>7, <1>8, <1>9, <1>10, <1>11, <1>12,
     <1>13, <1>14, <1>15, <1>16, <1>17, <1>18, <1>19
  DEF Next, Waiting, Working, Failure

(* Every claim in the agency's queue has its document in the bucket, for   *)
(* any number of claims and workers and whatever fails, as long as nobody  *)
(* deletes but the claimant who cancels: cancel_claim records RESOLVED,    *)
(* which takes the claim out of the queue, before it deletes anything.     *)
THEOREM QueueIsServable ==
  ASSUME Ops \cap {"expire", "swa_delete"} = {}
  PROVE  Spec => []QueueEntryServable
<1>1. Init => ServableInv
  BY DEF Init, ServableInv, NoReq, Procs, is_completed, is_resolved
<1>2. TypeOK /\ ServableInv /\ [Next]_vars => ServableInv'
  BY ServableStep
<1>3. ServableInv => QueueEntryServable
  BY LifecycleAssumption DEF ServableInv, QueueEntryServable, InQueue, is_resolved
<1> QED
  BY <1>1, <1>2, <1>3, TypeCorrect, PTL DEF Spec
-----------------------------------------------------------------------------
(***************************************************************************)
(* What ClaimLifecycle promises when clients act on a claim only when its  *)
(* state invites it (Polite); for one theorem the job has the night for    *)
(* itself, too (CronAlone). Each theorem names the conditions it needs.    *)
(***************************************************************************)

\* The steps from a post to the end of what it stores.
Writes(p) ==
  pc[p] \in {"put_partial", "save_partial", "put_completed", "save_completed",
             "put_archive", "commit"}

\* What the steps of the job and of a filing say of the operation.
StepInv ==
  /\ pc[Cron] \in {"idle", "probe_completed", "probe_partial", "delete", "record"}
  /\ \A p \in Workers :
       pc[p] \in {"put_completed", "save_completed", "put_archive", "commit", "email"}
         => req[p].op = "post_completed"

\* While the job is at work, no request is, and its claims are not filed.
AloneInv ==
  /\ pc[Cron] # "idle" \/ batch # {} => \A p \in Workers : pc[p] = "idle"
  /\ \A c \in batch : ~ is_completed(events[c])
  /\ pc[Cron] # "idle" => ~ is_completed(events[req[Cron].claim])

\* A request that stores something is the only one for its claim, the claim is
\* not filed, and the row is still as the request has read it.
WriterInv ==
  \A p \in Workers : Writes(p) =>
    /\ ~ is_completed(events[req[p].claim])
    /\ \A q \in Workers \ {p} : req[q].claim # req[p].claim
    /\ req[p].row = status[req[p].claim]

\* A filing under way: nobody puts another document beside its own.
CopyInv ==
  /\ AgencyCopyMatchesArchive
  /\ \A p \in Workers :
       /\ pc[p] \in {"save_completed", "put_archive", "commit"} =>
            object[req[p].claim]["completed"] \in {req[p].doc, NoDoc}
       /\ pc[p] = "commit" => object[req[p].claim]["archive"] = req[p].doc

\* The draft of a filed claim is gone, or the request that filed it is about to
\* look for it or to delete it.
DraftInv ==
  \A c \in Claims : is_completed(events[c]) /\ object[c]["partial"] # NoDoc =>
    \E p \in Workers :
      /\ req[p].claim = c
      /\ \/ pc[p] \in {"email", "probe_partial"}
         \/ pc[p] = "delete" /\ "partial" \in found[p]

\* Who is about to record DELETED has not overlooked anything.
ErasedInv ==
  /\ DeletedMeansErased
  /\ \A p \in Workers : Writes(p) => ~ is_deleted(events[req[p].claim])
  /\ \A p \in Procs :
       /\ pc[p] \in {"probe_partial", "delete"} /\ req[p].op # "post_completed" =>
            "completed" \in found[p] \/ object[req[p].claim]["completed"] = NoDoc
       /\ pc[p] = "delete" =>
            "partial" \in found[p] \/ object[req[p].claim]["partial"] = NoDoc
       /\ pc[p] = "record" =>
            /\ object[req[p].claim]["completed"] = NoDoc
            /\ object[req[p].claim]["partial"] = NoDoc
-----------------------------------------------------------------------------
\* What a step leaves of the other processes.
Others(p) ==
  \A q \in Procs \ {p} : pc'[q] = pc[q] /\ req'[q] = req[q] /\ found'[q] = found[q]

\* What looking for the draft leads to.
LEMMA ProbeStep ==
  ASSUME TypeOK, NEW p \in Procs, probe_partial(p)
  PROVE  /\ pc[p] = "probe_partial" /\ Others(p)
         /\ UNCHANGED <<database, lock, object, batch>>
         /\ \E seen \in BOOLEAN :
              /\ exists(p, "partial", seen)
              /\ \/ /\ pc'[p] = "delete" /\ req'[p] = req[p]
                    /\ found'[p] = found[p] \cup (IF seen THEN {"partial"} ELSE {})
                 \/ /\ ~ seen /\ found[p] = {} /\ req[p].op = "expire"
                    /\ pc'[p] = "record" /\ req'[p] = req[p]
                 \/ ~ seen /\ pc'[p] = "idle" /\ req'[p] = NoReq
<1>1. PICK seen \in BOOLEAN :
        LET toDelete == found[p] \cup (IF seen THEN {"partial"} ELSE {}) IN
        /\ exists(p, "partial", seen)
        /\ \/ /\ toDelete # {}
              /\ found' = [found EXCEPT ![p] = toDelete]
              /\ goto(p, "delete")
              /\ UNCHANGED req
           \/ /\ toDelete = {}
              /\ req[p].op = "expire"
              /\ goto(p, "record")
              /\ UNCHANGED <<req, found>>
           \/ /\ toDelete = {}
              /\ req[p].op # "expire"
              /\ done(p)
  BY DEF probe_partial
<1> DEFINE toDelete == found[p] \cup (IF seen THEN {"partial"} ELSE {})
<1>2. toDelete = {} => ~ seen /\ found[p] = {}
  OBVIOUS
<1>3. pc[p] = "probe_partial" /\ UNCHANGED <<database, lock, object, batch>>
  BY DEF probe_partial, at
<1>4. CASE /\ found' = [found EXCEPT ![p] = toDelete]
           /\ goto(p, "delete") /\ UNCHANGED req
  <2>1. Others(p) /\ pc'[p] = "delete" /\ req'[p] = req[p] /\ found'[p] = toDelete
    BY <1>4 DEF TypeOK, goto, Others
  <2> QED
    BY <1>1, <1>3, <2>1
<1>5. CASE /\ toDelete = {} /\ req[p].op = "expire" /\ goto(p, "record") /\ UNCHANGED <<req, found>>
  <2>1. Others(p) /\ pc'[p] = "record" /\ req'[p] = req[p]
    BY <1>5 DEF TypeOK, goto, Others
  <2> QED
    BY <1>1, <1>2, <1>3, <1>5, <2>1
<1>6. CASE toDelete = {} /\ done(p)
  <2>1. Others(p) /\ pc'[p] = "idle" /\ req'[p] = NoReq
    BY <1>6 DEF TypeOK, goto, done, Others
  <2> QED
    BY <1>1, <1>2, <1>3, <1>6, <2>1
<1> QED
  BY <1>1, <1>4, <1>5, <1>6

\* What deleting the artifacts leads to.
LEMMA DeleteStep ==
  ASSUME TypeOK, NEW p \in Procs, delete_objects(p)
  PROVE  /\ pc[p] = "delete" /\ Others(p)
         /\ UNCHANGED <<database, lock, batch>>
         /\ \/ pc'[p] = "idle" /\ req'[p] = NoReq
            \/ /\ req[p].op # "post_completed"
               /\ pc'[p] = "record" /\ req'[p] = req[p] /\ found'[p] = found[p]
         /\ \A c \in Claims, k \in Kinds :
              object'[c][k] = IF c = req[p].claim /\ k \in found[p] THEN NoDoc ELSE object[c][k]
<1>1. pc[p] = "delete" /\ UNCHANGED <<database, lock, batch>>
  BY DEF delete_objects, at
<1>2. \A c \in Claims, k \in Kinds :
        object'[c][k] = IF c = req[p].claim /\ k \in found[p] THEN NoDoc ELSE object[c][k]
  BY DEF delete_objects, erase, TypeOK
<1>3. CASE done(p)
  <2>1. Others(p) /\ pc'[p] = "idle" /\ req'[p] = NoReq
    BY <1>3 DEF TypeOK, goto, done, Others
  <2> QED
    BY <1>1, <1>2, <2>1
<1>4. CASE req[p].op # "post_completed" /\ goto(p, "record") /\ UNCHANGED <<req, found>>
  <2>1. Others(p) /\ pc'[p] = "record" /\ req'[p] = req[p] /\ found'[p] = found[p]
    BY <1>4 DEF TypeOK, goto, Others
  <2> QED
    BY <1>1, <1>2, <1>4, <2>1
<1> QED
  BY <1>3, <1>4 DEF delete_objects

-----------------------------------------------------------------------------
\* Only the job serves "expire", only a filing gets to the steps of a filing.
LEMMA StepStep ==
  ASSUME TypeOK, StepInv, [Next]_vars
  PROVE  StepInv'
<1> USE LifecycleAssumption
    DEF TypeOK, Procs, database, process, goto, log, at, StepInv
<1>1. ASSUME NEW p \in Workers, Request(p) PROVE StepInv'
  <2> PICK c \in Claims :
        \/ \E d \in Docs : \/ GET_partial_claim(p, c, d)
                           \/ POST_partial_claim(p, c, d)
                           \/ POST_completed_claim(p, c, d)
        \/ cancel_claim(p, c)
        \/ \E s \in Statuses : PATCH_v1_claim_status(p, c, s)
        \/ PATCH_v1_claim_fetched(p, c)
        \/ PATCH_v1_claim_resolved(p, c)
        \/ DELETE_v1_claim(p, c)
    BY <1>1 DEF Request
  <2>1. ASSUME NEW d \in Docs, GET_partial_claim(p, c, d) PROVE StepInv'
    BY <2>1 DEF GET_partial_claim, begin
  <2>2. ASSUME NEW d \in Docs, POST_partial_claim(p, c, d) PROVE StepInv'
    BY <2>2 DEF POST_partial_claim, begin
  <2>3. ASSUME NEW d \in Docs, POST_completed_claim(p, c, d) PROVE StepInv'
    BY <2>3 DEF POST_completed_claim, begin
  <2>4. CASE cancel_claim(p, c)
    BY <2>4 DEF cancel_claim, begin
  <2>5. ASSUME NEW s \in Statuses, PATCH_v1_claim_status(p, c, s) PROVE StepInv'
    BY <2>5 DEF PATCH_v1_claim_status, swa_request, save
  <2>6. CASE PATCH_v1_claim_fetched(p, c)
    BY <2>6 DEF PATCH_v1_claim_fetched, swa_request
  <2>7. CASE PATCH_v1_claim_resolved(p, c)
    BY <2>7 DEF PATCH_v1_claim_resolved, swa_request
  <2>8. CASE DELETE_v1_claim(p, c)
    BY <2>8 DEF DELETE_v1_claim, begin
  <2> QED
    BY <2>1, <2>2, <2>3, <2>4, <2>5, <2>6, <2>7, <2>8
<1>2. ASSUME NEW p \in Procs, save_partial(p) PROVE StepInv'
  BY <1>2 DEF save_partial, save, done, NoReq
<1>3. ASSUME NEW p \in Procs, save_completed(p) PROVE StepInv'
  BY <1>3 DEF save_completed
<1>4. ASSUME NEW p \in Procs, put_partial(p) PROVE StepInv'
  BY <1>4 DEF put_partial, put, Kinds
<1>5. ASSUME NEW p \in Procs, put_completed(p) PROVE StepInv'
  BY <1>5 DEF put_completed, put, Kinds
<1>6. ASSUME NEW p \in Procs, put_archive(p) PROVE StepInv'
  BY <1>6 DEF put_archive, put, Kinds
<1>7. ASSUME NEW p \in Procs, commit_completed(p) PROVE StepInv'
  BY <1>7 DEF commit_completed, save
<1>8. ASSUME NEW p \in Procs, send_later(p) PROVE StepInv'
  BY <1>8 DEF send_later
<1>9. ASSUME NEW p \in Procs, cancel_resolve(p) PROVE StepInv'
  BY <1>9 DEF cancel_resolve
<1>10. ASSUME NEW p \in Procs, probe_completed(p) PROVE StepInv'
  BY <1>10 DEF probe_completed, exists
<1>11. ASSUME NEW p \in Procs, probe_partial(p) PROVE StepInv'
  BY <1>11, ProbeStep, ZenonT(30) DEF NoReq, exists, Others
<1>12. ASSUME NEW p \in Procs, delete_objects(p) PROVE StepInv'
  BY <1>12, DeleteStep DEF NoReq, Others, Kinds
<1>13. ASSUME NEW p \in Procs, record_deleted(p) PROVE StepInv'
  BY <1>13 DEF record_deleted, done, NoReq
<1>14. ASSUME NEW p \in Procs, put_error(p) PROVE StepInv'
  BY <1>14 DEF put_error, done, NoReq, PutStep, Kinds
<1>15. ASSUME NEW p \in Procs, delete_error(p) PROVE StepInv'
  BY <1>15 DEF delete_error, done, NoReq
<1>16. ASSUME NEW p \in Procs, abandon(p) PROVE StepInv'
  BY <1>16 DEF abandon, done, NoReq
<1>17. CASE expiry_query
  BY <1>17 DEF expiry_query, Expired, ExpiredPartial
<1>18. ASSUME NEW c \in Claims, expiry_next(c) PROVE StepInv'
  BY <1>18 DEF expiry_next
<1>19. ASSUME NEW c \in Claims, Age(c) PROVE StepInv'
  BY <1>19 DEF Age
<1>20. CASE UNCHANGED vars
  BY <1>20 DEF vars
<1> QED
  BY <1>1, <1>2, <1>3, <1>4, <1>5, <1>6, <1>7, <1>8, <1>9, <1>10, <1>11,
     <1>12, <1>13, <1>14, <1>15, <1>16, <1>17, <1>18, <1>19, <1>20
  DEF Next, Waiting, Working, Failure, Expiry

\* With CronAlone nobody files a claim, or anything else, while the job is at work.
LEMMA AloneStep ==
  ASSUME CronAlone, TypeOK, StepInv, AloneInv, [Next]_vars
  PROVE  AloneInv'
<1> USE LifecycleAssumption
    DEF TypeOK, Procs, database, process, goto, log, at, StepInv, AloneInv, is_completed
<1>1. ASSUME NEW p \in Workers, Request(p) PROVE AloneInv'
  <2> PICK c \in Claims :
        \/ \E d \in Docs : \/ GET_partial_claim(p, c, d)
                           \/ POST_partial_claim(p, c, d)
                           \/ POST_completed_claim(p, c, d)
        \/ cancel_claim(p, c)
        \/ \E s \in Statuses : PATCH_v1_claim_status(p, c, s)
        \/ PATCH_v1_claim_fetched(p, c)
        \/ PATCH_v1_claim_resolved(p, c)
        \/ DELETE_v1_claim(p, c)
    BY <1>1 DEF Request
  <2>1. ASSUME NEW d \in Docs, GET_partial_claim(p, c, d) PROVE AloneInv'
    BY <2>1 DEF GET_partial_claim, begin, Admitted, Serving
  <2>2. ASSUME NEW d \in Docs, POST_partial_claim(p, c, d) PROVE AloneInv'
    BY <2>2 DEF POST_partial_claim, begin, Admitted, Serving
  <2>3. ASSUME NEW d \in Docs, POST_completed_claim(p, c, d) PROVE AloneInv'
    BY <2>3 DEF POST_completed_claim, begin, Admitted, Serving
  <2>4. CASE cancel_claim(p, c)
    BY <2>4 DEF cancel_claim, begin, Admitted, Serving
  <2>5. ASSUME NEW s \in Statuses, PATCH_v1_claim_status(p, c, s) PROVE AloneInv'
    BY <2>5 DEF PATCH_v1_claim_status, swa_request, save, Admitted, Serving
  <2>6. CASE PATCH_v1_claim_fetched(p, c)
    BY <2>6 DEF PATCH_v1_claim_fetched, swa_request, Admitted, Serving
  <2>7. CASE PATCH_v1_claim_resolved(p, c)
    BY <2>7 DEF PATCH_v1_claim_resolved, swa_request, Admitted, Serving
  <2>8. CASE DELETE_v1_claim(p, c)
    BY <2>8 DEF DELETE_v1_claim, begin, Admitted, Serving
  <2> QED
    BY <2>1, <2>2, <2>3, <2>4, <2>5, <2>6, <2>7, <2>8
<1>2. ASSUME NEW p \in Procs, save_partial(p) PROVE AloneInv'
  BY <1>2 DEF save_partial, save, done, NoReq
<1>3. ASSUME NEW p \in Procs, save_completed(p) PROVE AloneInv'
  BY <1>3 DEF save_completed
<1>4. ASSUME NEW p \in Procs, put_partial(p) PROVE AloneInv'
  BY <1>4 DEF put_partial, put, Kinds
<1>5. ASSUME NEW p \in Procs, put_completed(p) PROVE AloneInv'
  BY <1>5 DEF put_completed, put, Kinds
<1>6. ASSUME NEW p \in Procs, put_archive(p) PROVE AloneInv'
  BY <1>6 DEF put_archive, put, Kinds
<1>7. ASSUME NEW p \in Procs, commit_completed(p) PROVE AloneInv'
  BY <1>7 DEF commit_completed, save
<1>8. ASSUME NEW p \in Procs, send_later(p) PROVE AloneInv'
  BY <1>8 DEF send_later
<1>9. ASSUME NEW p \in Procs, cancel_resolve(p) PROVE AloneInv'
  BY <1>9 DEF cancel_resolve
<1>10. ASSUME NEW p \in Procs, probe_completed(p) PROVE AloneInv'
  BY <1>10 DEF probe_completed, exists
<1>11. ASSUME NEW p \in Procs, probe_partial(p) PROVE AloneInv'
  BY <1>11, ProbeStep DEF NoReq, exists, Others
<1>12. ASSUME NEW p \in Procs, delete_objects(p) PROVE AloneInv'
  BY <1>12, DeleteStep DEF NoReq, Others, Kinds
<1>13. ASSUME NEW p \in Procs, record_deleted(p) PROVE AloneInv'
  BY <1>13 DEF record_deleted, done, NoReq
<1>14. ASSUME NEW p \in Procs, put_error(p) PROVE AloneInv'
  BY <1>14 DEF put_error, done, NoReq, PutStep, Kinds
<1>15. ASSUME NEW p \in Procs, delete_error(p) PROVE AloneInv'
  BY <1>15 DEF delete_error, done, NoReq
<1>16. ASSUME NEW p \in Procs, abandon(p) PROVE AloneInv'
  BY <1>16 DEF abandon, done, NoReq
<1>17. CASE expiry_query
  BY <1>17 DEF expiry_query, Expired, ExpiredPartial
<1>18. ASSUME NEW c \in Claims, expiry_next(c) PROVE AloneInv'
  BY <1>18 DEF expiry_next
<1>19. ASSUME NEW c \in Claims, Age(c) PROVE AloneInv'
  BY <1>19 DEF Age
<1>20. CASE UNCHANGED vars
  BY <1>20 DEF vars
<1> QED
  BY <1>1, <1>2, <1>3, <1>4, <1>5, <1>6, <1>7, <1>8, <1>9, <1>10, <1>11,
     <1>12, <1>13, <1>14, <1>15, <1>16, <1>17, <1>18, <1>19, <1>20
  DEF Next, Waiting, Working, Failure, Expiry

\* With Polite nobody joins, files or changes a claim while a request stores
\* something for it: who would must find it unserved, or filed.
LEMMA WriterStep ==
  ASSUME Polite, TypeOK, StepInv, WriterInv, [Next]_vars
  PROVE  WriterInv'
<1> USE LifecycleAssumption
    DEF TypeOK, Procs, database, process, goto, log, at, StepInv, WriterInv, Writes, is_completed
<1>1. ASSUME NEW p \in Workers, Request(p) PROVE WriterInv'
  <2> PICK c \in Claims :
        \/ \E d \in Docs : \/ GET_partial_claim(p, c, d)
                           \/ POST_partial_claim(p, c, d)
                           \/ POST_completed_claim(p, c, d)
        \/ cancel_claim(p, c)
        \/ \E s \in Statuses : PATCH_v1_claim_status(p, c, s)
        \/ PATCH_v1_claim_fetched(p, c)
        \/ PATCH_v1_claim_resolved(p, c)
        \/ DELETE_v1_claim(p, c)
    BY <1>1 DEF Request
  <2>1. ASSUME NEW d \in Docs, GET_partial_claim(p, c, d) PROVE WriterInv'
    BY <2>1 DEF GET_partial_claim, begin, Admitted, Serving
  <2>2. ASSUME NEW d \in Docs, POST_partial_claim(p, c, d) PROVE WriterInv'
    BY <2>2 DEF POST_partial_claim, begin, Admitted, Serving
  <2>3. ASSUME NEW d \in Docs, POST_completed_claim(p, c, d) PROVE WriterInv'
    BY <2>3 DEF POST_completed_claim, begin, Admitted, Serving
  <2>4. CASE cancel_claim(p, c)
    BY <2>4 DEF cancel_claim, begin, Admitted, Serving
  <2>5. ASSUME NEW s \in Statuses, PATCH_v1_claim_status(p, c, s) PROVE WriterInv'
    BY <2>5 DEF PATCH_v1_claim_status, swa_request, save, Admitted, Serving
  <2>6. CASE PATCH_v1_claim_fetched(p, c)
    BY <2>6 DEF PATCH_v1_claim_fetched, swa_request, Admitted, Serving
  <2>7. CASE PATCH_v1_claim_resolved(p, c)
    BY <2>7 DEF PATCH_v1_claim_resolved, swa_request, Admitted, Serving
  <2>8. CASE DELETE_v1_claim(p, c)
    BY <2>8 DEF DELETE_v1_claim, begin, Admitted, Serving
  <2> QED
    BY <2>1, <2>2, <2>3, <2>4, <2>5, <2>6, <2>7, <2>8
<1>2. ASSUME NEW p \in Procs, save_partial(p) PROVE WriterInv'
  BY <1>2 DEF save_partial, save, done, NoReq
<1>3. ASSUME NEW p \in Procs, save_completed(p) PROVE WriterInv'
  BY <1>3 DEF save_completed
<1>4. ASSUME NEW p \in Procs, put_partial(p) PROVE WriterInv'
  BY <1>4 DEF put_partial, put, Kinds
<1>5. ASSUME NEW p \in Procs, put_completed(p) PROVE WriterInv'
  BY <1>5 DEF put_completed, put, Kinds
<1>6. ASSUME NEW p \in Procs, put_archive(p) PROVE WriterInv'
  BY <1>6 DEF put_archive, put, Kinds
<1>7. ASSUME NEW p \in Procs, commit_completed(p) PROVE WriterInv'
  BY <1>7 DEF commit_completed, save
<1>8. ASSUME NEW p \in Procs, send_later(p) PROVE WriterInv'
  BY <1>8 DEF send_later
<1>9. ASSUME NEW p \in Procs, cancel_resolve(p) PROVE WriterInv'
  BY <1>9 DEF cancel_resolve
<1>10. ASSUME NEW p \in Procs, probe_completed(p) PROVE WriterInv'
  BY <1>10 DEF probe_completed, exists
<1>11. ASSUME NEW p \in Procs, probe_partial(p) PROVE WriterInv'
  <2>1. UNCHANGED <<events, status>> /\ Others(p) /\ pc[p] = "probe_partial"
    BY <1>11, ProbeStep
  <2>2. pc'[p] \in {"delete", "record", "idle"} /\ req'[p] \in {req[p], NoReq}
    BY <1>11, ProbeStep
  <2>3. \A q \in Workers : Writes(q)' => q # p /\ Writes(q) /\ req'[q] = req[q] /\ req[q].claim \in Claims
    BY <2>1, <2>2 DEF Others
  <2>4. \A q \in Workers : req'[q].claim \in {req[q].claim, NoClaim}
    BY <2>1, <2>2 DEF Others, NoReq
  <2> QED
    BY <2>1, <2>3, <2>4
<1>12. ASSUME NEW p \in Procs, delete_objects(p) PROVE WriterInv'
  BY <1>12, DeleteStep DEF NoReq, Others, Kinds
<1>13. ASSUME NEW p \in Procs, record_deleted(p) PROVE WriterInv'
  BY <1>13 DEF record_deleted, done, NoReq
<1>14. ASSUME NEW p \in Procs, put_error(p) PROVE WriterInv'
  BY <1>14 DEF put_error, done, NoReq, PutStep, Kinds
<1>15. ASSUME NEW p \in Procs, delete_error(p) PROVE WriterInv'
  BY <1>15 DEF delete_error, done, NoReq
<1>16. ASSUME NEW p \in Procs, abandon(p) PROVE WriterInv'
  BY <1>16 DEF abandon, done, NoReq
<1>17. CASE expiry_query
  BY <1>17 DEF expiry_query, Expired, ExpiredPartial
<1>18. ASSUME NEW c \in Claims, expiry_next(c) PROVE WriterInv'
  BY <1>18 DEF expiry_next
<1>19. ASSUME NEW c \in Claims, Age(c) PROVE WriterInv'
  BY <1>19 DEF Age
<1>20. CASE UNCHANGED vars
  BY <1>20 DEF vars
<1> QED
  BY <1>1, <1>2, <1>3, <1>4, <1>5, <1>6, <1>7, <1>8, <1>9, <1>10, <1>11,
     <1>12, <1>13, <1>14, <1>15, <1>16, <1>17, <1>18, <1>19, <1>20
  DEF Next, Waiting, Working, Failure, Expiry

\* A save then writes the status back that is there.
LEMMA StatusStep ==
  ASSUME TypeOK, StepInv, WriterInv, StatusFollowsEvents, [Next]_vars
  PROVE  StatusFollowsEvents'
<1> USE LifecycleAssumption
    DEF TypeOK, Procs, database, process, goto, log, at, StepInv, WriterInv, Writes, StatusFollowsEvents
<1>1. ASSUME NEW p \in Workers, Request(p) PROVE StatusFollowsEvents'
  <2> PICK c \in Claims :
        \/ \E d \in Docs : \/ GET_partial_claim(p, c, d)
                           \/ POST_partial_claim(p, c, d)
                           \/ POST_completed_claim(p, c, d)
        \/ cancel_claim(p, c)
        \/ \E s \in Statuses : PATCH_v1_claim_status(p, c, s)
        \/ PATCH_v1_claim_fetched(p, c)
        \/ PATCH_v1_claim_resolved(p, c)
        \/ DELETE_v1_claim(p, c)
    BY <1>1 DEF Request
  <2>1. ASSUME NEW d \in Docs, GET_partial_claim(p, c, d) PROVE StatusFollowsEvents'
    BY <2>1 DEF GET_partial_claim, begin
  <2>2. ASSUME NEW d \in Docs, POST_partial_claim(p, c, d) PROVE StatusFollowsEvents'
    BY <2>2 DEF POST_partial_claim, begin
  <2>3. ASSUME NEW d \in Docs, POST_completed_claim(p, c, d) PROVE StatusFollowsEvents'
    BY <2>3 DEF POST_completed_claim, begin
  <2>4. CASE cancel_claim(p, c)
    BY <2>4 DEF cancel_claim, begin
  <2>5. ASSUME NEW s \in Statuses, PATCH_v1_claim_status(p, c, s) PROVE StatusFollowsEvents'
    BY <2>5 DEF PATCH_v1_claim_status, swa_request, save
  <2>6. CASE PATCH_v1_claim_fetched(p, c)
    BY <2>6 DEF PATCH_v1_claim_fetched, swa_request
  <2>7. CASE PATCH_v1_claim_resolved(p, c)
    BY <2>7 DEF PATCH_v1_claim_resolved, swa_request
  <2>8. CASE DELETE_v1_claim(p, c)
    BY <2>8 DEF DELETE_v1_claim, begin
  <2> QED
    BY <2>1, <2>2, <2>3, <2>4, <2>5, <2>6, <2>7, <2>8
<1>2. ASSUME NEW p \in Procs, save_partial(p) PROVE StatusFollowsEvents'
  BY <1>2 DEF save_partial, save, done, NoReq
<1>3. ASSUME NEW p \in Procs, save_completed(p) PROVE StatusFollowsEvents'
  BY <1>3 DEF save_completed
<1>4. ASSUME NEW p \in Procs, put_partial(p) PROVE StatusFollowsEvents'
  BY <1>4 DEF put_partial, put, Kinds
<1>5. ASSUME NEW p \in Procs, put_completed(p) PROVE StatusFollowsEvents'
  BY <1>5 DEF put_completed, put, Kinds
<1>6. ASSUME NEW p \in Procs, put_archive(p) PROVE StatusFollowsEvents'
  BY <1>6 DEF put_archive, put, Kinds
<1>7. ASSUME NEW p \in Procs, commit_completed(p) PROVE StatusFollowsEvents'
  BY <1>7 DEF commit_completed, save
<1>8. ASSUME NEW p \in Procs, send_later(p) PROVE StatusFollowsEvents'
  BY <1>8 DEF send_later
<1>9. ASSUME NEW p \in Procs, cancel_resolve(p) PROVE StatusFollowsEvents'
  BY <1>9 DEF cancel_resolve
<1>10. ASSUME NEW p \in Procs, probe_completed(p) PROVE StatusFollowsEvents'
  BY <1>10 DEF probe_completed, exists
<1>11. ASSUME NEW p \in Procs, probe_partial(p) PROVE StatusFollowsEvents'
  BY <1>11, ProbeStep DEF NoReq, exists, Others
<1>12. ASSUME NEW p \in Procs, delete_objects(p) PROVE StatusFollowsEvents'
  BY <1>12, DeleteStep DEF NoReq, Others, Kinds
<1>13. ASSUME NEW p \in Procs, record_deleted(p) PROVE StatusFollowsEvents'
  BY <1>13 DEF record_deleted, done, NoReq
<1>14. ASSUME NEW p \in Procs, put_error(p) PROVE StatusFollowsEvents'
  BY <1>14 DEF put_error, done, NoReq, PutStep, Kinds
<1>15. ASSUME NEW p \in Procs, delete_error(p) PROVE StatusFollowsEvents'
  BY <1>15 DEF delete_error, done, NoReq
<1>16. ASSUME NEW p \in Procs, abandon(p) PROVE StatusFollowsEvents'
  BY <1>16 DEF abandon, done, NoReq
<1>17. CASE expiry_query
  BY <1>17 DEF expiry_query, Expired, ExpiredPartial
<1>18. ASSUME NEW c \in Claims, expiry_next(c) PROVE StatusFollowsEvents'
  BY <1>18 DEF expiry_next
<1>19. ASSUME NEW c \in Claims, Age(c) PROVE StatusFollowsEvents'
  BY <1>19 DEF Age
<1>20. CASE UNCHANGED vars
  BY <1>20 DEF vars
<1> QED
  BY <1>1, <1>2, <1>3, <1>4, <1>5, <1>6, <1>7, <1>8, <1>9, <1>10, <1>11,
     <1>12, <1>13, <1>14, <1>15, <1>16, <1>17, <1>18, <1>19, <1>20
  DEF Next, Waiting, Working, Failure, Expiry

\* The two puts of a filing are of one document, and no one else puts between.
LEMMA CopyStep ==
  ASSUME TypeOK, StepInv, WriterInv, CopyInv, [Next]_vars
  PROVE  CopyInv'
<1> USE LifecycleAssumption
    DEF TypeOK, Procs, database, process, goto, log, at, StepInv, WriterInv, Writes, CopyInv,
        AgencyCopyMatchesArchive, is_completed
<1>1. ASSUME NEW p \in Workers, Request(p) PROVE CopyInv'
  <2> PICK c \in Claims :
        \/ \E d \in Docs : \/ GET_partial_claim(p, c, d)
                           \/ POST_partial_claim(p, c, d)
                           \/ POST_completed_claim(p, c, d)
        \/ cancel_claim(p, c)
        \/ \E s \in Statuses : PATCH_v1_claim_status(p, c, s)
        \/ PATCH_v1_claim_fetched(p, c)
        \/ PATCH_v1_claim_resolved(p, c)
        \/ DELETE_v1_claim(p, c)
    BY <1>1 DEF Request
  <2>1. ASSUME NEW d \in Docs, GET_partial_claim(p, c, d) PROVE CopyInv'
    BY <2>1 DEF GET_partial_claim, begin
  <2>2. ASSUME NEW d \in Docs, POST_partial_claim(p, c, d) PROVE CopyInv'
    BY <2>2 DEF POST_partial_claim, begin
  <2>3. ASSUME NEW d \in Docs, POST_completed_claim(p, c, d) PROVE CopyInv'
    BY <2>3 DEF POST_completed_claim, begin
  <2>4. CASE cancel_claim(p, c)
    BY <2>4 DEF cancel_claim, begin
  <2>5. ASSUME NEW s \in Statuses, PATCH_v1_claim_status(p, c, s) PROVE CopyInv'
    BY <2>5 DEF PATCH_v1_claim_status, swa_request, save
  <2>6. CASE PATCH_v1_claim_fetched(p, c)
    BY <2>6 DEF PATCH_v1_claim_fetched, swa_request
  <2>7. CASE PATCH_v1_claim_resolved(p, c)
    BY <2>7 DEF PATCH_v1_claim_resolved, swa_request
  <2>8. CASE DELETE_v1_claim(p, c)
    BY <2>8 DEF DELETE_v1_claim, begin
  <2> QED
    BY <2>1, <2>2, <2>3, <2>4, <2>5, <2>6, <2>7, <2>8
<1>2. ASSUME NEW p \in Procs, save_partial(p) PROVE CopyInv'
  BY <1>2 DEF save_partial, save, done, NoReq
<1>3. ASSUME NEW p \in Procs, save_completed(p) PROVE CopyInv'
  BY <1>3 DEF save_completed
<1>4. ASSUME NEW p \in Procs, put_partial(p) PROVE CopyInv'
  BY <1>4 DEF put_partial, put, Kinds
<1>5. ASSUME NEW p \in Procs, put_completed(p) PROVE CopyInv'
  BY <1>5 DEF put_completed, put, Kinds
<1>6. ASSUME NEW p \in Procs, put_archive(p) PROVE CopyInv'
  BY <1>6 DEF put_archive, put, Kinds
<1>7. ASSUME NEW p \in Procs, commit_completed(p) PROVE CopyInv'
  BY <1>7 DEF commit_completed, save
<1>8. ASSUME NEW p \in Procs, send_later(p) PROVE CopyInv'
  BY <1>8 DEF send_later
<1>9. ASSUME NEW p \in Procs, cancel_resolve(p) PROVE CopyInv'
  BY <1>9 DEF cancel_resolve
<1>10. ASSUME NEW p \in Procs, probe_completed(p) PROVE CopyInv'
  BY <1>10 DEF probe_completed, exists
<1>11. ASSUME NEW p \in Procs, probe_partial(p) PROVE CopyInv'
  BY <1>11 DEF probe_partial, exists, done, NoReq
<1>12. ASSUME NEW p \in Procs, delete_objects(p) PROVE CopyInv'
  <2>1. \A q \in Workers : pc'[q] \in {"save_completed", "put_archive", "commit"} =>
          pc'[q] = pc[q] /\ req'[q] = req[q] /\ req[q].claim \in Claims
    BY <1>12, DeleteStep DEF Others
  <2>2. \A c \in Claims : /\ object'[c]["completed"] \in {object[c]["completed"], NoDoc}
                          /\ object'[c]["archive"] = object[c]["archive"]
    BY <1>12, DeleteStep DEF Kinds
  <2>3. UNCHANGED events
    BY <1>12, DeleteStep
  <2> QED
    BY <2>1, <2>2, <2>3
<1>13. ASSUME NEW p \in Procs, record_deleted(p) PROVE CopyInv'
  BY <1>13 DEF record_deleted, done, NoReq
<1>14. ASSUME NEW p \in Procs, put_error(p) PROVE CopyInv'
  BY <1>14 DEF put_error, done, NoReq, PutStep, Kinds
<1>15. ASSUME NEW p \in Procs, delete_error(p) PROVE CopyInv'
  BY <1>15, SMTT(30) DEF delete_error, erase, done, NoReq, Kinds
<1>16. ASSUME NEW p \in Procs, abandon(p) PROVE CopyInv'
  BY <1>16 DEF abandon, done, NoReq
<1>17. CASE expiry_query
  BY <1>17 DEF expiry_query, Expired, ExpiredPartial
<1>18. ASSUME NEW c \in Claims, expiry_next(c) PROVE CopyInv'
  BY <1>18 DEF expiry_next
<1>19. ASSUME NEW c \in Claims, Age(c) PROVE CopyInv'
  BY <1>19 DEF Age
<1>20. CASE UNCHANGED vars
  BY <1>20 DEF vars
<1> QED
  BY <1>1, <1>2, <1>3, <1>4, <1>5, <1>6, <1>7, <1>8, <1>9, <1>10, <1>11,
     <1>12, <1>13, <1>14, <1>15, <1>16, <1>17, <1>18, <1>19, <1>20
  DEF Next, Waiting, Working, Failure, Expiry

\* Who files a claim goes on to look for its draft, finds it and deletes it.
LEMMA DraftStep ==
  ASSUME Faults \cap {"probe", "delete", "crash"} = {},
         TypeOK, StepInv, WriterInv, DraftInv, [Next]_vars
  PROVE  DraftInv'
<1> USE LifecycleAssumption
    DEF TypeOK, Procs, database, process, goto, log, at, StepInv, WriterInv, Writes, DraftInv,
        is_completed
<1>1. ASSUME NEW p \in Workers, Request(p) PROVE DraftInv'
  <2> PICK c \in Claims :
        \/ \E d \in Docs : \/ GET_partial_claim(p, c, d)
                           \/ POST_partial_claim(p, c, d)
                           \/ POST_completed_claim(p, c, d)
        \/ cancel_claim(p, c)
        \/ \E s \in Statuses : PATCH_v1_claim_status(p, c, s)
        \/ PATCH_v1_claim_fetched(p, c)
        \/ PATCH_v1_claim_resolved(p, c)
        \/ DELETE_v1_claim(p, c)
    BY <1>1 DEF Request
  <2>1. ASSUME NEW d \in Docs, GET_partial_claim(p, c, d) PROVE DraftInv'
    BY <2>1 DEF GET_partial_claim, begin
  <2>2. ASSUME NEW d \in Docs, POST_partial_claim(p, c, d) PROVE DraftInv'
    <3>1. \A b \in Claims : is_completed(events'[b]) <=> is_completed(events[b])
      BY <2>2 DEF POST_partial_claim
    <3>2. object' = object /\ pc[p] = "idle" /\ Others(p) /\ found'[p] = found[p]
      BY <2>2 DEF POST_partial_claim, begin, Others
    <3> QED
      BY <3>1, <3>2, SMTT(30) DEF Others
  <2>3. ASSUME NEW d \in Docs, POST_completed_claim(p, c, d) PROVE DraftInv'
    <3>1. \A b \in Claims : is_completed(events'[b]) <=> is_completed(events[b])
      BY <2>3 DEF POST_completed_claim
    <3>2. object' = object /\ pc[p] = "idle" /\ Others(p) /\ found'[p] = found[p]
      BY <2>3 DEF POST_completed_claim, begin, Others
    <3> QED
      BY <3>1, <3>2, SMTT(30) DEF Others
  <2>4. CASE cancel_claim(p, c)
    BY <2>4 DEF cancel_claim, begin
  <2>5. ASSUME NEW s \in Statuses, PATCH_v1_claim_status(p, c, s) PROVE DraftInv'
    BY <2>5 DEF PATCH_v1_claim_status, swa_request, save
  <2>6. CASE PATCH_v1_claim_fetched(p, c)
    BY <2>6 DEF PATCH_v1_claim_fetched, swa_request
  <2>7. CASE PATCH_v1_claim_resolved(p, c)
    BY <2>7 DEF PATCH_v1_claim_resolved, swa_request
  <2>8. CASE DELETE_v1_claim(p, c)
    BY <2>8 DEF DELETE_v1_claim, begin
  <2> QED
    BY <2>1, <2>2, <2>3, <2>4, <2>5, <2>6, <2>7, <2>8
<1>2. ASSUME NEW p \in Procs, save_partial(p) PROVE DraftInv'
  BY <1>2 DEF save_partial, save, done, NoReq
<1>3. ASSUME NEW p \in Procs, save_completed(p) PROVE DraftInv'
  BY <1>3 DEF save_completed
<1>4. ASSUME NEW p \in Procs, put_partial(p) PROVE DraftInv'
  BY <1>4 DEF put_partial, put, Kinds
<1>5. ASSUME NEW p \in Procs, put_completed(p) PROVE DraftInv'
  BY <1>5 DEF put_completed, put, Kinds
<1>6. ASSUME NEW p \in Procs, put_archive(p) PROVE DraftInv'
  BY <1>6 DEF put_archive, put, Kinds
<1>7. ASSUME NEW p \in Procs, commit_completed(p) PROVE DraftInv'
  BY <1>7 DEF commit_completed, save
<1>8. ASSUME NEW p \in Procs, send_later(p) PROVE DraftInv'
  BY <1>8 DEF send_later
<1>9. ASSUME NEW p \in Procs, cancel_resolve(p) PROVE DraftInv'
  BY <1>9 DEF cancel_resolve
<1>10. ASSUME NEW p \in Procs, probe_completed(p) PROVE DraftInv'
  BY <1>10 DEF probe_completed, exists
<1>11. ASSUME NEW p \in Procs, probe_partial(p) PROVE DraftInv'
  <2>1. UNCHANGED <<events, object>> /\ Others(p) /\ pc[p] = "probe_partial"
    BY <1>11, ProbeStep
  <2> SUFFICES ASSUME NEW c \in Claims, is_completed(events[c]), object[c]["partial"] # NoDoc
               PROVE  \E w \in Workers :
                        /\ req'[w].claim = c
                        /\ \/ pc'[w] \in {"email", "probe_partial"}
                           \/ pc'[w] = "delete" /\ "partial" \in found'[w]
    BY <2>1
  <2>2. PICK w \in Workers :
          /\ req[w].claim = c
          /\ \/ pc[w] \in {"email", "probe_partial"}
             \/ pc[w] = "delete" /\ "partial" \in found[w]
    OBVIOUS
  <2>3. CASE w # p
    BY <2>1, <2>2, <2>3 DEF Others
  <2>4. CASE w = p
    <3>1. pc'[p] = "delete" /\ req'[p] = req[p] /\ "partial" \in found'[p]
      BY <1>11, <2>2, <2>4, ProbeStep DEF exists
    <3> QED
      BY <2>2, <2>4, <3>1
  <2> QED
    BY <2>3, <2>4
<1>12. ASSUME NEW p \in Procs, delete_objects(p) PROVE DraftInv'
  <2>1. UNCHANGED events /\ Others(p) /\ pc[p] = "delete"
    BY <1>12, DeleteStep
  <2> SUFFICES ASSUME NEW c \in Claims, is_completed(events[c]), object'[c]["partial"] # NoDoc
               PROVE  \E w \in Workers :
                        /\ req'[w].claim = c
                        /\ \/ pc'[w] \in {"email", "probe_partial"}
                           \/ pc'[w] = "delete" /\ "partial" \in found'[w]
    BY <2>1
  <2>2. object[c]["partial"] # NoDoc /\ ~ (c = req[p].claim /\ "partial" \in found[p])
    BY <1>12, DeleteStep DEF Kinds
  <2>3. PICK w \in Workers :
          /\ req[w].claim = c
          /\ \/ pc[w] \in {"email", "probe_partial"}
             \/ pc[w] = "delete" /\ "partial" \in found[w]
    BY <2>2
  <2>4. w # p
    BY <2>1, <2>2, <2>3
  <2> QED
    BY <2>1, <2>3, <2>4 DEF Others
<1>13. ASSUME NEW p \in Procs, record_deleted(p) PROVE DraftInv'
  BY <1>13 DEF record_deleted, done, NoReq
<1>14. ASSUME NEW p \in Procs, put_error(p) PROVE DraftInv'
  BY <1>14 DEF put_error, done, NoReq, PutStep, Kinds
<1>15. ASSUME NEW p \in Procs, delete_error(p) PROVE DraftInv'
  BY <1>15 DEF delete_error, erase, done, NoReq, Kinds
<1>16. ASSUME NEW p \in Procs, abandon(p) PROVE DraftInv'
  BY <1>16 DEF abandon, done, NoReq
<1>17. CASE expiry_query
  BY <1>17 DEF expiry_query, Expired, ExpiredPartial
<1>18. ASSUME NEW c \in Claims, expiry_next(c) PROVE DraftInv'
  BY <1>18 DEF expiry_next
<1>19. ASSUME NEW c \in Claims, Age(c) PROVE DraftInv'
  BY <1>19 DEF Age
<1>20. CASE UNCHANGED vars
  BY <1>20 DEF vars
<1> QED
  BY <1>1, <1>2, <1>3, <1>4, <1>5, <1>6, <1>7, <1>8, <1>9, <1>10, <1>11,
     <1>12, <1>13, <1>14, <1>15, <1>16, <1>17, <1>18, <1>19, <1>20
  DEF Next, Waiting, Working, Failure, Expiry

\* Nobody puts a document behind the back of who looks for it and deletes it.
LEMMA ErasedStep ==
  ASSUME Polite, CronAlone, "probe" \notin Faults,
         TypeOK, StepInv, AloneInv, WriterInv, ErasedInv, [Next]_vars
  PROVE  ErasedInv'
<1> USE LifecycleAssumption
    DEF TypeOK, Procs, database, process, goto, log, at, StepInv, AloneInv, WriterInv, Writes,
        ErasedInv, DeletedMeansErased, is_completed, is_deleted
<1>1. ASSUME NEW p \in Workers, Request(p) PROVE ErasedInv'
  <2> PICK c \in Claims :
        \/ \E d \in Docs : \/ GET_partial_claim(p, c, d)
                           \/ POST_partial_claim(p, c, d)
                           \/ POST_completed_claim(p, c, d)
        \/ cancel_claim(p, c)
        \/ \E s \in Statuses : PATCH_v1_claim_status(p, c, s)
        \/ PATCH_v1_claim_fetched(p, c)
        \/ PATCH_v1_claim_resolved(p, c)
        \/ DELETE_v1_claim(p, c)
    BY <1>1 DEF Request
  <2>1. ASSUME NEW d \in Docs, GET_partial_claim(p, c, d) PROVE ErasedInv'
    BY <2>1 DEF GET_partial_claim, begin, Admitted, Serving
  <2>2. ASSUME NEW d \in Docs, POST_partial_claim(p, c, d) PROVE ErasedInv'
    BY <2>2 DEF POST_partial_claim, begin, Admitted, Serving
  <2>3. ASSUME NEW d \in Docs, POST_completed_claim(p, c, d) PROVE ErasedInv'
    BY <2>3 DEF POST_completed_claim, begin, Admitted, Serving
  <2>4. CASE cancel_claim(p, c)
    BY <2>4 DEF cancel_claim, begin, Admitted, Serving
  <2>5. ASSUME NEW s \in Statuses, PATCH_v1_claim_status(p, c, s) PROVE ErasedInv'
    BY <2>5 DEF PATCH_v1_claim_status, swa_request, save, Admitted, Serving
  <2>6. CASE PATCH_v1_claim_fetched(p, c)
    BY <2>6 DEF PATCH_v1_claim_fetched, swa_request, Admitted, Serving
  <2>7. CASE PATCH_v1_claim_resolved(p, c)
    BY <2>7 DEF PATCH_v1_claim_resolved, swa_request, Admitted, Serving
  <2>8. CASE DELETE_v1_claim(p, c)
    BY <2>8 DEF DELETE_v1_claim, begin, Admitted, Serving
  <2> QED
    BY <2>1, <2>2, <2>3, <2>4, <2>5, <2>6, <2>7, <2>8
<1>2. ASSUME NEW p \in Procs, save_partial(p) PROVE ErasedInv'
  BY <1>2 DEF save_partial, save, done, NoReq
<1>3. ASSUME NEW p \in Procs, save_completed(p) PROVE ErasedInv'
  BY <1>3 DEF save_completed
<1>4. ASSUME NEW p \in Procs, put_partial(p) PROVE ErasedInv'
  BY <1>4 DEF put_partial, put, Kinds
<1>5. ASSUME NEW p \in Procs, put_completed(p) PROVE ErasedInv'
  BY <1>5 DEF put_completed, put, Kinds
<1>6. ASSUME NEW p \in Procs, put_archive(p) PROVE ErasedInv'
  BY <1>6 DEF put_archive, put, Kinds
<1>7. ASSUME NEW p \in Procs, commit_completed(p) PROVE ErasedInv'
  BY <1>7 DEF commit_completed, save
<1>8. ASSUME NEW p \in Procs, send_later(p) PROVE ErasedInv'
  BY <1>8 DEF send_later
<1>9. ASSUME NEW p \in Procs, cancel_resolve(p) PROVE ErasedInv'
  BY <1>9 DEF cancel_resolve
<1>10. ASSUME NEW p \in Procs, probe_completed(p) PROVE ErasedInv'
  BY <1>10 DEF probe_completed, exists
<1>11. ASSUME NEW p \in Procs, probe_partial(p) PROVE ErasedInv'
  <2>1. UNCHANGED <<events, object>> /\ Others(p) /\ pc[p] = "probe_partial"
    BY <1>11, ProbeStep
  <2>2. \A q \in Workers : Writes(q)' => Writes(q) /\ req'[q] = req[q]
    BY <1>11, ProbeStep DEF Others
  <2>3. pc'[p] = "delete" /\ req[p].op # "post_completed" =>
          "completed" \in found'[p] \/ object[req[p].claim]["completed"] = NoDoc
    <3>1. req[p].op # "post_completed" =>
            "completed" \in found[p] \/ object[req[p].claim]["completed"] = NoDoc
      BY <2>1
    <3>2. ASSUME pc'[p] = "delete"
          PROVE  found[p] \subseteq found'[p]
      <4>1. PICK seen \in BOOLEAN :
              found'[p] = found[p] \cup (IF seen THEN {"partial"} ELSE {})
        BY <1>11, <3>2, ProbeStep
      <4> QED
        BY <4>1
    <3> QED
      BY <3>1, <3>2
  <2>4. pc'[p] = "delete" => "partial" \in found'[p] \/ object[req[p].claim]["partial"] = NoDoc
    BY <1>11, ProbeStep DEF exists
  <2>5. pc'[p] = "record" => /\ object[req[p].claim]["completed"] = NoDoc
                            /\ object[req[p].claim]["partial"] = NoDoc
    BY <1>11, ProbeStep DEF exists
  <2>6. pc'[p] \in {"delete", "record", "idle"} /\ (pc'[p] # "idle" => req'[p] = req[p])
    BY <1>11, ProbeStep
  <2>7. ASSUME NEW q \in Procs
        PROVE  /\ pc'[q] \in {"probe_partial", "delete"} /\ req'[q].op # "post_completed" =>
                    "completed" \in found'[q] \/ object[req'[q].claim]["completed"] = NoDoc
               /\ pc'[q] = "delete" =>
                    "partial" \in found'[q] \/ object[req'[q].claim]["partial"] = NoDoc
               /\ pc'[q] = "record" =>
                    /\ object[req'[q].claim]["completed"] = NoDoc
                    /\ object[req'[q].claim]["partial"] = NoDoc
    <3>1. CASE q # p
      BY <2>1, <3>1 DEF Others
    <3>2. CASE q = p
      BY <2>3, <2>4, <2>5, <2>6, <3>2
    <3> QED
      BY <3>1, <3>2
  <2> QED
    BY <2>1, <2>2, <2>7
<1>12. ASSUME NEW p \in Procs, delete_objects(p) PROVE ErasedInv'
  <2>1. UNCHANGED events /\ Others(p) /\ pc[p] = "delete"
    BY <1>12, DeleteStep
  <2>2. \A q \in Workers : Writes(q)' => Writes(q) /\ req'[q] = req[q]
    BY <1>12, DeleteStep DEF Others
  <2>3. \A c \in Claims, k \in Kinds : object[c][k] = NoDoc => object'[c][k] = NoDoc
    BY <1>12, DeleteStep
  <2>4. pc'[p] \in {"record", "idle"}
    BY <1>12, DeleteStep
  <2>5. pc'[p] = "record" => /\ req'[p] = req[p] /\ req[p].claim \in Claims
                            /\ object'[req[p].claim]["completed"] = NoDoc
                            /\ object'[req[p].claim]["partial"] = NoDoc
    BY <1>12, DeleteStep DEF Kinds
  <2>6. \A q \in Procs \ {p} : pc[q] # "idle" => req[q].claim \in Claims
    OBVIOUS
  <2>7. DeletedMeansErased'
    BY <2>1, <2>3 DEF Kinds
  <2> QED
    BY <2>1, <2>2, <2>3, <2>4, <2>5, <2>6, <2>7 DEF Others, Kinds
<1>13. ASSUME NEW p \in Procs, record_deleted(p) PROVE ErasedInv'
  BY <1>13 DEF record_deleted, done, NoReq
<1>14. ASSUME NEW p \in Procs, put_error(p) PROVE ErasedInv'
  BY <1>14, SMTT(30) DEF put_error, done, NoReq, PutStep, Kinds
<1>15. ASSUME NEW p \in Procs, delete_error(p) PROVE ErasedInv'
  BY <1>15 DEF delete_error, erase, done, NoReq, Kinds
<1>16. ASSUME NEW p \in Procs, abandon(p) PROVE ErasedInv'
  BY <1>16 DEF abandon, done, NoReq
<1>17. CASE expiry_query
  BY <1>17 DEF expiry_query, Expired, ExpiredPartial
<1>18. ASSUME NEW c \in Claims, expiry_next(c) PROVE ErasedInv'
  BY <1>18 DEF expiry_next
<1>19. ASSUME NEW c \in Claims, Age(c) PROVE ErasedInv'
  BY <1>19 DEF Age
<1>20. CASE UNCHANGED vars
  BY <1>20 DEF vars
<1> QED
  BY <1>1, <1>2, <1>3, <1>4, <1>5, <1>6, <1>7, <1>8, <1>9, <1>10, <1>11,
     <1>12, <1>13, <1>14, <1>15, <1>16, <1>17, <1>18, <1>19, <1>20
  DEF Next, Waiting, Working, Failure, Expiry

-----------------------------------------------------------------------------
\* With no claims there is nothing to violate.
LEMMA InitInvs ==
  Init => StepInv /\ AloneInv /\ WriterInv /\ StatusFollowsEvents /\ CopyInv /\ DraftInv /\ ErasedInv
BY LifecycleAssumption
DEF Init, StepInv, AloneInv, WriterInv, Writes, StatusFollowsEvents, CopyInv, DraftInv, ErasedInv,
    AgencyCopyMatchesArchive, DeletedMeansErased, is_completed, is_deleted, NoReq, Procs, Kinds

\* What the theorems for polite clients rest on.
LEMMA WriterInvariant ==
  ASSUME Polite
  PROVE  Spec => [](TypeOK /\ StepInv /\ WriterInv)
<1>1. TypeOK /\ StepInv /\ WriterInv /\ [Next]_vars => (StepInv /\ WriterInv)'
  BY StepStep, WriterStep
<1> QED
  BY <1>1, InitInvs, TypeCorrect, PTL DEF Spec

\* What the theorems for the job at night rest on.
LEMMA AloneInvariant ==
  ASSUME CronAlone
  PROVE  Spec => [](TypeOK /\ StepInv /\ AloneInv)
<1>1. TypeOK /\ StepInv /\ AloneInv /\ [Next]_vars => (StepInv /\ AloneInv)'
  BY StepStep, AloneStep
<1> QED
  BY <1>1, InitInvs, TypeCorrect, PTL DEF Spec

(* With polite clients the status column always shows the status the       *)
(* agency set last: save() writes back every column of a row read at the   *)
(* start of the request (core/claim_storage.py:82), but no status changes  *)
(* while such a request is under way. Whatever fails, and with the job at  *)
(* work at any time.                                                       *)
THEOREM StatusAlwaysFollowsEvents ==
  ASSUME Polite
  PROVE  Spec => []StatusFollowsEvents
<1>1. TypeOK /\ StepInv /\ WriterInv /\ StatusFollowsEvents /\ [Next]_vars => StatusFollowsEvents'
  BY StatusStep
<1> QED
  BY <1>1, InitInvs, WriterInvariant, PTL DEF Spec

(* With polite clients the agency and the archive hold the same document   *)
(* of every filed claim the agency can still read, although the two are    *)
(* separate puts and failed filings leave either behind (claim.py:417).    *)
(* Whatever fails, and with the job at work at any time.                   *)
THEOREM AgencyCopyIsArchived ==
  ASSUME Polite
  PROVE  Spec => []AgencyCopyMatchesArchive
<1>1. TypeOK /\ StepInv /\ WriterInv /\ CopyInv /\ [Next]_vars => CopyInv'
  BY CopyStep
<1>2. CopyInv => AgencyCopyMatchesArchive
  BY DEF CopyInv
<1> QED
  BY <1>1, <1>2, InitInvs, WriterInvariant, PTL DEF Spec

(* With polite clients, and where only puts fail, no draft of a filed      *)
(* claim is left once its request has ended (views.py:359). A process that *)
(* dies, a probe or a delete that fails leaves it for good.                *)
THEOREM FiledDraftGoes ==
  ASSUME Polite, Faults \cap {"probe", "delete", "crash"} = {}
  PROVE  Spec => []FiledDraftIsErased
<1>1. TypeOK /\ StepInv /\ WriterInv /\ DraftInv /\ [Next]_vars => DraftInv'
  BY DraftStep
<1>2. DraftInv => FiledDraftIsErased
  BY DEF DraftInv, FiledDraftIsErased, Serving
<1> QED
  BY <1>1, <1>2, InitInvs, WriterInvariant, PTL DEF Spec

(* With polite clients, the job alone at night and probes that tell the    *)
(* truth, what is recorded as deleted is gone from the agency's bucket     *)
(* (core/claim_storage.py:107), even if puts, deletions and processes fail.*)
THEOREM DeletedIsErased ==
  ASSUME Polite, CronAlone, "probe" \notin Faults
  PROVE  Spec => []DeletedMeansErased
<1>1. TypeOK /\ StepInv /\ AloneInv /\ WriterInv /\ ErasedInv /\ [Next]_vars => ErasedInv'
  BY ErasedStep
<1>2. ErasedInv => DeletedMeansErased
  BY DEF ErasedInv
<1> QED
  BY <1>1, <1>2, InitInvs, WriterInvariant, AloneInvariant, PTL DEF Spec
=============================================================================

---------------------------- MODULE ClaimEvents ----------------------------
(***************************************************************************)
(* What the program reads off the events of a claim.  A claim has no state *)
(* column: every question about its progress is a query on its rows in the *)
(* events table (api/models/claim.py).  Here `ev' is the set of categories *)
(* of a claim's committed events; how often a category occurs matters only *)
(* to the queue's listing, which is not the subject of these predicates.   *)
(***************************************************************************)

Category == {"SUBMITTED", "STORED", "COMPLETED", "CONFIRMATION_EMAIL",
             "FETCHED", "RESOLVED", "DELETED", "STATUS_CHANGED",
             "INITIATED_WITH_SWA_XID"}

is_completed(ev) == "COMPLETED" \in ev
is_resolved(ev)  == "RESOLVED" \in ev
is_deleted(ev)   == "DELETED" \in ev
is_fetched(ev)   == "FETCHED" \in ev

ClaimantStatus == {"in_process", "cancelled", "processing", "active",
                   "resolved", "deleted", "unknown"}

(* Variant: a claim its agency holds is active even once it is resolved.   *)
status_for_claimant_active(ev) ==
  IF ~is_completed(ev) /\ ~is_deleted(ev) /\ ~is_resolved(ev)
    THEN "in_process"
  ELSE IF {"COMPLETED", "DELETED", "RESOLVED"} \subseteq ev /\ ~is_fetched(ev)
    THEN "cancelled"
  ELSE IF is_completed(ev)
    THEN IF is_fetched(ev) THEN "active" ELSE "processing"
  ELSE IF is_fetched(ev) /\ is_resolved(ev)
    THEN "resolved"
  ELSE "deleted"

(* The status shown to the claimant: the first test that succeeds decides. *)
status_for_claimant(ev) ==
  IF ~is_completed(ev) /\ ~is_deleted(ev) /\ ~is_resolved(ev)
    THEN "in_process"
  ELSE IF {"COMPLETED", "DELETED", "RESOLVED"} \subseteq ev /\ ~is_fetched(ev)
    THEN "cancelled"
  ELSE IF is_completed(ev) /\ ~is_fetched(ev)
    THEN "processing"
  ELSE IF is_completed(ev) /\ is_fetched(ev) /\ ~is_resolved(ev)
    THEN "active"
  ELSE IF is_fetched(ev) /\ is_resolved(ev)
    THEN "resolved"
  ELSE IF is_deleted(ev)
    THEN "deleted"
  ELSE "unknown"

(* SWA.claim_queue: filed, and neither taken, closed nor erased.           *)
InQueue(ev) ==
  /\ is_completed(ev)
  /\ ev \cap {"FETCHED", "RESOLVED", "DELETED"} = {}

(* Variant: filed claims are not left out.                                 *)
ExpiredPartial_filed_too(ev, overdue) ==
  /\ overdue
  /\ "STORED" \in ev
  /\ ev \cap {"DELETED", "INITIATED_WITH_SWA_XID"} = {}

(* ExpiredPartialClaimManager.get_queryset; `overdue' says that updated_at *)
(* lies more than DELETE_PARTIAL_CLAIM_AFTER_DAYS in the past.             *)
ExpiredPartial(ev, overdue) ==
  /\ overdue
  /\ "STORED" \in ev
  /\ ev \cap {"COMPLETED", "DELETED", "INITIATED_WITH_SWA_XID"} = {}
=============================================================================

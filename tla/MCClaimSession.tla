--------------------------- MODULE MCClaimSession ---------------------------
(* ClaimSession with small sets of sessions, workers and drafts.           *)
EXTENDS ClaimSession
=============================================================================

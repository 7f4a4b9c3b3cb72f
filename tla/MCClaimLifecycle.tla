-------------------------- MODULE MCClaimLifecycle --------------------------
(* ClaimLifecycle on small sets of workers and claims.                     *)
EXTENDS ClaimLifecycle


(* Every operation but those that erase a filed claim without closing it.  *)
KeepingOps == AllOps \ {"expire", "swa_delete"}
=============================================================================

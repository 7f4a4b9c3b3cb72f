---------------------------- MODULE MCSessionExpiry ----------------------------
(* Two tabs: one takes the cookie that was meant for the other.                *)
EXTENDS SessionExpiry
=============================================================================

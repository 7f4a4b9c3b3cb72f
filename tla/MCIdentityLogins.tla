-------------------------- MODULE MCIdentityLogins --------------------------
(* Two claimants, two browsers and two requests at once. The links: of an  *)
(* agency of identities, whose swa_xid comes from the cookie or is missing; *)
(* of another agency, with a swa_xid; and the one that steps up.            *)
EXTENDS IdentityLogins, TLC

CONSTANTS AR, NJ, x1, x2

Link(ial, swa, swa_xid, skip) == [ial |-> ial, swa |-> swa, swa_xid |-> swa_xid, skip |-> skip]

MCLinks == {Link(1, AR, None, FALSE), Link(1, NJ, x1, FALSE), Link(2, AR, None, FALSE)}

Symmetry == Permutations(Claimants) \cup Permutations(Browsers) \cup Permutations(Workers)
=============================================================================

--------------------------- MODULE FilingPromise ---------------------------
(***************************************************************************)
(* What the program promises to someone who files a claim, whatever else   *)
(* goes on: a claim counts as filed only when the archive holds a document *)
(* for it, the archive never gives a claim's document up, nothing that was *)
(* filed becomes unfiled, and a receipt is mailed only for a filed claim.  *)
(* ClaimLifecycle implements this across its database, S3 and its broker.  *)
(***************************************************************************)
CONSTANTS Claims, Docs, NoDoc

VARIABLES
  filed,      \* claims on record as filed
  receipt,    \* the document the archive holds for a claim
  notified    \* claims whose receipt was mailed

vars == <<filed, receipt, notified>>

Init ==
  /\ filed = {}
  /\ receipt = [c \in Claims |-> NoDoc]
  /\ notified = {}

(* A document is archived; a later one may replace it.                     *)
Keep(c, d) ==
  /\ receipt' = [receipt EXCEPT ![c] = d]
  /\ UNCHANGED <<filed, notified>>

File(c) ==
  /\ receipt[c] \in Docs
  /\ filed' = filed \cup {c}
  /\ UNCHANGED <<receipt, notified>>

Notify(c) ==
  /\ c \in filed
  /\ notified' = notified \cup {c}
  /\ UNCHANGED <<filed, receipt>>

Next ==
  \E c \in Claims : File(c) \/ Notify(c) \/ \E d \in Docs : Keep(c, d)

Spec == Init /\ [][Next]_vars
=============================================================================

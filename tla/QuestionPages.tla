--------------------------- MODULE QuestionPages ----------------------------
(***************************************************************************)
(* The question pages of the application together: a claimant opens one of *)
(* the pages of FormAnswers, the page other-pay, the page occupation or    *)
(* the birthdate on the page identity, and works on it.  The others are as *)
(* they were.                                                              *)
(***************************************************************************)
EXTENDS FormAnswers, OtherPay, OccupationPicker, DateField

VARIABLE open   \* which page she is on: "answers", "other-pay", "occupation" or "date"

answersVars == <<page, answers>>
pagesVars == <<open, page, answers, otherPayVars, occupationVars, dateVars>>

PagesInit ==
  /\ Init /\ OtherPayInit /\ OccupationInit /\ DateInit
  /\ open \in {"answers", "other-pay", "occupation", "date"}
  /\ open # "answers" =>
       /\ page = CHOOSE p \in Pages : TRUE
       /\ answers = CHOOSE v \in InitialAnswers(page) : Settled(page, v) = v

OnAnswers    == open = "answers" /\ Next
                /\ UNCHANGED <<open, otherPayVars, occupationVars, dateVars>>
OnOtherPay   == open = "other-pay" /\ OtherPayNext
                /\ UNCHANGED <<open, answersVars, occupationVars, dateVars>>
OnOccupation == open = "occupation" /\ OccupationNext
                /\ UNCHANGED <<open, answersVars, otherPayVars, dateVars>>
OnDate       == open = "date" /\ DateNext
                /\ UNCHANGED <<open, answersVars, otherPayVars, occupationVars>>

PagesNext == OnAnswers \/ OnOtherPay \/ OnOccupation \/ OnDate

PagesSpec == PagesInit /\ [][PagesNext]_pagesVars
=============================================================================

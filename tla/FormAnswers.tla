---------------------------- MODULE FormAnswers -----------------------------
(***************************************************************************)
(* A claimant answers one question page of the browser application.  Each  *)
(* behaviour is about one page, chosen at the start: pages do not read     *)
(* each other's answers.  A step is one input event of one control with    *)
(* everything it causes, that is its onChange handler and the effects      *)
(* (useClearFields, useEffect) that run until the values stay; or a save   *)
(* and a return to the page, which sends the values through JSON and       *)
(* mergeClaimFormValues.                                                   *)
(*                                                                         *)
(* The properties compare what the page asks for (the yup schema), what it *)
(* shows (its controls, the review page) and what the server accepts (the  *)
(* JSON schema and the validator).                                         *)
(***************************************************************************)
EXTENDS AnswerTypes, ReviewPages

CONSTANT Pages   \* the pages of a run

AllPages == {"personal", "contact", "demographic", "identity", "employer_contact",
             "employer_separation", "self_employment", "union", "education",
             "disability", "availability", "payment"}

ASSUME PagesAssumption == Pages \subseteq AllPages

VARIABLES
  page,      \* the page she is on
  answers    \* the values of its fields in the form

vars == <<page, answers>>

(* The page's own operators. *)

InitialAnswers(p) ==
  CASE p = "personal" -> PersonalInit
    [] p = "contact" -> ContactInit
    [] p = "demographic" -> DemographicInit
    [] p = "identity" -> IdentityInit
    [] p = "employer_contact" -> EmployerContactInit
    [] p = "employer_separation" -> EmployerSeparationInit
    [] p = "self_employment" -> SelfEmploymentInit
    [] p = "union" -> UnionInit
    [] p = "education" -> EducationInit
    [] p = "disability" -> DisabilityInit
    [] p = "availability" -> AvailabilityInit
    [] p = "payment" -> PaymentInit

Offers(p, v) ==
  CASE p = "personal" -> PersonalOffers(v)
    [] p = "contact" -> ContactOffers(v)
    [] p = "demographic" -> DemographicOffers(v)
    [] p = "identity" -> IdentityOffers(v)
    [] p = "employer_contact" -> EmployerContactOffers(v)
    [] p = "employer_separation" -> EmployerSeparationOffers(v)
    [] p = "self_employment" -> SelfEmploymentOffers(v)
    [] p = "union" -> UnionOffers(v)
    [] p = "education" -> EducationOffers(v)
    [] p = "disability" -> DisabilityOffers(v)
    [] p = "availability" -> AvailabilityOffers(v)
    [] p = "payment" -> PaymentOffers(v)

Settled(p, v) ==
  CASE p = "personal" -> PersonalSettled(v)
    [] p = "contact" -> ContactSettled(v)
    [] p = "demographic" -> DemographicSettled(v)
    [] p = "identity" -> IdentitySettled(v)
    [] p = "employer_contact" -> EmployerContactSettled(v)
    [] p = "employer_separation" -> EmployerSeparationSettled(v)
    [] p = "self_employment" -> SelfEmploymentSettled(v)
    [] p = "union" -> UnionSettled(v)
    [] p = "education" -> EducationSettled(v)
    [] p = "disability" -> DisabilitySettled(v)
    [] p = "availability" -> AvailabilitySettled(v)
    [] p = "payment" -> PaymentSettled(v)

Errors(p, v) ==
  CASE p = "personal" -> PersonalErrors(v)
    [] p = "contact" -> ContactErrors(v)
    [] p = "demographic" -> DemographicErrors(v)
    [] p = "identity" -> IdentityErrors(v)
    [] p = "employer_contact" -> EmployerContactErrors(v)
    [] p = "employer_separation" -> EmployerSeparationErrors(v)
    [] p = "self_employment" -> SelfEmploymentErrors(v)
    [] p = "union" -> UnionErrors(v)
    [] p = "education" -> EducationErrors(v)
    [] p = "disability" -> DisabilityErrors(v)
    [] p = "availability" -> AvailabilityErrors(v)
    [] p = "payment" -> PaymentErrors(v)

Restored(p, v) ==
  CASE p = "personal" -> PersonalRestored(v)
    [] p = "employer_contact" -> EmployerContactRestored(v)
    [] OTHER -> v

Rejects(p, v) ==
  CASE p = "personal" -> PersonalRejects(v)
    [] p = "contact" -> ContactRejects(v)
    [] p = "demographic" -> DemographicRejects(v)
    [] p = "identity" -> IdentityRejects(v)
    [] p = "employer_contact" -> EmployerContactRejects(v)
    [] p = "employer_separation" -> EmployerSeparationRejects(v)
    [] p = "self_employment" -> SelfEmploymentRejects(v)
    [] p = "union" -> UnionRejects(v)
    [] p = "education" -> EducationRejects(v)
    [] p = "disability" -> DisabilityRejects(v)
    [] p = "availability" -> AvailabilityRejects(v)
    [] p = "payment" -> PaymentRejects(v)

Reviewed(p, v) ==
  CASE p = "personal" -> PersonalReviewed(v)
    [] p = "contact" -> ContactReviewed(v)
    [] p = "demographic" -> DemographicReviewed(v)
    [] p = "identity" -> IdentityReviewed(v)
    [] p = "employer_contact" -> EmployerContactReviewed(v)
    [] p = "employer_separation" -> EmployerSeparationReviewed(v)
    [] p = "self_employment" -> SelfEmploymentReviewed(v)
    [] p = "union" -> UnionReviewed(v)
    [] p = "education" -> EducationReviewed(v)
    [] p = "disability" -> DisabilityReviewed(v)
    [] p = "availability" -> AvailabilityReviewed(v)
    [] p = "payment" -> PaymentReviewed(v)

\* What the handler of the control itself does to other fields.
Answered(p, v, f) ==
  IF p = "employer_separation" THEN EmployerSeparationAnswered(v, f) ELSE v

Shown(p, v) == {f \in DOMAIN v : Offers(p, v)[f] # {}}

\* Formik calls the page valid when it submits it; useClaimProgress when it
\* looks for the page to continue at.
Accepts(p, v) == Errors(p, Prepared(v)) = {}
Progresses(p, v) == Errors(p, v) = {}

Init == /\ page \in Pages
        /\ answers \in {Settled(page, v) : v \in InitialAnswers(page)}

\* One input event: a control of the page gets another value.
Answer(f) ==
  \E x \in Offers(page, answers)[f] \ {answers[f]} :
    /\ answers' = Settled(page, Answered(page, [answers EXCEPT ![f] = x], f))
    /\ UNCHANGED page

\* She saves, leaves the application and comes back.
Return ==
  /\ answers' = Settled(page, Restored(page, answers))
  /\ UNCHANGED page

Next == (\E f \in DOMAIN answers : Answer(f)) \/ Return

Spec == Init /\ [][Next]_vars
---------------------------------------------------------------------------

FieldTypes(p) ==
  CASE p = "personal" -> PersonalTypes
    [] p = "contact" -> ContactTypes
    [] p = "demographic" -> DemographicTypes
    [] p = "identity" -> IdentityTypes
    [] p = "employer_contact" -> EmployerContactTypes
    [] p = "employer_separation" -> EmployerSeparationTypes
    [] p = "self_employment" -> SelfEmploymentTypes
    [] p = "union" -> UnionTypes
    [] p = "education" -> EducationTypes
    [] p = "disability" -> DisabilityTypes
    [] p = "availability" -> AvailabilityTypes
    [] p = "payment" -> PaymentTypes

(* The fields of a page never change and have values they can have, and    *)
(* the effects of a page leave its values alone once they have run: no two *)
(* of them undo each other's work (hooks/useClearFields.ts fires after     *)
(* every render while its condition holds).                                *)
TypeOK ==
  /\ page \in Pages
  /\ OfTypes(answers, FieldTypes(page))
  /\ Settled(page, answers) = answers

(* Cases in which the page accepts what the server will not. *)

\* A claimant who is not authorized to work has no authorization_type, which
\* the server requires of everybody.
Unauthorized == page = "identity" /\ answers.authorized_to_work = "no"

\* A work site begun and then hidden by "same address" is still sent.
HalfAWorkSite == /\ page = "employer_contact"
                 /\ answers.LOCAL_same_address = "yes"
                 /\ answers.work_site_address \in {"empty", "part"}

\* Only the server compares the two dates of work.
LeftBeforeStarting == /\ page = "employer_separation"
                      /\ answers.first_work_date = "day2"
                      /\ answers.last_work_date = "day1"

\* The yup schema has no maximum for the language.
LongLanguage == page = "contact" /\ answers.preferred_language = "long"

(* Answers that a page accepts are accepted by the server, so that a claim *)
(* can be filed once every page let the claimant pass; the exceptions are  *)
(* the four cases above, in which she passes every page and is refused at  *)
(* the very end (claim_validator.py:36) without a field to correct.        *)
AcceptedIsFilable ==
  Accepts(page, answers) =>
    (Rejects(page, answers) # {} <=>
       \/ Unauthorized \/ HalfAWorkSite \/ LeftBeforeStarting \/ LongLanguage)

(* Cases in which nothing on the page tells what is wrong. *)

\* Self-employment hides the reason, and without a reason the last day of
\* work is not asked for; it stays required.
HiddenLastDay ==
  /\ page = "employer_separation"
  /\ answers.first_work_date \in Days
  /\ \/ /\ answers.self_employed = "yes"
        /\ answers.last_work_date \notin Days
     \/ /\ answers.separation_reason = "still_employed"
        /\ answers.last_work_date = "bad"

\* The array of phones has the wrong length, an error of no control.
WrongNumberOfPhones ==
  /\ page = "employer_contact"
  /\ \/ answers.LOCAL_same_phone = "yes" /\ answers.second_phone # none
     \/ answers.LOCAL_same_phone = "no" /\ answers.second_phone = none

(* When Next is refused, an error is shown at a control of the page, so    *)
(* that the claimant can find out what to change; otherwise the page is a  *)
(* dead end.  The exceptions are the cases above.                          *)
RefusalIsExplained ==
  LET errors == Errors(page, Prepared(answers)) IN
  errors # {} /\ errors \cap Shown(page, answers) = {} =>
    HiddenLastDay \/ WrongNumberOfPhones

(* An answer whose question is no longer asked is not sent to the agency,  *)
(* but for the few that the page keeps although it hides them: the         *)
(* language, the second address and phone of an employer, the last day of  *)
(* work (the clean-up of useClearFields does not name them) and what the   *)
(* identity provider gave.                                                 *)
HiddenAnswersAreForgotten ==
  \A f \in DOMAIN answers \ Shown(page, answers) :
    \/ answers[f] \in {none, blank}
    \/ f \in {"email", "preferred_language", "work_site_address", "second_phone",
             "last_work_date"}
    \/ f = "mailing_address" /\ answers.LOCAL_mailing_address_same = "yes"

\* Changing the reason drops its option, ticking "same" copies the address,
\* and a mailing address that equals the residence is emptied.
Entangled == {"separation_option", "mailing_address"}

(* What the claimant enters stays, and it changes no other answer that is  *)
(* asked for before and after; the exceptions are the entangled ones.  The *)
(* effects of a page write fields of their own accord, one typo in a field *)
(* name away from wiping an answer that is on the screen.                  *)
AnAnswerStays ==
  \A f \in Shown(page, answers) \ Entangled :
    \A x \in Offers(page, answers)[f] :
      LET w == Settled(page, Answered(page, [answers EXCEPT ![f] = x], f)) IN
      /\ w[f] = IF x = "mixed" THEN "opt_out" ELSE x
      /\ \A g \in (Shown(page, answers) \cap Shown(page, w)) \ (Entangled \cup {f}) :
           w[g] = answers[g]

\* What mergeClaimFormValues answers in her place: an unanswered question, a
\* "no" whose address she did not begin, a tick over an empty address.
AnsweredForHer(f) ==
  \/ f \in {"LOCAL_claimant_has_alternate_names", "LOCAL_same_address"} /\ answers[f] = none
  \/ f = "LOCAL_same_address" /\ answers[f] = "no" /\ answers.work_site_address = none
  \/ f = "LOCAL_mailing_address_same" /\ answers.residence_address = "empty"

(* Save and return: the page shows the answers it showed, and accepts them *)
(* if it did, but for the questions that are answered for her.             *)
ReturnKeepsAnswers ==
  LET w == Settled(page, Restored(page, answers)) IN
  /\ \A f \in Shown(page, answers) \cap Shown(page, w) :
       w[f] = answers[f] \/ AnsweredForHer(f)
  /\ Accepts(page, answers) => Accepts(page, w)

\* A saved draft can have account numbers that are empty.
EmptyNumbers == /\ page = "payment"
                /\ answers.payment_method = "direct_deposit"
                /\ blank \in {answers.routing_number, answers.account_number}

(* The page at which the application proposes to continue is chosen by the *)
(* same schemas but not by Formik: a page counts as done there exactly if  *)
(* Next would have let her pass, except for a draft saved with empty       *)
(* account numbers (useClaimProgress.ts:42).                               *)
ProgressAgreesWithNext ==
  (Progresses(page, answers) <=> Accepts(page, answers)) \/ EmptyNumbers

\* What goes to the agency, but for the keys the cleaner strips.
Local == {"LOCAL_claimant_has_alternate_names", "LOCAL_mailing_address_same",
          "LOCAL_more_phones", "LOCAL_same_address", "LOCAL_same_phone",
          "LOCAL_re_enter_routing_number", "LOCAL_re_enter_account_number"}
Filed == {f \in DOMAIN answers : answers[f] \notin {none, blank, "empty"}} \ Local

(* The review page shows every answer that will be filed, so that what the *)
(* claimant affirms is what the agency gets; it leaves out self_employed,  *)
(* the address of the identity provider, a comment without a reason and a  *)
(* mailing address that is the residence.                                  *)
FiledIsReviewed ==
  Accepts(page, answers) =>
    \A f \in Filed \ Reviewed(page, answers) :
      \/ f \in {"self_employed", "email"}
      \/ f = "mailing_address" /\ answers.mailing_address = answers.residence_address
=============================================================================

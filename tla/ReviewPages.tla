---------------------------- MODULE ReviewPages -----------------------------
(***************************************************************************)
(* The sections of the review page: which answers the claimant is shown    *)
(* before she affirms that they are true (pages/Questions/Review).         *)
(***************************************************************************)
EXTENDS FormValues

\* An answer is rendered when it is neither undefined nor empty.
Rendered(v, fields) == {f \in fields : v[f] \notin {none, blank, "empty"}}

PersonalReviewed(v) ==
  Rendered(v, {"claimant_name", "LOCAL_claimant_has_alternate_names",
               "alternate_names", "residence_address", "LOCAL_mailing_address_same"})
  \cup (IF v.LOCAL_mailing_address_same = "no"
        THEN Rendered(v, {"mailing_address"}) ELSE {})

ContactReviewed(v) ==
  Rendered(v, {"phone", "LOCAL_more_phones", "second_phone",
               "interpreter_required", "preferred_language"})

DemographicReviewed(v) == Rendered(v, {"sex", "ethnicity", "race"})

IdentityReviewed(v) == Rendered(v, DOMAIN v)

\* Not self_employed; the option and the comment only below a reason.
EmployerContactReviewed(v) == Rendered(v, DOMAIN v)
EmployerSeparationReviewed(v) ==
  Rendered(v, {"separation_reason", "first_work_date", "last_work_date"})
  \cup (IF v.separation_reason # none
        THEN Rendered(v, {"separation_option", "separation_comment"}) ELSE {})

SelfEmploymentReviewed(v) == Rendered(v, DOMAIN v)

UnionReviewed(v) == Rendered(v, DOMAIN v)

EducationReviewed(v) == Rendered(v, DOMAIN v)

DisabilityReviewed(v) == Rendered(v, DOMAIN v)

AvailabilityReviewed(v) == Rendered(v, DOMAIN v)

(* Variant: the type of the account is not shown.                          *)
PaymentReviewed_partly(v) ==
  Rendered(v, {"federal_income_tax_withheld", "payment_method",
               "routing_number", "account_number"})

PaymentReviewed(v) ==
  Rendered(v, {"federal_income_tax_withheld", "payment_method", "account_type",
               "routing_number", "account_number"})
=============================================================================

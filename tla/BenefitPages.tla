---------------------------- MODULE BenefitPages ----------------------------
(***************************************************************************)
(* The question pages education, disability, availability and payment.     *)
(* The operators of a page are those of PersonPages.                       *)
(***************************************************************************)
EXTENDS FormValues, Naturals

(* education-vocational-rehab *)

EducationInit ==
  {[attending_college_or_job_training |-> none, type_of_college_or_job_training |-> none,
    education_level |-> none, registered_with_vocational_rehab |-> none]}

EducationOffers(v) ==
  [attending_college_or_job_training |-> Chosen,
   type_of_college_or_job_training |->
     When(v.attending_college_or_job_training = "yes", {"ok"}),
   education_level |-> Typed,
   registered_with_vocational_rehab |-> Chosen]

(* Variant: the clean-up names another field of the page.                  *)
EducationSettled_wrong_field(v) ==
  Cleared(v, v.attending_college_or_job_training # "yes", {"education_level"}, none)

EducationSettled(v) ==
  Cleared(v, v.attending_college_or_job_training # "yes",
          {"type_of_college_or_job_training"}, none)

EducationErrors(v) ==
  Failing([attending_college_or_job_training |->
             NoValue(v.attending_college_or_job_training),
           type_of_college_or_job_training |->
             /\ v.attending_college_or_job_training = "yes"
             /\ NoString(v.type_of_college_or_job_training),
           education_level |-> v.education_level # "ok",
           registered_with_vocational_rehab |->
             NoValue(v.registered_with_vocational_rehab)])

EducationRejects(v) ==
  Failing([f \in {"attending_college_or_job_training",
                  "registered_with_vocational_rehab"} |-> Absent(v[f])])
  \cup
  Failing([type_of_college_or_job_training |->
             /\ v.attending_college_or_job_training = "yes"
             /\ Absent(v.type_of_college_or_job_training),
           education_level |-> v.education_level # "ok"])

(* disability-status: "future" is a day after today *)

Past == [day1 |-> 1, day2 |-> 2, future |-> 3]
DisabilityDate == DOMAIN Past \cup {none, "bad"}

DisabilityInit ==
  {[has_collected_disability |-> none, disabled_immediately_before |-> none,
    type_of_disability |-> none, date_disability_began |-> none,
    recovery_date |-> none, contacted_last_employer_after_recovery |-> none]}

DisabilityOffers(v) ==
  LET collected == v.has_collected_disability = "yes" IN
  [has_collected_disability |-> Chosen,
   disabled_immediately_before |-> When(collected, Chosen),
   type_of_disability |-> When(collected, Typed),
   date_disability_began |-> When(collected, DisabilityDate),
   recovery_date |-> When(collected, DisabilityDate),
   contacted_last_employer_after_recovery |->
     When(collected /\ v.recovery_date # none, Chosen)]

DisabilitySettled(v) ==
  LET w == Cleared(v, v.recovery_date = none,
                   {"contacted_last_employer_after_recovery"}, none)
  IN Cleared(w, w.has_collected_disability = "no",
             DOMAIN w \ {"has_collected_disability"}, none)

DisabilityErrors(v) ==
  LET collected == v.has_collected_disability = "yes"
      began     == v.date_disability_began
      recovered == v.recovery_date
  IN Failing([has_collected_disability |-> NoValue(v.has_collected_disability),
              disabled_immediately_before |->
                collected /\ NoValue(v.disabled_immediately_before),
              date_disability_began |-> \/ WrongDate(began) \/ began = "future"
                                        \/ collected /\ began = none,
              recovery_date |->
                \/ WrongDate(recovered) \/ recovered = "future"
                \/ /\ began \in DOMAIN Past /\ recovered \in DOMAIN Past
                   /\ Past[recovered] < Past[began],
              type_of_disability |-> \/ v.type_of_disability = blank
                                     \/ collected /\ v.type_of_disability = none,
              contacted_last_employer_after_recovery |->
                /\ recovered # none
                /\ NoValue(v.contacted_last_employer_after_recovery)])

DisabilityRejects(v) ==
  LET asked == v.has_collected_disability # "no" IN
  Failing([has_collected_disability |-> Absent(v.has_collected_disability),
           disabled_immediately_before |->
             asked /\ Absent(v.disabled_immediately_before),
           type_of_disability |-> asked /\ v.type_of_disability # "ok",
           date_disability_began |-> asked /\ NoDate(v.date_disability_began),
           recovery_date |-> asked /\ date(v.recovery_date),
           contacted_last_employer_after_recovery |->
             /\ asked /\ ~ Absent(v.recovery_date)
             /\ Absent(v.contacted_last_employer_after_recovery)])

(* availability: the answer that hides each reason and clears it *)

AvailabilityReason ==
  [can_begin_work_immediately |-> "cannot_begin_work_immediately_reason",
   can_work_full_time |-> "cannot_work_full_time_reason",
   is_prevented_from_accepting_full_time_work |->
     "is_prevented_from_accepting_full_time_work_reason"]
AvailabilityQuestions == DOMAIN AvailabilityReason

\* The answer to a question that calls for its reason.
AsksReason(q) ==
  IF q = "is_prevented_from_accepting_full_time_work" THEN "yes" ELSE "no"

AvailabilityFields ==
  AvailabilityQuestions \cup {AvailabilityReason[q] : q \in AvailabilityQuestions}

AvailabilityInit == {[f \in AvailabilityFields |-> none]}

AvailabilityOffers(v) ==
  [f \in AvailabilityFields |->
     IF f \in AvailabilityQuestions THEN Chosen
     ELSE When(\E q \in AvailabilityQuestions :
                 f = AvailabilityReason[q] /\ v[q] = AsksReason(q), Typed)]

\* The third reason is also cleared while its question has no answer.
AvailabilitySettled(v) ==
  LET cleared(q) == IF q = "is_prevented_from_accepting_full_time_work"
                    THEN v[q] # "yes" ELSE v[q] = "yes"
  IN Cleared(v, TRUE, {AvailabilityReason[q] : q \in {p \in AvailabilityQuestions : cleared(p)}},
             none)

AvailabilityErrors(v) ==
  {q \in AvailabilityQuestions : NoValue(v[q])} \cup
  {AvailabilityReason[q] : q \in {p \in AvailabilityQuestions :
                                    /\ v[p] = AsksReason(p)
                                    /\ NoString(v[AvailabilityReason[p]])}}

AvailabilityRejects(v) ==
  {q \in AvailabilityQuestions : Absent(v[q])} \cup
  {AvailabilityReason[q] : q \in {p \in AvailabilityQuestions :
                                    /\ v[p] \in {none, AsksReason(p)}
                                    /\ Absent(v[AvailabilityReason[p]])}}

(* payment: two different numbers may be typed *)

AccountFields == {"account_type", "routing_number", "LOCAL_re_enter_routing_number",
                  "account_number", "LOCAL_re_enter_account_number"}
Numbers == {blank, "number1", "number2"}

PaymentInit ==
  {[f \in AccountFields \cup {"federal_income_tax_withheld", "payment_method"} |-> none]}

PaymentOffers(v) ==
  LET deposit == v.payment_method = "direct_deposit" IN
  [f \in DOMAIN v |->
     CASE f = "federal_income_tax_withheld" -> Chosen
       [] f = "payment_method" -> {"debit", "direct_deposit"}
       [] f = "account_type"   -> When(deposit, {"ok"})
       [] OTHER                -> When(deposit, Numbers)]

PaymentSettled(v) == Cleared(v, v.payment_method = "debit", AccountFields, none)

\* mixed().required() lets "" pass; oneOf compares with the other field.
PaymentErrors(v) ==
  LET deposit == v.payment_method = "direct_deposit" IN
  {f \in {"federal_income_tax_withheld", "payment_method"} : NoValue(v[f])} \cup
  {f \in AccountFields : deposit /\ NoValue(v[f])} \cup
  Failing([LOCAL_re_enter_routing_number |->
             deposit /\ v.LOCAL_re_enter_routing_number # v.routing_number,
           LOCAL_re_enter_account_number |->
             deposit /\ v.LOCAL_re_enter_account_number # v.account_number])

PaymentRejects(v) ==
  Failing([f \in {"account_type", "routing_number", "account_number"} |->
             v.payment_method # "debit" /\ Absent(v[f])]
          ) \cup Failing([payment_method |-> Absent(v.payment_method)])
=============================================================================

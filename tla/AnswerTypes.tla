---------------------------- MODULE AnswerTypes -----------------------------
(***************************************************************************)
(* The values that each field of a question page can have: those it starts *)
(* with, those its control offers and those the effects write.             *)
(***************************************************************************)
EXTENDS PersonPages, WorkPages, BenefitPages

Answer3 == Chosen \cup {none}

PersonalTypes ==
  [claimant_name |-> NameValues,
   LOCAL_claimant_has_alternate_names |-> Answer3,
   alternate_names |-> (NameValues \ {"null"}) \cup {none},
   residence_address |-> AddressValues,
   LOCAL_mailing_address_same |-> Chosen,
   mailing_address |-> AddressValues]

ContactTypes ==
  [email |-> {"ok"},
   phone |-> PhoneValues,
   LOCAL_more_phones |-> Answer3,
   second_phone |-> PhoneValues \cup {none},
   interpreter_required |-> Answer3,
   preferred_language |-> Typed \cup {"long"}]

DemographicTypes ==
  [sex |-> {none, "ok"},
   ethnicity |-> {none, "ok"},
   race |-> {"empty", "one", "several", "opt_out"}]

IdentityTypes ==
  [ssn |-> {blank, "dashed", "plain", "bad"},
   birthdate |-> {blank, "bad", "future", "ok"},
   license |-> Typed,
   issuer |-> Text,
   authorized_to_work |-> Answer3,
   not_authorized_to_work_explanation |-> Text,
   authorization_type |-> AuthorizationType \cup {none, blank},
   alien_registration_number |-> {none, blank, "dashed", "plain", "bad"}]

EmployerContactTypes ==
  [name |-> Typed \cup {"long"},
   address |-> AddressValues \ {"other"},
   LOCAL_same_address |-> Answer3,
   work_site_address |-> (AddressValues \ {"other"}) \cup {none},
   phone |-> PhoneValues,
   LOCAL_same_phone |-> Answer3,
   second_phone |-> PhoneValues \cup {none},
   fein |-> {blank, "bad", "plain"}]

EmployerSeparationTypes ==
  [self_employed |-> Answer3,
   separation_reason |-> Reasons \cup {none},
   separation_option |-> {none, "ok"},
   separation_comment |-> Text \cup {"long"},
   first_work_date |-> PickedDate \cup {blank},
   last_work_date |-> PickedDate]

SelfEmploymentTypes ==
  [is_self_employed |-> Answer3,
   ownership_in_business |-> Answer3,
   name_of_business |-> Text,
   is_corporate_officer |-> Answer3,
   name_of_corporation |-> Text,
   related_to_owner |-> Answer3,
   corporation_or_partnership |-> Answer3]

UnionTypes ==
  [is_union_member |-> Answer3,
   union_name |-> Text \cup {"long"},
   union_local_number |-> Text \cup {"long"},
   required_to_seek_work_through_hiring_hall |-> Answer3]

EducationTypes ==
  [attending_college_or_job_training |-> Answer3,
   type_of_college_or_job_training |-> {none, "ok"},
   education_level |-> Text,
   registered_with_vocational_rehab |-> Answer3]

DisabilityTypes ==
  [has_collected_disability |-> Answer3,
   disabled_immediately_before |-> Answer3,
   type_of_disability |-> Text,
   date_disability_began |-> DisabilityDate,
   recovery_date |-> DisabilityDate,
   contacted_last_employer_after_recovery |-> Answer3]

AvailabilityTypes ==
  [f \in AvailabilityFields |-> IF f \in AvailabilityQuestions THEN Answer3 ELSE Text]

PaymentTypes ==
  [federal_income_tax_withheld |-> Answer3,
   payment_method |-> {none, "debit", "direct_deposit"},
   account_type |-> {none, "ok"},
   routing_number |-> Numbers \cup {none},
   LOCAL_re_enter_routing_number |-> Numbers \cup {none},
   account_number |-> Numbers \cup {none},
   LOCAL_re_enter_account_number |-> Numbers \cup {none}]

\* The values have the fields of the types, and nothing else in them.
OfTypes(v, types) ==
  /\ DOMAIN v = DOMAIN types
  /\ \A f \in DOMAIN types : v[f] \in types[f]
=============================================================================

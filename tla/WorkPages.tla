----------------------------- MODULE WorkPages ------------------------------
(***************************************************************************)
(* The question pages about work: one employer, whose page is taken in two *)
(* halves that share no rule (how to reach the employer, and why and when  *)
(* the work ended), self-employment and union.  The operators of a page    *)
(* are those of PersonPages.                                               *)
(***************************************************************************)
EXTENDS FormValues, Naturals

(* employer: EmployerInformation, EmployerProfile; phones[1] is none while *)
(* the array has one phone, and "phones" stands for the array itself       *)

EmployerContactInit ==
  {[name |-> blank, address |-> "empty", LOCAL_same_address |-> none,
    work_site_address |-> none, phone |-> "empty", LOCAL_same_phone |-> none,
    second_phone |-> none, fein |-> blank]}

EmployerContactOffers(v) ==
  [name |-> Typed \cup {"long"},
   address |-> AddressValues \ {"other"},
   LOCAL_same_address |-> Chosen,
   work_site_address |-> When(v.LOCAL_same_address = "no", AddressValues \ {"other"}),
   phone |-> PhoneValues,
   LOCAL_same_phone |-> Chosen,
   second_phone |-> When(v.LOCAL_same_phone = "no", PhoneValues),
   fein |-> {blank, "bad", "plain"}]

\* Neither answer "same" clears what it hides.
EmployerContactSettled(v) == v

EmployerContactErrors(v) ==
  Failing([name |-> NoString(v.name) \/ v.name = "long",
           address |-> yupAddress(v.address),
           LOCAL_same_address |-> NoValue(v.LOCAL_same_address),
           work_site_address |-> /\ v.LOCAL_same_address = "no"
                                 /\ yupAddress(v.work_site_address),
           phone |-> yupPhone(v.phone),
           LOCAL_same_phone |-> NoValue(v.LOCAL_same_phone),
           phones |-> \/ v.LOCAL_same_phone = "no" /\ v.second_phone = none
                      \/ v.LOCAL_same_phone = "yes" /\ v.second_phone # none,
           second_phone |-> v.second_phone # none /\ yupPhone(v.second_phone),
           fein |-> v.fein = "bad"])

(* Variant: the absent second phone is taken for the answer yes.           *)
EmployerContactRestored_answered(v) ==
  [v EXCEPT !.LOCAL_same_phone = IF v.second_phone # none THEN "no" ELSE "yes"]

\* Both questions are asked again unless the answer was yes.
EmployerContactRestored(v) ==
  [v EXCEPT !.LOCAL_same_address =
              IF @ = "yes" \/ v.work_site_address = none THEN "yes" ELSE "no",
            !.LOCAL_same_phone =
              IF @ # "yes" /\ v.second_phone # none THEN "no" ELSE @]

\* The pattern of fein has an empty alternative and so matches every string.
EmployerContactRejects(v) ==
  Failing([name |-> v.name = "long",
           address |-> address(v.address),
           work_site_address |-> /\ v.work_site_address # none
                                 /\ address(v.work_site_address),
           phone |-> phone(v.phone),
           second_phone |-> v.second_phone # none /\ phone(v.second_phone)])

(* employer: SeparationReason and the dates of work *)

Reasons == {"laid_off", "fired_discharged_terminated", "still_employed", "quit",
            "strike", "retired", "shutdown"}
ReasonsWithOptions == {"laid_off", "fired_discharged_terminated",
                       "still_employed", "quit"}

\* Two days, and a text that formatUserInputDate leaves as it was typed.
Days == {"day1", "day2"}
DayOrder == [day1 |-> 1, day2 |-> 2]
PickedDate == Days \cup {none, "bad"}

EmployerSeparationInit ==
  {[self_employed |-> none, separation_reason |-> none, separation_option |-> none,
    separation_comment |-> blank, first_work_date |-> blank, last_work_date |-> none]}

EmployerSeparationOffers(v) ==
  LET separation == v.self_employed # "yes" IN
  [self_employed |-> Chosen,
   separation_reason |-> When(separation, Reasons),
   separation_option |-> When(separation /\ v.separation_reason \in ReasonsWithOptions,
                              {"ok"}),
   separation_comment |-> When(separation, Typed \cup {"long"}),
   first_work_date |-> PickedDate,
   last_work_date |-> When(v.separation_reason \notin {none, "still_employed"},
                           PickedDate)]

\* Another reason has other options: the one chosen is dropped.
EmployerSeparationAnswered(v, f) ==
  IF f = "separation_reason" THEN [v EXCEPT !.separation_option = none] ELSE v

EmployerSeparationSettled(v) ==
  Cleared(v, v.self_employed = "yes",
          {"separation_reason", "separation_option", "separation_comment"}, none)

EmployerSeparationErrors(v) ==
  LET employed == v.self_employed = "no"
      reason   == v.separation_reason
  IN Failing([self_employed |-> NoValue(v.self_employed),
              separation_reason |-> employed /\ NoString(reason),
              separation_option |-> /\ employed /\ reason \in ReasonsWithOptions
                                    /\ NoString(v.separation_option),
              separation_comment |->
                \/ v.separation_comment = "long"
                \/ /\ v.self_employed # "yes" /\ reason # "laid_off"
                   /\ NoString(v.separation_comment),
              first_work_date |-> NoDate(v.first_work_date),
              last_work_date |-> IF reason = "still_employed"
                                 THEN WrongDate(v.last_work_date)
                                 ELSE NoDate(v.last_work_date)])

\* The `if` on separation_reason that asks for last_work_date also holds
\* when there is no reason; _apply_local_validations compares the dates.
EmployerSeparationRejects(v) ==
  LET employed == v.self_employed = "no"
      reason   == v.separation_reason
      first    == v.first_work_date
      last     == v.last_work_date
  IN Failing([self_employed |-> Absent(v.self_employed),
              separation_reason |-> employed /\ Absent(reason),
              separation_option |->
                /\ employed /\ reason \in ReasonsWithOptions \cup {none}
                /\ Absent(v.separation_option),
              separation_comment |->
                \/ v.separation_comment = "long"
                \/ employed /\ reason # "laid_off" /\ Absent(v.separation_comment),
              first_work_date |->
                \/ Absent(first) \/ date(first)
                \/ first \in Days /\ last \in Days /\ DayOrder[first] > DayOrder[last],
              last_work_date |-> /\ reason # "still_employed"
                                 /\ Absent(last) \/ date(last)])

(* self-employment *)

SelfEmploymentInit ==
  {[is_self_employed |-> none, ownership_in_business |-> none, name_of_business |-> none,
    is_corporate_officer |-> none, name_of_corporation |-> none,
    related_to_owner |-> none, corporation_or_partnership |-> none]}

SelfEmploymentOffers(v) ==
  [is_self_employed |-> Chosen,
   ownership_in_business |-> Chosen,
   name_of_business |-> When(v.ownership_in_business = "yes", Typed),
   is_corporate_officer |-> Chosen,
   name_of_corporation |-> When(v.is_corporate_officer = "yes", Typed),
   related_to_owner |-> Chosen,
   corporation_or_partnership |-> When(v.related_to_owner = "yes", Chosen)]

SelfEmploymentSettled(v) ==
  LET w == Cleared(v, v.ownership_in_business = "no", {"name_of_business"}, none)
      x == Cleared(w, w.is_corporate_officer = "no", {"name_of_corporation"}, none)
  IN Cleared(x, x.related_to_owner = "no", {"corporation_or_partnership"}, none)

(* Variant: the name of the business is required whatever the answer.      *)
SelfEmploymentErrors_unconditional(v) ==
  Failing([f \in {"is_self_employed", "ownership_in_business", "name_of_business",
                  "is_corporate_officer", "related_to_owner"} |-> NoValue(v[f])])

SelfEmploymentErrors(v) ==
  Failing([is_self_employed |-> NoValue(v.is_self_employed),
           ownership_in_business |-> NoValue(v.ownership_in_business),
           name_of_business |-> /\ v.ownership_in_business = "yes"
                                /\ NoString(v.name_of_business),
           is_corporate_officer |-> NoValue(v.is_corporate_officer),
           name_of_corporation |-> /\ v.is_corporate_officer = "yes"
                                   /\ NoString(v.name_of_corporation),
           related_to_owner |-> NoValue(v.related_to_owner),
           corporation_or_partnership |-> /\ v.related_to_owner = "yes"
                                          /\ NoValue(v.corporation_or_partnership)])

\* An `if` also holds for an answer that is absent.
SelfEmploymentRejects(v) ==
  Failing([f \in {"is_self_employed", "ownership_in_business",
                  "is_corporate_officer", "related_to_owner"} |-> Absent(v[f])])
  \cup
  Failing([name_of_business |-> /\ v.ownership_in_business # "no"
                                /\ Absent(v.name_of_business),
           name_of_corporation |-> /\ v.is_corporate_officer # "no"
                                   /\ Absent(v.name_of_corporation),
           corporation_or_partnership |-> /\ v.related_to_owner # "no"
                                          /\ Absent(v.corporation_or_partnership)])

(* union: UnionProfile *)

UnionInit ==
  {[is_union_member |-> none, union_name |-> none, union_local_number |-> none,
    required_to_seek_work_through_hiring_hall |-> none]}

UnionDetails == {"union_name", "union_local_number",
                 "required_to_seek_work_through_hiring_hall"}

UnionOffers(v) ==
  LET member == v.is_union_member = "yes" IN
  [is_union_member |-> Chosen,
   union_name |-> When(member, Typed \cup {"long"}),
   union_local_number |-> When(member, Typed \cup {"long"}),
   required_to_seek_work_through_hiring_hall |-> When(member, Chosen)]

(* Variant: the clean-up does not name the local number.                   *)
UnionSettled_partly(v) ==
  Cleared(v, v.is_union_member = "no", UnionDetails \ {"union_local_number"}, none)

UnionSettled(v) == Cleared(v, v.is_union_member = "no", UnionDetails, none)

(* Variant: the schema has no maximum lengths.                             *)
UnionErrors_unbounded(v) ==
  Failing([is_union_member |-> NoValue(v.is_union_member)]) \cup
  {f \in UnionDetails : v.is_union_member = "yes" /\ NoString(v[f])}

(* Variant: mixed().required() instead of string().required().             *)
UnionErrors_mixed(v) ==
  LET member == v.is_union_member = "yes" IN
  Failing([is_union_member |-> NoValue(v.is_union_member)]) \cup
  {f \in UnionDetails : member /\ (NoValue(v[f]) \/ v[f] = "long")}

UnionErrors(v) ==
  LET member == v.is_union_member = "yes" IN
  Failing([is_union_member |-> NoValue(v.is_union_member)]) \cup
  {f \in UnionDetails : member /\ (NoString(v[f]) \/ v[f] = "long")}

UnionRejects(v) ==
  Failing([is_union_member |-> Absent(v.is_union_member)]) \cup
  {f \in UnionDetails : v.is_union_member # "no" /\ (Absent(v[f]) \/ v[f] = "long")}
=============================================================================

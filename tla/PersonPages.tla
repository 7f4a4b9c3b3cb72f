---------------------------- MODULE PersonPages -----------------------------
(***************************************************************************)
(* The question pages about the person: personal, contact, demographic and *)
(* identity (src/claimant/src/pages/Questions).  For each page             *)
(*   Init     the values it can start with: the page's initial values,     *)
(*            filled in from whoami,                                       *)
(*   Offers   what each rendered control can set its field to,             *)
(*   Settled  the values its effects leave (useClearFields, useEffect),    *)
(*   Errors   the fields its yup schema finds wrong,                       *)
(*   Restored what mergeClaimFormValues makes of them once they were saved *)
(*            (of most pages nothing: it is defined where it matters),     *)
(*   Rejects  the fields the server finds wrong in a completed claim.      *)
(***************************************************************************)
EXTENDS FormValues

(* personal: PersonalInformation, ClaimantNames, ClaimantAddress; the      *)
(* array alternate_names has no entry (none) or one                        *)

PersonalInit ==
  {[claimant_name |-> n, LOCAL_claimant_has_alternate_names |-> none,
    alternate_names |-> none, residence_address |-> a,
    LOCAL_mailing_address_same |-> "no", mailing_address |-> "empty"] :
      n \in {"null", "full"}, a \in {"empty", "part", "full"}}

PersonalOffers(v) ==
  [claimant_name |-> NameValues \ {"null"},
   LOCAL_claimant_has_alternate_names |-> Chosen,
   alternate_names |-> When(v.LOCAL_claimant_has_alternate_names = "yes",
                            NameValues \ {"null"}),
   residence_address |-> AddressValues,
   LOCAL_mailing_address_same |-> Chosen,
   mailing_address |-> When(v.LOCAL_mailing_address_same = "no", AddressValues)]

\* "no" empties the alternate names, and a first one is pushed when they are
\* rendered.
AlternateNamesSettled(v) ==
  LET alternate == v.LOCAL_claimant_has_alternate_names IN
  [v EXCEPT !.alternate_names = IF alternate = "no" THEN none
                                ELSE IF alternate = "yes" /\ @ = none THEN "empty"
                                ELSE @]

\* The mailing address follows the residence while the box is ticked, and is
\* emptied when it equals the residence though the box is not ticked.
MailingAddressSettled(v) ==
  LET same == v.LOCAL_mailing_address_same = "yes" IN
  [v EXCEPT !.mailing_address = IF same THEN v.residence_address
                                ELSE IF @ = v.residence_address THEN "empty"
                                ELSE @]

PersonalSettled(v) == MailingAddressSettled(AlternateNamesSettled(v))

PersonalErrors(v) ==
  Failing([claimant_name |-> yupName(v.claimant_name),
           LOCAL_claimant_has_alternate_names |->
             NoValue(v.LOCAL_claimant_has_alternate_names),
           alternate_names |-> /\ v.LOCAL_claimant_has_alternate_names = "yes"
                               /\ yupName(v.alternate_names),
           residence_address |-> yupAddress(v.residence_address),
           mailing_address |-> /\ v.LOCAL_mailing_address_same = "no"
                               /\ yupAddress(v.mailing_address)])

\* mergeClaimFormValues answers the two LOCAL_ questions from the saved data.
PersonalRestored(v) ==
  [v EXCEPT !.LOCAL_claimant_has_alternate_names =
              IF @ = "yes" \/ v.alternate_names # none THEN "yes" ELSE "no",
            !.LOCAL_mailing_address_same =
              IF /\ v.residence_address # "empty"
                 /\ v.mailing_address = v.residence_address
              THEN "yes" ELSE "no"]

PersonalRejects(v) ==
  Failing([claimant_name |-> person_name(v.claimant_name),
           alternate_names |-> /\ v.alternate_names # none
                               /\ person_name(v.alternate_names),
           residence_address |-> address(v.residence_address),
           mailing_address |-> address(v.mailing_address)])

(* contact: phones[1] is none while there is one phone *)

ContactInit ==
  {[email |-> "ok", phone |-> p, LOCAL_more_phones |-> none, second_phone |-> none,
    interpreter_required |-> none, preferred_language |-> blank] :
      p \in {"empty", "ok"}}

ContactOffers(v) ==
  [email |-> {},
   phone |-> PhoneValues,
   LOCAL_more_phones |-> Chosen,
   second_phone |-> When(v.LOCAL_more_phones = "yes", PhoneValues),
   interpreter_required |-> Chosen,
   preferred_language |-> When(v.interpreter_required = "yes", Typed \cup {"long"})]

\* The box pushes an empty second phone or removes it.
ContactSettled(v) ==
  [v EXCEPT !.second_phone = IF v.LOCAL_more_phones # "yes" THEN none
                             ELSE IF @ = none THEN "empty" ELSE @]

ContactErrors(v) ==
  Failing([phone |-> yupPhone(v.phone),
           second_phone |-> IF v.second_phone = none THEN v.LOCAL_more_phones = "yes"
                            ELSE yupPhone(v.second_phone),
           interpreter_required |-> NoValue(v.interpreter_required),
           preferred_language |-> /\ v.interpreter_required = "yes"
                                  /\ NoString(v.preferred_language)])

ContactRejects(v) ==
  Failing([phone |-> phone(v.phone),
           second_phone |-> v.second_phone # none /\ phone(v.second_phone),
           interpreter_required |-> Absent(v.interpreter_required),
           preferred_language |-> v.preferred_language = "long"])

(* demographic: race is the array of ticked boxes, "mixed" has "opt_out"   *)
(* beside another one                                                      *)

DemographicInit == {[sex |-> none, ethnicity |-> none, race |-> "empty"]}

\* The other boxes are disabled while opt_out is ticked.
DemographicOffers(v) ==
  [sex |-> {"ok"},
   ethnicity |-> {"ok"},
   race |-> CASE v.race = "empty"   -> {"one", "opt_out"}
              [] v.race = "one"     -> {"empty", "several", "mixed"}
              [] v.race = "several" -> {"one", "several", "mixed"}
              [] v.race = "opt_out" -> {"empty"}]

\* onChange of the box opt_out: it stays alone.
DemographicSettled(v) == [v EXCEPT !.race = IF @ = "mixed" THEN "opt_out" ELSE @]

DemographicErrors(v) ==
  Failing([sex |-> NoValue(v.sex), ethnicity |-> NoValue(v.ethnicity),
           race |-> v.race \in {"empty", "mixed"}])

DemographicRejects(v) ==
  Failing([sex |-> Absent(v.sex), ethnicity |-> Absent(v.ethnicity),
           race |-> v.race = "mixed"])

(* identity *)

AuthorizationType == {"US_citizen_or_national", "permanent_resident",
                      "temporary_legal_worker"}

IdentityInit ==
  {[ssn |-> s, birthdate |-> b, license |-> blank, issuer |-> none,
    authorized_to_work |-> none, not_authorized_to_work_explanation |-> none,
    authorization_type |-> none, alien_registration_number |-> none] :
      s \in {blank, "dashed"}, b \in {blank, "ok"}}

Authorized(v) == v.authorized_to_work = "yes"
NotAllowed(v) == v.authorized_to_work = "no"
Alien(v) == v.authorization_type \notin {none, blank, "US_citizen_or_national"}

IdentityOffers(v) ==
  [ssn |-> {blank, "dashed", "plain", "bad"},
   birthdate |-> {blank, "bad", "future", "ok"},
   license |-> Typed,
   issuer |-> Typed,
   authorized_to_work |-> Chosen,
   not_authorized_to_work_explanation |-> When(NotAllowed(v), Typed),
   authorization_type |-> When(Authorized(v), AuthorizationType \cup {blank}),
   alien_registration_number |-> When(Authorized(v) /\ Alien(v),
                                      {blank, "dashed", "plain", "bad"})]

(* Variant: the rule that depends on another rule's field acts first.      *)
IdentitySettled_misordered(v) ==
  LET w == Cleared(v, ~Alien(v), {"alien_registration_number"}, none)
      x == Cleared(w, ~Authorized(v), {"authorization_type"}, none)
  IN Cleared(x, ~NotAllowed(x), {"not_authorized_to_work_explanation"}, none)

IdentitySettled(v) ==
  LET w == Cleared(v, ~Authorized(v),
                   {"authorization_type", "alien_registration_number"}, none)
      x == Cleared(w, ~NotAllowed(w), {"not_authorized_to_work_explanation"}, none)
  IN Cleared(x, ~Alien(x), {"alien_registration_number"}, none)

IdentityErrors(v) ==
  Failing([ssn |-> v.ssn \notin {"dashed", "plain"},
           birthdate |-> NoDate(v.birthdate) \/ v.birthdate = "future",
           license |-> NoString(v.license),
           issuer |-> NoString(v.issuer),
           authorized_to_work |-> NoValue(v.authorized_to_work),
           not_authorized_to_work_explanation |->
             NotAllowed(v) /\ NoString(v.not_authorized_to_work_explanation),
           authorization_type |-> Authorized(v) /\ NoString(v.authorization_type),
           alien_registration_number |->
             Alien(v) /\ v.alien_registration_number \notin {"dashed", "plain"}])

\* ClaimCleaner puts the dashes in; the schema then asks for them.
CleanedNumber(x) == IF x = "plain" THEN "dashed" ELSE x

\* work_authorization requires authorization_type of everybody, and the `if`
\* on authorization_type holds when the key is absent.
IdentityRejects(v) ==
  Failing([ssn |-> CleanedNumber(v.ssn) # "dashed",
           birthdate |-> date(v.birthdate),
           license |-> Absent(v.license),
           issuer |-> v.issuer # "ok",
           authorized_to_work |-> Absent(v.authorized_to_work),
           not_authorized_to_work_explanation |->
             NotAllowed(v) /\ Absent(v.not_authorized_to_work_explanation),
           authorization_type |-> v.authorization_type \notin AuthorizationType,
           alien_registration_number |->
             \/ /\ v.authorization_type # "US_citizen_or_national"
                /\ Absent(v.alien_registration_number)
             \/ CleanedNumber(v.alien_registration_number) \notin {none, "dashed"}])
=============================================================================

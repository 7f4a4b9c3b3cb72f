------------------------- MODULE FormAnswersProofs --------------------------
(***************************************************************************)
(* Proofs about FormAnswers, for any choice of its pages and any sequence  *)
(* of answers, saves and returns.  The inductive invariant is that the     *)
(* values of a page are Sound; page by page, the lemmas show that they are *)
(* at the start (Starts), after every answer (Keeps) and after a return    *)
(* (Returns), and what they promise (Says).                                *)
(***************************************************************************)
EXTENDS FormAnswers, TLAPS

-----------------------------------------------------------------------------
(* What is no longer asked is forgotten: by the effects of a page, or       *)
(* because it was never asked.  Of the other pages the effects alone see    *)
(* to it, whatever was answered before.                                     *)

PersonalForgets(v) ==
  v.LOCAL_claimant_has_alternate_names # "yes" => v.alternate_names = none

\* Restored takes the absent answer for a no only if there is no second phone.
EmployerContactForgets(v) == v.LOCAL_same_phone = none => v.second_phone = none

EmployerSeparationForgets(v) ==
  v.separation_reason \notin ReasonsWithOptions => v.separation_option = none

SelfEmploymentForgets(v) ==
  /\ v.ownership_in_business # "yes" => v.name_of_business = none
  /\ v.is_corporate_officer # "yes" => v.name_of_corporation = none
  /\ v.related_to_owner # "yes" => v.corporation_or_partnership = none

UnionForgets(v) == v.is_union_member # "yes" => \A f \in UnionDetails : v[f] = none

DisabilityForgets(v) ==
  v.has_collected_disability # "yes" =>
    \A f \in DOMAIN v \ {"has_collected_disability"} : v[f] = none

AvailabilityForgets(v) ==
  \A q \in AvailabilityQuestions :
    v[q] # AsksReason(q) => v[AvailabilityReason[q]] = none

PaymentForgets(v) ==
  v.payment_method # "direct_deposit" => \A f \in AccountFields : v[f] = none

Forgets(p, v) ==
  /\ p = "personal" => PersonalForgets(v)
  /\ p = "employer_contact" => EmployerContactForgets(v)
  /\ p = "employer_separation" => EmployerSeparationForgets(v)
  /\ p = "self_employment" => SelfEmploymentForgets(v)
  /\ p = "union" => UnionForgets(v)
  /\ p = "disability" => DisabilityForgets(v)
  /\ p = "availability" => AvailabilityForgets(v)
  /\ p = "payment" => PaymentForgets(v)

\* The values a page can have: every field has a value that it can have, the
\* effects leave them alone, and what is not asked is forgotten.
Sound(p, v) == OfTypes(v, FieldTypes(p)) /\ Settled(p, v) = v /\ Forgets(p, v)

After(p, v, f, x) == Settled(p, Answered(p, [v EXCEPT ![f] = x], f))

\* An answer, and the values w after it: what AnAnswerStays says.
Stays(p, v, f, x, w) ==
  /\ w[f] = IF x = "mixed" THEN "opt_out" ELSE x
  /\ \A g \in (Shown(p, v) \cap Shown(p, w)) \ (Entangled \cup {f}) : w[g] = v[g]

\* Every answer leads to such values, and stays.
Keeps(p, v) ==
  \A f \in DOMAIN v : \A x \in Offers(p, v)[f] : \A w :
    w = After(p, v, f, x) => Sound(p, w) /\ (f \notin Entangled => Stays(p, v, f, x, w))

\* Formik's copy changes no verdict, and every error is at a control.
Judged(p, v) ==
  /\ Errors(p, Prepared(v)) = Errors(p, v)
  /\ Errors(p, v) \subseteq Shown(p, v)

LEMMA JudgedSays ==
  ASSUME Judged(page, answers)
  PROVE  RefusalIsExplained /\ ProgressAgreesWithNext
<1>1. RefusalIsExplained
  BY DEF Judged, RefusalIsExplained
<1>2. ProgressAgreesWithNext
  BY DEF Judged, ProgressAgreesWithNext, Progresses, Accepts
<1> QED
  BY <1>1, <1>2

LEMMA FailingIn ==
  ASSUME NEW conditions
  PROVE  Failing(conditions) \subseteq DOMAIN conditions
BY Zenon DEF Failing

LEMMA PreparedFields ==
  ASSUME NEW v
  PROVE  \A f \in DOMAIN v : Prepared(v)[f] = IF v[f] = blank THEN none ELSE v[f]
BY DEF Prepared

-----------------------------------------------------------------------------
(* personal *)

LEMMA PersonalOperators ==
  /\ InitialAnswers("personal") = PersonalInit
  /\ FieldTypes("personal") = PersonalTypes
  /\ \A v : /\ Offers("personal", v) = PersonalOffers(v)
            /\ Settled("personal", v) = PersonalSettled(v)
            /\ Errors("personal", v) = PersonalErrors(v)
            /\ Rejects("personal", v) = PersonalRejects(v)
            /\ Reviewed("personal", v) = PersonalReviewed(v)
            /\ Restored("personal", v) = PersonalRestored(v)
            /\ Forgets("personal", v) <=> PersonalForgets(v)
            /\ \A f : Answered("personal", v, f) = v
BY DEF InitialAnswers, FieldTypes, Offers, Settled, Errors, Rejects, Reviewed,
   Restored,
       Forgets, Answered

LEMMA PersonalFieldTypes ==
  ASSUME NEW v
  PROVE  OfTypes(v, PersonalTypes) <=>
         /\ DOMAIN v = {"claimant_name", "LOCAL_claimant_has_alternate_names",
                         "alternate_names", "residence_address",
                         "LOCAL_mailing_address_same", "mailing_address"}
         /\ v.claimant_name \in NameValues
         /\ v.LOCAL_claimant_has_alternate_names \in Answer3
         /\ v.alternate_names \in (NameValues \ {"null"}) \cup {none}
         /\ v.residence_address \in AddressValues
         /\ v.LOCAL_mailing_address_same \in Chosen
         /\ v.mailing_address \in AddressValues
BY DEF OfTypes, PersonalTypes

\* The values the effects leave, field by field.
PersonalEffect(u, w) ==
  /\ w.claimant_name = u.claimant_name
  /\ w.LOCAL_claimant_has_alternate_names = u.LOCAL_claimant_has_alternate_names
  /\ w.alternate_names =
       IF u.LOCAL_claimant_has_alternate_names = "no" THEN none
       ELSE IF u.LOCAL_claimant_has_alternate_names = "yes" /\ u.alternate_names = none
       THEN "empty"
       ELSE u.alternate_names
  /\ w.residence_address = u.residence_address
  /\ w.LOCAL_mailing_address_same = u.LOCAL_mailing_address_same
  /\ w.mailing_address =
       IF u.LOCAL_mailing_address_same = "yes" THEN u.residence_address
       ELSE IF u.mailing_address = u.residence_address THEN "empty" ELSE u.mailing_address

LEMMA PersonalEffects ==
  ASSUME NEW u, NEW w, w = PersonalSettled(u), OfTypes(u, PersonalTypes)
  PROVE  /\ OfTypes(w, PersonalTypes)
         /\ PersonalEffect(u, w)
         /\ PersonalSettled(w) = w
         /\ w = [f \in DOMAIN w |-> w[f]]
<1>1. ASSUME NEW y, OfTypes(y, PersonalTypes)
      PROVE  /\ DOMAIN PersonalSettled(y) = DOMAIN y
             /\ PersonalSettled(y) = [f \in DOMAIN y |-> PersonalSettled(y)[f]]
             /\ PersonalEffect(y, PersonalSettled(y))
  <2> DEFINE a == AlternateNamesSettled(y)
             b == MailingAddressSettled(a)
  <2>1. /\ DOMAIN a = DOMAIN y
        /\ \A f \in DOMAIN y \ {"alternate_names"} : a[f] = y[f]
        /\ a.alternate_names =
             IF y.LOCAL_claimant_has_alternate_names = "no" THEN none
             ELSE IF y.LOCAL_claimant_has_alternate_names = "yes" /\ y.alternate_names = none
             THEN "empty" ELSE y.alternate_names
    BY <1>1, PersonalFieldTypes DEF AlternateNamesSettled
  <2> HIDE DEF a
  <2>2. /\ DOMAIN b = DOMAIN y
        /\ b = [f \in DOMAIN y |-> b[f]]
        /\ \A f \in DOMAIN y \ {"mailing_address"} : b[f] = a[f]
        /\ b.mailing_address =
             IF a.LOCAL_mailing_address_same = "yes" THEN a.residence_address
             ELSE IF a.mailing_address = a.residence_address THEN "empty"
             ELSE a.mailing_address
    BY <1>1, <2>1, PersonalFieldTypes DEF MailingAddressSettled
  <2> HIDE DEF b
  <2>3. PersonalEffect(y, b)
    BY <1>1, <2>1, <2>2, PersonalFieldTypes DEF PersonalEffect
  <2> QED
    BY <2>2, <2>3 DEF PersonalSettled, a, b
<1>2. OfTypes(w, PersonalTypes)
  BY <1>1, PersonalFieldTypes DEF PersonalEffect, NameValues, AddressValues
<1>3. PersonalSettled(w) = w
  <2>1. PersonalEffect(w, w)
    BY <1>1, <1>2, PersonalFieldTypes DEF PersonalEffect, none
  <2>2. \A f \in DOMAIN w : PersonalSettled(w)[f] = w[f]
    BY <1>1, <1>2, <2>1, PersonalFieldTypes DEF PersonalEffect
  <2> QED
    BY <1>1, <1>2, <2>2
<1> QED
  BY <1>1, <1>2, <1>3

LEMMA PersonalStarts ==
  \A v \in PersonalInit : Sound("personal", PersonalSettled(v))
<1> SUFFICES ASSUME NEW v \in PersonalInit
             PROVE  Sound("personal", PersonalSettled(v))
  OBVIOUS
<1>1. OfTypes(v, PersonalTypes)
  BY PersonalFieldTypes DEF PersonalInit, Answer3, NameValues, AddressValues, Chosen
<1> QED
  BY <1>1, PersonalEffects, PersonalOperators, PersonalFieldTypes
  DEF Sound, PersonalEffect, PersonalInit, PersonalForgets

LEMMA PersonalShown ==
  ASSUME NEW v, OfTypes(v, PersonalTypes)
  PROVE  LET shown == Shown("personal", v) IN
         /\ {"claimant_name", "LOCAL_claimant_has_alternate_names",
             "residence_address", "LOCAL_mailing_address_same"} \subseteq shown
         /\ "alternate_names" \in shown <=> v.LOCAL_claimant_has_alternate_names = "yes"
         /\ "mailing_address" \in shown <=> v.LOCAL_mailing_address_same = "no"
<1> DEFINE offers == PersonalOffers(v)
<1>1. /\ offers.claimant_name # {}
      /\ offers.LOCAL_claimant_has_alternate_names # {}
      /\ offers.residence_address # {}
      /\ offers.LOCAL_mailing_address_same # {}
      /\ offers.alternate_names # {} <=> v.LOCAL_claimant_has_alternate_names = "yes"
      /\ offers.mailing_address # {} <=> v.LOCAL_mailing_address_same = "no"
  BY DEF PersonalOffers, When, Chosen, NameValues, AddressValues
<1> HIDE DEF offers
<1> QED
  BY <1>1, PersonalFieldTypes, PersonalOperators DEF Shown, offers

LEMMA PersonalErrorsAre ==
  ASSUME NEW v
  PROVE  LET errors == PersonalErrors(v) IN
         /\ errors \subseteq {"claimant_name",
              "LOCAL_claimant_has_alternate_names", "alternate_names",
              "residence_address", "mailing_address"}
         /\ "claimant_name" \in errors <=> v.claimant_name # "full"
         /\ "LOCAL_claimant_has_alternate_names" \in errors <=>
              v.LOCAL_claimant_has_alternate_names = none
         /\ "alternate_names" \in errors <=>
              v.LOCAL_claimant_has_alternate_names = "yes" /\ v.alternate_names # "full"
         /\ "residence_address" \in errors <=>
              v.residence_address \notin {"full", "other"}
         /\ "mailing_address" \in errors <=>
              v.LOCAL_mailing_address_same = "no" /\ v.mailing_address \notin {"full", "other"}
BY FailingIn, Zenon DEF PersonalErrors, Failing, NoValue, yupName, yupAddress

LEMMA PersonalRejectsNone ==
  ASSUME NEW v, v.claimant_name = "full", v.alternate_names \in {none, "full"},
         v.residence_address \in {"full", "other"},
         v.mailing_address \in {"full", "other"}
  PROVE  PersonalRejects(v) = {}
<1> DEFINE rejects == PersonalRejects(v)
<1>1. /\ ~ person_name(v.claimant_name)
      /\ ~ (v.alternate_names # none /\ person_name(v.alternate_names))
      /\ ~ address(v.residence_address) /\ ~ address(v.mailing_address)
  BY DEF person_name, address, none
<1>2. /\ "claimant_name" \notin rejects /\ "alternate_names" \notin rejects
      /\ "residence_address" \notin rejects /\ "mailing_address" \notin rejects
  BY <1>1, Zenon DEF PersonalRejects, Failing
<1>3. rejects \subseteq {"claimant_name", "alternate_names", "residence_address",
                        "mailing_address"}
  BY FailingIn DEF PersonalRejects
<1> QED
  BY <1>2, <1>3

LEMMA PersonalKeeps ==
  ASSUME NEW v, Sound("personal", v)
  PROVE  Keeps("personal", v)
<1> SUFFICES ASSUME NEW f \in DOMAIN v, NEW x \in PersonalOffers(v)[f],
                    NEW u, NEW w,
                    u = [v EXCEPT ![f] = x], w = PersonalSettled(u)
             PROVE  /\ Sound("personal", w)
                    /\ f \notin Entangled => Stays("personal", v, f, x, w)
  BY PersonalOperators DEF Keeps, After
<1>1. OfTypes(v, PersonalTypes) /\ PersonalForgets(v) /\ PersonalSettled(v) = v
  BY PersonalOperators DEF Sound
<1>2. /\ x \in PersonalTypes[f]
      /\ f \in Shown("personal", v)
  <2>1. x \in PersonalTypes[f]
    BY <1>1, PersonalFieldTypes
    DEF PersonalOffers, PersonalTypes, When, Answer3
  <2> QED
    BY <2>1, PersonalOperators DEF Shown
<1>3. OfTypes(u, PersonalTypes) /\ u[f] = x /\ \A g \in DOMAIN v \ {f} : u[g] = v[g]
  BY <1>1, <1>2 DEF OfTypes
<1>4. /\ OfTypes(w, PersonalTypes)
      /\ PersonalEffect(u, w)
      /\ PersonalSettled(w) = w
  BY <1>3, PersonalEffects
<1>5. /\ f = "LOCAL_claimant_has_alternate_names" => x \in Chosen
      /\ f = "alternate_names" => v.LOCAL_claimant_has_alternate_names = "yes" /\ x # none
  BY DEF PersonalOffers, When, NameValues, none
<1>6. PersonalForgets(w)
  BY <1>1, <1>2, <1>3, <1>4, <1>5, PersonalFieldTypes, PersonalShown
  DEF PersonalForgets, PersonalEffect, Answer3, Chosen
<1>7. x # "mixed"
  BY <1>1, <1>2, PersonalFieldTypes
  DEF PersonalTypes, Answer3, Chosen, NameValues, AddressValues, none
<1>8. f \notin Entangled => Stays("personal", v, f, x, w)
  <2>1. ASSUME f # "mailing_address"
        PROVE  w[f] = x
    BY <1>1, <1>2, <1>3, <1>4, <1>5, <2>1, PersonalFieldTypes DEF PersonalEffect
  <2>2. v.LOCAL_claimant_has_alternate_names = "yes" => v.alternate_names # none
    BY <1>1, PersonalEffects DEF PersonalEffect, none
  <2>3. ASSUME NEW g \in (Shown("personal", v) \cap Shown("personal", w)) \ {f},
               g # "mailing_address"
        PROVE  w[g] = v[g]
    <3>1. g \in DOMAIN v \ {f} /\ u[g] = v[g]
      BY <1>1, <1>3, <1>4, PersonalFieldTypes DEF Shown
    <3>2. w[g] = u[g]
      BY <1>1, <1>4, <2>2, <2>3, <3>1, PersonalFieldTypes, PersonalShown
      DEF PersonalEffect
    <3> QED
      BY <3>1, <3>2
  <2> QED
    BY <1>7, <2>1, <2>3 DEF Stays, Entangled
<1> QED
  BY <1>4, <1>6, <1>8, PersonalOperators DEF Sound

LEMMA PersonalSays ==
  ASSUME page = "personal", Sound(page, answers)
  PROVE  /\ AcceptedIsFilable
         /\ RefusalIsExplained
         /\ HiddenAnswersAreForgotten
         /\ ProgressAgreesWithNext
         /\ FiledIsReviewed
<1> DEFINE v == answers
<1>1. OfTypes(v, PersonalTypes) /\ PersonalForgets(v) /\ PersonalSettled(v) = v
  BY PersonalOperators DEF Sound
<1>2. PersonalEffect(v, v)
  BY <1>1, PersonalEffects
<1>3. \A f \in DOMAIN v : 
        f \in PersonalErrors(Prepared(v)) <=> f \in PersonalErrors(v)
  BY <1>1, PreparedFields, PersonalFieldTypes, PersonalErrorsAre
  DEF none, blank, Answer3, Chosen, NameValues, AddressValues
<1>4. Judged(page, v)
  <2>1. PersonalErrors(Prepared(v)) = PersonalErrors(v)
    BY <1>1, <1>3, PersonalFieldTypes, PersonalErrorsAre
  <2> QED
    BY <1>1, <2>1, PersonalErrorsAre, PersonalShown, PersonalOperators DEF Judged
<1>5. AcceptedIsFilable
  <2>1. ASSUME PersonalErrors(v) = {}
        PROVE  PersonalRejects(v) = {}
    BY <1>1, <1>2, <2>1, PersonalFieldTypes, PersonalErrorsAre, PersonalRejectsNone
    DEF PersonalEffect, PersonalForgets, Answer3, Chosen
  <2> QED
    BY <1>4, <2>1, PersonalOperators
    DEF Judged, Accepts, AcceptedIsFilable, Unauthorized, HalfAWorkSite,
        LeftBeforeStarting,
        LongLanguage
<1>6. HiddenAnswersAreForgotten
  BY <1>1, PersonalFieldTypes, PersonalShown
  DEF HiddenAnswersAreForgotten, PersonalForgets, Chosen
<1>7. FiledIsReviewed
  BY <1>1, <1>2, PersonalFieldTypes, PersonalOperators
  DEF PersonalEffect, Chosen, Local, FiledIsReviewed, Filed, PersonalReviewed,
      Rendered
<1> QED
  BY <1>4, <1>5, <1>6, <1>7, JudgedSays

\* What comes back from the saved values.
PersonalComesBack(v, r) ==
  /\ \A f \in DOMAIN v \ {"LOCAL_claimant_has_alternate_names",
                         "LOCAL_mailing_address_same"} : r[f] = v[f]
  /\ r.LOCAL_claimant_has_alternate_names =
       IF v.LOCAL_claimant_has_alternate_names = "yes" \/ v.alternate_names # none
       THEN "yes" ELSE "no"
  /\ r.LOCAL_mailing_address_same =
       IF v.residence_address # "empty" /\ v.mailing_address = v.residence_address
       THEN "yes" ELSE "no"

LEMMA PersonalReturns ==
  ASSUME NEW v, Sound("personal", v), NEW r, r = PersonalRestored(v),
         NEW w, w = PersonalSettled(r)
  PROVE  /\ Sound("personal", w)
         /\ OfTypes(r, PersonalTypes) /\ PersonalEffect(r, w)
         /\ PersonalComesBack(v, r)
<1>1. OfTypes(v, PersonalTypes)
  BY PersonalOperators DEF Sound
<1>2. /\ DOMAIN r = DOMAIN v
      /\ PersonalComesBack(v, r)
  BY <1>1, PersonalFieldTypes DEF PersonalRestored, PersonalComesBack
<1>3. OfTypes(r, PersonalTypes)
  BY <1>1, <1>2, PersonalFieldTypes DEF PersonalComesBack, Answer3, Chosen
<1>4. /\ OfTypes(w, PersonalTypes) /\ PersonalSettled(w) = w
      /\ PersonalEffect(r, w)
  BY <1>3, PersonalEffects
<1>5. PersonalForgets(w)
  BY <1>2, <1>4 DEF PersonalForgets, PersonalEffect, PersonalComesBack
<1> QED
  BY <1>2, <1>3, <1>4, <1>5, PersonalOperators DEF Sound

LEMMA PersonalReturnKeeps ==
  ASSUME page = "personal", Sound(page, answers)
  PROVE  ReturnKeepsAnswers
<1> DEFINE v == answers
           r == PersonalRestored(v)
           w == PersonalSettled(r)
<1>1. OfTypes(v, PersonalTypes) /\ PersonalForgets(v) /\ PersonalSettled(v) = v
  BY PersonalOperators DEF Sound
<1>2. /\ PersonalEffect(v, v) /\ PersonalEffect(r, w)
      /\ OfTypes(r, PersonalTypes) /\ OfTypes(w, PersonalTypes)
      /\ PersonalComesBack(v, r)
  BY <1>1, PersonalEffects, PersonalReturns, PersonalOperators DEF Sound
<1> HIDE DEF r, w
<1>3. v = [f \in DOMAIN v |-> v[f]]
  BY <1>1, PersonalEffects
<1>4. ASSUME NEW f \in Shown(page, v) \cap Shown(page, w)
      PROVE  w[f] = v[f] \/ AnsweredForHer(f)
  <2>1. f \in DOMAIN v
    BY DEF Shown
  <2>2. CASE f = "alternate_names"
    BY <1>1, <1>2, <1>4, <2>2, PersonalFieldTypes, PersonalShown
    DEF PersonalComesBack, PersonalEffect, none
  <2>3. CASE f = "mailing_address"
    BY <1>1, <1>2, <1>4, <2>3, PersonalFieldTypes, PersonalShown
    DEF PersonalComesBack, PersonalEffect
  <2>4. CASE f = "LOCAL_claimant_has_alternate_names"
    BY <1>1, <1>2, <2>4, PersonalFieldTypes
    DEF PersonalComesBack, PersonalEffect, PersonalForgets, AnsweredForHer,
        Answer3, Chosen
  <2>5. CASE f = "LOCAL_mailing_address_same"
    BY <1>1, <1>2, <2>5, PersonalFieldTypes
    DEF PersonalComesBack, PersonalEffect, AnsweredForHer, Chosen
  <2> QED
    BY <1>1, <1>2, <2>1, <2>2, <2>3, <2>4, <2>5, PersonalFieldTypes
    DEF PersonalComesBack, PersonalEffect
<1>5. ASSUME Accepts(page, v)
      PROVE  w = v
  <2>1. PersonalErrors(v) = {}
    <3>1. Prepared(v) = v
      BY <1>3, <1>1, PersonalFieldTypes
      DEF Prepared, none, blank, Answer3, Chosen, NameValues, AddressValues
    <3> QED
      BY <1>5, <3>1, PersonalOperators DEF Accepts
  <2>2. v.LOCAL_claimant_has_alternate_names # none /\ v.residence_address # "empty"
    BY <2>1, PersonalErrorsAre
  <2>3. /\ r.LOCAL_claimant_has_alternate_names = v.LOCAL_claimant_has_alternate_names
        /\ r.LOCAL_mailing_address_same = v.LOCAL_mailing_address_same
    BY <1>1, <1>2, <2>2, PersonalFieldTypes
    DEF PersonalComesBack, PersonalEffect, PersonalForgets, Answer3, Chosen
  <2>4. DOMAIN r = DOMAIN v /\ r = [f \in DOMAIN r |-> r[f]]
    BY DEF r, PersonalRestored
  <2>5. r = v
    BY <1>3, <1>2, <2>3, <2>4 DEF PersonalComesBack
  <2> QED
    BY <1>1, <2>5 DEF w
<1> QED
  BY <1>4, <1>5, PersonalOperators DEF ReturnKeepsAnswers, w, r

-----------------------------------------------------------------------------
(* contact *)

LEMMA ContactOperators ==
  /\ InitialAnswers("contact") = ContactInit
  /\ FieldTypes("contact") = ContactTypes
  /\ \A v : /\ Offers("contact", v) = ContactOffers(v)
            /\ Settled("contact", v) = ContactSettled(v)
            /\ Errors("contact", v) = ContactErrors(v)
            /\ Rejects("contact", v) = ContactRejects(v)
            /\ Reviewed("contact", v) = ContactReviewed(v)
            /\ Restored("contact", v) = v
            /\ Forgets("contact", v)
            /\ \A f : Answered("contact", v, f) = v
BY DEF InitialAnswers, FieldTypes, Offers, Settled, Errors, Rejects, Reviewed,
   Restored,
       Forgets, Answered

LEMMA ContactFieldTypes ==
  ASSUME NEW v
  PROVE  OfTypes(v, ContactTypes) <=>
         /\ DOMAIN v = {"email", "phone", "LOCAL_more_phones", "second_phone",
                         "interpreter_required", "preferred_language"}
         /\ v.email \in {"ok"}
         /\ v.phone \in PhoneValues
         /\ v.LOCAL_more_phones \in Answer3
         /\ v.second_phone \in PhoneValues \cup {none}
         /\ v.interpreter_required \in Answer3
         /\ v.preferred_language \in Typed \cup {"long"}
BY DEF OfTypes, ContactTypes

\* The values the effects leave, field by field.
ContactEffect(u, w) ==
  /\ w.email = u.email
  /\ w.phone = u.phone
  /\ w.LOCAL_more_phones = u.LOCAL_more_phones
  /\ w.second_phone =
       IF u.LOCAL_more_phones # "yes" THEN none
       ELSE IF u.second_phone = none THEN "empty" ELSE u.second_phone
  /\ w.interpreter_required = u.interpreter_required
  /\ w.preferred_language = u.preferred_language

LEMMA ContactEffects ==
  ASSUME NEW u, NEW w, w = ContactSettled(u), OfTypes(u, ContactTypes)
  PROVE  /\ OfTypes(w, ContactTypes)
         /\ ContactEffect(u, w)
         /\ ContactSettled(w) = w
<1>1. /\ ContactEffect(u, w) /\ DOMAIN w = DOMAIN u
      /\ w = [f \in DOMAIN w |-> w[f]]
  BY ContactFieldTypes DEF ContactSettled, ContactEffect
<1>2. OfTypes(w, ContactTypes)
  BY <1>1, ContactFieldTypes DEF ContactEffect, PhoneValues
<1>3. ContactSettled(w) = w
  <2>1. w.second_phone = IF w.LOCAL_more_phones # "yes" THEN none
                         ELSE IF w.second_phone = none THEN "empty" ELSE w.second_phone
    BY <1>1 DEF ContactEffect, none
  <2> QED
    BY <1>1, <2>1 DEF ContactSettled
<1> QED
  BY <1>1, <1>2, <1>3

LEMMA ContactStarts ==
  \A v \in ContactInit : Sound("contact", ContactSettled(v))
<1> SUFFICES ASSUME NEW v \in ContactInit
             PROVE  Sound("contact", ContactSettled(v))
  OBVIOUS
<1>1. OfTypes(v, ContactTypes)
  BY ContactFieldTypes DEF ContactInit, Answer3, PhoneValues, Typed
<1> QED
  BY <1>1, ContactEffects, ContactOperators, ContactFieldTypes
  DEF Sound, ContactEffect, ContactInit

LEMMA ContactShown ==
  ASSUME NEW v, OfTypes(v, ContactTypes)
  PROVE  LET shown == Shown("contact", v) IN
         /\ {"phone", "LOCAL_more_phones", "interpreter_required"} \subseteq shown
         /\ "email" \notin shown
         /\ "second_phone" \in shown <=> v.LOCAL_more_phones = "yes"
         /\ "preferred_language" \in shown <=> v.interpreter_required = "yes"
<1> DEFINE offers == ContactOffers(v)
<1>1. /\ offers.phone # {}
      /\ offers.LOCAL_more_phones # {}
      /\ offers.interpreter_required # {}
      /\ offers.email = {}
      /\ offers.second_phone # {} <=> v.LOCAL_more_phones = "yes"
      /\ offers.preferred_language # {} <=> v.interpreter_required = "yes"
  BY DEF ContactOffers, When, Typed, Chosen, PhoneValues
<1> HIDE DEF offers
<1> QED
  BY <1>1, ContactFieldTypes, ContactOperators DEF Shown, offers

LEMMA ContactErrorsAre ==
  ASSUME NEW v
  PROVE  LET errors == ContactErrors(v) IN
         /\ errors \subseteq {"phone", "second_phone", "interpreter_required",
              "preferred_language"}
         /\ "phone" \in errors <=> yupPhone(v.phone)
         /\ "second_phone" \in errors <=>
              IF v.second_phone = none THEN v.LOCAL_more_phones = "yes"
                                          ELSE yupPhone(v.second_phone)
         /\ "interpreter_required" \in errors <=> v.interpreter_required = none
         /\ "preferred_language" \in errors <=>
              v.interpreter_required = "yes" /\ NoString(v.preferred_language)
BY FailingIn, Zenon DEF ContactErrors, Failing, NoValue

LEMMA ContactRejectsOnly ==
  ASSUME NEW v, v.phone = "ok", v.second_phone \in {none, "ok"},
         v.interpreter_required # none
  PROVE  ContactRejects(v) # {} <=> v.preferred_language = "long"
<1> DEFINE rejects == ContactRejects(v)
<1>1. /\ "phone" \notin rejects
      /\ "second_phone" \notin rejects
      /\ "interpreter_required" \notin rejects
      /\ "preferred_language" \in rejects <=> v.preferred_language = "long"
  <2>1. v.second_phone # none => v.second_phone = "ok"
    OBVIOUS
  <2> QED
    BY <2>1, Zenon DEF ContactRejects, Failing, Absent, phone
<1>2. rejects \subseteq {"phone", "second_phone", "interpreter_required", "preferred_language"}
  BY FailingIn DEF ContactRejects
<1> QED
  BY <1>1, <1>2

LEMMA ContactKeeps ==
  ASSUME NEW v, Sound("contact", v)
  PROVE  Keeps("contact", v)
<1> SUFFICES ASSUME NEW f \in DOMAIN v, NEW x \in ContactOffers(v)[f], NEW u, NEW w,
                    u = [v EXCEPT ![f] = x], w = ContactSettled(u)
             PROVE  Sound("contact", w) /\ Stays("contact", v, f, x, w)
  BY ContactOperators DEF Keeps, After
<1>1. OfTypes(v, ContactTypes) /\ ContactSettled(v) = v
  BY ContactOperators DEF Sound
<1>2. /\ x \in ContactTypes[f]
      /\ f \in Shown("contact", v)
  <2>1. x \in ContactTypes[f]
    BY <1>1, ContactFieldTypes
    DEF ContactOffers, ContactTypes, When, Answer3, Typed
  <2> QED
    BY <2>1, ContactOperators DEF Shown
<1>3. OfTypes(u, ContactTypes) /\ u[f] = x /\ \A g \in DOMAIN v \ {f} : u[g] = v[g]
  BY <1>1, <1>2 DEF OfTypes
<1>4. /\ OfTypes(w, ContactTypes)
      /\ ContactEffect(u, w)
      /\ ContactSettled(w) = w
  BY <1>3, ContactEffects
<1>5. x # "mixed"
  BY <1>1, <1>2, ContactFieldTypes
  DEF ContactTypes, Answer3, Chosen, PhoneValues, Typed, none, blank
<1>6. Stays("contact", v, f, x, w)
  <2>1. f = "second_phone" => x # none
    BY DEF ContactOffers, When, PhoneValues, none
  <2>2. w[f] = x
    BY <1>1, <1>2, <1>3, <1>4, <2>1, ContactFieldTypes, ContactShown
    DEF ContactEffect
  <2>3. v.LOCAL_more_phones = "yes" => v.second_phone # none
    BY <1>1, ContactEffects DEF ContactEffect, none
  <2>4. ASSUME NEW g \in (Shown("contact", v) \cap Shown("contact", w)) \ {f}
        PROVE  w[g] = v[g]
    <3>1. g \in DOMAIN v \ {f} /\ u[g] = v[g]
      BY <1>1, <1>3, <1>4, ContactFieldTypes DEF Shown
    <3>2. w[g] = u[g]
      BY <1>1, <1>4, <2>3, <3>1, ContactFieldTypes, ContactShown DEF ContactEffect
    <3> QED
      BY <3>1, <3>2
  <2> QED
    BY <1>5, <2>2, <2>4 DEF Stays
<1> QED
  BY <1>4, <1>6, ContactOperators DEF Sound

LEMMA ContactSays ==
  ASSUME page = "contact", Sound(page, answers)
  PROVE  /\ AcceptedIsFilable
         /\ RefusalIsExplained
         /\ HiddenAnswersAreForgotten
         /\ ProgressAgreesWithNext
         /\ FiledIsReviewed
<1> DEFINE v == answers
<1>1. OfTypes(v, ContactTypes) /\ ContactSettled(v) = v
  BY ContactOperators DEF Sound
<1>2. \A f \in DOMAIN v : f \in ContactErrors(Prepared(v)) <=> f \in ContactErrors(v)
  BY <1>1, PreparedFields, ContactFieldTypes, ContactErrorsAre
  DEF none, blank, Answer3, Chosen, PhoneValues, NoString, yupPhone
<1>3. Judged(page, v)
  <2>1. ContactErrors(Prepared(v)) = ContactErrors(v)
    BY <1>1, <1>2, ContactFieldTypes, ContactErrorsAre
  <2> QED
    BY <1>1, <2>1, ContactErrorsAre, ContactShown, ContactEffects, ContactOperators
    DEF Judged, ContactEffect
<1>4. AcceptedIsFilable
  <2>1. ASSUME ContactErrors(v) = {}
        PROVE  ContactRejects(v) # {} <=> v.preferred_language = "long"
    BY <1>1, <2>1, ContactFieldTypes, ContactErrorsAre, ContactRejectsOnly
    DEF yupPhone
  <2> QED
    BY <1>3, <2>1, ContactOperators
    DEF Judged, Accepts, AcceptedIsFilable, Unauthorized, HalfAWorkSite,
        LeftBeforeStarting,
        LongLanguage
<1>5. HiddenAnswersAreForgotten
  BY <1>1, ContactFieldTypes, ContactShown, ContactEffects
  DEF HiddenAnswersAreForgotten, ContactEffect, none, blank
<1>6. FiledIsReviewed
  BY <1>1, ContactFieldTypes, ContactOperators
  DEF FiledIsReviewed, Filed, ContactReviewed, Rendered, Local
<1> QED
  BY <1>3, <1>4, <1>5, <1>6, JudgedSays

-----------------------------------------------------------------------------
(* demographic *)

LEMMA DemographicOperators ==
  /\ InitialAnswers("demographic") = DemographicInit
  /\ FieldTypes("demographic") = DemographicTypes
  /\ \A v : /\ Offers("demographic", v) = DemographicOffers(v)
            /\ Settled("demographic", v) = DemographicSettled(v)
            /\ Errors("demographic", v) = DemographicErrors(v)
            /\ Rejects("demographic", v) = DemographicRejects(v)
            /\ Reviewed("demographic", v) = DemographicReviewed(v)
            /\ Restored("demographic", v) = v
            /\ Forgets("demographic", v)
            /\ \A f : Answered("demographic", v, f) = v
BY DEF InitialAnswers, FieldTypes, Offers, Settled, Errors, Rejects, Reviewed,
   Restored,
       Forgets, Answered

LEMMA DemographicFieldTypes ==
  ASSUME NEW v
  PROVE  OfTypes(v, DemographicTypes) <=>
         /\ DOMAIN v = {"sex", "ethnicity", "race"}
         /\ v.sex \in {none, "ok"}
         /\ v.ethnicity \in {none, "ok"}
         /\ v.race \in {"empty", "one", "several", "opt_out"}
BY DEF OfTypes, DemographicTypes

LEMMA DemographicStarts ==
  \A v \in DemographicInit : Sound("demographic", DemographicSettled(v))
<1> SUFFICES ASSUME NEW v \in DemographicInit
             PROVE  Sound("demographic", DemographicSettled(v))
  OBVIOUS
<1>1. OfTypes(v, DemographicTypes) /\ DemographicSettled(v) = v
  BY DemographicFieldTypes DEF DemographicInit, DemographicSettled
<1> QED
  BY <1>1, DemographicOperators DEF Sound

LEMMA DemographicShown ==
  ASSUME NEW v, OfTypes(v, DemographicTypes)
  PROVE  Shown("demographic", v) = DOMAIN v
<1> DEFINE offers == DemographicOffers(v)
<1>1. offers.sex # {} /\ offers.ethnicity # {} /\ offers.race # {}
  BY DemographicFieldTypes DEF DemographicOffers
<1> HIDE DEF offers
<1> QED
  BY <1>1, DemographicFieldTypes, DemographicOperators DEF Shown, offers

LEMMA DemographicErrorsAre ==
  ASSUME NEW v
  PROVE  LET errors == DemographicErrors(v) IN
         /\ errors \subseteq {"sex", "ethnicity", "race"}
         /\ "sex" \in errors <=> v.sex = none
         /\ "ethnicity" \in errors <=> v.ethnicity = none
         /\ "race" \in errors <=> v.race \in {"empty", "mixed"}
BY FailingIn, Zenon DEF DemographicErrors, Failing, NoValue

LEMMA DemographicRejectsNone ==
  ASSUME NEW v, v.sex # none, v.ethnicity # none, v.race # "mixed"
  PROVE  DemographicRejects(v) = {}
<1> DEFINE rejects == DemographicRejects(v)
<1>1. "sex" \notin rejects /\ "ethnicity" \notin rejects /\ "race" \notin rejects
  BY Zenon DEF DemographicRejects, Failing, Absent
<1>2. rejects \subseteq {"sex", "ethnicity", "race"}
  BY FailingIn DEF DemographicRejects
<1> QED
  BY <1>1, <1>2

\* The box opt_out unticks the others.
LEMMA DemographicKeeps ==
  ASSUME NEW v, Sound("demographic", v)
  PROVE  Keeps("demographic", v)
<1> SUFFICES ASSUME NEW f \in DOMAIN v, NEW x \in DemographicOffers(v)[f],
                    NEW u, NEW w,
                    u = [v EXCEPT ![f] = x], w = DemographicSettled(u)
             PROVE  Sound("demographic", w) /\ Stays("demographic", v, f, x, w)
  BY DemographicOperators DEF Keeps, After
<1>1. OfTypes(v, DemographicTypes)
  BY DemographicOperators DEF Sound
<1>2. /\ f \in {"sex", "ethnicity"} => x = "ok"
      /\ f = "race" => x \in {"empty", "one", "several", "opt_out", "mixed"}
  BY <1>1, DemographicFieldTypes DEF DemographicOffers
<1>3. DOMAIN u = DOMAIN v /\ u[f] = x /\ \A g \in DOMAIN v \ {f} : u[g] = v[g]
  OBVIOUS
<1>4. /\ DOMAIN w = DOMAIN v
      /\ w.sex = u.sex /\ w.ethnicity = u.ethnicity
      /\ w.race = IF u.race = "mixed" THEN "opt_out" ELSE u.race
      /\ w = [g \in DOMAIN w |-> w[g]]
  BY <1>1, <1>3, DemographicFieldTypes DEF DemographicSettled
<1>5. OfTypes(w, DemographicTypes)
  BY <1>1, <1>2, <1>3, <1>4, DemographicFieldTypes
<1>6. DemographicSettled(w) = w
  BY <1>4 DEF DemographicSettled
<1>7. Stays("demographic", v, f, x, w)
  <2>1. /\ f \in {"sex", "ethnicity", "race"}
        /\ w[f] = IF x = "mixed" THEN "opt_out" ELSE x
    BY <1>1, <1>2, <1>3, <1>4, DemographicFieldTypes
  <2>2. ASSUME NEW g \in DOMAIN v \ {f}
        PROVE  w[g] = v[g]
    BY <1>1, <1>3, <1>4, DemographicFieldTypes
  <2> QED
    BY <2>1, <2>2 DEF Stays, Shown
<1> QED
  BY <1>5, <1>6, <1>7, DemographicOperators DEF Sound

LEMMA DemographicSays ==
  ASSUME page = "demographic", Sound(page, answers)
  PROVE  /\ AcceptedIsFilable
         /\ RefusalIsExplained
         /\ HiddenAnswersAreForgotten
         /\ ProgressAgreesWithNext
         /\ FiledIsReviewed
<1> DEFINE v == answers
<1>1. OfTypes(v, DemographicTypes) /\ DemographicSettled(v) = v
  BY DemographicOperators DEF Sound
<1>2. \A f \in DOMAIN v : 
        f \in DemographicErrors(Prepared(v)) <=> f \in DemographicErrors(v)
  BY <1>1, PreparedFields, DemographicFieldTypes, DemographicErrorsAre
  DEF none, blank
<1>3. Judged(page, v)
  <2>1. DemographicErrors(Prepared(v)) = DemographicErrors(v)
    BY <1>1, <1>2, DemographicFieldTypes, DemographicErrorsAre
  <2> QED
    BY <1>1, <2>1, DemographicFieldTypes, DemographicErrorsAre, DemographicShown,
       DemographicOperators
    DEF Judged
<1>4. AcceptedIsFilable
  <2>1. ASSUME DemographicErrors(v) = {}
        PROVE  DemographicRejects(v) = {}
    BY <1>1, <2>1, DemographicFieldTypes, DemographicErrorsAre,
       DemographicRejectsNone
    DEF none, blank
  <2> QED
    BY <1>3, <2>1, DemographicOperators
    DEF Judged, Accepts, AcceptedIsFilable, Unauthorized, HalfAWorkSite,
        LeftBeforeStarting,
        LongLanguage
<1>5. HiddenAnswersAreForgotten
  BY <1>1, DemographicFieldTypes, DemographicShown
  DEF HiddenAnswersAreForgotten
<1>6. FiledIsReviewed
  BY <1>1, DemographicFieldTypes, DemographicOperators
  DEF FiledIsReviewed, Filed, DemographicReviewed, Rendered
<1> QED
  BY <1>3, <1>4, <1>5, <1>6, JudgedSays

-----------------------------------------------------------------------------
(* identity *)

LEMMA IdentityOperators ==
  /\ InitialAnswers("identity") = IdentityInit
  /\ FieldTypes("identity") = IdentityTypes
  /\ \A v : /\ Offers("identity", v) = IdentityOffers(v)
            /\ Settled("identity", v) = IdentitySettled(v)
            /\ Errors("identity", v) = IdentityErrors(v)
            /\ Rejects("identity", v) = IdentityRejects(v)
            /\ Reviewed("identity", v) = IdentityReviewed(v)
            /\ Restored("identity", v) = v
            /\ Forgets("identity", v)
            /\ \A f : Answered("identity", v, f) = v
BY DEF InitialAnswers, FieldTypes, Offers, Settled, Errors, Rejects, Reviewed,
   Restored,
       Forgets, Answered

LEMMA IdentityFieldTypes ==
  ASSUME NEW v
  PROVE  OfTypes(v, IdentityTypes) <=>
         /\ DOMAIN v = {"ssn", "birthdate", "license", "issuer",
                         "authorized_to_work",
                         "not_authorized_to_work_explanation",
                         "authorization_type", "alien_registration_number"}
         /\ v.ssn \in {blank, "dashed", "plain", "bad"}
         /\ v.birthdate \in {blank, "bad", "future", "ok"}
         /\ v.license \in Typed
         /\ v.issuer \in Text
         /\ v.authorized_to_work \in Answer3
         /\ v.not_authorized_to_work_explanation \in Text
         /\ v.authorization_type \in AuthorizationType \cup {none, blank}
         /\ v.alien_registration_number \in {none, blank, "dashed", "plain", "bad"}
BY DEF OfTypes, IdentityTypes

\* The values the effects leave, field by field.
IdentityEffect(u, w) ==
  /\ w.ssn = u.ssn
  /\ w.birthdate = u.birthdate
  /\ w.license = u.license
  /\ w.issuer = u.issuer
  /\ w.authorized_to_work = u.authorized_to_work
  /\ w.not_authorized_to_work_explanation =
       IF NotAllowed(u) THEN u.not_authorized_to_work_explanation ELSE none
  /\ w.authorization_type = IF Authorized(u) THEN u.authorization_type ELSE none
  /\ w.alien_registration_number =
       IF Authorized(u) /\ Alien(u) THEN u.alien_registration_number ELSE none

LEMMA IdentityEffects ==
  ASSUME NEW u, NEW w, w = IdentitySettled(u), OfTypes(u, IdentityTypes)
  PROVE  /\ OfTypes(w, IdentityTypes)
         /\ IdentityEffect(u, w)
         /\ IdentitySettled(w) = w
<1>1. ASSUME NEW y, OfTypes(y, IdentityTypes)
      PROVE  /\ DOMAIN IdentitySettled(y) = DOMAIN y
             /\ IdentitySettled(y) = [f \in DOMAIN y |-> IdentitySettled(y)[f]]
             /\ IdentityEffect(y, IdentitySettled(y))
  <2> DEFINE a == Cleared(y, ~Authorized(y),
                          {"authorization_type", "alien_registration_number"}, none)
             b == Cleared(a, ~NotAllowed(a), {"not_authorized_to_work_explanation"}, none)
             c == Cleared(b, ~Alien(b), {"alien_registration_number"}, none)
  <2>1. IdentitySettled(y) = c
    BY DEF IdentitySettled
  <2>2. /\ DOMAIN a = DOMAIN y
        /\ \A f \in DOMAIN y :
             a[f] = IF /\ ~Authorized(y)
                       /\ f \in {"authorization_type", "alien_registration_number"}
                    THEN none ELSE y[f]
    BY DEF Cleared
  <2> HIDE DEF a
  <2>3. /\ DOMAIN b = DOMAIN y
        /\ \A f \in DOMAIN y :
             b[f] = IF ~NotAllowed(a) /\ f = "not_authorized_to_work_explanation"
                    THEN none ELSE a[f]
    BY <2>2 DEF Cleared
  <2> HIDE DEF b
  <2>4. /\ DOMAIN c = DOMAIN y
        /\ c = [f \in DOMAIN y |-> c[f]]
        /\ \A f \in DOMAIN y :
             c[f] = IF ~Alien(b) /\ f = "alien_registration_number" THEN none ELSE b[f]
    BY <2>3 DEF Cleared
  <2> HIDE DEF c
  <2>5. IdentityEffect(y, c)
    BY <1>1, <2>2, <2>3, <2>4, IdentityFieldTypes
    DEF IdentityEffect, Authorized, NotAllowed, Alien
  <2> QED
    BY <2>1, <2>4, <2>5
<1>2. OfTypes(w, IdentityTypes)
  BY <1>1, IdentityFieldTypes DEF IdentityEffect, Text
<1>3. IdentitySettled(w) = w
  <2>1. IdentityEffect(w, w)
    BY <1>1 DEF IdentityEffect, Authorized, NotAllowed, Alien
  <2>2. \A f \in DOMAIN w : IdentitySettled(w)[f] = w[f]
    BY <1>1, <1>2, <2>1, IdentityFieldTypes DEF IdentityEffect
  <2> QED
    BY <1>1, <1>2, <2>2
<1> QED
  BY <1>1, <1>2, <1>3

LEMMA IdentityStarts ==
  \A v \in IdentityInit : Sound("identity", IdentitySettled(v))
<1> SUFFICES ASSUME NEW v \in IdentityInit
             PROVE  Sound("identity", IdentitySettled(v))
  OBVIOUS
<1>1. OfTypes(v, IdentityTypes)
  BY IdentityFieldTypes DEF IdentityInit, Answer3, Text, Typed
<1> QED
  BY <1>1, IdentityEffects, IdentityOperators, IdentityFieldTypes
  DEF Sound, IdentityEffect, IdentityInit

LEMMA IdentityShown ==
  ASSUME NEW v, OfTypes(v, IdentityTypes)
  PROVE  LET shown == Shown("identity", v) IN
         /\ {"ssn", "birthdate", "license", "issuer", "authorized_to_work"} \subseteq shown
         /\ "not_authorized_to_work_explanation" \in shown <=> NotAllowed(v)
         /\ "authorization_type" \in shown <=> Authorized(v)
         /\ "alien_registration_number" \in shown <=> Authorized(v) /\ Alien(v)
<1> DEFINE offers == IdentityOffers(v)
<1>1. /\ offers.ssn # {}
      /\ offers.birthdate # {}
      /\ offers.license # {}
      /\ offers.issuer # {}
      /\ offers.authorized_to_work # {}
      /\ offers.not_authorized_to_work_explanation # {} <=> NotAllowed(v)
      /\ offers.authorization_type # {} <=> Authorized(v)
      /\ offers.alien_registration_number # {} <=> Authorized(v) /\ Alien(v)
  BY DEF IdentityOffers, When, Typed, Chosen, AuthorizationType
<1> HIDE DEF offers
<1> QED
  BY <1>1, IdentityFieldTypes, IdentityOperators DEF Shown, offers

LEMMA IdentityErrorsAre ==
  ASSUME NEW v
  PROVE  LET errors == IdentityErrors(v) IN
         /\ errors \subseteq {"ssn", "birthdate", "license", "issuer",
              "authorized_to_work", "not_authorized_to_work_explanation",
              "authorization_type", "alien_registration_number"}
         /\ "ssn" \in errors <=> v.ssn \notin {"dashed", "plain"}
         /\ "birthdate" \in errors <=> NoDate(v.birthdate) \/ v.birthdate = "future"
         /\ "license" \in errors <=> NoString(v.license)
         /\ "issuer" \in errors <=> NoString(v.issuer)
         /\ "authorized_to_work" \in errors <=> v.authorized_to_work = none
         /\ "not_authorized_to_work_explanation" \in errors <=>
              NotAllowed(v) /\ NoString(v.not_authorized_to_work_explanation)
         /\ "authorization_type" \in errors <=>
              Authorized(v) /\ NoString(v.authorization_type)
         /\ "alien_registration_number" \in errors <=>
              Alien(v) /\ v.alien_registration_number \notin {"dashed", "plain"}
BY FailingIn, Zenon DEF IdentityErrors, Failing, NoValue

LEMMA IdentityRejectsNone ==
  ASSUME NEW v, v.ssn \in {"dashed", "plain"}, v.birthdate \notin {blank, "bad"},
         v.license # none, v.issuer = "ok", v.authorized_to_work = "yes",
         v.authorization_type \in AuthorizationType,
         IF v.authorization_type = "US_citizen_or_national"
         THEN v.alien_registration_number = none
         ELSE v.alien_registration_number \in {"dashed", "plain"}
  PROVE  IdentityRejects(v) = {}
<1> DEFINE rejects == IdentityRejects(v)
<1>1. /\ CleanedNumber(v.ssn) = "dashed"
      /\ CleanedNumber(v.alien_registration_number) \in {none, "dashed"}
      /\ v.authorized_to_work # none /\ ~NotAllowed(v)
      /\ \/ v.authorization_type = "US_citizen_or_national"
         \/ v.alien_registration_number # none
  BY DEF CleanedNumber, NotAllowed, none
<1>2. /\ "ssn" \notin rejects
      /\ "birthdate" \notin rejects
      /\ "license" \notin rejects
      /\ "issuer" \notin rejects
      /\ "authorized_to_work" \notin rejects
      /\ "not_authorized_to_work_explanation" \notin rejects
      /\ "authorization_type" \notin rejects
      /\ "alien_registration_number" \notin rejects
  BY <1>1, Zenon DEF IdentityRejects, Failing, Absent, date
<1>3. rejects \subseteq
        {"ssn", "birthdate", "license", "issuer", "authorized_to_work",
         "not_authorized_to_work_explanation", "authorization_type",
         "alien_registration_number"}
  BY FailingIn DEF IdentityRejects
<1> QED
  BY <1>2, <1>3

LEMMA IdentityRejectsSome ==
  ASSUME NEW v, v.authorization_type \notin AuthorizationType
  PROVE  IdentityRejects(v) # {}
<1>1. "authorization_type" \in IdentityRejects(v)
  BY Zenon DEF IdentityRejects, Failing
<1> QED
  BY <1>1

LEMMA IdentityKeeps ==
  ASSUME NEW v, Sound("identity", v)
  PROVE  Keeps("identity", v)
<1> SUFFICES ASSUME NEW f \in DOMAIN v, NEW x \in IdentityOffers(v)[f],
                    NEW u, NEW w,
                    u = [v EXCEPT ![f] = x], w = IdentitySettled(u)
             PROVE  Sound("identity", w) /\ Stays("identity", v, f, x, w)
  BY IdentityOperators DEF Keeps, After
<1>1. OfTypes(v, IdentityTypes)
  BY IdentityOperators DEF Sound
<1>2. /\ x \in IdentityTypes[f]
      /\ f \in Shown("identity", v)
  <2>1. x \in IdentityTypes[f]
    <3>1. CASE f \in {"ssn", "birthdate", "license", "issuer", "authorized_to_work"}
      BY <3>1 DEF IdentityOffers, IdentityTypes, Answer3, Text, Typed
    <3>2. CASE f \in {"not_authorized_to_work_explanation", "authorization_type"}
      BY <3>2 DEF IdentityOffers, IdentityTypes, When, Text, Typed
    <3>3. CASE f = "alien_registration_number"
      BY <3>3 DEF IdentityOffers, IdentityTypes, When
    <3> QED
      BY <1>1, <3>1, <3>2, <3>3, IdentityFieldTypes
  <2> QED
    BY <2>1, IdentityOperators DEF Shown
<1>3. OfTypes(u, IdentityTypes) /\ u[f] = x /\ \A g \in DOMAIN v \ {f} : u[g] = v[g]
  BY <1>1, <1>2 DEF OfTypes
<1>4. /\ OfTypes(w, IdentityTypes)
      /\ IdentityEffect(u, w)
      /\ IdentitySettled(w) = w
  BY <1>3, IdentityEffects
<1>5. x # "mixed"
  BY <1>1, <1>2, IdentityFieldTypes
  DEF IdentityTypes, Answer3, Chosen, Text, Typed, AuthorizationType, none, blank
<1>6. Stays("identity", v, f, x, w)
  <2>1. w[f] = x
    BY <1>1, <1>2, <1>3, <1>4, IdentityFieldTypes, IdentityShown
    DEF IdentityEffect, Authorized, NotAllowed, Alien
  <2>2. ASSUME NEW g \in Shown("identity", w) \ {f}
        PROVE  w[g] = v[g]
    <3>1. g \in DOMAIN v \ {f} /\ u[g] = v[g]
      BY <1>1, <1>3, <1>4, IdentityFieldTypes DEF Shown
    <3>2. w[g] = u[g]
      BY <1>1, <1>4, <3>1, IdentityFieldTypes, IdentityShown
      DEF IdentityEffect, Authorized, NotAllowed, Alien
    <3> QED
      BY <3>1, <3>2
  <2> QED
    BY <1>5, <2>1, <2>2 DEF Stays
<1> QED
  BY <1>4, <1>6, IdentityOperators DEF Sound

LEMMA IdentitySays ==
  ASSUME page = "identity", Sound(page, answers)
  PROVE  /\ AcceptedIsFilable
         /\ RefusalIsExplained
         /\ HiddenAnswersAreForgotten
         /\ ProgressAgreesWithNext
         /\ FiledIsReviewed
<1> DEFINE v == answers
<1>1. OfTypes(v, IdentityTypes) /\ IdentitySettled(v) = v
  BY IdentityOperators DEF Sound
<1>2. IdentityEffect(v, v)
  BY <1>1, IdentityEffects
<1>3. \A f \in DOMAIN v : 
        f \in IdentityErrors(Prepared(v)) <=> f \in IdentityErrors(v)
  BY <1>1, PreparedFields, IdentityFieldTypes, IdentityErrorsAre
  DEF none, blank, Answer3, Chosen, NoString, NoDate, Authorized, NotAllowed, Alien
<1>4. Judged(page, v)
  <2>1. IdentityErrors(Prepared(v)) = IdentityErrors(v)
    BY <1>1, <1>3, IdentityFieldTypes, IdentityErrorsAre
  <2> QED
    BY <1>1, <1>2, <2>1, IdentityErrorsAre, IdentityShown, IdentityOperators
    DEF Judged, IdentityEffect, Alien, none
<1>5. AcceptedIsFilable
  <2>1. ASSUME IdentityErrors(v) = {}, v.authorized_to_work = "yes"
        PROVE  IdentityRejects(v) = {}
    BY <1>1, <1>2, <2>1, IdentityFieldTypes, IdentityErrorsAre, IdentityRejectsNone
    DEF IdentityEffect, Authorized, Alien, AuthorizationType, NoString, NoDate,
        Text, Typed, none, blank
  <2>2. ASSUME v.authorized_to_work = "no"
        PROVE  IdentityRejects(v) # {}
    BY <1>1, <1>2, <2>2, IdentityRejectsSome
    DEF IdentityEffect, Authorized, AuthorizationType, none
  <2>3. IdentityErrors(v) = {} => v.authorized_to_work \in {"yes", "no"}
    BY <1>1, IdentityFieldTypes, IdentityErrorsAre DEF Answer3, Chosen
  <2> QED
    BY <1>4, <2>1, <2>2, <2>3, IdentityOperators
    DEF Judged, Accepts, AcceptedIsFilable, Unauthorized, HalfAWorkSite,
        LeftBeforeStarting,
        LongLanguage
<1>6. HiddenAnswersAreForgotten
  BY <1>1, <1>2, IdentityFieldTypes, IdentityShown
  DEF HiddenAnswersAreForgotten, IdentityEffect, none, blank
<1>7. FiledIsReviewed
  BY IdentityOperators DEF FiledIsReviewed, Filed, IdentityReviewed, Rendered
<1> QED
  BY <1>4, <1>5, <1>6, <1>7, JudgedSays

-----------------------------------------------------------------------------
(* employer: how to reach the employer *)

LEMMA EmployerContactOperators ==
  /\ InitialAnswers("employer_contact") = EmployerContactInit
  /\ FieldTypes("employer_contact") = EmployerContactTypes
  /\ \A v : /\ Offers("employer_contact", v) = EmployerContactOffers(v)
            /\ Settled("employer_contact", v) = EmployerContactSettled(v)
            /\ Errors("employer_contact", v) = EmployerContactErrors(v)
            /\ Rejects("employer_contact", v) = EmployerContactRejects(v)
            /\ Reviewed("employer_contact", v) = EmployerContactReviewed(v)
            /\ Restored("employer_contact", v) = EmployerContactRestored(v)
            /\ Forgets("employer_contact", v) <=> EmployerContactForgets(v)
            /\ \A f : Answered("employer_contact", v, f) = v
BY DEF InitialAnswers, FieldTypes, Offers, Settled, Errors, Rejects, Reviewed,
   Restored,
       Forgets, Answered

LEMMA EmployerContactFieldTypes ==
  ASSUME NEW v
  PROVE  OfTypes(v, EmployerContactTypes) <=>
         /\ DOMAIN v = {"name", "address", "LOCAL_same_address",
                         "work_site_address", "phone", "LOCAL_same_phone",
                         "second_phone", "fein"}
         /\ v.name \in Typed \cup {"long"}
         /\ v.address \in AddressValues \ {"other"}
         /\ v.LOCAL_same_address \in Answer3
         /\ v.work_site_address \in (AddressValues \ {"other"}) \cup {none}
         /\ v.phone \in PhoneValues
         /\ v.LOCAL_same_phone \in Answer3
         /\ v.second_phone \in PhoneValues \cup {none}
         /\ v.fein \in {blank, "bad", "plain"}
BY DEF OfTypes, EmployerContactTypes

LEMMA EmployerContactStarts ==
  \A v \in EmployerContactInit : Sound("employer_contact", EmployerContactSettled(v))
<1> SUFFICES ASSUME NEW v \in EmployerContactInit
             PROVE  Sound("employer_contact", EmployerContactSettled(v))
  OBVIOUS
<1>1. OfTypes(v, EmployerContactTypes)
  BY EmployerContactFieldTypes
  DEF EmployerContactInit, Answer3, Typed, AddressValues, PhoneValues
<1> QED
  BY <1>1, EmployerContactOperators
  DEF Sound, EmployerContactSettled, EmployerContactForgets, EmployerContactInit

LEMMA EmployerContactShown ==
  ASSUME NEW v, OfTypes(v, EmployerContactTypes)
  PROVE  LET shown == Shown("employer_contact", v) IN
         /\ {"name", "address", "LOCAL_same_address", "phone",
             "LOCAL_same_phone", "fein"} \subseteq shown
         /\ "work_site_address" \in shown <=> v.LOCAL_same_address = "no"
         /\ "second_phone" \in shown <=> v.LOCAL_same_phone = "no"
<1> DEFINE offers == EmployerContactOffers(v)
<1>1. /\ offers.name # {}
      /\ offers.address # {}
      /\ offers.LOCAL_same_address # {}
      /\ offers.phone # {}
      /\ offers.LOCAL_same_phone # {}
      /\ offers.fein # {}
      /\ offers.work_site_address # {} <=> v.LOCAL_same_address = "no"
      /\ offers.second_phone # {} <=> v.LOCAL_same_phone = "no"
  BY DEF EmployerContactOffers, When, Typed, Chosen, AddressValues,
         PhoneValues
<1> HIDE DEF offers
<1> QED
  BY <1>1, EmployerContactFieldTypes, EmployerContactOperators DEF Shown, offers

LEMMA EmployerContactErrorsAre ==
  ASSUME NEW v
  PROVE  LET errors == EmployerContactErrors(v) IN
         /\ errors \subseteq {"name", "address", "LOCAL_same_address",
              "work_site_address", "phone", "LOCAL_same_phone", "phones",
              "second_phone", "fein"}
         /\ "name" \in errors <=> NoString(v.name) \/ v.name = "long"
         /\ "address" \in errors <=> yupAddress(v.address)
         /\ "LOCAL_same_address" \in errors <=> v.LOCAL_same_address = none
         /\ "work_site_address" \in errors <=>
              v.LOCAL_same_address = "no" /\ yupAddress(v.work_site_address)
         /\ "phone" \in errors <=> yupPhone(v.phone)
         /\ "LOCAL_same_phone" \in errors <=> v.LOCAL_same_phone = none
         /\ "phones" \in errors <=>
              \/ v.LOCAL_same_phone = "no" /\ v.second_phone = none
              \/ v.LOCAL_same_phone = "yes" /\ v.second_phone # none
         /\ "second_phone" \in errors <=>
              v.second_phone # none /\ yupPhone(v.second_phone)
         /\ "fein" \in errors <=> v.fein = "bad"
BY FailingIn, Zenon DEF EmployerContactErrors, Failing, NoValue

LEMMA EmployerContactRejectsOnly ==
  ASSUME NEW v, v.name # "long", ~ address(v.address), v.phone = "ok",
         v.second_phone \in {none, "ok"}
  PROVE  EmployerContactRejects(v) # {} <=>
           v.work_site_address # none /\ address(v.work_site_address)
<1> DEFINE rejects == EmployerContactRejects(v)
<1>1. ~ (v.second_phone # none /\ phone(v.second_phone)) /\ ~ phone(v.phone)
  BY DEF phone
<1>2. /\ "name" \notin rejects
      /\ "address" \notin rejects
      /\ "phone" \notin rejects
      /\ "second_phone" \notin rejects
      /\ "work_site_address" \in rejects <=>
           v.work_site_address # none /\ address(v.work_site_address)
  BY <1>1, Zenon DEF EmployerContactRejects, Failing
<1>3. rejects \subseteq {"name", "address", "phone", "second_phone", "work_site_address"}
  BY FailingIn DEF EmployerContactRejects
<1> QED
  BY <1>2, <1>3

LEMMA EmployerContactKeeps ==
  ASSUME NEW v, Sound("employer_contact", v)
  PROVE  Keeps("employer_contact", v)
<1> SUFFICES ASSUME NEW f \in DOMAIN v, NEW x \in EmployerContactOffers(v)[f], NEW w,
                    w = [v EXCEPT ![f] = x]
             PROVE  Sound("employer_contact", w) /\ Stays("employer_contact", v, f, x, w)
  BY EmployerContactOperators DEF Keeps, After, EmployerContactSettled
<1>1. OfTypes(v, EmployerContactTypes) /\ EmployerContactForgets(v)
  BY EmployerContactOperators DEF Sound
<1>2. x \in EmployerContactTypes[f]
  <2>1. CASE f \in {"name", "address", "phone", "fein"}
    BY <2>1 DEF EmployerContactOffers, EmployerContactTypes
  <2>2. CASE f \in {"LOCAL_same_address", "LOCAL_same_phone"}
    BY <2>2 DEF EmployerContactOffers, EmployerContactTypes, Answer3
  <2>3. CASE f \in {"work_site_address", "second_phone"}
    BY <2>3 DEF EmployerContactOffers, EmployerContactTypes, When
  <2> QED
    BY <1>1, <2>1, <2>2, <2>3, EmployerContactFieldTypes
<1>3. /\ f = "LOCAL_same_phone" => x \in Chosen
      /\ f = "second_phone" => v.LOCAL_same_phone = "no"
  BY DEF EmployerContactOffers, When
<1>4. OfTypes(w, EmployerContactTypes) /\ w[f] = x /\ \A g \in DOMAIN v \ {f} : w[g] = v[g]
  BY <1>1, <1>2 DEF OfTypes
<1>5. EmployerContactForgets(w)
  BY <1>1, <1>3, <1>4, EmployerContactFieldTypes
  DEF EmployerContactForgets, Chosen, none
<1>6. x # "mixed"
  BY <1>1, <1>2, EmployerContactFieldTypes
  DEF EmployerContactTypes, Answer3, Chosen, Typed, AddressValues, PhoneValues,
      none, blank
<1>7. Stays("employer_contact", v, f, x, w)
  BY <1>4, <1>6 DEF Stays, Shown
<1> QED
  BY <1>4, <1>5, <1>7, EmployerContactOperators DEF Sound, EmployerContactSettled

LEMMA EmployerContactSays ==
  ASSUME page = "employer_contact", Sound(page, answers)
  PROVE  /\ AcceptedIsFilable
         /\ RefusalIsExplained
         /\ HiddenAnswersAreForgotten
         /\ ProgressAgreesWithNext
         /\ FiledIsReviewed
<1> DEFINE v == answers
<1>1. OfTypes(v, EmployerContactTypes) /\ EmployerContactForgets(v)
  BY EmployerContactOperators DEF Sound
<1>2. \A f \in DOMAIN v \cup {"phones"} :
        f \in EmployerContactErrors(Prepared(v)) <=> f \in EmployerContactErrors(v)
  BY <1>1, PreparedFields, EmployerContactFieldTypes, EmployerContactErrorsAre
  DEF none, blank, Answer3, Chosen, Typed, AddressValues, PhoneValues, NoString,
      yupAddress,
      yupPhone
<1>3. EmployerContactErrors(Prepared(v)) = EmployerContactErrors(v)
  BY <1>1, <1>2, EmployerContactFieldTypes, EmployerContactErrorsAre
<1>4. AcceptedIsFilable
  <2>1. ASSUME EmployerContactErrors(v) = {}
        PROVE  EmployerContactRejects(v) # {} <=>
                 v.LOCAL_same_address = "yes" /\ v.work_site_address \in {"empty", "part"}
    BY <1>1, <2>1, EmployerContactFieldTypes, EmployerContactErrorsAre,
       EmployerContactRejectsOnly
    DEF Answer3, Chosen, AddressValues, yupAddress, yupPhone, address, none
  <2> QED
    BY <1>3, <2>1, EmployerContactOperators
    DEF Accepts, AcceptedIsFilable, Unauthorized, HalfAWorkSite, LeftBeforeStarting,
        LongLanguage
<1>5. HiddenAnswersAreForgotten
  BY <1>1, EmployerContactFieldTypes, EmployerContactShown
  DEF HiddenAnswersAreForgotten
<1>6. FiledIsReviewed
  BY EmployerContactOperators
  DEF FiledIsReviewed, Filed, EmployerContactReviewed, Rendered
<1>7. RefusalIsExplained
  <2>1. ASSUME NEW f \in EmployerContactErrors(v)
        PROVE  \/ f \in Shown(page, v)
               \/ v.LOCAL_same_phone = "yes" /\ v.second_phone # none
               \/ v.LOCAL_same_phone = "no" /\ v.second_phone = none
    BY <1>1, <2>1, EmployerContactFieldTypes, EmployerContactErrorsAre,
       EmployerContactShown
    DEF EmployerContactForgets, Answer3, Chosen
  <2> QED
    BY <1>3, <2>1, EmployerContactOperators
    DEF RefusalIsExplained, WrongNumberOfPhones
<1>8. ProgressAgreesWithNext
  BY <1>3, EmployerContactOperators DEF ProgressAgreesWithNext, Progresses, Accepts
<1> QED
  BY <1>4, <1>5, <1>6, <1>7, <1>8

\* What comes back from the saved values.
EmployerContactComesBack(v, w) ==
  /\ \A f \in DOMAIN v \ {"LOCAL_same_address", "LOCAL_same_phone"} : w[f] = v[f]
  /\ w.LOCAL_same_address =
       IF v.LOCAL_same_address = "yes" \/ v.work_site_address = none THEN "yes" ELSE "no"
  /\ w.LOCAL_same_phone =
       IF v.LOCAL_same_phone # "yes" /\ v.second_phone # none THEN "no" ELSE v.LOCAL_same_phone

LEMMA EmployerContactReturns ==
  ASSUME NEW v, Sound("employer_contact", v), NEW w, w = EmployerContactRestored(v)
  PROVE  Sound("employer_contact", w) /\ EmployerContactComesBack(v, w)
<1>1. OfTypes(v, EmployerContactTypes) /\ EmployerContactForgets(v)
  BY EmployerContactOperators DEF Sound
<1>2. DOMAIN w = DOMAIN v /\ EmployerContactComesBack(v, w)
  BY <1>1, EmployerContactFieldTypes
  DEF EmployerContactRestored, EmployerContactComesBack
<1>3. OfTypes(w, EmployerContactTypes)
  BY <1>1, <1>2, EmployerContactFieldTypes
  DEF EmployerContactComesBack, Answer3, Chosen
<1>4. EmployerContactForgets(w)
  BY <1>1, <1>2, EmployerContactFieldTypes
  DEF EmployerContactForgets, EmployerContactComesBack, none
<1> QED
  BY <1>2, <1>3, <1>4, EmployerContactOperators DEF Sound, EmployerContactSettled

LEMMA EmployerContactReturnKeeps ==
  ASSUME page = "employer_contact", Sound(page, answers)
  PROVE  ReturnKeepsAnswers
<1> DEFINE v == answers
           w == EmployerContactRestored(v)
<1>1. OfTypes(v, EmployerContactTypes) /\ EmployerContactForgets(v)
  BY EmployerContactOperators DEF Sound
<1>2. OfTypes(w, EmployerContactTypes) /\ EmployerContactComesBack(v, w)
  BY EmployerContactReturns, EmployerContactOperators DEF Sound
<1> HIDE DEF w
<1>3. ASSUME NEW f \in DOMAIN v
      PROVE  w[f] = v[f] \/ AnsweredForHer(f)
  BY <1>1, <1>2, EmployerContactFieldTypes
  DEF EmployerContactComesBack, EmployerContactForgets, AnsweredForHer, Answer3,
      Chosen
<1>4. ASSUME EmployerContactErrors(Prepared(v)) = {}
      PROVE  EmployerContactErrors(Prepared(w)) = {}
  <2> DEFINE p == Prepared(v)
             q == Prepared(w)
  <2>1. /\ DOMAIN v = DOMAIN EmployerContactTypes /\ DOMAIN w = DOMAIN EmployerContactTypes
        /\ \A f \in DOMAIN v : p[f] = IF v[f] = blank THEN none ELSE v[f]
        /\ \A f \in DOMAIN v : q[f] = IF w[f] = blank THEN none ELSE w[f]
    BY <1>1, <1>2, PreparedFields DEF OfTypes
  <2> HIDE DEF p, q
  <2>2. /\ v.LOCAL_same_address \in Chosen
        /\ v.LOCAL_same_address = "no" => v.work_site_address # none
    BY <1>1, <1>4, <2>1, EmployerContactFieldTypes, EmployerContactErrorsAre
    DEF p, Answer3, Chosen, yupAddress, none, blank
  <2>3. \A f \in DOMAIN v : w[f] = v[f]
    BY <1>1, <1>2, <2>2, EmployerContactFieldTypes
    DEF EmployerContactComesBack, EmployerContactForgets, Answer3, Chosen
  <2>4. \A f \in DOMAIN v : q[f] = p[f]
    BY <2>1, <2>3
  <2>5. EmployerContactErrors(q) = EmployerContactErrors(p)
    BY <1>1, <2>4, EmployerContactFieldTypes, EmployerContactErrorsAre
  <2> QED
    BY <1>4, <2>5 DEF p, q
<1> QED
  BY <1>3, <1>4, EmployerContactOperators
  DEF ReturnKeepsAnswers, Accepts, Shown, EmployerContactSettled, w

-----------------------------------------------------------------------------
(* employer: why and when the work ended *)

LEMMA EmployerSeparationOperators ==
  /\ InitialAnswers("employer_separation") = EmployerSeparationInit
  /\ FieldTypes("employer_separation") = EmployerSeparationTypes
  /\ \A v : /\ Offers("employer_separation", v) = EmployerSeparationOffers(v)
            /\ Settled("employer_separation", v) = EmployerSeparationSettled(v)
            /\ Errors("employer_separation", v) = EmployerSeparationErrors(v)
            /\ Rejects("employer_separation", v) = EmployerSeparationRejects(v)
            /\ Reviewed("employer_separation", v) = EmployerSeparationReviewed(v)
            /\ Restored("employer_separation", v) = v
            /\ Forgets("employer_separation", v) <=> EmployerSeparationForgets(v)
            /\ \A f : Answered("employer_separation", v, f) = EmployerSeparationAnswered(v, f)
BY DEF InitialAnswers, FieldTypes, Offers, Settled, Errors, Rejects, Reviewed,
   Restored,
       Forgets, Answered

LEMMA EmployerSeparationFieldTypes ==
  ASSUME NEW v
  PROVE  OfTypes(v, EmployerSeparationTypes) <=>
         /\ DOMAIN v = {"self_employed", "separation_reason",
                         "separation_option", "separation_comment",
                         "first_work_date", "last_work_date"}
         /\ v.self_employed \in Answer3
         /\ v.separation_reason \in Reasons \cup {none}
         /\ v.separation_option \in {none, "ok"}
         /\ v.separation_comment \in Text \cup {"long"}
         /\ v.first_work_date \in PickedDate \cup {blank}
         /\ v.last_work_date \in PickedDate
BY DEF OfTypes, EmployerSeparationTypes

\* The values the effects leave, field by field.
EmployerSeparationEffect(u, w) ==
  /\ w.self_employed = u.self_employed
  /\ w.separation_reason =
       IF u.self_employed = "yes" THEN none ELSE u.separation_reason
  /\ w.separation_option =
       IF u.self_employed = "yes" THEN none ELSE u.separation_option
  /\ w.separation_comment =
       IF u.self_employed = "yes" THEN none ELSE u.separation_comment
  /\ w.first_work_date = u.first_work_date
  /\ w.last_work_date = u.last_work_date

LEMMA EmployerSeparationEffects ==
  ASSUME NEW u, NEW w, w = EmployerSeparationSettled(u), OfTypes(u, EmployerSeparationTypes)
  PROVE  /\ OfTypes(w, EmployerSeparationTypes)
         /\ EmployerSeparationEffect(u, w)
         /\ EmployerSeparationSettled(w) = w
<1>1. DOMAIN w = DOMAIN u /\ EmployerSeparationEffect(u, w)
  BY EmployerSeparationFieldTypes
  DEF EmployerSeparationSettled, EmployerSeparationEffect, Cleared
<1>2. OfTypes(w, EmployerSeparationTypes)
  BY <1>1, EmployerSeparationFieldTypes DEF EmployerSeparationEffect, Text
<1>3. EmployerSeparationSettled(w) = w
  BY <1>1, EmployerSeparationFieldTypes
  DEF EmployerSeparationSettled, EmployerSeparationEffect, Cleared
<1> QED
  BY <1>1, <1>2, <1>3

LEMMA EmployerSeparationStarts ==
  \A v \in EmployerSeparationInit : Sound("employer_separation", EmployerSeparationSettled(v))
<1> SUFFICES ASSUME NEW v \in EmployerSeparationInit
             PROVE  Sound("employer_separation", EmployerSeparationSettled(v))
  OBVIOUS
<1>1. OfTypes(v, EmployerSeparationTypes)
  BY EmployerSeparationFieldTypes
  DEF EmployerSeparationInit, Answer3, Text, PickedDate
<1> QED
  BY <1>1, EmployerSeparationEffects, EmployerSeparationOperators,
     EmployerSeparationFieldTypes
  DEF Sound, EmployerSeparationEffect, EmployerSeparationInit,
      EmployerSeparationForgets

LEMMA EmployerSeparationShown ==
  ASSUME NEW v, OfTypes(v, EmployerSeparationTypes)
  PROVE  LET shown == Shown("employer_separation", v) IN
         /\ {"self_employed", "first_work_date"} \subseteq shown
         /\ "separation_reason" \in shown <=> v.self_employed # "yes"
         /\ "separation_option" \in shown <=>
              v.self_employed # "yes" /\ v.separation_reason \in ReasonsWithOptions
         /\ "separation_comment" \in shown <=> v.self_employed # "yes"
         /\ "last_work_date" \in shown <=>
              v.separation_reason \notin {none, "still_employed"}
<1> DEFINE offers == EmployerSeparationOffers(v)
<1>1. /\ offers.self_employed # {}
      /\ offers.first_work_date # {}
      /\ offers.separation_reason # {} <=> v.self_employed # "yes"
      /\ offers.separation_option # {} <=>
           v.self_employed # "yes" /\ v.separation_reason \in ReasonsWithOptions
      /\ offers.separation_comment # {} <=> v.self_employed # "yes"
      /\ offers.last_work_date # {} <=> v.separation_reason \notin {none, "still_employed"}
  BY DEF EmployerSeparationOffers, When, Typed, Chosen, Reasons,
         PickedDate
<1> HIDE DEF offers
<1> QED
  BY <1>1, EmployerSeparationFieldTypes, EmployerSeparationOperators
  DEF Shown, offers

LEMMA EmployerSeparationErrorsAre ==
  ASSUME NEW v
  PROVE  LET errors == EmployerSeparationErrors(v) IN
         /\ errors \subseteq {"self_employed", "separation_reason",
              "separation_option", "separation_comment", "first_work_date",
              "last_work_date"}
         /\ "self_employed" \in errors <=> v.self_employed = none
         /\ "separation_reason" \in errors <=>
              v.self_employed = "no" /\ NoString(v.separation_reason)
         /\ "separation_option" \in errors <=>
              /\ v.self_employed = "no" /\ v.separation_reason \in ReasonsWithOptions
              /\ NoString(v.separation_option)
         /\ "separation_comment" \in errors <=>
              \/ v.separation_comment = "long"
              \/ /\ v.self_employed # "yes" /\ v.separation_reason # "laid_off"
                 /\ NoString(v.separation_comment)
         /\ "first_work_date" \in errors <=> NoDate(v.first_work_date)
         /\ "last_work_date" \in errors <=>
              IF v.separation_reason = "still_employed"
              THEN WrongDate(v.last_work_date) ELSE NoDate(v.last_work_date)
BY FailingIn, Zenon DEF EmployerSeparationErrors, Failing, NoValue

LEMMA EmployerSeparationRejectsOnly ==
  ASSUME NEW v, v.self_employed # none, v.first_work_date \in Days,
         v.separation_comment # "long",
         v.self_employed = "no" =>
           /\ v.separation_reason # none
           /\ v.separation_reason \in ReasonsWithOptions => v.separation_option # none
           /\ v.separation_reason # "laid_off" => v.separation_comment # none,
         \/ v.last_work_date \in Days
         \/ v.separation_reason = "still_employed" /\ v.last_work_date = none
  PROVE  EmployerSeparationRejects(v) # {} <=>
           v.first_work_date = "day2" /\ v.last_work_date = "day1"
<1> DEFINE rejects == EmployerSeparationRejects(v)
<1>1. /\ v.first_work_date # none /\ ~ date(v.first_work_date) /\ ~ date(v.last_work_date)
      /\ v.separation_reason # "still_employed" => v.last_work_date # none
  BY DEF Days, date, none, blank
<1>2. /\ v.first_work_date \in Days /\ v.last_work_date \in Days
      /\ DayOrder[v.first_work_date] > DayOrder[v.last_work_date]
      <=> v.first_work_date = "day2" /\ v.last_work_date = "day1"
  BY DEF Days, DayOrder
<1>3. /\ "self_employed" \notin rejects
      /\ "separation_reason" \notin rejects
      /\ "separation_option" \notin rejects
      /\ "separation_comment" \notin rejects
      /\ "first_work_date" \in rejects <=>
           /\ v.first_work_date \in Days /\ v.last_work_date \in Days
           /\ DayOrder[v.first_work_date] > DayOrder[v.last_work_date]
      /\ "last_work_date" \notin rejects
  BY <1>1, Zenon DEF EmployerSeparationRejects, Failing, Absent
<1>4. rejects \subseteq {"self_employed", "separation_reason", "separation_option",
                        "separation_comment", "first_work_date", "last_work_date"}
  BY FailingIn DEF EmployerSeparationRejects
<1> QED
  BY <1>2, <1>3, <1>4

LEMMA EmployerSeparationKeeps ==
  ASSUME NEW v, Sound("employer_separation", v)
  PROVE  Keeps("employer_separation", v)
<1> SUFFICES ASSUME NEW f \in DOMAIN v, NEW x \in EmployerSeparationOffers(v)[f],
                    NEW u, NEW w,
                    u = EmployerSeparationAnswered([v EXCEPT ![f] = x], f),
                    w = EmployerSeparationSettled(u)
             PROVE  /\ Sound("employer_separation", w)
                    /\ f \notin Entangled => Stays("employer_separation", v, f, x, w)
  BY EmployerSeparationOperators DEF Keeps, After
<1>1. OfTypes(v, EmployerSeparationTypes) /\ EmployerSeparationForgets(v)
  BY EmployerSeparationOperators DEF Sound
<1>2. /\ x \in EmployerSeparationTypes[f]
      /\ f \in Shown("employer_separation", v)
      /\ f = "self_employed" => x \in Chosen
  <2>1. x \in EmployerSeparationTypes[f]
    <3>1. CASE f \in {"self_employed", "first_work_date"}
      BY <3>1 DEF EmployerSeparationOffers, EmployerSeparationTypes, Answer3
    <3>2. CASE f \in {"separation_reason", "separation_option"}
      BY <3>2 DEF EmployerSeparationOffers, EmployerSeparationTypes, When
    <3>3. CASE f \in {"separation_comment", "last_work_date"}
      BY <3>3
      DEF EmployerSeparationOffers, EmployerSeparationTypes, When, Text, Typed
    <3> QED
      BY <1>1, <3>1, <3>2, <3>3, EmployerSeparationFieldTypes
  <2>2. f = "self_employed" => x \in Chosen
    BY DEF EmployerSeparationOffers
  <2> QED
    BY <2>1, <2>2, EmployerSeparationOperators DEF Shown
<1>3. /\ DOMAIN u = DOMAIN v /\ u[f] = x
      /\ \A g \in DOMAIN v \ {f, "separation_option"} : u[g] = v[g]
      /\ f \notin {"separation_reason", "separation_option"} =>
           u.separation_option = v.separation_option
      /\ f = "separation_reason" => u.separation_option = none
  BY <1>1, EmployerSeparationFieldTypes DEF EmployerSeparationAnswered
<1>4. OfTypes(u, EmployerSeparationTypes)
  <2>1. \A g \in DOMAIN v : u[g] \in EmployerSeparationTypes[g]
    <3>1. \A g \in DOMAIN v : v[g] \in EmployerSeparationTypes[g]
      BY <1>1 DEF OfTypes
    <3>2. none \in EmployerSeparationTypes.separation_option
      BY DEF EmployerSeparationTypes
    <3> QED
      BY <1>2, <1>3, <3>1, <3>2
  <2> QED
    BY <1>1, <1>3, <2>1 DEF OfTypes
<1>5. /\ OfTypes(w, EmployerSeparationTypes)
      /\ EmployerSeparationEffect(u, w)
      /\ EmployerSeparationSettled(w) = w
  BY <1>4, EmployerSeparationEffects
<1>6. EmployerSeparationForgets(w)
  <2>1. CASE u.self_employed = "yes"
    BY <1>5, <2>1 DEF EmployerSeparationEffect, EmployerSeparationForgets
  <2>2. CASE u.self_employed # "yes"
    <3>1. w.separation_reason = u.separation_reason /\ w.separation_option = u.separation_option
      BY <1>5, <2>2 DEF EmployerSeparationEffect
    <3>2. f = "separation_option" => v.separation_reason \in ReasonsWithOptions
      BY <1>1, <1>2, EmployerSeparationShown
    <3> QED
      BY <1>1, <1>3, <3>1, <3>2, EmployerSeparationFieldTypes
      DEF EmployerSeparationForgets
  <2> QED
    BY <2>1, <2>2
<1>7. x # "mixed"
  BY <1>1, <1>2, EmployerSeparationFieldTypes
  DEF EmployerSeparationTypes, Answer3, Chosen, Text, Reasons, PickedDate, Days,
      none, blank
<1>8. f \notin Entangled => Stays("employer_separation", v, f, x, w)
  <2>1. ASSUME f # "separation_option"
        PROVE  w[f] = x
    <3>1. f \in {"separation_reason", "separation_comment"} => u.self_employed # "yes"
      <4>1. f \in {"separation_reason", "separation_comment"} => v.self_employed # "yes"
        BY <1>1, <1>2, EmployerSeparationShown
      <4>2. f \in {"separation_reason", "separation_comment"} => u.self_employed = v.self_employed
        BY <1>1, <1>3, EmployerSeparationFieldTypes
      <4> QED
        BY <4>1, <4>2
    <3>2. w[f] = u[f]
      BY <1>1, <1>5, <2>1, <3>1, EmployerSeparationFieldTypes
      DEF EmployerSeparationEffect
    <3> QED
      BY <1>3, <3>2
  <2>2. ASSUME NEW g \in Shown("employer_separation", w) \ {f}, g # "separation_option"
        PROVE  w[g] = v[g]
    <3>1. g \in DOMAIN v \ {f} /\ u[g] = v[g]
      BY <1>1, <1>3, <1>5, <2>2, EmployerSeparationFieldTypes DEF Shown
    <3>2. w[g] = u[g]
      BY <1>1, <1>5, <3>1, EmployerSeparationFieldTypes, EmployerSeparationShown
      DEF EmployerSeparationEffect
    <3> QED
      BY <3>1, <3>2
  <2> QED
    BY <1>7, <2>1, <2>2 DEF Stays, Entangled
<1> QED
  BY <1>5, <1>6, <1>8, EmployerSeparationOperators DEF Sound

LEMMA EmployerSeparationSays ==
  ASSUME page = "employer_separation", Sound(page, answers)
  PROVE  /\ AcceptedIsFilable
         /\ RefusalIsExplained
         /\ HiddenAnswersAreForgotten
         /\ ProgressAgreesWithNext
         /\ FiledIsReviewed
<1> DEFINE v == answers
<1>1. /\ OfTypes(v, EmployerSeparationTypes) /\ EmployerSeparationForgets(v)
      /\ EmployerSeparationSettled(v) = v
  BY EmployerSeparationOperators DEF Sound
<1>2. EmployerSeparationEffect(v, v)
  BY <1>1, EmployerSeparationEffects
<1>3. EmployerSeparationErrors(Prepared(v)) = EmployerSeparationErrors(v)
  <2>1. \A f \in DOMAIN v :
          f \in EmployerSeparationErrors(Prepared(v)) <=> f \in EmployerSeparationErrors(v)
    BY <1>1, PreparedFields, EmployerSeparationFieldTypes,
       EmployerSeparationErrorsAre
    DEF none, blank, Answer3, Chosen, Reasons, ReasonsWithOptions, PickedDate,
        Days, NoString, NoDate, WrongDate
  <2> QED
    BY <1>1, <2>1, EmployerSeparationFieldTypes, EmployerSeparationErrorsAre
<1>4. AcceptedIsFilable
  <2>1. ASSUME EmployerSeparationErrors(v) = {}
        PROVE  EmployerSeparationRejects(v) # {} <=>
                 v.first_work_date = "day2" /\ v.last_work_date = "day1"
    BY <1>1, <2>1, EmployerSeparationFieldTypes, EmployerSeparationErrorsAre,
       EmployerSeparationRejectsOnly
    DEF Answer3, Chosen, PickedDate, NoString, NoDate, WrongDate
  <2> QED
    BY <1>3, <2>1, EmployerSeparationOperators
    DEF Accepts, AcceptedIsFilable, Unauthorized, HalfAWorkSite, LeftBeforeStarting,
        LongLanguage
<1>5. HiddenAnswersAreForgotten
  BY <1>1, <1>2, EmployerSeparationFieldTypes, EmployerSeparationShown
  DEF HiddenAnswersAreForgotten, EmployerSeparationForgets, EmployerSeparationEffect
<1>6. FiledIsReviewed
  <2>1. ASSUME EmployerSeparationErrors(v) = {}, v.separation_reason = none
        PROVE  v.separation_option = none /\ v.separation_comment = none
    BY <1>1, <1>2, <2>1, EmployerSeparationFieldTypes, EmployerSeparationErrorsAre
    DEF EmployerSeparationEffect, NoString, Answer3, Chosen
  <2> QED
    BY <1>1, <1>3, <2>1, EmployerSeparationFieldTypes, EmployerSeparationOperators
    DEF Accepts, FiledIsReviewed, Filed, EmployerSeparationReviewed, Rendered
<1>7. RefusalIsExplained
  <2>1. ASSUME NEW f \in EmployerSeparationErrors(v),
               EmployerSeparationErrors(v) \cap Shown(page, v) = {}
        PROVE  HiddenLastDay
    <3>1. v.self_employed \in Chosen /\ v.first_work_date \in Days
      BY <1>1, <2>1, EmployerSeparationFieldTypes, EmployerSeparationErrorsAre,
         EmployerSeparationShown
      DEF Answer3, PickedDate, NoDate
    <3>2. v.separation_reason # none \/ v.self_employed = "yes"
      BY <1>1, <2>1, <3>1, EmployerSeparationErrorsAre, EmployerSeparationShown
      DEF NoString, Chosen
    <3>3. f = "last_work_date"
      BY <1>1, <1>2, <2>1, EmployerSeparationFieldTypes,
         EmployerSeparationErrorsAre,
         EmployerSeparationShown
      DEF EmployerSeparationEffect, NoString, none
    <3>4. v.separation_reason \in {none, "still_employed"}
      BY <1>1, <2>1, <3>3, EmployerSeparationShown
    <3>5. /\ v.last_work_date \notin Days
          /\ v.separation_reason = "still_employed" => v.last_work_date = "bad"
      BY <1>1, <2>1, <3>3, EmployerSeparationFieldTypes, EmployerSeparationErrorsAre
      DEF PickedDate, Days, NoDate, WrongDate, none, blank
    <3> QED
      BY <3>1, <3>2, <3>4, <3>5 DEF HiddenLastDay
  <2> QED
    BY <1>3, <2>1, EmployerSeparationOperators DEF RefusalIsExplained
<1>8. ProgressAgreesWithNext
  BY <1>3, EmployerSeparationOperators
  DEF ProgressAgreesWithNext, Progresses, Accepts
<1> QED
  BY <1>4, <1>5, <1>6, <1>7, <1>8

-----------------------------------------------------------------------------
(* self-employment *)

LEMMA SelfEmploymentOperators ==
  /\ InitialAnswers("self_employment") = SelfEmploymentInit
  /\ FieldTypes("self_employment") = SelfEmploymentTypes
  /\ \A v : /\ Offers("self_employment", v) = SelfEmploymentOffers(v)
            /\ Settled("self_employment", v) = SelfEmploymentSettled(v)
            /\ Errors("self_employment", v) = SelfEmploymentErrors(v)
            /\ Rejects("self_employment", v) = SelfEmploymentRejects(v)
            /\ Reviewed("self_employment", v) = SelfEmploymentReviewed(v)
            /\ Restored("self_employment", v) = v
            /\ Forgets("self_employment", v) <=> SelfEmploymentForgets(v)
            /\ \A f : Answered("self_employment", v, f) = v
BY DEF InitialAnswers, FieldTypes, Offers, Settled, Errors, Rejects, Reviewed,
   Restored,
       Forgets, Answered

LEMMA SelfEmploymentFieldTypes ==
  ASSUME NEW v
  PROVE  OfTypes(v, SelfEmploymentTypes) <=>
         /\ DOMAIN v = {"is_self_employed", "ownership_in_business", "name_of_business",
                        "is_corporate_officer", "name_of_corporation",
                        "related_to_owner", "corporation_or_partnership"}
         /\ v.is_self_employed \in Answer3
         /\ v.ownership_in_business \in Answer3
         /\ v.name_of_business \in Text
         /\ v.is_corporate_officer \in Answer3
         /\ v.name_of_corporation \in Text
         /\ v.related_to_owner \in Answer3
         /\ v.corporation_or_partnership \in Answer3
BY DEF OfTypes, SelfEmploymentTypes

\* The values the effects leave, field by field.
SelfEmploymentEffect(u, w) ==
  /\ w.is_self_employed = u.is_self_employed
  /\ w.ownership_in_business = u.ownership_in_business
  /\ w.is_corporate_officer = u.is_corporate_officer
  /\ w.related_to_owner = u.related_to_owner
  /\ w.name_of_business =
       IF u.ownership_in_business = "no" THEN none ELSE u.name_of_business
  /\ w.name_of_corporation =
       IF u.is_corporate_officer = "no" THEN none ELSE u.name_of_corporation
  /\ w.corporation_or_partnership =
       IF u.related_to_owner = "no" THEN none ELSE u.corporation_or_partnership

LEMMA SelfEmploymentEffects ==
  ASSUME NEW u, NEW w, w = SelfEmploymentSettled(u), OfTypes(u, SelfEmploymentTypes)
  PROVE  /\ OfTypes(w, SelfEmploymentTypes)
         /\ SelfEmploymentEffect(u, w)
         /\ SelfEmploymentSettled(w) = w
<1> DEFINE a == Cleared(u, u.ownership_in_business = "no", {"name_of_business"}, none)
           b == Cleared(a, a.is_corporate_officer = "no", {"name_of_corporation"}, none)
<1>1. w = Cleared(b, b.related_to_owner = "no", {"corporation_or_partnership"}, none)
  BY DEF SelfEmploymentSettled
<1>2. \A f \in DOMAIN u : a[f] = IF u.ownership_in_business = "no" /\ f = "name_of_business"
                                 THEN none ELSE u[f]
  BY DEF Cleared
<1>3. DOMAIN a = DOMAIN u
  BY DEF Cleared
<1> HIDE DEF a
<1>4. /\ DOMAIN b = DOMAIN u
      /\ \A f \in DOMAIN u : b[f] = IF a.is_corporate_officer = "no" /\ f = "name_of_corporation"
                                    THEN none ELSE a[f]
  BY <1>3 DEF Cleared
<1> HIDE DEF b
<1>5. /\ DOMAIN w = DOMAIN u
      /\ \A f \in DOMAIN u : w[f] = IF b.related_to_owner = "no" /\ f = "corporation_or_partnership"
                                    THEN none ELSE b[f]
  BY <1>1, <1>4 DEF Cleared
<1>6. DOMAIN u = {"is_self_employed", "ownership_in_business", "name_of_business",
                  "is_corporate_officer", "name_of_corporation",
                  "related_to_owner", "corporation_or_partnership"}
  BY DEF OfTypes, SelfEmploymentTypes
<1>7. SelfEmploymentEffect(u, w)
  BY <1>2, <1>4, <1>5, <1>6 DEF SelfEmploymentEffect
<1>8. OfTypes(w, SelfEmploymentTypes)
  BY <1>5, <1>7, SelfEmploymentFieldTypes DEF SelfEmploymentEffect, Answer3, Text
<1>9. SelfEmploymentSettled(w) = w
  BY <1>2, <1>4, <1>5, <1>6 DEF SelfEmploymentSettled, Cleared
<1> QED
  BY <1>7, <1>8, <1>9

LEMMA SelfEmploymentStarts ==
  \A v \in SelfEmploymentInit : Sound("self_employment", SelfEmploymentSettled(v))
<1> SUFFICES ASSUME NEW v \in SelfEmploymentInit
             PROVE  Sound("self_employment", SelfEmploymentSettled(v))
  OBVIOUS
<1>1. OfTypes(v, SelfEmploymentTypes)
  BY DEF SelfEmploymentInit, OfTypes, SelfEmploymentTypes, Answer3, Text
<1>2. \A f \in DOMAIN v : v[f] = none
  BY DEF SelfEmploymentInit
<1> QED
  BY <1>1, <1>2, SelfEmploymentEffects, SelfEmploymentOperators,
     SelfEmploymentFieldTypes
  DEF Sound, SelfEmploymentForgets, SelfEmploymentEffect

LEMMA SelfEmploymentShown ==
  ASSUME NEW v, OfTypes(v, SelfEmploymentTypes)
  PROVE  LET shown == Shown("self_employment", v) IN
         /\ {"is_self_employed", "ownership_in_business", "is_corporate_officer",
             "related_to_owner"} \subseteq shown
         /\ "name_of_business" \in shown <=> v.ownership_in_business = "yes"
         /\ "name_of_corporation" \in shown <=> v.is_corporate_officer = "yes"
         /\ "corporation_or_partnership" \in shown <=> v.related_to_owner = "yes"
<1> DEFINE offers == SelfEmploymentOffers(v)
<1>1. /\ offers.is_self_employed # {} /\ offers.ownership_in_business # {}
      /\ offers.is_corporate_officer # {} /\ offers.related_to_owner # {}
      /\ offers.name_of_business # {} <=> v.ownership_in_business = "yes"
      /\ offers.name_of_corporation # {} <=> v.is_corporate_officer = "yes"
      /\ offers.corporation_or_partnership # {} <=> v.related_to_owner = "yes"
  BY DEF SelfEmploymentOffers, When, Typed, Chosen
<1> HIDE DEF offers
<1> QED
  BY <1>1, SelfEmploymentFieldTypes, SelfEmploymentOperators DEF Shown, offers

LEMMA SelfEmploymentErrorsAre ==
  ASSUME NEW v
  PROVE  LET errors == SelfEmploymentErrors(v) IN
         /\ errors \subseteq
              {"is_self_employed", "ownership_in_business", "name_of_business",
               "is_corporate_officer", "name_of_corporation", "related_to_owner",
               "corporation_or_partnership"}
         /\ "is_self_employed" \in errors <=> v.is_self_employed = none
         /\ "ownership_in_business" \in errors <=> v.ownership_in_business = none
         /\ "name_of_business" \in errors <=>
              v.ownership_in_business = "yes" /\ NoString(v.name_of_business)
         /\ "is_corporate_officer" \in errors <=> v.is_corporate_officer = none
         /\ "name_of_corporation" \in errors <=>
              v.is_corporate_officer = "yes" /\ NoString(v.name_of_corporation)
         /\ "related_to_owner" \in errors <=> v.related_to_owner = none
         /\ "corporation_or_partnership" \in errors <=>
              v.related_to_owner = "yes" /\ v.corporation_or_partnership = none
BY FailingIn, Zenon DEF SelfEmploymentErrors, Failing, NoValue

LEMMA SelfEmploymentRejectsNone ==
  ASSUME NEW v, v.is_self_employed # none, v.ownership_in_business \in Chosen,
         v.is_corporate_officer \in Chosen, v.related_to_owner \in Chosen,
         v.ownership_in_business = "yes" => v.name_of_business # none,
         v.is_corporate_officer = "yes" => v.name_of_corporation # none,
         v.related_to_owner = "yes" => v.corporation_or_partnership # none
  PROVE  SelfEmploymentRejects(v) = {}
<1> DEFINE questions == {"is_self_employed", "ownership_in_business",
                         "is_corporate_officer", "related_to_owner"}
           unanswered == Failing([f \in questions |-> Absent(v[f])])
           missing == Failing([name_of_business |-> /\ v.ownership_in_business # "no"
                                                    /\ Absent(v.name_of_business),
                               name_of_corporation |-> /\ v.is_corporate_officer # "no"
                                                       /\ Absent(v.name_of_corporation),
                               corporation_or_partnership |->
                                 /\ v.related_to_owner # "no"
                                 /\ Absent(v.corporation_or_partnership)])
<1>1. \A f \in questions : v[f] # none
  BY DEF Chosen, none
<1>2. unanswered = {}
  BY <1>1, Zenon DEF Failing, Absent
<1>3. /\ v.ownership_in_business = "no" \/ v.name_of_business # none
      /\ v.is_corporate_officer = "no" \/ v.name_of_corporation # none
      /\ v.related_to_owner = "no" \/ v.corporation_or_partnership # none
  BY DEF Chosen
<1>4. /\ "name_of_business" \notin missing
      /\ "name_of_corporation" \notin missing
      /\ "corporation_or_partnership" \notin missing
  BY <1>3, Zenon DEF Failing, Absent
<1>5. missing \subseteq {"name_of_business", "name_of_corporation",
                         "corporation_or_partnership"}
  BY FailingIn
<1>6. SelfEmploymentRejects(v) = unanswered \cup missing
  BY Zenon DEF SelfEmploymentRejects
<1> QED
  BY <1>2, <1>4, <1>5, <1>6

LEMMA SelfEmploymentKeeps ==
  ASSUME NEW v, Sound("self_employment", v)
  PROVE  Keeps("self_employment", v)
<1> SUFFICES ASSUME NEW f \in DOMAIN v, NEW x \in SelfEmploymentOffers(v)[f],
                    NEW u, NEW w,
                    u = [v EXCEPT ![f] = x], w = SelfEmploymentSettled(u)
             PROVE  Sound("self_employment", w) /\ Stays("self_employment", v, f, x, w)
  BY SelfEmploymentOperators DEF Keeps, After
<1>1. OfTypes(v, SelfEmploymentTypes) /\ SelfEmploymentForgets(v)
  BY SelfEmploymentOperators DEF Sound
<1>2. /\ x \in SelfEmploymentTypes[f]
      /\ f \in Shown("self_employment", v)
  <2>1. x \in SelfEmploymentTypes[f]
    BY <1>1, SelfEmploymentFieldTypes
    DEF SelfEmploymentOffers, SelfEmploymentTypes, When, Answer3, Text, Typed
  <2> QED
    BY <2>1, SelfEmploymentOperators DEF Shown
<1>3. OfTypes(u, SelfEmploymentTypes) /\ u[f] = x /\ \A g \in DOMAIN v \ {f} : u[g] = v[g]
  BY <1>1, <1>2 DEF OfTypes
<1>4. /\ OfTypes(w, SelfEmploymentTypes)
      /\ SelfEmploymentEffect(u, w)
      /\ SelfEmploymentSettled(w) = w
  BY <1>3, SelfEmploymentEffects
<1>5. x # none
  BY <1>1, SelfEmploymentFieldTypes
  DEF SelfEmploymentOffers, When, Chosen, Typed, none, blank
<1>6. SelfEmploymentForgets(w)
  BY <1>1, <1>2, <1>3, <1>4, <1>5, SelfEmploymentFieldTypes, SelfEmploymentShown
  DEF SelfEmploymentForgets, SelfEmploymentEffect, Answer3, Chosen
<1>7. x # "mixed"
  BY <1>1, <1>2, SelfEmploymentFieldTypes
  DEF SelfEmploymentTypes, Answer3, Chosen, Text, Typed, none, blank
<1>8. Stays("self_employment", v, f, x, w)
  <2>1. w[f] = x
    BY <1>1, <1>2, <1>3, <1>4, SelfEmploymentFieldTypes, SelfEmploymentShown
    DEF SelfEmploymentEffect
  <2>2. ASSUME NEW g \in Shown("self_employment", w) \ {f}
        PROVE  w[g] = v[g]
    <3>1. g \in DOMAIN v \ {f} /\ u[g] = v[g]
      BY <1>1, <1>3, <1>4, SelfEmploymentFieldTypes DEF Shown
    <3>2. w[g] = u[g]
      BY <1>1, <1>4, <3>1, SelfEmploymentFieldTypes, SelfEmploymentShown
      DEF SelfEmploymentEffect
    <3> QED
      BY <3>1, <3>2
  <2> QED
    BY <1>7, <2>1, <2>2 DEF Stays
<1> QED
  BY <1>4, <1>6, <1>8, SelfEmploymentOperators DEF Sound

LEMMA SelfEmploymentSays ==
  ASSUME page = "self_employment", Sound(page, answers)
  PROVE  /\ AcceptedIsFilable
         /\ RefusalIsExplained
         /\ HiddenAnswersAreForgotten
         /\ ProgressAgreesWithNext
         /\ FiledIsReviewed
<1> DEFINE v == answers
<1>1. OfTypes(v, SelfEmploymentTypes) /\ SelfEmploymentForgets(v)
  BY SelfEmploymentOperators DEF Sound
<1>2. \A f \in DOMAIN v : 
        f \in SelfEmploymentErrors(Prepared(v)) <=> f \in SelfEmploymentErrors(v)
  BY <1>1, PreparedFields, SelfEmploymentFieldTypes, SelfEmploymentErrorsAre
  DEF none, blank, Answer3, Chosen, NoString
<1>3. Judged(page, v)
  <2>1. SelfEmploymentErrors(Prepared(v)) = SelfEmploymentErrors(v)
    BY <1>1, <1>2, SelfEmploymentFieldTypes, SelfEmploymentErrorsAre
  <2> QED
    BY <1>1, <2>1, SelfEmploymentErrorsAre, SelfEmploymentShown, SelfEmploymentOperators
    DEF Judged
<1>4. AcceptedIsFilable
  <2>1. ASSUME SelfEmploymentErrors(v) = {}
        PROVE  SelfEmploymentRejects(v) = {}
    BY <1>1, <2>1, SelfEmploymentFieldTypes, SelfEmploymentErrorsAre,
       SelfEmploymentRejectsNone
    DEF Answer3, NoString
  <2> QED
    BY <1>3, <2>1, SelfEmploymentOperators
    DEF Judged, Accepts, AcceptedIsFilable, Unauthorized, HalfAWorkSite,
        LeftBeforeStarting,
        LongLanguage
<1>5. HiddenAnswersAreForgotten
  BY <1>1, SelfEmploymentFieldTypes, SelfEmploymentShown
  DEF HiddenAnswersAreForgotten, SelfEmploymentForgets
<1>6. FiledIsReviewed
  BY SelfEmploymentOperators
  DEF FiledIsReviewed, Filed, SelfEmploymentReviewed, Rendered
<1> QED
  BY <1>3, <1>4, <1>5, <1>6, JudgedSays

-----------------------------------------------------------------------------
(* union *)

LEMMA UnionOperators ==
  /\ InitialAnswers("union") = UnionInit
  /\ FieldTypes("union") = UnionTypes
  /\ \A v : /\ Offers("union", v) = UnionOffers(v)
            /\ Settled("union", v) = UnionSettled(v)
            /\ Errors("union", v) = UnionErrors(v)
            /\ Rejects("union", v) = UnionRejects(v)
            /\ Reviewed("union", v) = UnionReviewed(v)
            /\ Restored("union", v) = v
            /\ Forgets("union", v) <=> UnionForgets(v)
            /\ \A f : Answered("union", v, f) = v
BY DEF InitialAnswers, FieldTypes, Offers, Settled, Errors, Rejects, Reviewed,
   Restored,
       Forgets, Answered

LEMMA UnionFields ==
  ASSUME NEW v, OfTypes(v, UnionTypes)
  PROVE  /\ DOMAIN v = {"is_union_member", "union_name", "union_local_number",
                        "required_to_seek_work_through_hiring_hall"}
         /\ v.is_union_member \in Answer3
         /\ v.union_name \in Text \cup {"long"}
         /\ v.union_local_number \in Text \cup {"long"}
         /\ v.required_to_seek_work_through_hiring_hall \in Answer3
BY DEF OfTypes, UnionTypes

LEMMA UnionShown ==
  ASSUME NEW v, OfTypes(v, UnionTypes)
  PROVE  /\ "is_union_member" \in Shown("union", v)
         /\ \A f \in UnionDetails : f \in Shown("union", v) <=> v.is_union_member = "yes"
<1>1. UnionOffers(v)["is_union_member"] # {}
  BY DEF UnionOffers, Chosen
<1>2. \A f \in UnionDetails : UnionOffers(v)[f] # {} <=> v.is_union_member = "yes"
  BY DEF UnionOffers, UnionDetails, When, Typed, Chosen
<1> QED
  BY <1>1, <1>2, UnionFields, UnionOperators DEF Shown, UnionDetails

LEMMA UnionErrorsAre ==
  ASSUME NEW v
  PROVE  /\ UnionErrors(v) \subseteq {"is_union_member"} \cup UnionDetails
         /\ "is_union_member" \in UnionErrors(v) <=> v.is_union_member = none
         /\ \A f \in UnionDetails :
              f \in UnionErrors(v) <=> v.is_union_member = "yes" /\ v[f] \in {none, blank, "long"}
<1>1. UnionErrors(v) \subseteq {"is_union_member"} \cup UnionDetails
  BY FailingIn DEF UnionErrors
<1>2. "is_union_member" \notin UnionDetails
  BY DEF UnionDetails
<1> DEFINE failing == Failing([is_union_member |-> NoValue(v.is_union_member)])
<1>3. "is_union_member" \in failing <=> v.is_union_member = none
  BY Zenon DEF Failing, NoValue
<1>4. failing \subseteq {"is_union_member"}
  BY FailingIn
<1> HIDE DEF failing
<1> QED
  BY <1>1, <1>2, <1>3, <1>4 DEF UnionErrors, failing, NoString

LEMMA UnionRejectsAre ==
  ASSUME NEW v, v.is_union_member \in Chosen,
         v.is_union_member = "yes" => \A f \in UnionDetails : v[f] \notin {none, "long"}
  PROVE  UnionRejects(v) = {}
<1>1. ~ Absent(v.is_union_member)
  BY DEF Absent, Chosen, none
<1>2. Failing([is_union_member |-> Absent(v.is_union_member)]) = {}
  <2> DEFINE failing == Failing([is_union_member |-> Absent(v.is_union_member)])
  <2>1. "is_union_member" \notin failing
    BY <1>1, Zenon DEF Failing
  <2>2. failing \subseteq {"is_union_member"}
    BY FailingIn
  <2> QED
    BY <2>1, <2>2
<1> QED
  BY <1>2 DEF UnionRejects, Absent, Chosen

LEMMA UnionStarts ==
  \A v \in UnionInit : Sound("union", UnionSettled(v))
<1> SUFFICES ASSUME NEW v \in UnionInit
             PROVE  Sound("union", UnionSettled(v))
  OBVIOUS
<1>1. UnionSettled(v) = v
  BY DEF UnionSettled, Cleared, UnionInit
<1>2. OfTypes(v, UnionTypes) /\ UnionForgets(v)
  BY DEF UnionInit, OfTypes, UnionTypes, UnionForgets, UnionDetails, Answer3, Text
<1> QED
  BY <1>1, <1>2, UnionOperators DEF Sound

LEMMA UnionKeeps ==
  ASSUME NEW v, Sound("union", v)
  PROVE  Keeps("union", v)
<1> SUFFICES ASSUME NEW f \in DOMAIN v, NEW x \in UnionOffers(v)[f], NEW u, NEW w,
                    u = [v EXCEPT ![f] = x], w = UnionSettled(u)
             PROVE  Sound("union", w) /\ Stays("union", v, f, x, w)
  BY UnionOperators DEF Keeps, After
<1>1. OfTypes(v, UnionTypes) /\ UnionSettled(v) = v /\ UnionForgets(v)
  BY UnionOperators DEF Sound
<1>2. /\ DOMAIN v = {"is_union_member"} \cup UnionDetails
      /\ "is_union_member" \notin UnionDetails
  BY <1>1, UnionFields DEF UnionDetails
<1>3. x \in UnionTypes[f]
  BY UnionFields, <1>1 DEF UnionOffers, UnionTypes, When, Answer3, Text, Typed
<1>4. /\ DOMAIN w = DOMAIN v /\ u[f] = x
      /\ \A g \in DOMAIN v \ {f} : u[g] = v[g]
      /\ \A g \in DOMAIN v :
           w[g] = IF u.is_union_member = "no" /\ g \in UnionDetails THEN none ELSE u[g]
  BY <1>1, <1>2 DEF UnionSettled, Cleared
<1>5. /\ f = "is_union_member" => x \in Chosen
      /\ f \in UnionDetails => v.is_union_member = "yes"
  BY DEF UnionOffers, UnionDetails, When
<1>6. OfTypes(w, UnionTypes)
  <2>1. \A g \in UnionDetails : none \in UnionTypes[g]
    BY DEF UnionTypes, UnionDetails, Answer3, Text
  <2> QED
    BY <1>1, <1>3, <1>4, <2>1 DEF OfTypes
<1>7. UnionSettled(w) = w
  BY <1>2, <1>4 DEF UnionSettled, Cleared
<1>8. UnionForgets(w)
  BY <1>1, <1>2, <1>4, <1>5 DEF UnionForgets, Chosen
<1>9. x # "mixed"
  BY <1>1, <1>3, UnionFields
  DEF UnionTypes, Answer3, Chosen, Text, Typed, none, blank
<1>10. Stays("union", v, f, x, w)
  BY <1>2, <1>4, <1>5, <1>6, <1>9, UnionShown DEF Stays, Shown
<1> QED
  BY <1>6, <1>7, <1>8, <1>10, UnionOperators DEF Sound

LEMMA UnionSays ==
  ASSUME page = "union", Sound(page, answers)
  PROVE  /\ AcceptedIsFilable
         /\ RefusalIsExplained
         /\ HiddenAnswersAreForgotten
         /\ ProgressAgreesWithNext
         /\ FiledIsReviewed
<1> DEFINE p == Prepared(answers)
<1>1. OfTypes(answers, UnionTypes) /\ UnionSettled(answers) = answers /\ UnionForgets(answers)
  BY UnionOperators DEF Sound
<1>2. /\ DOMAIN answers = {"is_union_member"} \cup UnionDetails
      /\ "is_union_member" \notin UnionDetails
  BY <1>1, UnionFields DEF UnionDetails
<1>3. \A f \in DOMAIN answers : p[f] = IF answers[f] = blank THEN none ELSE answers[f]
  BY DEF Prepared
<1>4. answers.is_union_member \in Answer3
  BY <1>1, UnionFields
<1> HIDE DEF p
<1>5. UnionErrors(p) = UnionErrors(answers)
  BY <1>2, <1>3, <1>4, UnionErrorsAre DEF none, blank, Answer3, Chosen
<1>6. AcceptedIsFilable
  <2>1. ASSUME UnionErrors(answers) = {}
        PROVE  UnionRejects(answers) = {}
    BY <2>1, <1>4, UnionErrorsAre, UnionRejectsAre DEF Answer3
  <2> QED
    BY <1>5, <2>1, UnionOperators
    DEF p, Accepts, AcceptedIsFilable, Unauthorized, HalfAWorkSite,
        LeftBeforeStarting, LongLanguage
<1>7. RefusalIsExplained
  BY <1>1, <1>5, UnionErrorsAre, UnionShown, UnionOperators
  DEF RefusalIsExplained, p
<1>8. HiddenAnswersAreForgotten
  BY <1>1, <1>2, UnionShown DEF HiddenAnswersAreForgotten, UnionForgets
<1>9. ProgressAgreesWithNext
  BY <1>5, UnionOperators DEF ProgressAgreesWithNext, Progresses, Accepts, p
<1>10. FiledIsReviewed
  BY UnionOperators DEF FiledIsReviewed, Filed, UnionReviewed, Rendered
<1> QED
  BY <1>6, <1>7, <1>8, <1>9, <1>10

-----------------------------------------------------------------------------
(* education *)

LEMMA EducationOperators ==
  /\ InitialAnswers("education") = EducationInit
  /\ FieldTypes("education") = EducationTypes
  /\ \A v : /\ Offers("education", v) = EducationOffers(v)
            /\ Settled("education", v) = EducationSettled(v)
            /\ Errors("education", v) = EducationErrors(v)
            /\ Rejects("education", v) = EducationRejects(v)
            /\ Reviewed("education", v) = EducationReviewed(v)
            /\ Restored("education", v) = v
            /\ Forgets("education", v)
            /\ \A f : Answered("education", v, f) = v
BY DEF InitialAnswers, FieldTypes, Offers, Settled, Errors, Rejects, Reviewed,
   Restored,
       Forgets, Answered

LEMMA EducationFieldTypes ==
  ASSUME NEW v
  PROVE  OfTypes(v, EducationTypes) <=>
         /\ DOMAIN v = {"attending_college_or_job_training",
                         "type_of_college_or_job_training", "education_level",
                         "registered_with_vocational_rehab"}
         /\ v.attending_college_or_job_training \in Answer3
         /\ v.type_of_college_or_job_training \in {none, "ok"}
         /\ v.education_level \in Text
         /\ v.registered_with_vocational_rehab \in Answer3
BY DEF OfTypes, EducationTypes

\* The values the effects leave, field by field.
EducationEffect(u, w) ==
  /\ w.attending_college_or_job_training = u.attending_college_or_job_training
  /\ w.type_of_college_or_job_training =
       IF u.attending_college_or_job_training = "yes"
       THEN u.type_of_college_or_job_training ELSE none
  /\ w.education_level = u.education_level
  /\ w.registered_with_vocational_rehab = u.registered_with_vocational_rehab

LEMMA EducationEffects ==
  ASSUME NEW u, NEW w, w = EducationSettled(u), OfTypes(u, EducationTypes)
  PROVE  /\ OfTypes(w, EducationTypes)
         /\ EducationEffect(u, w)
         /\ EducationSettled(w) = w
<1>1. DOMAIN w = DOMAIN u /\ EducationEffect(u, w)
  BY EducationFieldTypes DEF EducationSettled, EducationEffect, Cleared
<1>2. OfTypes(w, EducationTypes)
  BY <1>1, EducationFieldTypes DEF EducationEffect
<1>3. EducationSettled(w) = w
  BY <1>1, EducationFieldTypes DEF EducationSettled, EducationEffect, Cleared
<1> QED
  BY <1>1, <1>2, <1>3

LEMMA EducationStarts ==
  \A v \in EducationInit : Sound("education", EducationSettled(v))
<1> SUFFICES ASSUME NEW v \in EducationInit
             PROVE  Sound("education", EducationSettled(v))
  OBVIOUS
<1>1. OfTypes(v, EducationTypes)
  BY EducationFieldTypes DEF EducationInit, Answer3, Text
<1> QED
  BY <1>1, EducationEffects, EducationOperators, EducationFieldTypes
  DEF Sound, EducationEffect, EducationInit

LEMMA EducationShown ==
  ASSUME NEW v, OfTypes(v, EducationTypes)
  PROVE  LET shown == Shown("education", v) IN
         /\ {"attending_college_or_job_training", "education_level",
             "registered_with_vocational_rehab"} \subseteq shown
         /\ "type_of_college_or_job_training" \in shown <=>
              v.attending_college_or_job_training = "yes"
<1> DEFINE offers == EducationOffers(v)
<1>1. /\ offers.attending_college_or_job_training # {}
      /\ offers.education_level # {}
      /\ offers.registered_with_vocational_rehab # {}
      /\ offers.type_of_college_or_job_training # {} <=>
           v.attending_college_or_job_training = "yes"
  BY DEF EducationOffers, When, Typed, Chosen
<1> HIDE DEF offers
<1> QED
  BY <1>1, EducationFieldTypes, EducationOperators DEF Shown, offers

LEMMA EducationErrorsAre ==
  ASSUME NEW v
  PROVE  LET errors == EducationErrors(v) IN
         /\ errors \subseteq {"attending_college_or_job_training",
              "type_of_college_or_job_training", "education_level",
              "registered_with_vocational_rehab"}
         /\ "attending_college_or_job_training" \in errors <=>
              v.attending_college_or_job_training = none
         /\ "type_of_college_or_job_training" \in errors <=>
              /\ v.attending_college_or_job_training = "yes"
              /\ v.type_of_college_or_job_training \in {none, blank}
         /\ "education_level" \in errors <=> v.education_level # "ok"
         /\ "registered_with_vocational_rehab" \in errors <=>
              v.registered_with_vocational_rehab = none
BY FailingIn, Zenon DEF EducationErrors, Failing, NoValue, NoString

LEMMA EducationRejectsNone ==
  ASSUME NEW v, v.attending_college_or_job_training # none,
         v.registered_with_vocational_rehab # none, v.education_level = "ok",
         \/ v.attending_college_or_job_training # "yes"
         \/ v.type_of_college_or_job_training # none
  PROVE  EducationRejects(v) = {}
<1> DEFINE questions == {"attending_college_or_job_training",
                         "registered_with_vocational_rehab"}
           unanswered == Failing([f \in questions |-> Absent(v[f])])
           wrong == Failing([type_of_college_or_job_training |->
                               /\ v.attending_college_or_job_training = "yes"
                               /\ Absent(v.type_of_college_or_job_training),
                             education_level |-> v.education_level # "ok"])
<1>1. unanswered = {}
  <2>1. \A f \in questions : v[f] # none
    OBVIOUS
  <2> QED
    BY <2>1, Zenon DEF Failing, Absent
<1>2. "type_of_college_or_job_training" \notin wrong /\ "education_level" \notin wrong
  BY Zenon DEF Failing, Absent
<1>3. wrong \subseteq {"type_of_college_or_job_training", "education_level"}
  BY FailingIn
<1>4. EducationRejects(v) = unanswered \cup wrong
  BY Zenon DEF EducationRejects
<1> QED
  BY <1>1, <1>2, <1>3, <1>4

LEMMA EducationKeeps ==
  ASSUME NEW v, Sound("education", v)
  PROVE  Keeps("education", v)
<1> SUFFICES ASSUME NEW f \in DOMAIN v, NEW x \in EducationOffers(v)[f],
                    NEW u, NEW w,
                    u = [v EXCEPT ![f] = x], w = EducationSettled(u)
             PROVE  Sound("education", w) /\ Stays("education", v, f, x, w)
  BY EducationOperators DEF Keeps, After
<1>1. OfTypes(v, EducationTypes)
  BY EducationOperators DEF Sound
<1>2. /\ x \in EducationTypes[f]
      /\ f \in Shown("education", v)
  <2>1. x \in EducationTypes[f]
    BY <1>1, EducationFieldTypes
    DEF EducationOffers, EducationTypes, When, Answer3, Text, Typed
  <2> QED
    BY <2>1, EducationOperators DEF Shown
<1>3. OfTypes(u, EducationTypes) /\ u[f] = x /\ \A g \in DOMAIN v \ {f} : u[g] = v[g]
  BY <1>1, <1>2 DEF OfTypes
<1>4. /\ OfTypes(w, EducationTypes)
      /\ EducationEffect(u, w)
      /\ EducationSettled(w) = w
  BY <1>3, EducationEffects
<1>5. x # "mixed"
  BY <1>1, <1>2, EducationFieldTypes
  DEF EducationTypes, Answer3, Chosen, Text, Typed, none, blank
<1>6. Stays("education", v, f, x, w)
  <2>1. w[f] = x
    BY <1>1, <1>2, <1>3, <1>4, EducationFieldTypes, EducationShown
    DEF EducationEffect
  <2>2. ASSUME NEW g \in Shown("education", w) \ {f}
        PROVE  w[g] = v[g]
    <3>1. g \in DOMAIN v \ {f} /\ u[g] = v[g]
      BY <1>1, <1>3, <1>4, EducationFieldTypes DEF Shown
    <3>2. w[g] = u[g]
      BY <1>1, <1>4, <3>1, EducationFieldTypes, EducationShown DEF EducationEffect
    <3> QED
      BY <3>1, <3>2
  <2> QED
    BY <1>5, <2>1, <2>2 DEF Stays
<1> QED
  BY <1>4, <1>6, EducationOperators DEF Sound

LEMMA EducationSays ==
  ASSUME page = "education", Sound(page, answers)
  PROVE  /\ AcceptedIsFilable
         /\ RefusalIsExplained
         /\ HiddenAnswersAreForgotten
         /\ ProgressAgreesWithNext
         /\ FiledIsReviewed
<1> DEFINE v == answers
<1>1. OfTypes(v, EducationTypes) /\ EducationSettled(v) = v
  BY EducationOperators DEF Sound
<1>2. \A f \in DOMAIN v : 
        f \in EducationErrors(Prepared(v)) <=> f \in EducationErrors(v)
  BY <1>1, PreparedFields, EducationFieldTypes, EducationErrorsAre
  DEF none, blank, Answer3, Chosen, NoString
<1>3. Judged(page, v)
  <2>1. EducationErrors(Prepared(v)) = EducationErrors(v)
    BY <1>1, <1>2, EducationFieldTypes, EducationErrorsAre
  <2> QED
    BY <1>1, <2>1, EducationErrorsAre, EducationShown, EducationOperators DEF Judged
<1>4. AcceptedIsFilable
  <2>1. ASSUME EducationErrors(v) = {}
        PROVE  EducationRejects(v) = {}
    BY <1>1, <2>1, EducationFieldTypes, EducationErrorsAre, EducationRejectsNone
    DEF Answer3, NoString
  <2> QED
    BY <1>3, <2>1, EducationOperators
    DEF Judged, Accepts, AcceptedIsFilable, Unauthorized, HalfAWorkSite,
        LeftBeforeStarting,
        LongLanguage
<1>5. HiddenAnswersAreForgotten
  BY <1>1, EducationFieldTypes, EducationShown
  DEF HiddenAnswersAreForgotten, none, blank, EducationSettled, Cleared
<1>6. FiledIsReviewed
  BY EducationOperators DEF FiledIsReviewed, Filed, EducationReviewed, Rendered
<1> QED
  BY <1>3, <1>4, <1>5, <1>6, JudgedSays

-----------------------------------------------------------------------------
(* disability-status *)

LEMMA DisabilityOperators ==
  /\ InitialAnswers("disability") = DisabilityInit
  /\ FieldTypes("disability") = DisabilityTypes
  /\ \A v : /\ Offers("disability", v) = DisabilityOffers(v)
            /\ Settled("disability", v) = DisabilitySettled(v)
            /\ Errors("disability", v) = DisabilityErrors(v)
            /\ Rejects("disability", v) = DisabilityRejects(v)
            /\ Reviewed("disability", v) = DisabilityReviewed(v)
            /\ Restored("disability", v) = v
            /\ Forgets("disability", v) <=> DisabilityForgets(v)
            /\ \A f : Answered("disability", v, f) = v
BY DEF InitialAnswers, FieldTypes, Offers, Settled, Errors, Rejects, Reviewed,
   Restored,
       Forgets, Answered

LEMMA DisabilityFieldTypes ==
  ASSUME NEW v
  PROVE  OfTypes(v, DisabilityTypes) <=>
         /\ DOMAIN v = {"has_collected_disability",
                         "disabled_immediately_before", "type_of_disability",
                         "date_disability_began", "recovery_date",
                         "contacted_last_employer_after_recovery"}
         /\ v.has_collected_disability \in Answer3
         /\ v.disabled_immediately_before \in Answer3
         /\ v.type_of_disability \in Text
         /\ v.date_disability_began \in DisabilityDate
         /\ v.recovery_date \in DisabilityDate
         /\ v.contacted_last_employer_after_recovery \in Answer3
BY DEF OfTypes, DisabilityTypes

\* The values the effects leave, field by field.
DisabilityEffect(u, w) ==
  /\ w.has_collected_disability = u.has_collected_disability
  /\ w.disabled_immediately_before =
       IF u.has_collected_disability = "no" THEN none ELSE u.disabled_immediately_before
  /\ w.type_of_disability =
       IF u.has_collected_disability = "no" THEN none ELSE u.type_of_disability
  /\ w.date_disability_began =
       IF u.has_collected_disability = "no" THEN none ELSE u.date_disability_began
  /\ w.recovery_date =
       IF u.has_collected_disability = "no" THEN none ELSE u.recovery_date
  /\ w.contacted_last_employer_after_recovery =
       IF u.has_collected_disability = "no" \/ u.recovery_date = none THEN none
       ELSE u.contacted_last_employer_after_recovery

LEMMA DisabilityEffects ==
  ASSUME NEW u, NEW w, w = DisabilitySettled(u), OfTypes(u, DisabilityTypes)
  PROVE  /\ OfTypes(w, DisabilityTypes)
         /\ DisabilityEffect(u, w)
         /\ DisabilitySettled(w) = w
<1> DEFINE a == Cleared(u, u.recovery_date = none,
                        {"contacted_last_employer_after_recovery"}, none)
           b == Cleared(w, w.recovery_date = none,
                        {"contacted_last_employer_after_recovery"}, none)
<1>1. DOMAIN u = DOMAIN DisabilityTypes /\ "has_collected_disability" \in DOMAIN u
  BY DEF OfTypes, DisabilityTypes
<1>2. /\ DOMAIN a = DOMAIN u
      /\ \A f \in DOMAIN u :
           a[f] = IF u.recovery_date = none /\ f = "contacted_last_employer_after_recovery"
                  THEN none ELSE u[f]
  BY DEF Cleared
<1>3. w = Cleared(a, a.has_collected_disability = "no",
                  DOMAIN a \ {"has_collected_disability"}, none)
  BY DEF DisabilitySettled
<1> HIDE DEF a
<1>4. /\ DOMAIN w = DOMAIN u
      /\ w = [f \in DOMAIN u |-> w[f]]
      /\ \A f \in DOMAIN u :
           w[f] = IF a.has_collected_disability = "no" /\ f # "has_collected_disability"
                  THEN none ELSE a[f]
  BY <1>2, <1>3 DEF Cleared
<1>5. DisabilityEffect(u, w)
  BY <1>2, <1>4, DisabilityFieldTypes DEF DisabilityEffect
<1>6. OfTypes(w, DisabilityTypes)
  BY <1>4, <1>5, DisabilityFieldTypes
  DEF DisabilityEffect, Answer3, Text, DisabilityDate
<1>7. /\ b = w
      /\ w.has_collected_disability = "no" =>
           \A f \in DOMAIN w \ {"has_collected_disability"} : w[f] = none
  <2>1. /\ w.recovery_date = none => w.contacted_last_employer_after_recovery = none
        /\ w.has_collected_disability = "no" =>
             \A f \in DOMAIN w \ {"has_collected_disability"} : w[f] = none
    BY <1>4, <1>5, <1>6, DisabilityFieldTypes DEF DisabilityEffect
  <2> QED
    BY <1>4, <2>1 DEF Cleared
<1>8. DisabilitySettled(w) = w
  <2>1. DisabilitySettled(w) = Cleared(b, b.has_collected_disability = "no",
                                       DOMAIN b \ {"has_collected_disability"}, none)
    BY DEF DisabilitySettled
  <2> HIDE DEF b
  <2> QED
    BY <1>4, <1>7, <2>1 DEF Cleared
<1> QED
  BY <1>5, <1>6, <1>8

LEMMA DisabilityStarts ==
  \A v \in DisabilityInit : Sound("disability", DisabilitySettled(v))
<1> SUFFICES ASSUME NEW v \in DisabilityInit
             PROVE  Sound("disability", DisabilitySettled(v))
  OBVIOUS
<1>1. OfTypes(v, DisabilityTypes)
  BY DisabilityFieldTypes DEF DisabilityInit, Answer3, Text, DisabilityDate
<1> QED
  BY <1>1, DisabilityEffects, DisabilityOperators, DisabilityFieldTypes
  DEF Sound, DisabilityEffect, DisabilityInit, DisabilityForgets

LEMMA DisabilityShown ==
  ASSUME NEW v, OfTypes(v, DisabilityTypes)
  PROVE  LET shown == Shown("disability", v) IN
         /\ {"has_collected_disability"} \subseteq shown
         /\ "disabled_immediately_before" \in shown <=> v.has_collected_disability = "yes"
         /\ "type_of_disability" \in shown <=> v.has_collected_disability = "yes"
         /\ "date_disability_began" \in shown <=> v.has_collected_disability = "yes"
         /\ "recovery_date" \in shown <=> v.has_collected_disability = "yes"
         /\ "contacted_last_employer_after_recovery" \in shown <=>
              v.has_collected_disability = "yes" /\ v.recovery_date # none
<1> DEFINE offers == DisabilityOffers(v)
<1>1. /\ offers.has_collected_disability # {}
      /\ offers.disabled_immediately_before # {} <=> v.has_collected_disability = "yes"
      /\ offers.type_of_disability # {} <=> v.has_collected_disability = "yes"
      /\ offers.date_disability_began # {} <=> v.has_collected_disability = "yes"
      /\ offers.recovery_date # {} <=> v.has_collected_disability = "yes"
      /\ offers.contacted_last_employer_after_recovery # {} <=>
           v.has_collected_disability = "yes" /\ v.recovery_date # none
  BY DEF DisabilityOffers, When, Typed, Chosen, DisabilityDate
<1> HIDE DEF offers
<1> QED
  BY <1>1, DisabilityFieldTypes, DisabilityOperators DEF Shown, offers

LEMMA DisabilityErrorsAre ==
  ASSUME NEW v
  PROVE  LET errors == DisabilityErrors(v) IN
         /\ errors \subseteq {"has_collected_disability",
              "disabled_immediately_before", "type_of_disability",
              "date_disability_began", "recovery_date",
              "contacted_last_employer_after_recovery"}
         /\ "has_collected_disability" \in errors <=>
              v.has_collected_disability = none
         /\ "disabled_immediately_before" \in errors <=>
              v.has_collected_disability = "yes" /\ v.disabled_immediately_before = none
         /\ "type_of_disability" \in errors <=>
              \/ v.type_of_disability = blank
              \/ v.has_collected_disability = "yes" /\ v.type_of_disability = none
         /\ "date_disability_began" \in errors <=>
              \/ v.date_disability_began \in {blank, "bad"} \/ v.date_disability_began = "future"
              \/ v.has_collected_disability = "yes" /\ v.date_disability_began = none
         /\ "recovery_date" \in errors <=>
              \/ v.recovery_date \in {blank, "bad"} \/ v.recovery_date = "future"
              \/ /\ v.date_disability_began \in DOMAIN Past /\ v.recovery_date \in DOMAIN Past
                 /\ Past[v.recovery_date] < Past[v.date_disability_began]
         /\ "contacted_last_employer_after_recovery" \in errors <=>
              v.recovery_date # none /\ v.contacted_last_employer_after_recovery = none
BY FailingIn, Zenon DEF DisabilityErrors, Failing, NoValue, WrongDate

LEMMA DisabilityRejectsNone ==
  ASSUME NEW v, v.has_collected_disability # none,
         \/ v.has_collected_disability = "no"
         \/ /\ v.disabled_immediately_before # none
            /\ v.type_of_disability = "ok"
            /\ v.date_disability_began \notin {none, blank, "bad"}
            /\ v.recovery_date \notin {blank, "bad"}
            /\ v.recovery_date = none \/ v.contacted_last_employer_after_recovery # none
  PROVE  DisabilityRejects(v) = {}
<1> DEFINE rejects == DisabilityRejects(v)
<1>1. /\ "has_collected_disability" \notin rejects
      /\ "disabled_immediately_before" \notin rejects
      /\ "type_of_disability" \notin rejects
      /\ "date_disability_began" \notin rejects
      /\ "recovery_date" \notin rejects
      /\ "contacted_last_employer_after_recovery" \notin rejects
  BY Zenon DEF DisabilityRejects, Failing, Absent, NoDate, date
<1>2. rejects \subseteq {"has_collected_disability", "disabled_immediately_before",
                        "type_of_disability", "date_disability_began",
                        "recovery_date", "contacted_last_employer_after_recovery"}
  BY FailingIn DEF DisabilityRejects
<1> QED
  BY <1>1, <1>2

LEMMA DisabilityKeeps ==
  ASSUME NEW v, Sound("disability", v)
  PROVE  Keeps("disability", v)
<1> SUFFICES ASSUME NEW f \in DOMAIN v, NEW x \in DisabilityOffers(v)[f],
                    NEW u, NEW w,
                    u = [v EXCEPT ![f] = x], w = DisabilitySettled(u)
             PROVE  Sound("disability", w) /\ Stays("disability", v, f, x, w)
  BY DisabilityOperators DEF Keeps, After
<1>1. OfTypes(v, DisabilityTypes) /\ DisabilityForgets(v)
  BY DisabilityOperators DEF Sound
<1>2. /\ x \in DisabilityTypes[f]
      /\ f \in Shown("disability", v)
  <2>1. x \in DisabilityTypes[f]
    BY <1>1, DisabilityFieldTypes
    DEF DisabilityOffers, DisabilityTypes, When, Answer3, Text, Typed,
        DisabilityDate
  <2> QED
    BY <2>1, DisabilityOperators DEF Shown
<1>3. OfTypes(u, DisabilityTypes) /\ u[f] = x /\ \A g \in DOMAIN v \ {f} : u[g] = v[g]
  BY <1>1, <1>2 DEF OfTypes
<1>4. /\ OfTypes(w, DisabilityTypes)
      /\ DisabilityEffect(u, w)
      /\ DisabilitySettled(w) = w
  BY <1>3, DisabilityEffects
<1>5. f = "has_collected_disability" => x \in Chosen
  BY DEF DisabilityOffers
<1>6. DisabilityForgets(w)
  BY <1>1, <1>2, <1>3, <1>4, <1>5, DisabilityFieldTypes, DisabilityShown
  DEF DisabilityForgets, DisabilityEffect, Answer3, Chosen
<1>7. x # "mixed"
  BY <1>1, <1>2, DisabilityFieldTypes
  DEF DisabilityTypes, Answer3, Chosen, Text, DisabilityDate, Past, none, blank
<1>8. Stays("disability", v, f, x, w)
  <2>1. w[f] = x
    BY <1>1, <1>2, <1>3, <1>4, DisabilityFieldTypes, DisabilityShown
    DEF DisabilityEffect
  <2>2. ASSUME NEW g \in Shown("disability", w) \ {f}
        PROVE  w[g] = v[g]
    <3>1. g \in DOMAIN v \ {f} /\ u[g] = v[g]
      BY <1>1, <1>3, <1>4, DisabilityFieldTypes DEF Shown
    <3>2. w[g] = u[g]
      BY <1>1, <1>4, <3>1, DisabilityFieldTypes, DisabilityShown
      DEF DisabilityEffect
    <3> QED
      BY <3>1, <3>2
  <2> QED
    BY <1>7, <2>1, <2>2 DEF Stays
<1> QED
  BY <1>4, <1>6, <1>8, DisabilityOperators DEF Sound

LEMMA DisabilitySays ==
  ASSUME page = "disability", Sound(page, answers)
  PROVE  /\ AcceptedIsFilable
         /\ RefusalIsExplained
         /\ HiddenAnswersAreForgotten
         /\ ProgressAgreesWithNext
         /\ FiledIsReviewed
<1> DEFINE v == answers
<1>1. OfTypes(v, DisabilityTypes) /\ DisabilityForgets(v) /\ DisabilitySettled(v) = v
  BY DisabilityOperators DEF Sound
<1>2. /\ v.has_collected_disability # "yes" =>
           /\ v.disabled_immediately_before = none
           /\ v.type_of_disability = none
           /\ v.date_disability_began = none
           /\ v.recovery_date = none
      /\ v.has_collected_disability # "yes" \/ v.recovery_date = none =>
           v.contacted_last_employer_after_recovery = none
  BY <1>1, DisabilityFieldTypes, DisabilityEffects
  DEF DisabilityForgets, DisabilityEffect
<1>3. \A f \in DOMAIN v : 
        f \in DisabilityErrors(Prepared(v)) <=> f \in DisabilityErrors(v)
  BY <1>1, <1>2, PreparedFields, DisabilityFieldTypes, DisabilityErrorsAre
  DEF none, blank, Answer3, Chosen, Text, Typed, DisabilityDate, Past, NoString
<1>4. Judged(page, v)
  <2>1. DisabilityErrors(Prepared(v)) = DisabilityErrors(v)
    BY <1>1, <1>2, <1>3, DisabilityFieldTypes, DisabilityErrorsAre
  <2> QED
    BY <1>1, <1>2, <2>1, DisabilityErrorsAre, DisabilityShown, DisabilityOperators
    DEF Judged, Past, none, blank
<1>5. AcceptedIsFilable
  <2>1. ASSUME DisabilityErrors(v) = {}
        PROVE  DisabilityRejects(v) = {}
    BY <1>1, <1>2, <2>1, DisabilityFieldTypes, DisabilityErrorsAre,
       DisabilityRejectsNone
    DEF Answer3, Chosen, Text, Typed, DisabilityDate, Past, none, blank
  <2> QED
    BY <1>4, <2>1, DisabilityOperators
    DEF Judged, Accepts, AcceptedIsFilable, Unauthorized, HalfAWorkSite,
        LeftBeforeStarting,
        LongLanguage
<1>6. HiddenAnswersAreForgotten
  BY <1>1, <1>2, DisabilityFieldTypes, DisabilityShown
  DEF HiddenAnswersAreForgotten
<1>7. FiledIsReviewed
  BY DisabilityOperators DEF FiledIsReviewed, Filed, DisabilityReviewed, Rendered
<1> QED
  BY <1>4, <1>5, <1>6, <1>7, JudgedSays

-----------------------------------------------------------------------------
(* availability *)

LEMMA AvailabilityOperators ==
  /\ InitialAnswers("availability") = AvailabilityInit
  /\ FieldTypes("availability") = AvailabilityTypes
  /\ \A v : /\ Offers("availability", v) = AvailabilityOffers(v)
            /\ Settled("availability", v) = AvailabilitySettled(v)
            /\ Errors("availability", v) = AvailabilityErrors(v)
            /\ Rejects("availability", v) = AvailabilityRejects(v)
            /\ Reviewed("availability", v) = AvailabilityReviewed(v)
            /\ Restored("availability", v) = v
            /\ Forgets("availability", v) <=> AvailabilityForgets(v)
            /\ \A f : Answered("availability", v, f) = v
BY DEF InitialAnswers, FieldTypes, Offers, Settled, Errors, Rejects, Reviewed,
   Restored,
       Forgets, Answered

\* The questions and the fields of their reasons, one by one.
LEMMA AvailabilityNames ==
  /\ AvailabilityQuestions = {"can_begin_work_immediately", "can_work_full_time",
                              "is_prevented_from_accepting_full_time_work"}
  /\ AvailabilityReason["can_begin_work_immediately"] =
       "cannot_begin_work_immediately_reason"
  /\ AvailabilityReason["can_work_full_time"] = "cannot_work_full_time_reason"
  /\ AvailabilityReason["is_prevented_from_accepting_full_time_work"] =
       "is_prevented_from_accepting_full_time_work_reason"
  /\ AvailabilityFields =
       {"can_begin_work_immediately", "cannot_begin_work_immediately_reason",
        "can_work_full_time", "cannot_work_full_time_reason",
        "is_prevented_from_accepting_full_time_work",
        "is_prevented_from_accepting_full_time_work_reason"}
  /\ AsksReason("can_begin_work_immediately") = "no"
  /\ AsksReason("can_work_full_time") = "no"
  /\ AsksReason("is_prevented_from_accepting_full_time_work") = "yes"
BY DEF AvailabilityQuestions, AvailabilityReason, AvailabilityFields, AsksReason

\* What the controls offer and the values may be, field by field.
AvailabilityControls(v, offers) ==
  /\ DOMAIN offers = AvailabilityFields
  /\ offers.can_begin_work_immediately = Chosen
  /\ offers.can_work_full_time = Chosen
  /\ offers.is_prevented_from_accepting_full_time_work = Chosen
  /\ offers.cannot_begin_work_immediately_reason =
       When(v.can_begin_work_immediately = "no", Typed)
  /\ offers.cannot_work_full_time_reason = When(v.can_work_full_time = "no", Typed)
  /\ offers.is_prevented_from_accepting_full_time_work_reason =
       When(v.is_prevented_from_accepting_full_time_work = "yes", Typed)

LEMMA AvailabilityByField ==
  /\ /\ DOMAIN AvailabilityTypes = AvailabilityFields
     /\ AvailabilityTypes.can_begin_work_immediately = Answer3
     /\ AvailabilityTypes.can_work_full_time = Answer3
     /\ AvailabilityTypes.is_prevented_from_accepting_full_time_work = Answer3
     /\ AvailabilityTypes.cannot_begin_work_immediately_reason = Text
     /\ AvailabilityTypes.cannot_work_full_time_reason = Text
     /\ AvailabilityTypes.is_prevented_from_accepting_full_time_work_reason = Text
  /\ \A v : AvailabilityControls(v, AvailabilityOffers(v))
  /\ \A v : AvailabilityForgets(v) <=>
       /\ v.can_begin_work_immediately # "no" =>
            v.cannot_begin_work_immediately_reason = none
       /\ v.can_work_full_time # "no" => v.cannot_work_full_time_reason = none
       /\ v.is_prevented_from_accepting_full_time_work # "yes" =>
            v.is_prevented_from_accepting_full_time_work_reason = none
<1> USE AvailabilityNames
<1>1. /\ DOMAIN AvailabilityTypes = AvailabilityFields
      /\ AvailabilityTypes.can_begin_work_immediately = Answer3
      /\ AvailabilityTypes.can_work_full_time = Answer3
      /\ AvailabilityTypes.is_prevented_from_accepting_full_time_work = Answer3
      /\ AvailabilityTypes.cannot_begin_work_immediately_reason = Text
      /\ AvailabilityTypes.cannot_work_full_time_reason = Text
      /\ AvailabilityTypes.is_prevented_from_accepting_full_time_work_reason = Text
  BY DEF AvailabilityTypes
<1>2. ASSUME NEW v
      PROVE  AvailabilityControls(v, AvailabilityOffers(v))
  <2> DEFINE asked(f) == \E q \in AvailabilityQuestions :
                           f = AvailabilityReason[q] /\ v[q] = AsksReason(q)
  <2>1. /\ asked("cannot_begin_work_immediately_reason") <=>
             v.can_begin_work_immediately = "no"
        /\ asked("cannot_work_full_time_reason") <=> v.can_work_full_time = "no"
        /\ asked("is_prevented_from_accepting_full_time_work_reason") <=>
             v.is_prevented_from_accepting_full_time_work = "yes"
    OBVIOUS
  <2>2. AvailabilityOffers(v) =
          [f \in AvailabilityFields |-> IF f \in AvailabilityQuestions THEN Chosen
                                       ELSE When(asked(f), Typed)]
    BY DEF AvailabilityOffers
  <2> HIDE DEF asked
  <2> QED
    BY <2>1, <2>2 DEF AvailabilityControls, When
<1>3. ASSUME NEW v
      PROVE  AvailabilityForgets(v) <=>
       /\ v.can_begin_work_immediately # "no" =>
            v.cannot_begin_work_immediately_reason = none
       /\ v.can_work_full_time # "no" => v.cannot_work_full_time_reason = none
       /\ v.is_prevented_from_accepting_full_time_work # "yes" =>
            v.is_prevented_from_accepting_full_time_work_reason = none
  BY DEF AvailabilityForgets
<1> QED
  BY <1>1, <1>2, <1>3

LEMMA AvailabilityFieldTypes ==
  ASSUME NEW v
  PROVE  OfTypes(v, AvailabilityTypes) <=>
         /\ DOMAIN v = {"can_begin_work_immediately",
                         "cannot_begin_work_immediately_reason",
                         "can_work_full_time", "cannot_work_full_time_reason",
                         "is_prevented_from_accepting_full_time_work",
                         "is_prevented_from_accepting_full_time_work_reason"}
         /\ v.can_begin_work_immediately \in Answer3
         /\ v.cannot_begin_work_immediately_reason \in Text
         /\ v.can_work_full_time \in Answer3
         /\ v.cannot_work_full_time_reason \in Text
         /\ v.is_prevented_from_accepting_full_time_work \in Answer3
         /\ v.is_prevented_from_accepting_full_time_work_reason \in Text
BY AvailabilityNames DEF OfTypes, AvailabilityTypes

\* The values the effects leave, field by field.
AvailabilityEffect(u, w) ==
  /\ w.can_begin_work_immediately = u.can_begin_work_immediately
  /\ w.cannot_begin_work_immediately_reason =
       IF u.can_begin_work_immediately = "yes" THEN none
       ELSE u.cannot_begin_work_immediately_reason
  /\ w.can_work_full_time = u.can_work_full_time
  /\ w.cannot_work_full_time_reason =
       IF u.can_work_full_time = "yes" THEN none
       ELSE u.cannot_work_full_time_reason
  /\ w.is_prevented_from_accepting_full_time_work =
       u.is_prevented_from_accepting_full_time_work
  /\ w.is_prevented_from_accepting_full_time_work_reason =
       IF u.is_prevented_from_accepting_full_time_work # "yes" THEN none
       ELSE u.is_prevented_from_accepting_full_time_work_reason

LEMMA AvailabilityEffects ==
  ASSUME NEW u, NEW w, w = AvailabilitySettled(u), OfTypes(u, AvailabilityTypes)
  PROVE  /\ OfTypes(w, AvailabilityTypes)
         /\ AvailabilityEffect(u, w)
         /\ AvailabilitySettled(w) = w
<1> DEFINE hidden(z) ==
      {AvailabilityReason[q] : q \in {p \in AvailabilityQuestions :
          IF p = "is_prevented_from_accepting_full_time_work" THEN z[p] # "yes"
          ELSE z[p] = "yes"}}
<1>1. \A z : AvailabilitySettled(z) = [f \in DOMAIN z |-> IF f \in hidden(z) THEN none ELSE z[f]]
  BY DEF AvailabilitySettled, Cleared
<1>2. \A z : /\ hidden(z) \subseteq {"cannot_begin_work_immediately_reason",
                                    "cannot_work_full_time_reason",
                                    "is_prevented_from_accepting_full_time_work_reason"}
             /\ "cannot_begin_work_immediately_reason" \in hidden(z) <=>
                  z.can_begin_work_immediately = "yes"
             /\ "cannot_work_full_time_reason" \in hidden(z) <=>
                  z.can_work_full_time = "yes"
             /\ "is_prevented_from_accepting_full_time_work_reason" \in hidden(z) <=>
                  z.is_prevented_from_accepting_full_time_work # "yes"
  BY AvailabilityNames
<1> HIDE DEF hidden
<1>3. DOMAIN w = DOMAIN u /\ AvailabilityEffect(u, w)
  BY <1>1, <1>2, AvailabilityFieldTypes DEF AvailabilityEffect
<1>4. OfTypes(w, AvailabilityTypes)
  BY <1>3, AvailabilityFieldTypes DEF AvailabilityEffect, Text
<1>5. AvailabilitySettled(w) = w
  <2>1. \A f \in DOMAIN w : f \in hidden(w) => w[f] = none
    BY <1>2, <1>3, <1>4, AvailabilityFieldTypes DEF AvailabilityEffect
  <2>2. w = [f \in DOMAIN w |-> w[f]]
    BY <1>1
  <2> QED
    BY <1>1, <2>1, <2>2
<1> QED
  BY <1>3, <1>4, <1>5

LEMMA AvailabilityStarts ==
  \A v \in AvailabilityInit : Sound("availability", AvailabilitySettled(v))
<1> SUFFICES ASSUME NEW v \in AvailabilityInit
             PROVE  Sound("availability", AvailabilitySettled(v))
  OBVIOUS
<1>1. OfTypes(v, AvailabilityTypes)
  BY AvailabilityFieldTypes
  DEF AvailabilityInit, AvailabilityFields, AvailabilityQuestions,
      AvailabilityReason, Answer3, Text
<1> QED
  BY <1>1, AvailabilityEffects, AvailabilityOperators, AvailabilityFieldTypes
  DEF Sound, AvailabilityEffect, AvailabilityInit, AvailabilityForgets,
      AvailabilityFields, AvailabilityQuestions, AvailabilityReason

LEMMA AvailabilityShown ==
  ASSUME NEW v, OfTypes(v, AvailabilityTypes)
  PROVE  LET shown == Shown("availability", v) IN
         /\ {"can_begin_work_immediately", "can_work_full_time",
             "is_prevented_from_accepting_full_time_work"} \subseteq shown
         /\ "cannot_begin_work_immediately_reason" \in shown <=>
              v.can_begin_work_immediately = "no"
         /\ "cannot_work_full_time_reason" \in shown <=> v.can_work_full_time = "no"
         /\ "is_prevented_from_accepting_full_time_work_reason" \in shown <=>
              v.is_prevented_from_accepting_full_time_work = "yes"
<1> DEFINE offers == AvailabilityOffers(v)
<1>1. /\ offers.can_begin_work_immediately # {}
      /\ offers.can_work_full_time # {}
      /\ offers.is_prevented_from_accepting_full_time_work # {}
      /\ offers.cannot_begin_work_immediately_reason # {} <=>
           v.can_begin_work_immediately = "no"
      /\ offers.cannot_work_full_time_reason # {} <=> v.can_work_full_time = "no"
      /\ offers.is_prevented_from_accepting_full_time_work_reason # {} <=>
           v.is_prevented_from_accepting_full_time_work = "yes"
  BY AvailabilityNames DEF AvailabilityOffers, When, Typed, Chosen
<1> HIDE DEF offers
<1> QED
  BY <1>1, AvailabilityFieldTypes, AvailabilityOperators DEF Shown, offers

LEMMA AvailabilityErrorsAre ==
  ASSUME NEW v
  PROVE  LET errors == AvailabilityErrors(v) IN
         /\ errors \subseteq {"can_begin_work_immediately",
              "cannot_begin_work_immediately_reason", "can_work_full_time",
              "cannot_work_full_time_reason",
              "is_prevented_from_accepting_full_time_work",
              "is_prevented_from_accepting_full_time_work_reason"}
         /\ "can_begin_work_immediately" \in errors <=>
              v.can_begin_work_immediately = none
         /\ "cannot_begin_work_immediately_reason" \in errors <=>
              /\ v.can_begin_work_immediately = "no"
              /\ NoString(v.cannot_begin_work_immediately_reason)
         /\ "can_work_full_time" \in errors <=> v.can_work_full_time = none
         /\ "cannot_work_full_time_reason" \in errors <=>
              v.can_work_full_time = "no" /\ NoString(v.cannot_work_full_time_reason)
         /\ "is_prevented_from_accepting_full_time_work" \in errors <=>
              v.is_prevented_from_accepting_full_time_work = none
         /\ "is_prevented_from_accepting_full_time_work_reason" \in errors <=>
              /\ v.is_prevented_from_accepting_full_time_work = "yes"
              /\ NoString(v.is_prevented_from_accepting_full_time_work_reason)
BY AvailabilityNames DEF AvailabilityErrors, NoValue, NoString

LEMMA AvailabilityRejectsNone ==
  ASSUME NEW v,
         \A q \in AvailabilityQuestions :
           v[q] # none /\ (v[q] = AsksReason(q) => v[AvailabilityReason[q]] # none)
  PROVE  AvailabilityRejects(v) = {}
BY DEF AvailabilityRejects, Absent

LEMMA AvailabilityKeeps ==
  ASSUME NEW v, Sound("availability", v)
  PROVE  Keeps("availability", v)
<1> SUFFICES ASSUME NEW f \in DOMAIN v, NEW x \in AvailabilityOffers(v)[f],
                    NEW u, NEW w,
                    u = [v EXCEPT ![f] = x], w = AvailabilitySettled(u)
             PROVE  Sound("availability", w) /\ Stays("availability", v, f, x, w)
  BY AvailabilityOperators DEF Keeps, After
<1>1. OfTypes(v, AvailabilityTypes) /\ AvailabilityForgets(v)
  BY AvailabilityOperators DEF Sound
<1>2. /\ x \in AvailabilityTypes[f]
      /\ f \in Shown("availability", v)
  <2>1. x \in AvailabilityTypes[f]
    BY <1>1, AvailabilityNames, AvailabilityFieldTypes, AvailabilityByField
    DEF AvailabilityControls, When, Answer3, Text, Typed
  <2> QED
    BY <2>1, AvailabilityOperators DEF Shown
<1>3. OfTypes(u, AvailabilityTypes) /\ u[f] = x /\ \A g \in DOMAIN v \ {f} : u[g] = v[g]
  BY <1>1, <1>2 DEF OfTypes
<1>4. /\ OfTypes(w, AvailabilityTypes)
      /\ AvailabilityEffect(u, w)
      /\ AvailabilitySettled(w) = w
  BY <1>3, AvailabilityEffects
<1>5. x # none
  BY <1>1, AvailabilityFieldTypes, AvailabilityByField
  DEF AvailabilityControls, When, Chosen, Typed, none, blank
<1>6. AvailabilityForgets(w)
  <2>1. /\ w.can_begin_work_immediately \in Answer3
        /\ w.can_work_full_time \in Answer3
        /\ w.is_prevented_from_accepting_full_time_work \in Answer3
    BY <1>4, AvailabilityFieldTypes
  <2>2. ASSUME w.can_begin_work_immediately # "no"
        PROVE  w.cannot_begin_work_immediately_reason = none
    BY <1>1, <1>2, <1>3, <1>4, <1>5, <2>1, <2>2, AvailabilityFieldTypes,
       AvailabilityByField,
       AvailabilityShown
    DEF AvailabilityEffect, Answer3, Chosen
  <2>3. ASSUME w.can_work_full_time # "no"
        PROVE  w.cannot_work_full_time_reason = none
    BY <1>1, <1>2, <1>3, <1>4, <1>5, <2>1, <2>3, AvailabilityFieldTypes,
       AvailabilityByField,
       AvailabilityShown
    DEF AvailabilityEffect, Answer3, Chosen
  <2>4. ASSUME w.is_prevented_from_accepting_full_time_work # "yes"
        PROVE  w.is_prevented_from_accepting_full_time_work_reason = none
    BY <1>1, <1>2, <1>3, <1>4, <1>5, <2>1, <2>4, AvailabilityFieldTypes,
       AvailabilityByField,
       AvailabilityShown
    DEF AvailabilityEffect, Answer3, Chosen
  <2> QED
    BY <2>2, <2>3, <2>4, AvailabilityByField
<1>7. x # "mixed"
  BY <1>1, <1>2, AvailabilityFieldTypes, AvailabilityByField
  DEF Answer3, Chosen, Text, Typed, none, blank
<1>8. Stays("availability", v, f, x, w)
  <2>1. w[f] = x
    BY <1>1, <1>2, <1>3, <1>4, AvailabilityFieldTypes, AvailabilityShown
    DEF AvailabilityEffect
  <2>2. ASSUME NEW g \in Shown("availability", w) \ {f}
        PROVE  w[g] = v[g]
    <3>1. g \in DOMAIN v \ {f} /\ u[g] = v[g]
      BY <1>1, <1>3, <1>4, AvailabilityFieldTypes DEF Shown
    <3>2. w[g] = u[g]
      BY <1>1, <1>4, <3>1, AvailabilityFieldTypes, AvailabilityShown
      DEF AvailabilityEffect
    <3> QED
      BY <3>1, <3>2
  <2> QED
    BY <1>7, <2>1, <2>2 DEF Stays
<1> QED
  BY <1>4, <1>6, <1>8, AvailabilityOperators DEF Sound

LEMMA AvailabilitySays ==
  ASSUME page = "availability", Sound(page, answers)
  PROVE  /\ AcceptedIsFilable
         /\ RefusalIsExplained
         /\ HiddenAnswersAreForgotten
         /\ ProgressAgreesWithNext
         /\ FiledIsReviewed
<1> DEFINE v == answers
<1>1. OfTypes(v, AvailabilityTypes) /\ AvailabilityForgets(v)
  BY AvailabilityOperators DEF Sound
<1>2. \A f \in DOMAIN v : 
        f \in AvailabilityErrors(Prepared(v)) <=> f \in AvailabilityErrors(v)
  BY <1>1, PreparedFields, AvailabilityFieldTypes, AvailabilityErrorsAre
  DEF none, blank, Answer3, Chosen, NoString
<1>3. Judged(page, v)
  <2>1. AvailabilityErrors(Prepared(v)) = AvailabilityErrors(v)
    BY <1>1, <1>2, AvailabilityFieldTypes, AvailabilityErrorsAre
  <2> QED
    BY <1>1, <2>1, AvailabilityErrorsAre, AvailabilityShown, AvailabilityOperators
    DEF Judged
<1>4. AcceptedIsFilable
  <2>1. ASSUME AvailabilityErrors(v) = {}
        PROVE  AvailabilityRejects(v) = {}
    BY <1>1, <2>1, AvailabilityNames, AvailabilityErrorsAre, AvailabilityRejectsNone
    DEF NoString
  <2> QED
    BY <1>3, <2>1, AvailabilityOperators
    DEF Judged, Accepts, AcceptedIsFilable, Unauthorized, HalfAWorkSite,
        LeftBeforeStarting,
        LongLanguage
<1>5. HiddenAnswersAreForgotten
  BY <1>1, AvailabilityFieldTypes, AvailabilityByField, AvailabilityShown
  DEF HiddenAnswersAreForgotten, AvailabilityFields, AvailabilityQuestions,
      AvailabilityReason
<1>6. FiledIsReviewed
  BY AvailabilityOperators
  DEF FiledIsReviewed, Filed, AvailabilityReviewed, Rendered
<1> QED
  BY <1>3, <1>4, <1>5, <1>6, JudgedSays

-----------------------------------------------------------------------------
(* payment *)

LEMMA PaymentOperators ==
  /\ InitialAnswers("payment") = PaymentInit
  /\ FieldTypes("payment") = PaymentTypes
  /\ \A v : /\ Offers("payment", v) = PaymentOffers(v)
            /\ Settled("payment", v) = PaymentSettled(v)
            /\ Errors("payment", v) = PaymentErrors(v)
            /\ Rejects("payment", v) = PaymentRejects(v)
            /\ Reviewed("payment", v) = PaymentReviewed(v)
            /\ Restored("payment", v) = v
            /\ Forgets("payment", v) <=> PaymentForgets(v)
            /\ \A f : Answered("payment", v, f) = v
BY DEF InitialAnswers, FieldTypes, Offers, Settled, Errors, Rejects, Reviewed,
   Restored,
       Forgets, Answered

LEMMA PaymentNames ==
  /\ DOMAIN PaymentTypes =
       AccountFields \cup {"federal_income_tax_withheld", "payment_method"}
  /\ AccountFields \cap {"federal_income_tax_withheld", "payment_method"} = {}
  /\ \A f \in AccountFields : none \in PaymentTypes[f]
  /\ \A f \in AccountFields :
       PaymentTypes[f] \subseteq {none, blank, "ok", "number1", "number2"}
  /\ PaymentTypes.federal_income_tax_withheld = Answer3
  /\ PaymentTypes.payment_method = {none, "debit", "direct_deposit"}
  /\ PaymentTypes.account_type = {none, "ok"}
BY DEF PaymentTypes, AccountFields, Numbers

LEMMA PaymentShown ==
  ASSUME NEW v, OfTypes(v, PaymentTypes)
  PROVE  LET shown == Shown("payment", v) IN
         /\ {"federal_income_tax_withheld", "payment_method"} \subseteq shown
         /\ \A f \in AccountFields : f \in shown <=> v.payment_method = "direct_deposit"
<1> DEFINE offers == PaymentOffers(v)
<1>1. DOMAIN v = AccountFields \cup {"federal_income_tax_withheld", "payment_method"}
  BY PaymentNames DEF OfTypes
<1>2. DOMAIN offers = DOMAIN v
  BY DEF PaymentOffers
<1>3. offers.federal_income_tax_withheld # {} /\ offers.payment_method # {}
  BY <1>1 DEF PaymentOffers, Chosen
<1>4. \A f \in AccountFields : offers[f] # {} <=> v.payment_method = "direct_deposit"
  BY <1>1, PaymentNames DEF PaymentOffers, When, Numbers
<1> HIDE DEF offers
<1> QED
  BY <1>1, <1>2, <1>3, <1>4, PaymentOperators DEF Shown, offers

\* The values the effect leaves, field by field.
PaymentEffect(u, w) ==
  /\ DOMAIN w = DOMAIN u
  /\ \A f \in DOMAIN w :
       w[f] = IF u.payment_method = "debit" /\ f \in AccountFields THEN none ELSE u[f]
  /\ w.payment_method = u.payment_method

LEMMA PaymentEffects ==
  ASSUME NEW u, NEW w, w = PaymentSettled(u), OfTypes(u, PaymentTypes)
  PROVE  /\ OfTypes(w, PaymentTypes)
         /\ PaymentEffect(u, w)
         /\ PaymentSettled(w) = w
<1>1. /\ DOMAIN w = DOMAIN u
      /\ w = [f \in DOMAIN w |-> w[f]]
      /\ \A f \in DOMAIN w :
           w[f] = IF u.payment_method = "debit" /\ f \in AccountFields THEN none ELSE u[f]
  BY DEF PaymentSettled, Cleared
<1>2. "payment_method" \in DOMAIN u /\ "payment_method" \notin AccountFields
  BY PaymentNames DEF OfTypes
<1>3. OfTypes(w, PaymentTypes)
  BY <1>1, PaymentNames DEF OfTypes
<1>4. PaymentSettled(w) = w
  BY <1>1, <1>2 DEF PaymentSettled, Cleared
<1>5. PaymentEffect(u, w)
  BY <1>1, <1>2 DEF PaymentEffect
<1> QED
  BY <1>3, <1>4, <1>5

LEMMA PaymentStarts ==
  \A v \in PaymentInit : Sound("payment", PaymentSettled(v))
<1> SUFFICES ASSUME NEW v \in PaymentInit
             PROVE  Sound("payment", PaymentSettled(v))
  OBVIOUS
<1>1. /\ DOMAIN v = AccountFields \cup {"federal_income_tax_withheld", "payment_method"}
      /\ \A f \in DOMAIN v : v[f] = none
  BY DEF PaymentInit
<1>2. OfTypes(v, PaymentTypes)
  BY <1>1, PaymentNames DEF OfTypes, Answer3
<1> QED
  BY <1>1, <1>2, PaymentNames, PaymentEffects, PaymentOperators
  DEF Sound, PaymentForgets, PaymentEffect, OfTypes

LEMMA PaymentErrorsAre ==
  ASSUME NEW v
  PROVE  LET errors == PaymentErrors(v)
             deposit == v.payment_method = "direct_deposit"
         IN
         /\ errors \subseteq
              AccountFields \cup {"federal_income_tax_withheld", "payment_method"}
         /\ "federal_income_tax_withheld" \in errors <=>
              v.federal_income_tax_withheld = none
         /\ "payment_method" \in errors <=> v.payment_method = none
         /\ "account_type" \in errors <=> deposit /\ v.account_type = none
         /\ "routing_number" \in errors <=> deposit /\ v.routing_number = none
         /\ "account_number" \in errors <=> deposit /\ v.account_number = none
         /\ "LOCAL_re_enter_routing_number" \in errors <=>
              /\ deposit
              /\ \/ v.LOCAL_re_enter_routing_number = none
                 \/ v.LOCAL_re_enter_routing_number # v.routing_number
         /\ "LOCAL_re_enter_account_number" \in errors <=>
              /\ deposit
              /\ \/ v.LOCAL_re_enter_account_number = none
                 \/ v.LOCAL_re_enter_account_number # v.account_number
<1> DEFINE differ == Failing(
             [LOCAL_re_enter_routing_number |->
                /\ v.payment_method = "direct_deposit"
                /\ v.LOCAL_re_enter_routing_number # v.routing_number,
              LOCAL_re_enter_account_number |->
                /\ v.payment_method = "direct_deposit"
                /\ v.LOCAL_re_enter_account_number # v.account_number])
<1>1. differ \subseteq {"LOCAL_re_enter_routing_number", "LOCAL_re_enter_account_number"}
  BY FailingIn
<1>2. /\ "LOCAL_re_enter_routing_number" \in differ <=>
           /\ v.payment_method = "direct_deposit"
           /\ v.LOCAL_re_enter_routing_number # v.routing_number
      /\ "LOCAL_re_enter_account_number" \in differ <=>
           /\ v.payment_method = "direct_deposit"
           /\ v.LOCAL_re_enter_account_number # v.account_number
  BY Zenon DEF Failing
<1>3. PaymentErrors(v) =
        {f \in {"federal_income_tax_withheld", "payment_method"} : NoValue(v[f])}
        \cup {f \in AccountFields : v.payment_method = "direct_deposit" /\ NoValue(v[f])}
        \cup differ
  BY Zenon DEF PaymentErrors
<1> HIDE DEF differ
<1> QED
  BY <1>1, <1>2, <1>3 DEF AccountFields, NoValue

LEMMA PaymentRejectsNone ==
  ASSUME NEW v, v.payment_method # none,
         \/ v.payment_method = "debit"
         \/ \A f \in {"account_type", "routing_number", "account_number"} : v[f] # none
  PROVE  PaymentRejects(v) = {}
<1> DEFINE missing == Failing([f \in {"account_type", "routing_number", "account_number"} |->
                                 v.payment_method # "debit" /\ Absent(v[f])])
           chosen == Failing([payment_method |-> Absent(v.payment_method)])
<1>1. missing = {}
  BY Zenon DEF Failing, Absent
<1>2. "payment_method" \notin chosen
  BY Zenon DEF Failing, Absent
<1>3. chosen \subseteq {"payment_method"}
  BY FailingIn
<1>4. PaymentRejects(v) = missing \cup chosen
  BY Zenon DEF PaymentRejects
<1> QED
  BY <1>1, <1>2, <1>3, <1>4

LEMMA PaymentKeeps ==
  ASSUME NEW v, Sound("payment", v)
  PROVE  Keeps("payment", v)
<1> SUFFICES ASSUME NEW f \in DOMAIN v, NEW x \in PaymentOffers(v)[f], NEW u, NEW w,
                    u = [v EXCEPT ![f] = x], w = PaymentSettled(u)
             PROVE  Sound("payment", w) /\ Stays("payment", v, f, x, w)
  BY PaymentOperators DEF Keeps, After
<1>1. OfTypes(v, PaymentTypes) /\ PaymentForgets(v)
  BY PaymentOperators DEF Sound
<1>2. DOMAIN v = AccountFields \cup {"federal_income_tax_withheld", "payment_method"}
  BY <1>1, PaymentNames DEF OfTypes
<1>3. /\ x \in PaymentTypes[f]
      /\ f \in AccountFields => v.payment_method = "direct_deposit"
      /\ x # none /\ x # "mixed"
      /\ f = "payment_method" => x \in {"debit", "direct_deposit"}
  <2>1. CASE f = "federal_income_tax_withheld"
    BY <2>1, PaymentNames DEF PaymentOffers, Answer3, Chosen, none
  <2>2. CASE f = "payment_method"
    BY <2>2, PaymentNames DEF PaymentOffers, none
  <2>3. CASE f = "account_type"
    BY <2>3, PaymentNames DEF PaymentOffers, When, none
  <2>4. CASE f \in AccountFields \ {"account_type"}
    <3>1. PaymentOffers(v)[f] = When(v.payment_method = "direct_deposit", Numbers)
      BY <2>4 DEF PaymentOffers, AccountFields
    <3>2. PaymentTypes[f] = Numbers \cup {none}
      BY <2>4 DEF PaymentTypes, AccountFields
    <3> QED
      BY <2>4, <3>1, <3>2, PaymentNames DEF When, Numbers, none, blank
  <2> QED
    BY <1>2, <2>1, <2>2, <2>3, <2>4
<1>4. OfTypes(u, PaymentTypes) /\ u[f] = x /\ \A g \in DOMAIN v \ {f} : u[g] = v[g]
  BY <1>1, <1>3 DEF OfTypes
<1>5. /\ OfTypes(w, PaymentTypes)
      /\ PaymentEffect(u, w)
      /\ PaymentSettled(w) = w
  BY <1>4, PaymentEffects
<1>6. DOMAIN w = DOMAIN v /\ "payment_method" \notin AccountFields
  BY <1>1, <1>5, PaymentNames DEF OfTypes
<1> USE DEF PaymentEffect
<1>7. PaymentForgets(w)
  BY <1>1, <1>2, <1>3, <1>4, <1>5, <1>6 DEF PaymentForgets
<1>8. Stays("payment", v, f, x, w)
  <2>1. w[f] = x
    BY <1>2, <1>3, <1>4, <1>5, <1>6
  <2>2. ASSUME NEW g \in Shown("payment", w) \ {f}
        PROVE  w[g] = v[g]
    <3>1. g \in DOMAIN v \ {f} /\ (g \in AccountFields => w.payment_method = "direct_deposit")
      BY <1>5, <1>6, PaymentShown DEF Shown
    <3> QED
      BY <3>1, <1>4, <1>5, <1>6
  <2> QED
    BY <1>3, <2>1, <2>2 DEF Stays
<1> QED
  BY <1>5, <1>7, <1>8, PaymentOperators DEF Sound

LEMMA PaymentSays ==
  ASSUME page = "payment", Sound(page, answers)
  PROVE  /\ AcceptedIsFilable
         /\ RefusalIsExplained
         /\ HiddenAnswersAreForgotten
         /\ ProgressAgreesWithNext
         /\ FiledIsReviewed
<1> DEFINE v == answers
           p == Prepared(v)
<1>1. OfTypes(v, PaymentTypes) /\ PaymentForgets(v)
  BY PaymentOperators DEF Sound
<1>2. /\ DOMAIN v = AccountFields \cup {"federal_income_tax_withheld", "payment_method"}
      /\ AccountFields = {"account_type", "routing_number", "LOCAL_re_enter_routing_number",
                          "account_number", "LOCAL_re_enter_account_number"}
  BY <1>1, PaymentNames DEF OfTypes, AccountFields
<1>3. /\ p.federal_income_tax_withheld = v.federal_income_tax_withheld
      /\ p.payment_method = v.payment_method
      /\ p.account_type = v.account_type
      /\ \A f \in AccountFields : p[f] = IF v[f] = blank THEN none ELSE v[f]
  <2>1. /\ v.federal_income_tax_withheld \in Answer3
        /\ v.payment_method \in {none, "debit", "direct_deposit"}
        /\ v.account_type \in {none, "ok"}
    BY <1>1, <1>2, PaymentNames DEF OfTypes
  <2> QED
    BY <1>2, <2>1, PreparedFields DEF Answer3, Chosen, none, blank
<1> HIDE DEF p
<1>4. AcceptedIsFilable
  <2>1. ASSUME PaymentErrors(p) = {}
        PROVE  PaymentRejects(v) = {}
    <3>1. v.payment_method \in {"debit", "direct_deposit"}
      BY <1>1, <1>3, <2>1, PaymentNames, PaymentErrorsAre DEF OfTypes
    <3>2. v.payment_method = "direct_deposit" =>
            \A f \in {"account_type", "routing_number", "account_number"} : p[f] # none
      BY <1>3, <2>1, PaymentErrorsAre
    <3>3. \A f \in {"account_type", "routing_number", "account_number"} :
            p[f] # none => v[f] # none
      BY <1>2, <1>3
    <3> QED
      BY <3>1, <3>2, <3>3, PaymentRejectsNone DEF none
  <2> QED
    BY <2>1, PaymentOperators
    DEF p, Accepts, AcceptedIsFilable, Unauthorized, HalfAWorkSite,
        LeftBeforeStarting,
        LongLanguage
<1>5. RefusalIsExplained
  <2>1. PaymentErrors(p) \subseteq Shown(page, v)
    BY <1>1, <1>2, <1>3, PaymentErrorsAre, PaymentShown
  <2> QED
    BY <2>1, PaymentOperators DEF RefusalIsExplained, p
<1>6. HiddenAnswersAreForgotten
  BY <1>1, <1>2, PaymentShown DEF HiddenAnswersAreForgotten, PaymentForgets
<1>7. ProgressAgreesWithNext
  <2>1. ASSUME v.payment_method = "direct_deposit" =>
                 v.routing_number # blank /\ v.account_number # blank
        PROVE  PaymentErrors(p) = PaymentErrors(v)
    <3>1. \A f \in DOMAIN v : f \in PaymentErrors(p) <=> f \in PaymentErrors(v)
      BY <1>2, <1>3, <2>1, PaymentErrorsAre
    <3> QED
      BY <1>2, <3>1, PaymentErrorsAre
  <2> QED
    BY <2>1, PaymentOperators
    DEF ProgressAgreesWithNext, Progresses, Accepts, EmptyNumbers, p
<1>8. FiledIsReviewed
  BY <1>2, PaymentOperators
  DEF FiledIsReviewed, Filed, PaymentReviewed, Rendered, Local
<1> QED
  BY <1>4, <1>5, <1>6, <1>7, <1>8

-----------------------------------------------------------------------------
(* All pages. *)

LEMMA EveryPageStarts ==
  ASSUME NEW p \in AllPages, NEW v \in InitialAnswers(p)
  PROVE  Sound(p, Settled(p, v))
<1>1. CASE p = "personal"
  BY <1>1, PersonalStarts, PersonalOperators
<1>2. CASE p = "contact"
  BY <1>2, ContactStarts, ContactOperators
<1>3. CASE p = "demographic"
  BY <1>3, DemographicStarts, DemographicOperators
<1>4. CASE p = "identity"
  BY <1>4, IdentityStarts, IdentityOperators
<1>5. CASE p = "employer_contact"
  BY <1>5, EmployerContactStarts, EmployerContactOperators
<1>6. CASE p = "employer_separation"
  BY <1>6, EmployerSeparationStarts, EmployerSeparationOperators
<1>7. CASE p = "self_employment"
  BY <1>7, SelfEmploymentStarts, SelfEmploymentOperators
<1>8. CASE p = "union"
  BY <1>8, UnionStarts, UnionOperators
<1>9. CASE p = "education"
  BY <1>9, EducationStarts, EducationOperators
<1>10. CASE p = "disability"
  BY <1>10, DisabilityStarts, DisabilityOperators
<1>11. CASE p = "availability"
  BY <1>11, AvailabilityStarts, AvailabilityOperators
<1>12. CASE p = "payment"
  BY <1>12, PaymentStarts, PaymentOperators
<1> QED
  BY <1>1, <1>2, <1>3, <1>4, <1>5, <1>6, <1>7, <1>8, <1>9, <1>10, <1>11, <1>12
  DEF AllPages

LEMMA EveryPageKeeps ==
  ASSUME NEW p \in AllPages, NEW v, Sound(p, v)
  PROVE  Keeps(p, v)
<1>1. CASE p = "personal"
  BY <1>1, PersonalKeeps
<1>2. CASE p = "contact"
  BY <1>2, ContactKeeps
<1>3. CASE p = "demographic"
  BY <1>3, DemographicKeeps
<1>4. CASE p = "identity"
  BY <1>4, IdentityKeeps
<1>5. CASE p = "employer_contact"
  BY <1>5, EmployerContactKeeps
<1>6. CASE p = "employer_separation"
  BY <1>6, EmployerSeparationKeeps
<1>7. CASE p = "self_employment"
  BY <1>7, SelfEmploymentKeeps
<1>8. CASE p = "union"
  BY <1>8, UnionKeeps
<1>9. CASE p = "education"
  BY <1>9, EducationKeeps
<1>10. CASE p = "disability"
  BY <1>10, DisabilityKeeps
<1>11. CASE p = "availability"
  BY <1>11, AvailabilityKeeps
<1>12. CASE p = "payment"
  BY <1>12, PaymentKeeps
<1> QED
  BY <1>1, <1>2, <1>3, <1>4, <1>5, <1>6, <1>7, <1>8, <1>9, <1>10, <1>11, <1>12
  DEF AllPages

\* mergeClaimFormValues changes two pages; the others come back as they were.
LEMMA OthersComeBack ==
  ASSUME NEW p \in AllPages \ {"personal", "employer_contact"}, NEW v
  PROVE  Restored(p, v) = v
BY DEF Restored

LEMMA EveryPageReturns ==
  ASSUME NEW p \in AllPages, NEW v, Sound(p, v)
  PROVE  Sound(p, Settled(p, Restored(p, v)))
<1>1. CASE p = "personal"
  BY <1>1, PersonalReturns, PersonalOperators
<1>2. CASE p = "employer_contact"
  BY <1>2, EmployerContactReturns, EmployerContactOperators
  DEF EmployerContactSettled
<1>3. CASE p \notin {"personal", "employer_contact"}
  BY <1>3, OthersComeBack DEF Sound
<1> QED
  BY <1>1, <1>2, <1>3

LEMMA EveryPageSays ==
  ASSUME page \in AllPages, Sound(page, answers)
  PROVE  /\ AcceptedIsFilable
         /\ RefusalIsExplained
         /\ HiddenAnswersAreForgotten
         /\ ProgressAgreesWithNext
         /\ FiledIsReviewed
<1>1. CASE page = "personal"
  BY <1>1, PersonalSays
<1>2. CASE page = "contact"
  BY <1>2, ContactSays
<1>3. CASE page = "demographic"
  BY <1>3, DemographicSays
<1>4. CASE page = "identity"
  BY <1>4, IdentitySays
<1>5. CASE page = "employer_contact"
  BY <1>5, EmployerContactSays
<1>6. CASE page = "employer_separation"
  BY <1>6, EmployerSeparationSays
<1>7. CASE page = "self_employment"
  BY <1>7, SelfEmploymentSays
<1>8. CASE page = "union"
  BY <1>8, UnionSays
<1>9. CASE page = "education"
  BY <1>9, EducationSays
<1>10. CASE page = "disability"
  BY <1>10, DisabilitySays
<1>11. CASE page = "availability"
  BY <1>11, AvailabilitySays
<1>12. CASE page = "payment"
  BY <1>12, PaymentSays
<1> QED
  BY <1>1, <1>2, <1>3, <1>4, <1>5, <1>6, <1>7, <1>8, <1>9, <1>10, <1>11, <1>12
  DEF AllPages

LEMMA EveryPageReturnKeeps ==
  ASSUME page \in AllPages, Sound(page, answers)
  PROVE  ReturnKeepsAnswers
<1>1. CASE page \in {"personal", "employer_contact"}
  BY <1>1, PersonalReturnKeeps, EmployerContactReturnKeeps
<1>2. CASE page \notin {"personal", "employer_contact"}
  BY <1>2, OthersComeBack DEF ReturnKeepsAnswers, Sound
<1> QED
  BY <1>1, <1>2

LEMMA KeptAnswersStay ==
  ASSUME Keeps(page, answers)
  PROVE  AnAnswerStays
<1> SUFFICES ASSUME NEW f \in Shown(page, answers) \ Entangled,
                    NEW x \in Offers(page, answers)[f]
             PROVE  LET w == Settled(page, Answered(page, [answers EXCEPT ![f] = x], f)) IN
                    /\ w[f] = IF x = "mixed" THEN "opt_out" ELSE x
                    /\ \A g \in (Shown(page, answers) \cap Shown(page, w))
                                  \ (Entangled \cup {f}) :
                         w[g] = answers[g]
  BY DEF AnAnswerStays
<1> DEFINE w == Settled(page, Answered(page, [answers EXCEPT ![f] = x], f))
<1>1. f \in DOMAIN answers /\ f \notin Entangled /\ w = After(page, answers, f, x)
  BY DEF Shown, After
<1> HIDE DEF w
<1>2. Stays(page, answers, f, x, w)
  BY <1>1 DEF Keeps
<1> QED
  BY <1>2 DEF Stays, w

\* The inductive invariant: the page has values that it can have, that its
\* effects leave alone and in which it has forgotten what it no longer asks.
AnswersInv == page \in Pages /\ Sound(page, answers)

LEMMA AnswersInvStarts ==
  ASSUME Init
  PROVE  AnswersInv
BY EveryPageStarts, PagesAssumption DEF Init, AnswersInv

LEMMA AnswersInvStays ==
  ASSUME AnswersInv, [Next]_vars
  PROVE  AnswersInv'
<1>1. page \in AllPages /\ page \in Pages /\ Sound(page, answers)
  BY PagesAssumption DEF AnswersInv
<1>2. ASSUME NEW f \in DOMAIN answers, Answer(f)
      PROVE  AnswersInv'
  <2>1. PICK x \in Offers(page, answers)[f] : answers' = After(page, answers, f, x)
    BY <1>2 DEF Answer, After
  <2>2. Sound(page, answers')
    BY <1>1, <2>1, EveryPageKeeps DEF Keeps
  <2> QED
    BY <1>1, <1>2, <2>2 DEF Answer, AnswersInv
<1>3. CASE Return
  BY <1>1, <1>3, EveryPageReturns DEF Return, AnswersInv
<1>4. CASE UNCHANGED vars
  BY <1>4 DEF vars, AnswersInv
<1> QED
  BY <1>2, <1>3, <1>4 DEF Next

\* Everything the invariant says.
LEMMA AnswersInvSays ==
  ASSUME AnswersInv
  PROVE  /\ TypeOK
         /\ AcceptedIsFilable
         /\ RefusalIsExplained
         /\ HiddenAnswersAreForgotten
         /\ AnAnswerStays
         /\ ReturnKeepsAnswers
         /\ ProgressAgreesWithNext
         /\ FiledIsReviewed
<1>1. page \in AllPages /\ Sound(page, answers)
  BY PagesAssumption DEF AnswersInv
<1>2. TypeOK
  BY DEF AnswersInv, Sound, TypeOK
<1> QED
  BY <1>1, <1>2, EveryPageKeeps, EveryPageSays, EveryPageReturnKeeps,
     KeptAnswersStay

LEMMA AnswersInvHolds ==
  Spec => []AnswersInv
<1>1. Init => AnswersInv
  BY AnswersInvStarts
<1>2. AnswersInv /\ [Next]_vars => AnswersInv'
  BY AnswersInvStays
<1> QED
  BY <1>1, <1>2, PTL DEF Spec

(* Whatever the claimant answers, in any order, with saves and returns between: *)
(* the fields of a page stay what they were, have values that they can have,    *)
(* and the effects of the page leave the answers alone once they have run.      *)
THEOREM AnswersWellTyped ==
  Spec => []TypeOK
BY AnswersInvHolds, AnswersInvSays, PTL

(* What a page accepts the server accepts, but for the four cases that          *)
(* AcceptedIsFilable names, and in each of them it refuses.                     *)
THEOREM AcceptedAnswersFilable ==
  Spec => []AcceptedIsFilable
BY AnswersInvHolds, AnswersInvSays, PTL

(* When a page refuses the answers, an error is at a control that is rendered,  *)
(* but for a hidden last day of work and a wrong number of phones.              *)
THEOREM RefusalsExplained ==
  Spec => []RefusalIsExplained
BY AnswersInvHolds, AnswersInvSays, PTL

(* However she came there, an answer whose question is hidden is gone, but for  *)
(* the fields that HiddenAnswersAreForgotten names.                             *)
THEOREM HiddenForgotten ==
  Spec => []HiddenAnswersAreForgotten
BY AnswersInvHolds, AnswersInvSays, PTL

(* In every state that the page can reach, an answer takes the value she gave   *)
(* it and leaves the other answers on the screen alone.                         *)
THEOREM AnswersStay ==
  Spec => []AnAnswerStays
BY AnswersInvHolds, AnswersInvSays, PTL

(* In every state that the page can reach, a save and a return bring back the   *)
(* answers that were shown, and an accepted page is accepted again.             *)
THEOREM AnswersComeBack ==
  Spec => []ReturnKeepsAnswers
BY AnswersInvHolds, AnswersInvSays, PTL

(* useClaimProgress and Next judge the answers alike, but for a draft with      *)
(* empty account numbers.                                                       *)
THEOREM ProgressAgrees ==
  Spec => []ProgressAgreesWithNext
BY AnswersInvHolds, AnswersInvSays, PTL

(* Of an accepted page, the review page shows every answer that is filed, but   *)
(* for self_employed, email and a mailing address equal to the residence.       *)
THEOREM FiledReviewed ==
  Spec => []FiledIsReviewed
BY AnswersInvHolds, AnswersInvSays, PTL
=============================================================================

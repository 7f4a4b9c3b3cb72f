----------------------------- MODULE FormValues -----------------------------
(***************************************************************************)
(* The answers of a question page as Formik holds them: a record from      *)
(* field names to values.  A value is a string that names a class of       *)
(* inputs the rules of the form tell apart, never the characters typed;    *)
(* `none` is JavaScript's undefined and `blank` the empty string.          *)
(*                                                                         *)
(* Rules on a page are records of conditions, one per field; a condition   *)
(* that holds is an error at that field.                                   *)
(***************************************************************************)

none  == "none"
blank == "blank"

\* What a text field can hold before and after the claimant typed in it.
Text == {none, blank, "ok"}
Typed == {blank, "ok"}
Chosen == {"yes", "no"}

\* What a control offers: nothing when it is not rendered.
When(rendered, values) == IF rendered THEN values ELSE {}

\* The fields whose condition holds.
Failing(conditions) == {f \in DOMAIN conditions : conditions[f]}

\* yup: a missing value fails string().required(), boolean().required() and
\* date().required(); mixed().required() lets an empty string through.
NoString(x) == x \in {none, blank}
NoValue(x)  == x = none

\* Formik validates a copy of the values in which "" is undefined.
Prepared(v) == [f \in DOMAIN v |-> IF v[f] = blank THEN none ELSE v[f]]

\* useClearFields: when the condition holds, the fields get the value.  It
\* acts after every render, so the values it leaves are the ones that stay.
Cleared(v, when, fields, value) ==
  [f \in DOMAIN v |-> IF when /\ f \in fields THEN value ELSE v[f]]

(* common/YupBuilder.tsx *)

\* Names, addresses and phones are objects; "empty" is one whose texts are "".

\* A name: first_name and last_name are required, "long" is over 36.
NameValues == {"empty", "null", "part", "full", "long"}
yupName(x) == x # "full"

\* An address: "part" has a first line but no state or zipcode that would do,
\* "full" and "other" are two addresses that are complete.
AddressValues == {"empty", "part", "full", "other"}
yupAddress(x) == x \notin {"full", "other"}

\* A phone: "bad" does not match the pattern of a number.
PhoneValues == {"empty", "bad", "ok"}
yupPhone(x) == x # "ok"

\* A date in the strict ISO form; "bad" is any other text.
NoDate(x) == x \in {none, blank, "bad"}

\* An optional date: undefined passes, text that is no date does not.
WrongDate(x) == x \in {blank, "bad"}

(* What the server's JSON schema says of the same values: a key that is    *)
(* undefined is absent, and "" is a string like any other.                 *)
Absent(x) == x = none
person_name(x) == x \in {"null", "long"}
address(x)     == x \notin {"full", "other"}
phone(x)       == x # "ok"
date(x)        == x \in {blank, "bad"}
=============================================================================

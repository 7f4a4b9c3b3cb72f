------------------------------ MODULE OtherPay ------------------------------
(***************************************************************************)
(* The page other-pay: components OtherPay, OtherPayDetail, CurrencyField  *)
(* and CheckboxGroupField, and the page's schema.                          *)
(*                                                                         *)
(* Formik holds the array other_pay in the order in which the boxes were   *)
(* ticked; the details are rendered with the headings of a sorted copy and *)
(* with the field names of the array itself, and each text box keeps the   *)
(* text in its own React state.  Of a detail the model has the amount; the *)
(* date is kept in the same way and the note without a state of its own.   *)
(*                                                                         *)
(* An amount remembers `under`, the heading the claimant read when she     *)
(* typed it.  Amounts are thousandths of a dollar.                         *)
(***************************************************************************)
EXTENDS Integers, Sequences, SequencesExt

CONSTANT
  PayTypeOrder,   \* the pay types but no_other_pay, in the order of their boxes
  Typings         \* the amounts she may type, a subset of TypedAmounts

PayTypes == Range(PayTypeOrder)
NoOtherPay == "no_other_pay"

nothing == -1   \* an empty text box, and the value "" or undefined of Formik

\* Empty, 0, 0.05, 1.1, 5, 12.5, 12.34 and 12.345 dollars.
TypedAmounts == {nothing, 0, 50, 1100, 5000, 12500, 12340, 12345}
\* "1.1" is not two decimals, and 1.1 * 100 is no integer in floating point.
Inexact == {1100}

ASSUME OtherPayAssumption ==
  /\ PayTypeOrder \in Seq(STRING \ {NoOtherPay}) /\ IsInjective(PayTypeOrder)
  /\ Typings \subseteq TypedAmounts

VARIABLES
  other_pay,   \* Formik: the details, [pay_type, total]
  boxes,       \* React: what each rendered text box shows
  saved_pay,   \* Formik's initialValues.other_pay, as of the last mount
  in_order,    \* she ticked each type after those above it (since none was)
  unticked     \* she took a tick back since the last mount

otherPayVars == <<other_pay, boxes, saved_pay, in_order, unticked>>

(* CurrencyField and currencyFormat.ts *)

blankAmount == [amount |-> nothing, under |-> NoOtherPay]

\* What is stored for a text: cents, in thousandths of a dollar.
convertDollarsToCents(a) == IF a \in Inexact THEN a + 1 ELSE a

\* What a box starts with: two decimals of what is stored.
convertCentsToDollars(a) == IF a = nothing THEN nothing ELSE ((a + 5) \div 10) * 10

\* CENTS_REGEX, after required: at least two digits and nothing else.
yupCurrency(a) == ~ (a >= 100 /\ a % 10 = 0)

(* OtherPay *)

OptionIndex(type) == SelectInSeq(PayTypeOrder, LAMBDA t : t = type)
LOCAL_pay_types == {other_pay[k].pay_type : k \in DOMAIN other_pay}

(* Variant: the comparison is the wrong way round.                         *)
sortPayDetails_reversed(details) ==
  CHOOSE sorted \in [DOMAIN details -> Range(details)] :
    /\ Range(sorted) = Range(details)
    /\ \A i, j \in DOMAIN sorted :
         i < j => OptionIndex(sorted[i].pay_type) > OptionIndex(sorted[j].pay_type)

\* The details in the order of their boxes.
sortPayDetails(details) ==
  CHOOSE sorted \in [DOMAIN details -> Range(details)] :
    /\ Range(sorted) = Range(details)
    /\ \A i, j \in DOMAIN sorted :
         i < j => OptionIndex(sorted[i].pay_type) < OptionIndex(sorted[j].pay_type)

\* The heading over the detail whose fields are those of other_pay[k].
Heading(k) == sortPayDetails(other_pay)[k].pay_type

\* The boxes over `details`: the ones that are rendered already keep their
\* text, a new one starts from the initial value at its index.
Rerendered(details) ==
  IF Len(details) = 1 /\ details[1].pay_type = NoOtherPay THEN <<>>
  ELSE [k \in DOMAIN details |->
          IF k \in DOMAIN boxes THEN boxes[k]
          ELSE IF k \in DOMAIN saved_pay
          THEN [saved_pay[k].total EXCEPT !.amount = convertCentsToDollars(@)]
          ELSE blankAmount]

Show(details) == /\ other_pay' = details
                 /\ boxes' = Rerendered(details)

Detail(type) == [pay_type |-> type, total |-> blankAmount]

\* Only no_other_pay's box can be changed while it is ticked.
Disabled(type) == NoOtherPay \in LOCAL_pay_types /\ type # NoOtherPay

OtherPayInit ==
  /\ other_pay = <<>> /\ boxes = <<>> /\ saved_pay = <<>>
  /\ in_order = TRUE /\ unticked = FALSE

Tick(type) ==
  /\ type \in PayTypes \ LOCAL_pay_types
  /\ ~Disabled(type)
  /\ Show(Append(other_pay, Detail(type)))
  /\ in_order' = \/ other_pay = <<>>
                 \/ /\ in_order
                    /\ \A t \in LOCAL_pay_types : OptionIndex(t) < OptionIndex(type)
  /\ UNCHANGED <<saved_pay, unticked>>

TickNoOtherPay ==
  /\ NoOtherPay \notin LOCAL_pay_types
  /\ Show(<<Detail(NoOtherPay)>>)
  /\ in_order' = TRUE
  /\ unticked' = (unticked \/ other_pay # <<>>)
  /\ UNCHANGED saved_pay

\* The effect on LOCAL_pay_types takes the detail out of the array.
Untick(type) ==
  /\ type \in LOCAL_pay_types
  /\ ~Disabled(type)
  /\ Show(RemoveFirstMatch(other_pay, LAMBDA d : d.pay_type = type))
  /\ unticked' = TRUE
  /\ UNCHANGED <<saved_pay, in_order>>

\* Typing into box k changes its text and, by its effect, other_pay[k].total.
TypeAmount(k, a) ==
  /\ k \in DOMAIN boxes
  /\ boxes[k].amount # a
  /\ LET under == IF a = nothing THEN NoOtherPay ELSE Heading(k) IN
     /\ boxes' = [boxes EXCEPT ![k] = [amount |-> a, under |-> under]]
     /\ other_pay' = [other_pay EXCEPT ![k].total =
                        [amount |-> convertDollarsToCents(a), under |-> under]]
  /\ UNCHANGED <<saved_pay, in_order, unticked>>

\* She saves, leaves the page and comes back: everything is mounted anew.
ReturnToOtherPay ==
  /\ saved_pay' = other_pay
  /\ boxes' = IF LOCAL_pay_types = {NoOtherPay} THEN <<>>
              ELSE [k \in DOMAIN other_pay |->
                      [other_pay[k].total EXCEPT !.amount = convertCentsToDollars(@)]]
  /\ unticked' = FALSE
  /\ UNCHANGED <<other_pay, in_order>>

OtherPayNext ==
  \/ \E type \in PayTypes : Tick(type)
  \/ TickNoOtherPay
  \/ \E type \in PayTypes \cup {NoOtherPay} : Untick(type)
  \/ \E k \in DOMAIN boxes, a \in Typings : TypeAmount(k, a)
  \/ ReturnToOtherPay

\* The page's schema.
OtherPayAccepted ==
  /\ other_pay # <<>>
  /\ \A k \in DOMAIN other_pay :
       \/ other_pay[k].pay_type = NoOtherPay
       \/ ~ yupCurrency(other_pay[k].total.amount)
---------------------------------------------------------------------------

(* The answer "no other pay" is exclusive, and what the page accepts has   *)
(* no type twice: the agency is never told of a payment and of none.       *)
NoOtherPayIsAlone ==
  /\ NoOtherPay \in LOCAL_pay_types => Len(other_pay) = 1
  /\ Cardinality(LOCAL_pay_types) = Len(other_pay)

(* An amount is filed for the type under whose heading it was typed,       *)
(* provided that she ticked the types from the top down: the headings come *)
(* from a sorted copy, the field names from the array (OtherPay.tsx:113),  *)
(* so amounts change places otherwise.                                     *)
AmountIsOfItsType ==
  in_order => \A k \in DOMAIN other_pay :
                other_pay[k].total.under \in {NoOtherPay, other_pay[k].pay_type}

(* An amount that the page accepts is the amount its box shows, also after *)
(* a return to the page, provided that no tick was taken back: the boxes   *)
(* are keyed by position and keep their text when the array moves up       *)
(* (OtherPay.tsx:117).                                                     *)
BoxShowsAmount ==
  ~unticked => \A k \in DOMAIN boxes :
                 LET stored == other_pay[k].total.amount IN
                 ~ yupCurrency(stored) => boxes[k].amount = stored

(* The agency is told the amounts the claimant saw herself enter, each for *)
(* the payment it was entered for, or that there are none; the ways in     *)
(* which the page fails her are the exceptions of the three parts.         *)
OtherPayIsAsEntered == NoOtherPayIsAlone /\ AmountIsOfItsType /\ BoxShowsAmount
=============================================================================

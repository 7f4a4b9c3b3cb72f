----------------------------- MODULE DateField ------------------------------
(***************************************************************************)
(* A date typed into three boxes: the component DateInputField, as the     *)
(* page identity uses it for the birthdate.  The boxes are React state,    *)
(* filled once from Formik's initial value; an effect writes what they     *)
(* hold into Formik as one text.  The keys 0-9 and "/" are let through.    *)
(*                                                                         *)
(* The text of a box is "" (empty), digits, or digits with a slash.        *)
(***************************************************************************)
EXTENDS FormValues

Months == {"", "2", "12", "1/"}
DaysOfMonth == {"", "3", "31", "/"}
Years == {"", "85", "1985", "19/5"}

VARIABLES
  date_boxes,   \* React: the texts of the boxes
  birthdate     \* Formik: undefined, "", or the three texts joined by dashes

dateVars == <<date_boxes, birthdate>>

emptyBoxes == [year |-> "", month |-> "", day |-> ""]

\* padStart(2, "0"), which leaves an empty box empty.
Padded(text) == CASE text = "2" -> "02" [] text = "3" -> "03" [] text = "/" -> "0/"
                  [] OTHER -> text

HasSlash(text) == text \in {"1/", "/", "0/", "19/5"}

\* The value in Formik, as its parts; undefined and "" have none.
none_date == [year |-> none, month |-> none, day |-> none]
blank_date == [year |-> blank, month |-> blank, day |-> blank]

updateFormik(boxes) ==
  IF boxes = emptyBoxes THEN blank_date
  ELSE [year |-> boxes.year, month |-> Padded(boxes.month), day |-> Padded(boxes.day)]

(* Variant: the parts are taken in the order in which they are displayed.  *)
parsedInitialValue_swapped(value) ==
  IF value \in {none_date, blank_date} \/ \E part \in DOMAIN value : HasSlash(value[part])
  THEN emptyBoxes ELSE [year |-> value.year, month |-> value.day, day |-> value.month]

\* INPUT_VALUE_REGEXP has digits only; otherwise all boxes start empty.
parsedInitialValue(value) ==
  IF value \in {none_date, blank_date} \/ \E part \in DOMAIN value : HasSlash(value[part])
  THEN emptyBoxes ELSE value

\* yupDate: a day of the calendar, in full.
IsDate(value) == /\ value.year = "1985"
                 /\ value.month \in {"02", "12"} /\ value.day \in {"03", "31"}
                 /\ ~ (value.month = "02" /\ value.day = "31")

DateInit == /\ date_boxes = emptyBoxes
            /\ birthdate = none_date

TypeInBox(part, text) ==
  /\ date_boxes[part] # text
  /\ date_boxes' = [date_boxes EXCEPT ![part] = text]
  /\ birthdate' = updateFormik(date_boxes')

\* She saves, leaves the page and comes back.
ReturnToDate ==
  /\ date_boxes' = parsedInitialValue(birthdate)
  /\ UNCHANGED birthdate

DateNext ==
  \/ \E text \in Months : TypeInBox("month", text)
  \/ \E text \in DaysOfMonth : TypeInBox("day", text)
  \/ \E text \in Years : TypeInBox("year", text)
  \/ ReturnToDate
---------------------------------------------------------------------------

(* A date that the page accepts is the one in its boxes, and a date that   *)
(* it refuses can be seen in them, unless a slash was typed: then the      *)
(* boxes come up empty although the value is still there                   *)
(* (DateInputField.tsx:80), and the page refuses a date nobody sees.       *)
AcceptedDateIsShown ==
  /\ IsDate(birthdate) => updateFormik(date_boxes) = birthdate
  /\ updateFormik(date_boxes) # birthdate =>
       \/ birthdate = none_date /\ date_boxes = emptyBoxes
       \/ date_boxes = emptyBoxes /\ \E part \in DOMAIN birthdate : HasSlash(birthdate[part])
=============================================================================

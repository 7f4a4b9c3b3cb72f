-------------------------- MODULE OccupationPicker --------------------------
(***************************************************************************)
(* The page occupation: the component OccupationPicker with its list,      *)
(* Pagination and useDebounce, and the page's schema.                      *)
(*                                                                         *)
(* The claimant types a job title; half a second after the last keystroke  *)
(* it is looked up among the occupations of the SOC, and she picks one of  *)
(* those found.  Formik keeps the title, the code of the occupation and    *)
(* the name an effect finds for it in the present results; the results and *)
(* the page of the list are React state.                                   *)
(***************************************************************************)
EXTENDS Integers, Sequences, SequencesExt

CONSTANTS
  Occupations,          \* the number of SOC entries; a code is its position
  WordLength,           \* the words she may type, with their lengths
  Titles,               \* the job titles she may type: sequences of words
  Hits,                 \* Hits[word][code]: how often the word occurs in the entry
  OccupationsPerPage,   \* OCCUPATIONS_PER_PAGE, 5 in the code
  LastPages             \* the lists, by their last page, that Pagination is checked on

MinJobTitleLength == 2   \* MIN_JOB_TITLE_LENGTH
buttons == 3             \* page numbers around the current one

NoTitle == <<>>
noCode == 0
noName == 0

Codes == 1 .. Occupations

ASSUME OccupationAssumption ==
  /\ Occupations \in Nat /\ OccupationsPerPage \in Nat \ {0} /\ LastPages \subseteq Nat
  /\ \A title \in Titles : Range(title) \subseteq DOMAIN WordLength
  /\ \A w \in DOMAIN WordLength : WordLength[w] \in Nat \ {0}
  /\ \A w \in DOMAIN Hits : DOMAIN Hits[w] \subseteq Codes

VARIABLES
  job_title,    \* Formik: what she has typed
  bls_code,     \* Formik: the occupation picked
  bls_title,    \* Formik: whose name it has, set by an effect
  debounced,    \* React: the title the results are for
  list_page,    \* React: the page of the list of results, from 0
  picked_for,   \* the title whose results she picked the code from
  turned_for    \* the title in whose results the list page was last set to a
                \* page that they have

occupationVars == <<job_title, bls_code, bls_title, debounced, list_page,
                    picked_for, turned_for>>

(* searchSOCEntries *)

\* Letters and the spaces between words.
TitleLength(title) ==
  IF title = NoTitle THEN 0
  ELSE SumFunction([k \in DOMAIN title |-> WordLength[title[k]]]) + Len(title) - 1

\* Occurrences in title (t), examples (e) and description (d), as a whole
\* word, as a plural (ts, es), or as any part of title or examples (part).
Score(w, code) ==
  IF w \notin DOMAIN Hits \/ code \notin DOMAIN Hits[w] THEN 0
  ELSE LET h == Hits[w][code] IN
       5 * h.t + 4 * h.ts + 4 * h.e + 3 * h.es + (IF h.part THEN 2 ELSE 0) + h.d

\* Words of less than three letters are skipped.
Tokens(title) == SelectSeq(title, LAMBDA w : WordLength[w] >= 3)

\* The results by their places, counted from 1.
Ordered(results, place) ==
  [k \in 1 .. Cardinality(results) |-> CHOOSE code \in results : place[code] = k]

\* The sum of the scores counts once for each word that hits.
searchSOCEntries(title) ==
  LET tokens  == Tokens(title)
      hits    == [code \in Codes |-> {k \in DOMAIN tokens : Score(tokens[k], code) > 0}]
      rank    == [code \in Codes |-> Cardinality(hits[code]) *
                    SumFunction([k \in DOMAIN tokens |-> Score(tokens[k], code)])]
      results == {code \in Codes : hits[code] # {}}
      \* Entries enter the results word by word, and sort() is stable.
      entered(a, b) == \/ Min(hits[a]) < Min(hits[b])
                       \/ Min(hits[a]) = Min(hits[b]) /\ a < b
      before(a, b)  == rank[a] > rank[b] \/ (rank[a] = rank[b] /\ entered(a, b))
      place   == [code \in results |-> Cardinality({a \in results : before(a, code)}) + 1]
  IN Ordered(results, place)

\* The entries of the SOC are part of the program.
Matches == [title \in Titles |-> searchSOCEntries(title)]

searchSOC(title) ==
  IF TitleLength(title) <= MinJobTitleLength THEN <<>> ELSE Matches[title]

(* OccupationPicker and OccupationList *)

Options == searchSOC(debounced)
LastPageIndex(options) == (Len(options) + OccupationsPerPage - 1) \div OccupationsPerPage - 1

\* The options on the page of the list.
Visible(options, page) ==
  {options[k] : k \in {i \in DOMAIN options : (i - 1) \div OccupationsPerPage = page}}

\* The effect that names the code: in the present results or not at all.
NameOf(code, options) == IF code \in Range(options) THEN code ELSE noName

(* Variant: the page is computed from the position counted from 1.         *)
PageOf_off_by_one(code, options, page) ==
  LET k == SelectInSeq(options, LAMBDA c : c = code) IN
  IF k > 1 THEN k \div OccupationsPerPage ELSE page

\* The effect that turns to the code picked, unless it is the first result.
PageOf(code, options, page) ==
  LET k == SelectInSeq(options, LAMBDA c : c = code) IN
  IF k > 1 THEN (k - 1) \div OccupationsPerPage ELSE page

(* Pagination *)

\* One pass of the loop that widens the window of page numbers.
Widened(w, lastPage) ==
  IF w.b >= buttons \/ w.b >= lastPage THEN w
  ELSE LET down == w.lower > 1
           b    == IF down THEN w.b + 1 ELSE w.b
           up   == b < buttons /\ w.upper < lastPage
       IN [lower |-> IF down THEN w.lower - 1 ELSE w.lower,
           upper |-> IF up THEN w.upper + 1 ELSE w.upper,
           b     |-> IF up THEN b + 1 ELSE b]

\* The window around the current page: the loop makes two passes at most.
Around(currentPage, lastPage) ==
  LET start == Min({currentPage, lastPage}) IN
  Widened(Widened([lower |-> start, upper |-> start, b |-> 1], lastPage), lastPage)

\* One pass of the loop over the page numbers, 0 standing for "...".
Pushed(pages, i, shown) ==
  IF i \in shown THEN Append(pages, i)
  ELSE IF Last(pages) # 0 THEN Append(pages, 0) ELSE pages

\* The page numbers rendered.
pagination(currentIndex, lastIndex) ==
  LET lastPage == lastIndex + 1
      window   == Around(currentIndex + 1, lastPage)
      shown    == {1, lastPage} \cup (window.lower .. window.upper)
      pages[i \in 0 .. lastPage] == IF i = 0 THEN <<>> ELSE Pushed(pages[i - 1], i, shown)
  IN pages[lastPage]

\* What a click on a number, on Previous or on Next turns to.
Turnable(currentIndex, lastIndex) ==
  {p - 1 : p \in Range(pagination(currentIndex, lastIndex)) \ {0}}
  \cup (IF currentIndex # 0 THEN {Max({0, currentIndex - 1})} ELSE {})
  \cup (IF currentIndex # lastIndex THEN {Min({lastIndex, currentIndex + 1})} ELSE {})

OccupationInit ==
  /\ job_title = NoTitle /\ bls_code = noCode /\ bls_title = noName
  /\ debounced = NoTitle /\ list_page = 0
  /\ picked_for = NoTitle /\ turned_for = NoTitle

TypeTitle(t) ==
  /\ t # job_title
  /\ job_title' = t
  /\ UNCHANGED <<bls_code, bls_title, debounced, list_page, picked_for, turned_for>>

\* useDebounce: half a second without a keystroke.
Search ==
  /\ debounced # job_title
  /\ debounced' = job_title
  /\ LET options == searchSOC(job_title) IN
     /\ bls_title' = NameOf(bls_code, options)
     /\ list_page' = PageOf(bls_code, options, list_page)
     /\ turned_for' = IF SelectInSeq(options, LAMBDA c : c = bls_code) > 1
                      THEN job_title ELSE turned_for
  /\ UNCHANGED <<job_title, bls_code, picked_for>>

Pick(code) ==
  /\ code \in Visible(Options, list_page) \ {bls_code}
  /\ bls_code' = code
  /\ bls_title' = NameOf(code, Options)
  /\ list_page' = PageOf(code, Options, list_page)
  /\ picked_for' = debounced
  /\ turned_for' = debounced
  /\ UNCHANGED <<job_title, debounced>>

TurnTo(p) ==
  /\ LastPageIndex(Options) > 0
  /\ p \in Turnable(list_page, LastPageIndex(Options)) \ {list_page}
  /\ list_page' = p
  /\ turned_for' = IF p > LastPageIndex(Options) THEN turned_for ELSE debounced
  /\ UNCHANGED <<job_title, bls_code, bls_title, debounced, picked_for>>

\* She saves, leaves the page and comes back: there are no results at first,
\* and the effect takes the name away.
ReturnToOccupation ==
  /\ debounced' = NoTitle
  /\ list_page' = 0
  /\ turned_for' = NoTitle
  /\ bls_title' = NameOf(bls_code, <<>>)
  /\ UNCHANGED <<job_title, bls_code, picked_for>>

OccupationNext ==
  \/ \E t \in Titles : TypeTitle(t)
  \/ Search
  \/ \E code \in Codes : Pick(code)
  \/ \E p \in 0 .. Occupations : TurnTo(p)
  \/ ReturnToOccupation

\* The page's schema, but for the description.
OccupationAccepted ==
  /\ TitleLength(job_title) >= 3
  /\ bls_code # noCode
---------------------------------------------------------------------------

(* The agency gets the name of the occupation she picked, provided the     *)
(* search has caught up with her typing and she typed no other title since *)
(* she picked it.  Otherwise an accepted page may file a code without a    *)
(* name: within half a second of opening the page, or after a title whose  *)
(* results lack the code; the name is never that of another code.          *)
AcceptedIsNamed ==
  /\ bls_title \in {noName, bls_code}
  /\ OccupationAccepted /\ debounced = job_title /\ picked_for = job_title =>
       bls_title = bls_code

(* Results are shown: the page of the list has an option unless it was     *)
(* turned to for an earlier title, as it is not set back when a search     *)
(* finds less (OccupationPicker.tsx:69).  From a page beyond the end of    *)
(* the list "Previous" may lead to another one (Pagination.tsx:40).        *)
ResultsAreVisible ==
  Options # <<>> =>
    \/ Visible(Options, list_page) # {}
    \/ list_page > LastPageIndex(Options) /\ turned_for # debounced

\* The first, the last and the current page and three numbers around it, in
\* increasing order, with one "..." exactly where numbers are left out.
ExactPages(pages, current, last) ==
  LET numbers == Range(pages) \ {0} IN
  /\ {1, current + 1, last + 1} \subseteq numbers
  /\ \E low \in numbers : /\ current + 1 \in low .. low + 2
                          /\ (low .. low + 2) \cap (1 .. last + 1) \subseteq numbers
  /\ \A k \in 1 .. Len(pages) - 1 :
       IF pages[k + 1] = 0
       THEN k + 2 \in DOMAIN pages /\ pages[k] > 0 /\ pages[k + 2] > pages[k] + 1
       ELSE pages[k] = 0 \/ pages[k + 1] = pages[k] + 1

(* The page numbers under a list are right for lists of any length, and    *)
(* from the page she is on the claimant gets to the first, the last and    *)
(* the neighbouring pages in one click (Pagination.tsx:104).               *)
PaginationIsExact ==
  /\ \A last \in LastPages : \A current \in 0 .. last :
       ExactPages(pagination(current, last), current, last)
  /\ LET last == LastPageIndex(Options) IN
     list_page \in 0 .. last =>
       ({0, last, list_page - 1, list_page + 1} \cap 0 .. last) \ {list_page}
         \subseteq Turnable(list_page, last)

(* The claimant can see what was found, reach all of it, and what she      *)
(* picked is filed under its name; the exceptions are those of the parts.  *)
OccupationIsAsPicked == AcceptedIsNamed /\ ResultsAreVisible /\ PaginationIsExact
=============================================================================

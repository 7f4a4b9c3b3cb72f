-------------------------- MODULE MCQuestionPages ---------------------------
(* The question pages: every page of FormAnswers; two kinds of other pay,  *)
(* which are enough to tick them out of order; seven occupations, two to a *)
(* page, so that the list has four pages.                                  *)
EXTENDS QuestionPages

MCPayTypeOrder == <<"vacation_sick_pto", "severance">>
MCTypings == {nothing, 1100, 12500, 12345}

MCWordLength == [it |-> 2, nurse |-> 5, chief |-> 5, qqqq |-> 4]
MCTitles == {<<>>, <<"it">>, <<"nurse">>, <<"chief">>, <<"chief", "nurse">>,
             <<"qqqq">>}

\* Everybody's examples speak of a nurse; four are chiefs.
Hit(t, ts, e) == [t |-> t, ts |-> ts, e |-> e, es |-> 0, part |-> TRUE, d |-> 1]
MCHits ==
  [nurse |-> [c \in 1 .. 7 |-> CASE c = 4 -> Hit(1, 0, 2) [] c = 5 -> Hit(0, 1, 1)
                                 [] OTHER -> Hit(0, 0, 1)],
   chief |-> [c \in {1, 3, 4, 6} |-> Hit(1, 0, 0)]]
=============================================================================

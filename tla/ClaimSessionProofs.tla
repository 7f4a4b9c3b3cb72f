------------------------- MODULE ClaimSessionProofs -------------------------
(* Proofs about ClaimSession, for any number of sessions, workers, claims. *)
EXTENDS ClaimSession, TLAPS

(* The parts of TypeOK about the requests and about everything else.       *)
WorkType ==
  /\ session \in [Sessions -> Session]
  /\ work \in [Workers -> [op : Operation, s : Sessions \cup {NoSession},
                           loaded : Session, claim : 0..made, text : Texts]]
  /\ \A w \in Workers :
       /\ work[w].op # "none" => work[w].s \in Sessions
       /\ work[w].op \notin {"none", "get_completed"} => work[w].claim # NoId

DataType ==
  /\ made \in 0..MaxClaims
  /\ events \in [Ids -> SUBSET Category]
  /\ \A c \in Ids : c > made => events[c] = {}
  /\ overdue \in [Ids -> BOOLEAN]
  /\ draft \in [Ids -> Texts]
  /\ latest \in [Ids -> SUBSET Texts]
  /\ shows \in [Sessions -> {"closed", "loading", "ready", "form", "success"}]
  /\ known \in [Sessions -> SUBSET (1..made)]

LEMMA TypeParts == TypeOK <=> DataType /\ WorkType
BY DEF TypeOK, DataType, WorkType

(* A well-formed request for claim c begins.                               *)
LEMMA BeginType ==
  ASSUME TypeOK, NEW w \in Workers, NEW s \in Sessions, NEW op \in Operation \ {"none"},
         NEW c \in 0..made', NEW d \in Texts, begin(w, s, op, c, d),
         op # "get_completed" => c # NoId,
         made' \in Nat, made <= made', UNCHANGED session
  PROVE  WorkType'
<1>1. Session \subseteq Session'
  BY DEF TypeOK, Session, Memo
<1>2. /\ session \in [Sessions -> Session']
      /\ work \in [Workers -> [op : Operation, s : Sessions \cup {NoSession},
                               loaded : Session', claim : 0..made', text : Texts]]
  <2>1. 0..made \subseteq 0..made'
    BY DEF TypeOK
  <2> QED
    BY <1>1, <2>1 DEF TypeOK
<1>3. [op |-> op, s |-> s, loaded |-> session[s], claim |-> c, text |-> d]
        \in [op : Operation, s : Sessions \cup {NoSession},
             loaded : Session', claim : 0..made', text : Texts]
  BY <1>2
<1>4. work' \in [Workers -> [op : Operation, s : Sessions \cup {NoSession},
                             loaded : Session', claim : 0..made', text : Texts]]
  BY <1>2, <1>3 DEF begin
<1>5. \A v \in Workers :
        /\ work'[v].op # "none" => work'[v].s \in Sessions
        /\ work'[v].op \notin {"none", "get_completed"} => work'[v].claim # NoId
  BY DEF begin, TypeOK
<1> QED
  BY <1>2, <1>4, <1>5 DEF WorkType

LEMMA IdleType ==
  ASSUME TypeOK
  PROVE  Idle \in [op : Operation, s : Sessions \cup {NoSession},
                   loaded : Session, claim : 0..made, text : Texts]
BY DEF TypeOK, Idle, NewSession, Session, Memo, NoMemo, NoId, Operation, Texts

LEMMA AnswerType ==
  ASSUME TypeOK, NEW w \in Workers, NEW new \in Session, answer(w, new),
         work[w].op # "none", UNCHANGED made
  PROVE  WorkType'
<1>1. Session' = Session
  BY DEF Session, Memo
<1>2. session' \in [Sessions -> Session]
  BY DEF answer, TypeOK
<1>3. work' = [work EXCEPT ![w] = Idle]
  BY DEF answer
<1> QED
  BY <1>1, <1>2, <1>3, IdleType DEF WorkType, TypeOK, Idle

LEMMA Answer500Type ==
  ASSUME TypeOK, NEW w \in Workers, answer_500(w), UNCHANGED made
  PROVE  WorkType'
<1>1. Session' = Session
  BY DEF Session, Memo
<1> QED
  BY <1>1, IdleType DEF WorkType, TypeOK, Idle, answer_500

(* What a worker has loaded.                                               *)
LEMMA WorkFacts ==
  ASSUME TypeOK, NEW w \in Workers, work[w].op \notin {"none", "get_completed"}
  PROVE  /\ work[w].s \in Sessions
         /\ work[w].claim \in 1..made
         /\ work[w].claim \in Ids
         /\ work[w].loaded \in Session
         /\ work[w].text \in Texts
<1>1. /\ work[w].s \in Sessions
      /\ work[w].claim \in 0..made
      /\ work[w].claim # 0
      /\ work[w].loaded \in Session
      /\ work[w].text \in Texts
      /\ made \in 0..MaxClaims
  BY DEF TypeOK, NoId
<1> QED
  BY <1>1, SessionAssumption DEF Ids

-----------------------------------------------------------------------------
(* Every step preserves the type invariant.                                *)

LEMMA RequestType ==
  ASSUME TypeOK, NEW w \in Workers, NEW s \in Sessions, Request(w, s)
  PROVE  TypeOK'
<1> USE SessionAssumption
<1>1. CASE \E c \in 0..made : GET_completed_claim(w, s, c)
  <2>1. PICK c \in 0..made : GET_completed_claim(w, s, c)
    BY <1>1
  <2>2. WorkType'
    BY <2>1, BeginType DEF GET_completed_claim, database, TypeOK, Operation, Texts
  <2>3. DataType'
    BY <2>1 DEF GET_completed_claim, database, browser, TypeOK, DataType
  <2> QED
    BY <2>2, <2>3, TypeParts DEF TypeOK, DataType, WorkType
<1>2. CASE \E c \in 0..made : GET_partial_claim(w, s, c)
  <2>1. PICK c \in 0..made : GET_partial_claim(w, s, c)
    BY <1>2
  <2>2. CASE c # NoId
    <3>1. UNCHANGED made /\ begin(w, s, "get_partial", c, NoDraft)
      BY <2>1, <2>2 DEF GET_partial_claim
    <3>2. WorkType'
      BY <2>1, <2>2, <3>1, BeginType DEF GET_partial_claim, TypeOK, Operation, Texts
    <3>3. DataType'
      BY <2>1, <3>1 DEF GET_partial_claim, browser, TypeOK, DataType
    <3> QED
      BY <3>2, <3>3 DEF TypeOK, DataType, WorkType
  <2>3. CASE c = NoId
    <3>1. /\ made < MaxClaims
          /\ made' = made + 1
          /\ begin(w, s, "bootstrap", made + 1, Blank)
      BY <2>1, <2>3 DEF GET_partial_claim
    <3>2. made \in Nat /\ made + 1 \in 0..made' /\ made <= made' /\ made + 1 # NoId
      BY <3>1 DEF TypeOK, NoId
    <3>3. WorkType'
      BY <2>1, <3>1, <3>2, BeginType DEF GET_partial_claim, Operation, Texts
    <3>4. made' \in 0..MaxClaims /\ 1..made \subseteq 1..made'
      BY <3>1, <3>2
    <3>5. DataType'
      BY <2>1, <3>2, <3>4 DEF GET_partial_claim, browser, TypeOK, DataType, Ids
    <3> QED
      BY <3>3, <3>5 DEF TypeOK, DataType, WorkType
  <2> QED
    BY <2>2, <2>3
<1>3. ASSUME NEW c \in Ids, NEW d \in Texts, NEW op \in {"post_partial", "post_completed"},
             post(w, s, op, c, d)
      PROVE  TypeOK'
  <2>1. /\ made \in Nat /\ made' \in 0..MaxClaims /\ made <= made'
        /\ c \in 1..made' /\ c # NoId
    BY <1>3 DEF post, TypeOK, Ids, NoId
  <2>2. WorkType'
    BY <1>3, <2>1, BeginType DEF post, Operation
  <2>3. \A e \in Ids : e > made' => events'[e] = {}
    BY <1>3, <2>1 DEF post, log, TypeOK, Ids
  <2>4. events' \in [Ids -> SUBSET Category]
    BY <1>3 DEF post, log, TypeOK, Category
  <2>5. DataType'
    BY <1>3, <2>1, <2>3, <2>4 DEF post, browser, TypeOK, DataType
  <2> QED
    BY <2>2, <2>5 DEF TypeOK, DataType, WorkType
<1>4. ASSUME NEW c \in Ids, NEW op \in {"cancel_draft", "cancel_filed"}, cancel_claim(w, s, op, c)
      PROVE  TypeOK'
  <2>1. c # NoId /\ c \in 0..made
    BY <1>4 DEF cancel_claim, TypeOK, NoId
  <2>2. WorkType'
    BY <1>4, <2>1, BeginType DEF cancel_claim, TypeOK, Operation, Texts
  <2>3. DataType'
    BY <1>4 DEF cancel_claim, log, browser, TypeOK, DataType, Category
  <2> QED
    BY <2>2, <2>3 DEF TypeOK, DataType, WorkType
<1> QED
  BY <1>1, <1>2, <1>3, <1>4 DEF Request, POST_partial_claim, POST_completed_claim, Texts

LEMMA AnswerStepType ==
  ASSUME TypeOK, NEW w \in Workers, Answer(w)
  PROVE  TypeOK'
<1> DEFINE c == work[w].claim
           s == work[w].s
           ses == work[w].loaded
<1> USE SessionAssumption
<1>1. CASE answer_completed(w)
  <2>1. s \in Sessions /\ ses \in Session
    BY <1>1 DEF answer_completed, serves, TypeOK
  <2>2. WorkType'
    BY <1>1, <2>1, AnswerType DEF answer_completed, serves, database
  <2>3. DataType'
    BY <1>1, <2>1 DEF answer_completed, show, database, TypeOK, DataType
  <2> QED
    BY <2>2, <2>3 DEF TypeOK, DataType, WorkType
<1>2. CASE answer_overdue(w) \/ answer_unread(w)
  <2>1. s \in Sessions /\ ses \in Session /\ work[w].op # "none"
    BY <1>2, WorkFacts DEF answer_overdue, answer_unread, serves
  <2>2. WorkType'
    BY <1>2, <2>1, AnswerType DEF answer_overdue, answer_unread, database
  <2>3. DataType'
    BY <1>2, <2>1 DEF answer_overdue, answer_unread, show, database, TypeOK, DataType
  <2> QED
    BY <2>2, <2>3 DEF TypeOK, DataType, WorkType
<1>3. CASE answer_memo(w)
  <2>1. s \in Sessions /\ ses \in Session /\ work[w].op # "none"
    BY <1>3, WorkFacts DEF answer_memo, serves
  <2>2. ses.memo.id \in 1..made
    BY <1>3, <2>1 DEF answer_memo, Session, Memo
  <2>3. WorkType'
    BY <1>3, <2>1, AnswerType DEF answer_memo, database
  <2>4. DataType'
    BY <1>3, <2>1, <2>2 DEF answer_memo, show, learn, database, TypeOK, DataType
  <2> QED
    BY <2>3, <2>4 DEF TypeOK, DataType, WorkType
<1>4. CASE answer_stored(w)
  <2>1. s \in Sessions /\ ses \in Session /\ work[w].op # "none" /\ c \in 1..made /\ c \in Ids
    BY <1>4, WorkFacts DEF answer_stored, serves
  <2>2. [ses EXCEPT !.memo = [id |-> c, text |-> draft[c]]] \in Session
    BY <2>1 DEF Session, Memo, TypeOK
  <2>3. WorkType'
    BY <1>4, <2>1, <2>2, AnswerType DEF answer_stored, database
  <2>4. DataType'
    BY <1>4, <2>1 DEF answer_stored, show, learn, database, TypeOK, DataType
  <2> QED
    BY <2>3, <2>4 DEF TypeOK, DataType, WorkType
<1>5. CASE bootstrap(w)
  <2>1. s \in Sessions /\ work[w].op # "none" /\ c \in 1..made /\ c \in Ids
    BY <1>5, WorkFacts DEF bootstrap, serves
  <2>2. [claim |-> c, memo |-> [id |-> c, text |-> Blank]] \in Session
    BY <2>1 DEF Session, Memo, Texts, TypeOK
  <2>3. WorkType'
    BY <1>5, <2>1, <2>2, AnswerType DEF bootstrap
  <2>4. draft' \in [Ids -> Texts] /\ latest' \in [Ids -> SUBSET Texts]
    BY <1>5, <2>1 DEF bootstrap, TypeOK, Texts
  <2>6. events' = events \/ log(c, {"STORED"})
    BY <1>5 DEF bootstrap
  <2>7. /\ events' \in [Ids -> SUBSET Category]
        /\ \A e \in Ids : e > made => events'[e] = {}
    BY <2>1, <2>6 DEF log, TypeOK, Category
  <2>5. DataType'
    BY <1>5, <2>1, <2>4, <2>7 DEF bootstrap, show, learn, TypeOK, DataType
  <2> QED
    BY <2>3, <2>5 DEF TypeOK, DataType, WorkType
<1>6. CASE save_partial(w)
  <2>1. /\ s \in Sessions /\ work[w].op # "none" /\ c \in 1..made /\ c \in Ids
        /\ work[w].text \in Texts
    BY <1>6, WorkFacts DEF save_partial, serves
  <2>2. [claim |-> c, memo |-> [id |-> c, text |-> work[w].text]] \in Session
    BY <2>1 DEF Session, Memo, TypeOK
  <2>3. WorkType'
    BY <1>6, <2>1, <2>2, AnswerType DEF save_partial
  <2>4. /\ draft' \in [Ids -> Texts]
        /\ latest' \in [Ids -> SUBSET Texts]
        /\ events' \in [Ids -> SUBSET Category]
        /\ \A e \in Ids : e > made => events'[e] = {}
    BY <1>6, <2>1 DEF save_partial, log, TypeOK, Category
  <2>5. DataType'
    BY <1>6, <2>1, <2>4 DEF save_partial, learn, TypeOK, DataType
  <2> QED
    BY <2>3, <2>5 DEF TypeOK, DataType, WorkType
<1>7. CASE save_partial_error(w)
  <2>1. c \in Ids /\ work[w].text \in Texts
    BY <1>7, WorkFacts DEF save_partial_error, serves
  <2>2. WorkType'
    BY <1>7, Answer500Type DEF save_partial_error
  <2>3. draft' \in [Ids -> Texts] /\ latest' \in [Ids -> SUBSET Texts]
    BY <1>7, <2>1 DEF save_partial_error, TypeOK
  <2>4. DataType'
    BY <1>7, <2>3 DEF save_partial_error, answer_500, browser, TypeOK, DataType
  <2> QED
    BY <2>2, <2>4 DEF TypeOK, DataType, WorkType
<1>8. CASE write_completed(w)
  <2>1. /\ s \in Sessions /\ work[w].op # "none" /\ c \in 1..made /\ c \in Ids
        /\ ses \in Session
    BY <1>8, WorkFacts DEF write_completed, serves
  <2>2. [ses EXCEPT !.claim = NoId] \in Session
    BY <2>1 DEF Session, NoId, TypeOK
  <2>3. WorkType'
    BY <1>8, <2>1, <2>2, AnswerType DEF write_completed
  <2>4. /\ draft' \in [Ids -> Texts]
        /\ events' \in [Ids -> SUBSET Category]
        /\ \A e \in Ids : e > made => events'[e] = {}
    BY <1>8, <2>1 DEF write_completed, log, TypeOK, Category, Texts
  <2>5. DataType'
    BY <1>8, <2>1, <2>4 DEF write_completed, browser, TypeOK, DataType
  <2> QED
    BY <2>3, <2>5 DEF TypeOK, DataType, WorkType
<1>9. CASE write_completed_error(w)
  <2>1. WorkType'
    BY <1>9, Answer500Type DEF write_completed_error, database
  <2>2. DataType'
    BY <1>9 DEF write_completed_error, answer_500, database, browser, TypeOK, DataType
  <2> QED
    BY <2>1, <2>2 DEF TypeOK, DataType, WorkType
<1>10. CASE delete_artifacts(w)
  <2>1. s \in Sessions /\ work[w].op # "none" /\ c \in 1..made /\ c \in Ids
    BY <1>10, WorkFacts DEF delete_artifacts, serves
  <2>2. NewSession \in Session
    BY DEF Session, Memo, NewSession, NoMemo, NoId, TypeOK
  <2>3. WorkType'
    BY <1>10, <2>1, <2>2, AnswerType DEF delete_artifacts
  <2>4. /\ draft' \in [Ids -> Texts]
        /\ events' \in [Ids -> SUBSET Category]
        /\ \A e \in Ids : e > made => events'[e] = {}
    BY <1>10, <2>1 DEF delete_artifacts, log, TypeOK, Category, Texts
  <2>5. DataType'
    BY <1>10, <2>1, <2>4 DEF delete_artifacts, show, browser, TypeOK, DataType
  <2> QED
    BY <2>3, <2>5 DEF TypeOK, DataType, WorkType
<1> QED
  BY <1>1, <1>2, <1>3, <1>4, <1>5, <1>6, <1>7, <1>8, <1>9, <1>10 DEF Answer

LEMMA OtherStepType ==
  ASSUME TypeOK,
         \/ \E s \in Sessions : GET_whoami(s) \/ logout(s)
         \/ \E c \in Ids : swa(c) \/ Age(c) \/ expire(c)
         \/ UNCHANGED vars
  PROVE  TypeOK'
<1> USE SessionAssumption
<1>1. ASSUME NEW s \in Sessions, GET_whoami(s)
      PROVE  TypeOK'
  <2>1. {session[s].claim} \cap Ids \subseteq 1..made
    BY DEF TypeOK, Session, Ids
  <2>2. DataType'
    BY <1>1, <2>1 DEF GET_whoami, show, database, TypeOK, DataType
  <2>3. WorkType'
    BY <1>1 DEF GET_whoami, database, TypeOK, WorkType, Session, Memo
  <2> QED
    BY <2>2, <2>3 DEF TypeOK, DataType, WorkType
<1>2. ASSUME NEW s \in Sessions, logout(s)
      PROVE  TypeOK'
  <2>1. NewSession \in Session /\ Session' = Session
    BY <1>2 DEF Session, Memo, NewSession, NoMemo, NoId, logout, database, TypeOK
  <2>2. DataType'
    BY <1>2 DEF logout, show, database, TypeOK, DataType
  <2>3. WorkType'
    BY <1>2, <2>1 DEF logout, database, TypeOK, WorkType
  <2> QED
    BY <2>2, <2>3 DEF TypeOK, DataType, WorkType
<1>3. ASSUME NEW c \in Ids, swa(c) \/ Age(c) \/ expire(c)
      PROVE  TypeOK'
  <2>1. c \in 1..made
    BY <1>3 DEF swa, Age, expire, ExpiredPartial, TypeOK, Ids
  <2>2. /\ events' = events \/ \E k \in Category : log(c, {k})
        /\ draft' = draft \/ draft' = [draft EXCEPT ![c] = NoDraft]
        /\ overdue' = overdue \/ overdue' = [overdue EXCEPT ![c] = TRUE]
        /\ UNCHANGED <<made, latest, session, browser, work>>
    BY <1>3 DEF swa, Age, expire, Category
  <2>3. /\ events' \in [Ids -> SUBSET Category]
        /\ \A e \in Ids : e > made => events'[e] = {}
    BY <2>1, <2>2 DEF log, TypeOK
  <2>4. draft' \in [Ids -> Texts] /\ overdue' \in [Ids -> BOOLEAN]
    BY <2>2 DEF TypeOK, Texts
  <2>5. DataType'
    BY <2>2, <2>3, <2>4 DEF browser, TypeOK, DataType
  <2>6. WorkType'
    BY <2>2 DEF TypeOK, WorkType, Session, Memo
  <2> QED
    BY <2>5, <2>6 DEF TypeOK, DataType, WorkType
<1>4. CASE UNCHANGED vars
  BY <1>4 DEF vars, database, browser, TypeOK, Session, Memo
<1> QED
  BY <1>1, <1>2, <1>3, <1>4

LEMMA TypeStep == TypeOK /\ [Next]_vars => TypeOK'
BY RequestType, AnswerStepType, OtherStepType DEF Next

LEMMA TypeInit == Init => TypeOK
<1> SUFFICES ASSUME Init PROVE TypeOK
  OBVIOUS
<1>1. NewSession \in Session
  BY DEF Init, Session, Memo, NewSession, NoMemo, NoId
<1>2. Idle \in [op : Operation, s : Sessions \cup {NoSession},
                loaded : Session, claim : 0..made, text : Texts]
  BY <1>1 DEF Init, Idle, Operation, Texts, NoId
<1> QED
  BY <1>1, <1>2, SessionAssumption DEF Init, TypeOK, Idle, Texts, Category

(* Every variable has its type in every reachable state; in particular,    *)
(* sessions, browsers and requests name only claims that have a row.       *)
THEOREM SessionTypeCorrect == Spec => []TypeOK
BY TypeInit, TypeStep, PTL DEF Spec

-----------------------------------------------------------------------------
(* A session that names a claim memoizes that claim's draft.               *)

LEMMA MemoBegin ==
  ASSUME TypeOK, MemoInv, UNCHANGED session, NEW w \in Workers, NEW s \in Sessions,
         NEW op, NEW c, NEW d, begin(w, s, op, c, d)
  PROVE  MemoInv'
BY DEF begin, MemoInv, TypeOK

LEMMA MemoAnswer ==
  ASSUME TypeOK, MemoInv, NEW w \in Workers, NEW new, follows(new), answer(w, new)
  PROVE  MemoInv'
<1>1. follows(Idle.loaded)
  BY DEF follows, Idle, NewSession
<1>2. \A v \in Workers : follows(work'[v].loaded)
  BY <1>1 DEF answer, MemoInv, TypeOK
<1>3. \A s \in Sessions : follows(session'[s])
  BY DEF answer, MemoInv, TypeOK
<1> QED
  BY <1>2, <1>3 DEF MemoInv

LEMMA MemoStep == TypeOK /\ MemoInv /\ [Next]_vars => MemoInv'
<1> SUFFICES ASSUME TypeOK, MemoInv, [Next]_vars
             PROVE  MemoInv'
  OBVIOUS
<1>1. ASSUME NEW w \in Workers, NEW s \in Sessions, Request(w, s)
      PROVE  MemoInv'
  BY <1>1, MemoBegin DEF Request, GET_completed_claim, GET_partial_claim, POST_partial_claim,
                         POST_completed_claim, post, cancel_claim
<1>2. ASSUME NEW w \in Workers, Answer(w)
      PROVE  MemoInv'
  <2> DEFINE c == work[w].claim
             ses == work[w].loaded
  <2>1. follows(ses)
    BY DEF MemoInv
  <2>2. CASE answer_completed(w) \/ answer_overdue(w) \/ answer_memo(w) \/ answer_unread(w)
    BY <2>1, <2>2, MemoAnswer DEF answer_completed, answer_overdue, answer_memo, answer_unread
  <2>3. CASE answer_stored(w)
    <3>1. ses \in Session
      BY DEF TypeOK
    <3>2. ses.claim = NoId
      BY <2>1, <2>3 DEF answer_stored, follows, NoMemo
    <3>3. follows([ses EXCEPT !.memo = [id |-> c, text |-> draft[c]]])
      BY <3>1, <3>2 DEF follows, Session
    <3> QED
      BY <2>3, <3>3, MemoAnswer DEF answer_stored
  <2>4. CASE bootstrap(w)
    BY <2>4, MemoAnswer DEF bootstrap, follows
  <2>5. CASE save_partial(w)
    BY <2>5, MemoAnswer DEF save_partial, follows
  <2>6. CASE save_partial_error(w) \/ write_completed_error(w)
    <3>1. follows(Idle.loaded)
      BY DEF follows, Idle, NewSession
    <3> QED
      BY <2>6, <3>1 DEF save_partial_error, write_completed_error, answer_500, MemoInv, TypeOK
  <2>7. CASE write_completed(w)
    <3>1. ses \in Session
      BY DEF TypeOK
    <3>2. follows([ses EXCEPT !.claim = NoId])
      BY <3>1 DEF follows, Session
    <3> QED
      BY <2>7, <3>2, MemoAnswer DEF write_completed
  <2>8. CASE delete_artifacts(w)
    <3>1. follows(NewSession)
      BY DEF follows, NewSession
    <3> QED
      BY <2>8, <3>1, MemoAnswer DEF delete_artifacts
  <2> QED
    BY <1>2, <2>2, <2>3, <2>4, <2>5, <2>6, <2>7, <2>8 DEF Answer
<1>3. ASSUME NEW s \in Sessions, GET_whoami(s)
      PROVE  MemoInv'
  BY <1>3 DEF GET_whoami, MemoInv
<1>4. ASSUME NEW s \in Sessions, logout(s)
      PROVE  MemoInv'
  <2>1. follows(NewSession)
    BY DEF follows, NewSession
  <2> QED
    BY <1>4, <2>1 DEF logout, MemoInv, TypeOK
<1>5. ASSUME NEW c \in Ids, swa(c) \/ Age(c) \/ expire(c)
      PROVE  MemoInv'
  BY <1>5 DEF swa, Age, expire, MemoInv
<1>6. CASE UNCHANGED vars
  BY <1>6 DEF vars, MemoInv
<1> QED
  BY <1>1, <1>2, <1>3, <1>4, <1>5, <1>6 DEF Next

(* In any number of sessions and of requests at a time, a session never    *)
(* names one claim and memoizes the draft of another: a draft is answered  *)
(* for the wrong claim only when the claim was found by the query.         *)
THEOREM MemoIsOfClaim == Spec => []MemoFollowsClaim
<1>1. Init => MemoInv
  BY DEF Init, MemoInv, follows, Idle, NewSession
<1>2. MemoInv => MemoFollowsClaim
  BY DEF MemoInv, MemoFollowsClaim, follows
<1> QED
  BY <1>1, <1>2, TypeInit, TypeStep, MemoStep, PTL DEF Spec
=============================================================================

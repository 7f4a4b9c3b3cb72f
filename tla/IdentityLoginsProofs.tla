------------------------ MODULE IdentityLoginsProofs ------------------------
(* Proofs about IdentityLogins, for any numbers of claimants, browsers,    *)
(* requests, agencies, swa_xids and logins.                                *)
EXTENDS IdentityLogins, TLAPS

(* The parts of TypeOK.                                                    *)
ClaimType ==
  /\ row \in [Xids -> Row \cup {None}]
  /\ events \in [Xids -> SUBSET Categories]
  /\ partial \in [Xids -> BOOLEAN] /\ completed \in [Xids -> 0 .. 2]
  /\ expired \subseteq Xids
  /\ \A x \in Xids : row[x] = None => events[x] = {} /\ ~ partial[x] /\ completed[x] = 0

SessionType ==
  /\ session \in [Browsers -> Session \cup {None}]
  /\ \A b \in Browsers : session[b] # None /\ session[b].state # 0 =>
       session[b].swa # None /\ session[b].state <= Len(logins)
  /\ cookie \in [Browsers -> Xids \cup {None}]
  /\ logins \in Seq(Login) /\ Len(logins) <= MaxLogins
  /\ verified \subseteq Claimants

\* A request whose keys have a login, and whose next step has what it needs.
Ready(r) ==
  /\ r.keys.swa # None
  /\ r.keys.state \in 1 .. Len(logins)
  /\ r.pc = "create" => r.swa_xid # None
  /\ r.pc = "write" => r.target # None /\ row[r.target] # None

WorkType ==
  /\ work \in [Workers -> Work \cup {None}]
  /\ \A w \in Workers : work[w] # None => Ready(work[w])

JobType ==
  /\ job \in [pc : {"idle", "next", "write", "erase"}, todo : SUBSET Xids,
              claim : Xids \cup {None}, before : SUBSET Xids]
  /\ \A x \in job.todo : row[x] # None
  /\ job.pc \in {"write", "erase"} => job.claim # None /\ row[job.claim] # None
  /\ upsets \in 0 .. MaxUpsets

LEMMA TypeParts == TypeOK <=> ClaimType /\ SessionType /\ WorkType /\ JobType
BY DEF TypeOK, ClaimType, SessionType, WorkType, JobType, Ready

-----------------------------------------------------------------------------
(* The type invariant. *)

LEMMA InitType == Init => TypeOK
<1> SUFFICES ASSUME Init PROVE TypeOK
  OBVIOUS
<1> USE LoginsAssumption
<1>1. ClaimType
  BY DEF Init, ClaimType
<1>2. SessionType
  BY DEF Init, SessionType
<1>3. WorkType
  BY DEF Init, WorkType
<1>4. JobType
  BY DEF Init, JobType, NoJob
<1> QED
  BY <1>1, <1>2, <1>3, <1>4, TypeParts

(* What a browser brings is a session, if only an empty one.               *)
LEMMA KeysType ==
  ASSUME SessionType, NEW b \in Browsers
  PROVE  /\ Keys(b) \in Session
         /\ Keys(b).state # 0 => Keys(b).swa # None /\ Keys(b).state <= Len(logins)
BY DEF SessionType, Keys, NoKeys, Session

(* A login that begins leaves a session and a stash behind.                *)
LEMMA BeginsType ==
  ASSUME SessionType, NEW b \in Browsers, NEW keys \in Session, NEW before \in Seq(Login),
         Len(before) = Len(logins),
         keys.state # 0 => keys.swa # None /\ keys.state <= Len(before),
         NEW ial \in 0 .. 2, NEW swa \in Agencies \cup {None},
         NEW param \in Xids \cup {None}, NEW skip,
         Begins(b, keys, before, ial, swa, param, skip),
         UNCHANGED cookie, verified' \subseteq Claimants
  PROVE  SessionType' /\ Len(logins) <= Len(logins')
<1> DEFINE agency  == Either(swa, keys.swa)
           swa_xid == get_swa_xid(param, cookie[b], keys)
           asked   == [keys EXCEPT !.swa = agency, !.IAL = ial]
<1>1. /\ agency \in Agencies \cup {None}
      /\ swa_xid \in Xids \cup {None}
  BY DEF Either, get_swa_xid, SessionType, Session
<1>0. asked \in Session /\ asked.swa = agency /\ asked.state = keys.state
  BY <1>1 DEF Session
<1> HIDE DEF asked, agency, swa_xid
<1>2. Len(before) \in Nat /\ Len(before) <= MaxLogins /\ MaxLogins \in Nat
  BY LoginsAssumption DEF SessionType
<1>3. CASE agency = None
  <2>1. logins' = before /\ session' = [session EXCEPT ![b] = IF keys = NoKeys THEN @ ELSE keys]
    BY <1>3 DEF Begins, agency
  <2> QED
    BY <1>2, <2>1 DEF SessionType
<1>4. CASE logins' = before /\ agency # None
           /\ session' = [session EXCEPT ![b] = [asked EXCEPT !.refused = TRUE]]
  <2> DEFINE new == [asked EXCEPT !.refused = TRUE]
  <2>1. new \in Session /\ new.swa = agency /\ new.state = keys.state
    BY <1>0 DEF Session
  <2> HIDE DEF new
  <2>2. session' = [session EXCEPT ![b] = new]
    BY <1>4 DEF new
  <2>3. session' \in [Browsers -> Session \cup {None}]
    BY <2>1, <2>2 DEF SessionType
  <2>4. ASSUME NEW c \in Browsers, session'[c] # None, session'[c].state # 0
        PROVE  session'[c].swa # None /\ session'[c].state <= Len(logins')
    BY <1>4, <2>1, <2>2, <2>4 DEF SessionType
  <2> QED
    BY <1>2, <1>4, <2>3, <2>4 DEF SessionType
<1>5. CASE /\ agency # None
           /\ Len(before) < MaxLogins
           /\ logins' = Append(before, [swa |-> agency, IAL |-> ial, swa_xid |-> swa_xid,
                                        session |-> b, stashed |-> TRUE])
           /\ session' = [session EXCEPT ![b] =
             [asked EXCEPT !.swa_xid = swa_xid, !.state = Len(before) + 1, !.refused = FALSE]]
  <2> DEFINE n == Len(before) + 1
             new == [asked EXCEPT !.swa_xid = swa_xid, !.state = n, !.refused = FALSE]
             login == [swa |-> agency, IAL |-> ial, swa_xid |-> swa_xid,
                       session |-> b, stashed |-> TRUE]
  <2>0. n \in Nat /\ n = Len(before) + 1
    BY <1>2
  <2> HIDE DEF n
  <2>1. new \in Session /\ new.swa = agency /\ new.state = n
    BY <1>0, <1>1, <2>0 DEF Session
  <2>2. login \in Login
    BY <1>1 DEF Login
  <2> HIDE DEF new, login
  <2>3. session' = [session EXCEPT ![b] = new] /\ logins' = Append(before, login)
    BY <1>5 DEF n, new, login
  <2>4. logins' \in Seq(Login) /\ Len(logins') = n
    BY <2>0, <2>2, <2>3
  <2>5. session' \in [Browsers -> Session \cup {None}]
    BY <2>1, <2>3 DEF SessionType
  <2>6. ASSUME NEW c \in Browsers, session'[c] # None, session'[c].state # 0
        PROVE  session'[c].swa # None /\ session'[c].state <= Len(logins')
    <3>1. CASE c = b
      <4>1. session'[c] = new
        BY <2>3, <3>1 DEF SessionType
      <4>2. n <= n
        BY <2>0
      <4> QED
        BY <1>5, <2>1, <2>4, <4>1, <4>2
    <3>2. CASE c # b
      <4>1. session[c] \in Session /\ session[c].state \in Nat /\ session'[c] = session[c]
        BY <2>3, <2>6, <3>2 DEF SessionType, Session
      <4> QED
        BY <1>2, <2>0, <2>4, <2>6, <4>1 DEF SessionType
    <3> QED
      BY <3>1, <3>2
  <2> QED
    BY <1>2, <1>5, <2>0, <2>4, <2>5, <2>6 DEF SessionType
<1> QED
  BY <1>3, <1>4, <1>5 DEF Begins, asked, agency, swa_xid

LEMMA LoginFacts ==
  ASSUME SessionType
  PROVE  /\ Len(logins) \in Nat /\ DOMAIN logins = 1 .. Len(logins)
         /\ \A s \in DOMAIN logins : logins[s] \in Login
BY DEF SessionType

LEMMA LoginChanges ==
  ASSUME NEW old \in Login
  PROVE  /\ [old EXCEPT !.session = None] \in Login
         /\ [old EXCEPT !.stashed = FALSE] \in Login
BY DEF Login

(* Requests and the job keep their types while claims and logins are only  *)
(* added to.                                                               *)
LEMMA WorkStays ==
  ASSUME WorkType, UNCHANGED work, Len(logins) \in Nat, Len(logins') \in Nat,
         Len(logins) <= Len(logins'),
         \A x \in Xids : row[x] # None => row'[x] # None
  PROVE  WorkType'
<1>1. ASSUME NEW w \in Workers, work'[w] # None
      PROVE  Ready(work[w])'
  <2>1. work[w] \in Work /\ Ready(work[w]) /\ work'[w] = work[w]
    BY <1>1 DEF WorkType
  <2>2. work[w].target \in Xids \cup {None} /\ work[w].keys.state \in 1 .. Len(logins)
    BY <2>1 DEF Work, Ready
  <2>3. work[w].keys.state \in 1 .. Len(logins')
    BY <2>2
  <2> QED
    BY <2>1, <2>2, <2>3 DEF Ready
<1> QED
  BY <1>1 DEF WorkType

LEMMA JobStays ==
  ASSUME JobType, UNCHANGED <<job, upsets>>, \A x \in Xids : row[x] # None => row'[x] # None
  PROVE  JobType'
BY DEF JobType

LEMMA LoginStepType ==
  ASSUME TypeOK, SessionType', Len(logins) <= Len(logins'),
         UNCHANGED <<claimVars, work, job, upsets>>
  PROVE  TypeOK'
<1>1. ClaimType'
  BY TypeParts DEF ClaimType, claimVars
<1>2. WorkType'
  <2>1. Len(logins) \in Nat /\ Len(logins') \in Nat
    BY TypeParts DEF SessionType
  <2> QED
    BY <2>1, TypeParts, WorkStays DEF claimVars
<1>3. JobType'
  BY TypeParts, JobStays DEF claimVars
<1> QED
  BY <1>1, <1>2, <1>3, TypeParts DEF TypeOK, ClaimType, SessionType, WorkType, JobType, Ready

LEMMA indexType ==
  ASSUME TypeOK, NEW b \in Browsers, NEW link \in Links, index(b, link)
  PROVE  TypeOK'
<1>1. /\ link.ial \in {1, 2}
      /\ link.swa \in Agencies \cup {None} /\ link.swa_xid \in Xids \cup {None}
  BY LoginsAssumption
<1>2. SessionType
  BY TypeParts
<1>3. logins \in Seq(Login) /\ verified' \subseteq Claimants
  BY <1>2 DEF SessionType, index
<1>4. SessionType' /\ Len(logins) <= Len(logins')
  <2>1. Begins(b, Keys(b), logins, link.ial, link.swa, link.swa_xid, link.skip)
    BY DEF index
  <2>2. link.ial \in 0 .. 2 /\ Len(logins) = Len(logins) /\ UNCHANGED cookie
    BY <1>1 DEF index
  <2> QED
    BY <1>1, <1>2, <1>3, <2>1, <2>2, KeysType, BeginsType
<1> QED
  BY <1>4, LoginStepType DEF index

LEMMA startType ==
  ASSUME TypeOK, NEW b \in Browsers, start(b)
  PROVE  TypeOK'
<1>1. cookie' \in [Browsers -> Xids \cup {None}]
  BY LoginsAssumption DEF start, TypeOK
<1>2. SessionType'
  BY <1>1, TypeParts DEF start, SessionType
<1>3. Len(logins) <= Len(logins')
  BY DEF start, TypeOK
<1> QED
  BY <1>2, <1>3, LoginStepType DEF start

LEMMA SessionEndsType ==
  ASSUME TypeOK, NEW b \in Browsers, SessionEnds(b)
  PROVE  TypeOK'
<1>1. SessionType
  BY TypeParts
<1>2. logins' \in Seq(Login) /\ Len(logins') = Len(logins)
  <2>1. \A s \in DOMAIN logins : logins[s] \in Login /\ [logins[s] EXCEPT !.session = None] \in Login
    BY <1>1, LoginFacts, LoginChanges
  <2>2. DOMAIN logins = 1 .. Len(logins) /\ Len(logins) \in Nat
    BY <1>1, LoginFacts
  <2>3. logins' \in [1 .. Len(logins) -> Login]
    BY <2>1, <2>2 DEF SessionEnds
  <2> QED
    BY <2>2, <2>3
<1>3. session' \in [Browsers -> Session \cup {None}] /\ session'[b] = None
      /\ \A c \in Browsers : c # b => session'[c] = session[c]
  BY <1>1 DEF SessionType, SessionEnds
<1>4. SessionType'
  BY <1>1, <1>2, <1>3 DEF SessionType, SessionEnds
<1>5. Len(logins) <= Len(logins')
  BY <1>1, <1>2 DEF SessionType
<1> QED
  BY <1>4, <1>5, LoginStepType DEF SessionEnds

LEMMA StashEndsType ==
  ASSUME TypeOK, NEW s \in DOMAIN logins, StashEnds(s)
  PROVE  TypeOK'
<1>1. SessionType
  BY TypeParts
<1>2. logins' \in Seq(Login) /\ Len(logins') = Len(logins)
  <2>1. logins[s] \in Login /\ [logins[s] EXCEPT !.stashed = FALSE] \in Login
    BY <1>1, LoginFacts, LoginChanges
  <2>2. logins' = [logins EXCEPT ![s] = [logins[s] EXCEPT !.stashed = FALSE]]
    BY DEF StashEnds
  <2> QED
    BY <1>1, <2>1, <2>2 DEF SessionType
<1>3. SessionType'
  BY <1>1, <1>2 DEF SessionType, StashEnds
<1>4. Len(logins) <= Len(logins')
  BY <1>1, <1>2 DEF SessionType
<1> QED
  BY <1>3, <1>4, LoginStepType DEF StashEnds

(* A login that is answered is spent; the others stay.                     *)
LEMMA AnsweredFacts ==
  ASSUME SessionType, NEW s \in DOMAIN logins
  PROVE  /\ Answered(s) \in Seq(Login) /\ Len(Answered(s)) = Len(logins)
         /\ Answered(s)[s] = Spent
         /\ \A t \in DOMAIN logins : t # s => Answered(s)[t] = logins[t]
<1>1. Spent \in Login
  BY DEF Spent, Login
<1> QED
  BY <1>1 DEF Answered, SessionType

(* The session an answer is checked against is one of the browser's own or *)
(* of another browser's.                                                   *)
LEMMA ResumedFacts ==
  ASSUME SessionType, NEW b \in Browsers, NEW s \in DOMAIN logins, Resumed(b, s) # None
  PROVE  /\ \E c \in Browsers : session[c] # None /\ Resumed(b, s) = session[c]
         /\ Resumed(b, s) \in Session
         /\ Resumed(b, s).state # 0 =>
              Resumed(b, s).swa # None /\ Resumed(b, s).state <= Len(logins)
<1>1. \E c \in Browsers : session[c] # None /\ Resumed(b, s) = session[c]
  <2>1. CASE Keys(b).state # 0
    BY <2>1 DEF Resumed, Keys, NoKeys
  <2>2. CASE Keys(b).state = 0
    <3>1. logins[s].session \in Browsers \cup {None}
      BY LoginFacts DEF Login
    <3>2. logins[s].session # None /\ Resumed(b, s) = session[logins[s].session]
      BY <2>2 DEF Resumed
    <3> QED
      BY <3>1, <3>2
  <2> QED
    BY <2>1, <2>2
<1> QED
  BY <1>1 DEF SessionType

(* A login that begins again has the parameters of the stash, or none.     *)
LEMMA RestartsBegins ==
  ASSUME SessionType, NEW b \in Browsers, NEW s \in DOMAIN logins, Restarts(b, s)
  PROVE  \E ial \in 0 .. 2, swa \in Agencies \cup {None}, param \in Xids \cup {None} :
           /\ Begins(b, Keys(b), Answered(s), ial, swa, param, FALSE)
           /\ ial = 1 \/ (logins[s].stashed /\ ial = logins[s].IAL)
<1> DEFINE old == logins[s]
<1>1. /\ old.IAL \in 0 .. 2 /\ old.swa \in Agencies \cup {None}
      /\ old.swa_xid \in Xids \cup {None}
  BY LoginFacts DEF Login
<1>2. CASE old.stashed
  <2>1. Begins(b, Keys(b), Answered(s), old.IAL, old.swa, old.swa_xid, FALSE)
    BY <1>2 DEF Restarts
  <2> QED
    BY <1>1, <1>2, <2>1
<1>3. CASE ~ old.stashed
  <2>1. Begins(b, Keys(b), Answered(s), 1, None, None, FALSE)
    BY <1>3 DEF Restarts
  <2>2. 1 \in 0 .. 2 /\ None \in Agencies \cup {None} /\ None \in Xids \cup {None}
    OBVIOUS
  <2> QED
    BY <2>1, <2>2, Zenon
<1> QED
  BY <1>2, <1>3

LEMMA resultType ==
  ASSUME TypeOK, NEW w \in Workers, NEW b \in Browsers, NEW s \in DOMAIN logins,
         NEW who \in Claimants, result(w, b, s, who)
  PROVE  TypeOK'
<1>1. SessionType
  BY TypeParts
<1>2. verified' \subseteq Claimants
  BY <1>1 DEF SessionType, result
<1>3. /\ Answered(s) \in Seq(Login) /\ Len(Answered(s)) = Len(logins)
      /\ Len(logins) \in Nat /\ logins[s] \in Login /\ s \in 1 .. Len(logins)
  BY <1>1, AnsweredFacts, LoginFacts
<1>4. CASE Restarts(b, s)
  <2>1. PICK ial \in 0 .. 2, swa \in Agencies \cup {None}, param \in Xids \cup {None} :
          Begins(b, Keys(b), Answered(s), ial, swa, param, FALSE)
    BY <1>1, <1>4, RestartsBegins
  <2>2. Keys(b) \in Session
        /\ (Keys(b).state # 0 => Keys(b).swa # None /\ Keys(b).state <= Len(Answered(s)))
    BY <1>1, <1>3, KeysType
  <2>3. UNCHANGED cookie
    BY <1>4 DEF Restarts
  <2>4. SessionType' /\ Len(logins) <= Len(logins')
    BY <1>1, <1>2, <1>3, <2>1, <2>2, <2>3, BeginsType
  <2> QED
    BY <1>4, <2>4, LoginStepType DEF Restarts
<1>5. CASE Mismatched(b, s)
  <2> DEFINE keys == Resumed(b, s)
  <2>1. /\ keys \in Session
        /\ keys.state # 0 => keys.swa # None /\ keys.state <= Len(logins)
    BY <1>1, <1>5, ResumedFacts DEF Mismatched
  <2>2. logins' = Answered(s) /\ session' = [session EXCEPT ![b] = keys] /\ UNCHANGED cookie
    BY <1>5 DEF Mismatched
  <2> HIDE DEF keys
  <2>3. SessionType'
    BY <1>1, <1>2, <1>3, <2>1, <2>2 DEF SessionType
  <2>4. Len(logins) <= Len(logins')
    BY <1>3, <2>2
  <2> QED
    BY <1>5, <2>3, <2>4, LoginStepType DEF Mismatched
<1>6. CASE Accepted(w, b, s, who)
  <2> DEFINE keys == Resumed(b, s)
             request ==
       [pc |-> "initiate", browser |-> b, new |-> session[b] = None, keys |-> keys,
        swa_xid |-> get_swa_xid(None, cookie[b], keys), who |-> who,
        IAL |-> IF who \in verified' THEN 2 ELSE 1, full |-> logins[s].IAL = 2,
        asked |-> [swa |-> logins[s].swa, IAL |-> logins[s].IAL, swa_xid |-> logins[s].swa_xid],
        claim |-> None, target |-> None, outcome |-> "none"]
  <2>1. keys # None /\ keys.state = s /\ logins' = Answered(s)
        /\ work' = [work EXCEPT ![w] = request] /\ UNCHANGED <<session, cookie>>
    BY <1>6 DEF Accepted, StateMatches
  <2>2. keys \in Session /\ keys.swa # None /\ keys.state \in 1 .. Len(logins)
    BY <1>1, <1>3, <2>1, ResumedFacts
  <2>3. get_swa_xid(None, cookie[b], keys) \in Xids \cup {None}
    BY <1>1, <2>2 DEF get_swa_xid, Either, SessionType, Session
  <2>4. [swa |-> logins[s].swa, IAL |-> logins[s].IAL, swa_xid |-> logins[s].swa_xid] \in Asked
    BY <1>3 DEF Login, Asked
  <2>5. request \in Work
    BY <2>2, <2>3, <2>4 DEF Work, Outcomes
  <2>6. request.keys = keys /\ request.pc = "initiate"
    OBVIOUS
  <2> HIDE DEF request, keys
  <2>7. SessionType' /\ Len(logins) = Len(logins')
    BY <1>1, <1>2, <1>3, <2>1 DEF SessionType
  <2>8. WorkType'
    <3>1. work' \in [Workers -> Work \cup {None}]
      BY <2>1, <2>5, TypeParts DEF WorkType
    <3>2. UNCHANGED row
      BY <1>6 DEF Accepted, claimVars
    <3>3. ASSUME NEW v \in Workers, work'[v] # None
          PROVE  Ready(work[v])'
      <4>1. CASE v = w
        <5>1. work'[v] = request
          BY <2>1, <4>1, TypeParts DEF WorkType
        <5> QED
          BY <2>2, <2>6, <2>7, <5>1 DEF Ready
      <4>2. CASE v # w
        BY <2>1, <2>7, <3>2, <3>3, <4>2, TypeParts DEF WorkType, Ready
      <4> QED
        BY <4>1, <4>2
    <3> QED
      BY <3>1, <3>3 DEF WorkType, Ready
  <2>9. ClaimType' /\ JobType'
    BY <1>6, TypeParts, JobStays DEF Accepted, ClaimType, claimVars
  <2> QED
    BY <2>7, <2>8, <2>9 DEF TypeOK, ClaimType, SessionType, WorkType, JobType, Ready
<1> QED
  BY <1>4, <1>5, <1>6 DEF result

(* A request goes on: what it becomes has its type, and has what it needs. *)
LEMMA GoesType ==
  ASSUME TypeOK, NEW w \in Workers, NEW r \in Work \cup {None}, Goes(w, r),
         r # None => /\ r.keys.swa # None
                     /\ r.keys.state \in 1 .. Len(logins)
                     /\ r.pc = "create" => r.swa_xid # None
                     /\ r.pc = "write" => r.target # None /\ row'[r.target] # None,
         Len(logins') \in Nat, Len(logins) <= Len(logins'),
         \A x \in Xids : row[x] # None => row'[x] # None
  PROVE  WorkType'
<1>1. work' \in [Workers -> Work \cup {None}]
  BY TypeParts DEF WorkType, Goes
<1>2. Len(logins) \in Nat
  BY TypeParts, LoginFacts
<1>3. ASSUME NEW v \in Workers, work'[v] # None
      PROVE  Ready(work[v])'
  <2>1. CASE v = w
    <3>1. work'[v] = r
      BY <2>1, TypeParts DEF WorkType, Goes
    <3>2. r.keys.state \in 1 .. Len(logins')
      BY <1>2, <1>3, <3>1
    <3> QED
      BY <1>3, <3>1, <3>2 DEF Ready
  <2>2. CASE v # w
    <3>1. work'[v] = work[v] /\ work[v] \in Work /\ Ready(work[v])
      BY <1>3, <2>2, TypeParts DEF WorkType, Goes
    <3>2. work[v].target \in Xids \cup {None} /\ work[v].keys.state \in 1 .. Len(logins')
      BY <1>2, <3>1 DEF Work, Ready
    <3> QED
      BY <3>1, <3>2 DEF Ready
  <2> QED
    BY <2>1, <2>2
<1> QED
  BY <1>1, <1>3 DEF WorkType

(* What a worker is serving.                                               *)
LEMMA WorkFacts ==
  ASSUME TypeOK, NEW w \in Workers, work[w] # None
  PROVE  /\ work[w] \in Work /\ work[w].keys \in Session
         /\ work[w].browser \in Browsers /\ work[w].who \in Claimants
         /\ work[w].keys.swa \in Agencies /\ work[w].keys.state \in 1 .. Len(logins)
         /\ Mine(w) \in Row /\ Mine(w) # None
<1>1. work[w] \in Work /\ Ready(work[w])
  BY TypeParts DEF WorkType
<1>2. work[w].keys \in Session /\ work[w].keys.swa \in Agencies /\ work[w].who \in Claimants
  BY <1>1 DEF Work, Session, Ready
<1>3. Mine(w) \in Row /\ Mine(w) # None
  BY <1>2, LoginsAssumption DEF Mine, Row
<1> QED
  BY <1>1, <1>2, <1>3 DEF Work, Ready

(* The claims chosen from have a row.                                      *)
LEMMA ChooseType ==
  ASSUME TypeOK, NEW w \in Workers, work[w] # None, NEW claim \in Xids \cup {None},
         NEW pending \in SUBSET Xids, Choose(w, claim, pending),
         \A x \in pending : row'[x] # None,
         UNCHANGED logins, \A x \in Xids : row[x] # None => row'[x] # None
  PROVE  WorkType'
<1> DEFINE r == work[w]
<1>1. r \in Work /\ r.keys.swa # None /\ r.keys.state \in 1 .. Len(logins)
  BY WorkFacts, TypeParts DEF WorkType, Ready
<1>2. Len(logins') \in Nat /\ Len(logins) <= Len(logins')
  BY TypeParts, LoginFacts
<1>3. CASE r.keys.swa \notin IdentityOnly \/ pending = {}
  <2> DEFINE new == [r EXCEPT !.pc = "leave", !.claim = claim]
  <2>1. new \in Work /\ new.keys = r.keys /\ new.pc = "leave"
    BY <1>1 DEF Work
  <2>2. Goes(w, new)
    BY <1>3 DEF Choose
  <2> HIDE DEF new, r
  <2> QED
    BY <1>1, <1>2, <2>1, <2>2, GoesType
<1>4. CASE r.keys.swa \in IdentityOnly /\ pending # {}
  <2> DEFINE to == IF r.IAL = 2 /\ ~ r.full THEN "leave" ELSE "write"
             out == IF r.IAL = 2 /\ ~ r.full THEN "invalid" ELSE "none"
  <2>1. PICK target \in pending :
          Goes(w, [r EXCEPT !.pc = to, !.claim = claim, !.target = target, !.outcome = out])
    BY <1>4 DEF Choose
  <2>2. to \in {"leave", "write"} /\ out \in Outcomes
    BY DEF Outcomes
  <2> DEFINE new == [r EXCEPT !.pc = to, !.claim = claim, !.target = target, !.outcome = out]
  <2> HIDE DEF to, out
  <2>3. new \in Work /\ new.keys = r.keys /\ new.pc = to /\ new.target = target
    BY <1>1, <2>2 DEF Work
  <2>4. target # None
    BY LoginsAssumption
  <2> HIDE DEF new, r
  <2>5. Goes(w, new)
    BY <2>1 DEF new
  <2> QED
    BY <1>1, <1>2, <2>2, <2>3, <2>4, <2>5, GoesType
<1> QED
  BY <1>3, <1>4

LEMMA PendingFacts ==
  ASSUME NEW who
  PROVE  Pending(who) \in SUBSET Xids /\ \A x \in Pending(who) : row[x] # None
BY DEF Pending

LEMMA InitiateType ==
  ASSUME TypeOK, NEW w \in Workers, Initiate(w)
  PROVE  TypeOK'
<1> DEFINE x == work[w].swa_xid
           who == work[w].who
<1>1. work[w] # None /\ work[w] \in Work /\ x \in Xids \cup {None}
  BY WorkFacts DEF Initiate, At, Work
<1>2. /\ work[w].keys.swa # None /\ work[w].keys.state \in 1 .. Len(logins)
      /\ Len(logins) \in Nat
  BY <1>1, TypeParts, LoginFacts DEF WorkType, Ready
<1>3. UNCHANGED <<row, logins, session, cookie, verified>>
  BY DEF Initiate, claimVars, loginVars
<1>4. WorkType'
  <2>1. CASE \E claim \in {None, x} : Choose(w, claim, Pending(who))
    BY <1>1, <1>3, <2>1, ChooseType, PendingFacts
  <2>2. CASE x # None /\ Goes(w, [work[w] EXCEPT !.pc = "create"])
    <3> DEFINE new == [work[w] EXCEPT !.pc = "create"]
    <3>1. new \in Work /\ new.keys = work[w].keys /\ new.pc = "create" /\ new.swa_xid = x
      BY <1>1 DEF Work
    <3>2. Goes(w, new)
      BY <2>2
    <3> HIDE DEF new
    <3> QED
      BY <1>2, <1>3, <2>2, <3>1, <3>2, GoesType
  <2>3. CASE Goes(w, None)
    BY <1>2, <1>3, <2>3, GoesType
  <2> QED
    BY <2>1, <2>2, <2>3 DEF Initiate
<1>5. ClaimType' /\ SessionType' /\ JobType'
  BY <1>3, TypeParts, JobStays DEF Initiate, ClaimType, SessionType, claimVars, loginVars
<1> QED
  BY <1>4, <1>5 DEF TypeOK, ClaimType, SessionType, WorkType, JobType, Ready

LEMMA CreateType ==
  ASSUME TypeOK, NEW w \in Workers, Create(w)
  PROVE  TypeOK'
<1> DEFINE x == work[w].swa_xid
           who == work[w].who
<1>1. work[w] # None /\ x \in Xids /\ Mine(w) \in Row /\ Mine(w) # None
      /\ work[w].keys.swa # None /\ work[w].keys.state \in 1 .. Len(logins)
  BY WorkFacts, TypeParts DEF Create, At, Work, WorkType, Ready
<1>2. Len(logins) \in Nat
  BY TypeParts, LoginFacts
<1>3. UNCHANGED <<events, partial, completed, expired, logins, session, cookie, verified, job, upsets>>
  BY DEF Create, loginVars
<1>4. /\ row' \in [Xids -> Row \cup {None}]
      /\ \A y \in Xids : row[y] # None => row'[y] # None
  BY <1>1, TypeParts DEF Create, ClaimType
<1>5. WorkType'
  <2>1. CASE Goes(w, None)
    BY <1>2, <1>3, <1>4, <2>1, GoesType
  <2>2. CASE /\ row' = [row EXCEPT ![x] = Mine(w)]
             /\ Choose(w, x, Pending(who) \cup (IF Mine(w).swa \in IdentityOnly THEN {x} ELSE {}))
    <3> DEFINE pending == Pending(who) \cup (IF Mine(w).swa \in IdentityOnly THEN {x} ELSE {})
    <3>1. row'[x] # None
      BY <1>1, <2>2, TypeParts DEF ClaimType
    <3>2. pending \in SUBSET Xids /\ \A y \in pending : row'[y] # None
      BY <1>1, <1>4, <3>1, PendingFacts
    <3> HIDE DEF pending
    <3>3. Choose(w, x, pending) /\ UNCHANGED logins
      BY <1>3, <2>2 DEF pending
    <3> QED
      BY <1>1, <1>4, <3>2, <3>3, ChooseType
  <2> QED
    BY <2>1, <2>2 DEF Create
<1>6. ClaimType'
  BY <1>3, <1>4, TypeParts DEF ClaimType
<1>7. SessionType' /\ JobType'
  BY <1>3, <1>4, TypeParts, JobStays DEF SessionType
<1> QED
  BY <1>5, <1>6, <1>7 DEF TypeOK, ClaimType, SessionType, WorkType, JobType, Ready

\* What a request to S3 ends with.
LEMMA StepsOnType ==
  ASSUME TypeOK, NEW w \in Workers, At(w, "write"), NEW out \in Outcomes,
         Goes(w, [work[w] EXCEPT !.pc = "leave", !.outcome = out]), UNCHANGED <<row, logins>>
  PROVE  /\ WorkType'
         /\ work[w].target \in Xids /\ row[work[w].target] # None
<1> DEFINE new == [work[w] EXCEPT !.pc = "leave", !.outcome = out]
<1>1. work[w] \in Work /\ Ready(work[w])
  BY TypeParts DEF WorkType, At
<1>2. new \in Work /\ new.keys = work[w].keys /\ new.pc = "leave"
  BY <1>1 DEF Work
<1>3. Goes(w, new)
  OBVIOUS
<1>4. Len(logins) \in Nat
  BY TypeParts, LoginFacts
<1> HIDE DEF new
<1> QED
  BY <1>1, <1>2, <1>3, <1>4, GoesType DEF At, Work, Ready

LEMMA WriteType ==
  ASSUME TypeOK, NEW w \in Workers, WriteIdentity(w) \/ FailIdentity(w)
  PROVE  TypeOK'
<1> DEFINE x == work[w].target
<1>1. UNCHANGED <<row, expired, session, cookie, logins, verified, job>>
  BY DEF WriteIdentity, FailIdentity, loginVars
<1>2. WorkType' /\ x \in Xids /\ row[x] # None
  <2>1. At(w, "write")
        /\ \E out \in Outcomes : Goes(w, [work[w] EXCEPT !.pc = "leave", !.outcome = out])
    BY DEF WriteIdentity, FailIdentity, Outcomes
  <2> QED
    BY <1>1, <2>1, StepsOnType
<1>3. /\ partial' \in {partial, [partial EXCEPT ![x] = TRUE]}
      /\ completed' \in {completed, [completed EXCEPT ![x] = 2]}
      /\ events' \in {events, [events EXCEPT ![x] = @ \cup {"STORED"}],
                      [events EXCEPT ![x] = @ \cup {"STORED", "COMPLETED"}]}
  BY DEF WriteIdentity, FailIdentity
<1>4. upsets' \in 0 .. MaxUpsets
  BY TypeParts, LoginsAssumption DEF WriteIdentity, FailIdentity, Upset, JobType
<1>5. ClaimType'
  <2>1. partial' \in [Xids -> BOOLEAN] /\ completed' \in [Xids -> 0 .. 2]
        /\ events' \in [Xids -> SUBSET Categories]
    <3>1. partial' \in [Xids -> BOOLEAN]
      BY <1>2, <1>3, TypeParts DEF ClaimType
    <3>2. completed' \in [Xids -> 0 .. 2]
      BY <1>2, <1>3, TypeParts DEF ClaimType
    <3>3. events' \in [Xids -> SUBSET Categories]
      BY <1>2, <1>3, TypeParts DEF ClaimType, Categories
    <3> QED
      BY <3>1, <3>2, <3>3
  <2>2. \A y \in Xids : y # x =>
          partial'[y] = partial[y] /\ completed'[y] = completed[y] /\ events'[y] = events[y]
    BY <1>2, <1>3, TypeParts DEF ClaimType
  <2> QED
    BY <1>1, <1>2, <2>1, <2>2, TypeParts DEF ClaimType
<1>6. SessionType' /\ JobType'
  BY <1>1, <1>4, TypeParts DEF SessionType, JobType
<1> QED
  BY <1>2, <1>5, <1>6 DEF TypeOK, ClaimType, SessionType, WorkType, JobType, Ready

LEMMA LeaveType ==
  ASSUME TypeOK, NEW w \in Workers, Leave(w)
  PROVE  TypeOK'
<1> DEFINE r == work[w]
           b == work[w].browser
           named == [r.keys EXCEPT !.whoami = whoami(w)]
<1>1. work[w] # None /\ r \in Work /\ r.keys \in Session /\ b \in Browsers
      /\ r.keys.swa \in Agencies /\ r.keys.state \in 1 .. Len(logins)
  BY WorkFacts DEF Leave, At
<1>2. SessionType /\ Len(logins) \in Nat /\ logins \in Seq(Login)
  BY TypeParts, LoginFacts DEF SessionType
<1>3. whoami(w) \in Whoami
  BY <1>1 DEF whoami, Whoami, Work
<1>4. /\ named \in Session /\ named.swa = r.keys.swa /\ named.state = r.keys.state
      /\ named.swa # None /\ named.state <= Len(logins)
  <2>1. r.keys.swa # None
    BY <1>1, LoginsAssumption
  <2> QED
    BY <1>1, <1>2, <1>3, <2>1 DEF Session
<1>5. /\ [named EXCEPT !.authenticated = TRUE] \in Session
      /\ [named EXCEPT !.authenticated = TRUE].swa = named.swa
      /\ [named EXCEPT !.authenticated = TRUE].state = named.state
  BY <1>4 DEF Session
<1> HIDE DEF named, b
<1>6. SessionType' /\ Len(logins) <= Len(logins')
  <2>1. CASE UNCHANGED loginVars
    BY <1>2, <2>1 DEF loginVars, SessionType
  <2>2. CASE Begins(b, named, logins, 2, None, None, FALSE) /\ UNCHANGED <<cookie, verified>>
    <3>1. 2 \in 0 .. 2 /\ None \in Agencies \cup {None} /\ None \in Xids \cup {None}
          /\ FALSE \in BOOLEAN /\ Len(logins) = Len(logins)
          /\ verified' \subseteq Claimants
      BY <1>2, <2>2 DEF SessionType
    <3> QED
      BY <1>1, <1>2, <1>4, <2>2, <3>1, BeginsType
  <2>3. CASE \E new \in {named, [named EXCEPT !.authenticated = TRUE]} :
               session' = [session EXCEPT ![b] = new]
               /\ cookie' \in {cookie, [cookie EXCEPT ![b] = None]}
               /\ UNCHANGED <<logins, verified>>
    <3>1. PICK new \in Session : /\ new.swa # None /\ new.state <= Len(logins)
                                 /\ session' = [session EXCEPT ![b] = new]
      BY <1>4, <1>5, <2>3
    <3>2. session' \in [Browsers -> Session \cup {None}]
          /\ cookie' \in [Browsers -> Xids \cup {None}]
      BY <1>1, <1>2, <2>3, <3>1 DEF SessionType
    <3> QED
      BY <1>1, <1>2, <2>3, <3>1, <3>2 DEF SessionType
  <2> QED
    BY <2>1, <2>2, <2>3 DEF Leave, named, b
<1>7. WorkType'
  <2>1. Len(logins') \in Nat
    BY <1>6, LoginFacts DEF SessionType
  <2>2. Goes(w, None) /\ UNCHANGED row
    BY DEF Leave, claimVars
  <2> QED
    BY <1>6, <2>1, <2>2, GoesType
<1>8. ClaimType' /\ JobType'
  BY TypeParts, JobStays DEF Leave, ClaimType, claimVars
<1> QED
  BY <1>6, <1>7, <1>8 DEF TypeOK, ClaimType, SessionType, WorkType, JobType, Ready

LEMMA JobStepType ==
  ASSUME TypeOK, Job
  PROVE  TypeOK'
<1>1. UNCHANGED <<row, expired, session, cookie, logins, verified, work>>
  BY DEF Job, complete_all, complete_next, complete_write, complete_fail, complete_erase,
         claimVars, loginVars
<1>2. SessionType' /\ WorkType'
  <2>1. Len(logins) \in Nat /\ Len(logins) <= Len(logins')
    BY <1>1, TypeParts, LoginFacts
  <2> QED
    BY <1>1, <2>1, TypeParts, WorkStays DEF SessionType
<1>3. ASSUME NEW todo \in SUBSET job.todo, job' = Done(todo)
      PROVE  job' \in [pc : {"idle", "next", "write", "erase"}, todo : SUBSET Xids,
                       claim : Xids \cup {None}, before : SUBSET Xids]
             /\ job'.todo \subseteq job.todo /\ job'.pc \in {"idle", "next"}
  BY <1>3, TypeParts DEF Done, NoJob, JobType
<1>4. CASE complete_all
  <2>1. JobType'
    BY <1>1, <1>4, TypeParts DEF complete_all, ExpiredIdentityClaims, Completed, JobType
  <2>2. ClaimType'
    BY <1>4, TypeParts DEF complete_all, ClaimType, claimVars
  <2> QED
    BY <1>2, <2>1, <2>2 DEF TypeOK, ClaimType, SessionType, WorkType, JobType, Ready
<1>5. CASE complete_next
  <2>1. PICK x \in job.todo :
          job' = IF x \in expired /\ partial[x]
                 THEN [job EXCEPT !.pc = "write", !.todo = @ \ {x}, !.claim = x]
                 ELSE Done(job.todo \ {x})
    BY <1>5 DEF complete_next
  <2>2. x \in Xids /\ row[x] # None /\ x # None
    BY TypeParts, LoginsAssumption DEF JobType
  <2>3. UNCHANGED upsets
    BY <1>5 DEF complete_next
  <2>4. JobType'
    <3>1. CASE job' = [job EXCEPT !.pc = "write", !.todo = @ \ {x}, !.claim = x]
      BY <1>1, <2>2, <2>3, <3>1, TypeParts DEF JobType
    <3>2. CASE job' = Done(job.todo \ {x})
      BY <1>1, <1>3, <2>3, <3>2, TypeParts DEF JobType
    <3> QED
      BY <2>1, <3>1, <3>2
  <2>5. ClaimType'
    BY <1>5, TypeParts DEF complete_next, ClaimType, claimVars
  <2> QED
    BY <1>2, <2>4, <2>5 DEF TypeOK, ClaimType, SessionType, WorkType, JobType, Ready
<1>6. CASE complete_write \/ complete_fail
  <2>1. job.claim \in Xids /\ row[job.claim] # None
    BY <1>6, TypeParts DEF complete_write, complete_fail, JobType
  <2>2. /\ completed' \in {completed, [completed EXCEPT ![job.claim] = 1]}
        /\ events' \in {events, [events EXCEPT ![job.claim] = @ \cup {"STORED", "COMPLETED"}]}
        /\ UNCHANGED partial
    BY <1>6 DEF complete_write, complete_fail
  <2>3. ClaimType'
    <3>1. completed' \in [Xids -> 0 .. 2] /\ events' \in [Xids -> SUBSET Categories]
      BY <2>1, <2>2, TypeParts DEF ClaimType, Categories
    <3>2. \A y \in Xids : y # job.claim =>
            completed'[y] = completed[y] /\ events'[y] = events[y]
      BY <2>1, <2>2, TypeParts DEF ClaimType
    <3> QED
      BY <1>1, <2>1, <2>2, <3>1, <3>2, TypeParts DEF ClaimType
  <2>4. JobType'
    <3>1. CASE complete_write
      BY <1>1, <3>1, TypeParts DEF complete_write, JobType
    <3>2. CASE complete_fail
      BY <1>1, <3>2, TypeParts, LoginsAssumption DEF complete_fail, Upset, JobType, NoJob
    <3> QED
      BY <1>6, <3>1, <3>2
  <2> QED
    BY <1>2, <2>3, <2>4 DEF TypeOK, ClaimType, SessionType, WorkType, JobType, Ready
<1>7. CASE complete_erase
  <2>1. job.claim \in Xids /\ row[job.claim] # None
    BY <1>7, TypeParts DEF complete_erase, JobType
  <2>2. ClaimType'
    BY <1>1, <1>7, <2>1, TypeParts DEF complete_erase, ClaimType
  <2>3. upsets' \in 0 .. MaxUpsets
    BY <1>7, TypeParts, LoginsAssumption DEF complete_erase, Upset, JobType
  <2>4. JobType'
    BY <1>1, <1>3, <1>7, <2>3, TypeParts DEF complete_erase, JobType
  <2> QED
    BY <1>2, <2>2, <2>4 DEF TypeOK, ClaimType, SessionType, WorkType, JobType, Ready
<1> QED
  BY <1>4, <1>5, <1>6, <1>7 DEF Job

LEMMA AgencyType ==
  ASSUME TypeOK, NEW x \in Xids, Agency(x)
  PROVE  TypeOK'
<1>1. UNCHANGED <<row, expired, session, cookie, logins, verified, work, job>>
  BY DEF Agency, PATCH_resolved, DELETE_claim, DELETE_fail, loginVars
<1>2. row[x] # None
  BY DEF Agency, PATCH_resolved, DELETE_claim, DELETE_fail, Theirs
<1>3. /\ partial' \in {partial, [partial EXCEPT ![x] = FALSE]}
      /\ completed' \in {completed, [completed EXCEPT ![x] = 0]}
      /\ events' \in {events, [events EXCEPT ![x] = @ \cup {"RESOLVED"}],
                      [events EXCEPT ![x] = @ \cup {"DELETED"}]}
  BY DEF Agency, PATCH_resolved, DELETE_claim, DELETE_fail
<1>4. ClaimType'
  <2>1. partial' \in [Xids -> BOOLEAN]
    BY <1>3, TypeParts DEF ClaimType
  <2>2. completed' \in [Xids -> 0 .. 2]
    BY <1>3, TypeParts DEF ClaimType
  <2>3. events' \in [Xids -> SUBSET Categories]
    BY <1>3, TypeParts DEF ClaimType, Categories
  <2>4. \A y \in Xids : y # x =>
          partial'[y] = partial[y] /\ completed'[y] = completed[y] /\ events'[y] = events[y]
    BY <1>3, TypeParts DEF ClaimType
  <2> QED
    BY <1>1, <1>2, <2>1, <2>2, <2>3, <2>4, TypeParts DEF ClaimType
<1>5. JobType'
  BY <1>1, TypeParts, LoginsAssumption
     DEF Agency, PATCH_resolved, DELETE_claim, DELETE_fail, Upset, JobType
<1>6. SessionType' /\ WorkType'
  BY <1>1, TypeParts DEF SessionType, WorkType, Ready
<1> QED
  BY <1>4, <1>5, <1>6 DEF TypeOK, ClaimType, SessionType, WorkType, JobType, Ready

LEMMA NextType == TypeOK /\ [Next]_vars => TypeOK'
<1> SUFFICES ASSUME TypeOK, [Next]_vars PROVE TypeOK'
  OBVIOUS
<1>1. ASSUME NEW x \in Xids, Expire(x)
      PROVE  TypeOK'
  BY <1>1 DEF Expire, TypeOK, loginVars
<1>2. CASE UNCHANGED vars
  BY <1>2 DEF vars, claimVars, loginVars, TypeOK
<1>3. ASSUME NEW w \in Workers, Serve(w)
      PROVE  TypeOK'
  BY <1>3, InitiateType, CreateType, WriteType, LeaveType DEF Serve
<1> QED
  BY <1>1, <1>2, <1>3, indexType, startType, SessionEndsType, StashEndsType, resultType,
     AgencyType, JobStepType DEF Next

(* Whatever the numbers of claimants, browsers and requests: the state is  *)
(* well-formed, what the requests and the job write to has a row, and a    *)
(* session that has a login has the login's agency.                        *)
THEOREM TypeCorrect == Spec => []TypeOK
<1>1. Init => TypeOK
  BY InitType
<1>2. TypeOK /\ [Next]_vars => TypeOK'
  BY NextType
<1> QED
  BY <1>1, <1>2, PTL DEF Spec
-----------------------------------------------------------------------------
(* What a step does to sessions, requests and claims. *)

\* A login of the browser b, whose session held `keys`, has begun, or has not.
Began(b, keys, before, ial) ==
  /\ \A c \in Browsers : c # b => session'[c] = session[c]
  /\ \/ session'[b] \in {session[b], keys} /\ logins' = before
     \/ /\ session'[b].whoami = keys.whoami
        /\ session'[b].authenticated = keys.authenticated
        /\ session'[b].state = keys.state /\ session'[b].refused
        /\ session'[b].IAL = ial /\ ial = 1
        /\ logins' = before
     \/ /\ session'[b].whoami = keys.whoami
        /\ session'[b].authenticated = keys.authenticated
        /\ session'[b].state = Len(before) + 1 /\ session'[b].IAL = ial
        /\ \E login \in Login :
             /\ logins' = Append(before, login) /\ login.IAL = ial
             /\ login.swa = session'[b].swa /\ login.swa_xid = session'[b].swa_xid

(* A login that begins changes one session, and neither who is logged in   *)
(* in it nor, unless it is stashed, its state.                             *)
LEMMA BeginsFacts ==
  ASSUME SessionType, NEW b \in Browsers, NEW keys \in Session, NEW before \in Seq(Login),
         NEW ial \in 0 .. 2, NEW swa \in Agencies \cup {None},
         NEW param \in Xids \cup {None}, NEW skip,
         Begins(b, keys, before, ial, swa, param, skip)
  PROVE  Began(b, keys, before, ial)
<1> DEFINE agency  == Either(swa, keys.swa)
           swa_xid == get_swa_xid(param, cookie[b], keys)
           asked   == [keys EXCEPT !.swa = agency, !.IAL = ial]
<1>1. /\ agency \in Agencies \cup {None}
      /\ swa_xid \in Xids \cup {None}
  BY DEF Either, get_swa_xid, SessionType, Session
<1>2. /\ asked \in Session /\ asked.swa = agency /\ asked.state = keys.state
      /\ asked.IAL = ial /\ asked.whoami = keys.whoami
      /\ asked.authenticated = keys.authenticated
  BY <1>1 DEF Session
<1> HIDE DEF asked, agency, swa_xid
<1>3. CASE agency = None
  <2>1. logins' = before /\ session' = [session EXCEPT ![b] = IF keys = NoKeys THEN @ ELSE keys]
    BY <1>3 DEF Begins, agency
  <2> QED
    BY <2>1 DEF SessionType, Began
<1>4. CASE logins' = before /\ ial = 1
           /\ session' = [session EXCEPT ![b] = [asked EXCEPT !.refused = TRUE]]
  <2> DEFINE new == [asked EXCEPT !.refused = TRUE]
  <2>1. /\ new.whoami = keys.whoami /\ new.authenticated = keys.authenticated
        /\ new.state = keys.state /\ new.refused /\ new.IAL = ial
    BY <1>2 DEF Session
  <2> QED
    BY <1>4, <2>1 DEF SessionType, Began
<1>5. CASE /\ logins' = Append(before, [swa |-> agency, IAL |-> ial, swa_xid |-> swa_xid,
                                        session |-> b, stashed |-> TRUE])
           /\ session' = [session EXCEPT ![b] =
             [asked EXCEPT !.swa_xid = swa_xid, !.state = Len(before) + 1, !.refused = FALSE]]
  <2> DEFINE n == Len(before) + 1
             new == [asked EXCEPT !.swa_xid = swa_xid, !.state = n, !.refused = FALSE]
             login == [swa |-> agency, IAL |-> ial, swa_xid |-> swa_xid,
                       session |-> b, stashed |-> TRUE]
  <2> HIDE DEF n
  <2>1. /\ new.whoami = keys.whoami /\ new.authenticated = keys.authenticated
        /\ new.state = n /\ new.IAL = ial
        /\ new.swa = agency /\ new.swa_xid = swa_xid
    BY <1>2 DEF Session
  <2>2. login \in Login /\ login.IAL = ial /\ login.swa = agency /\ login.swa_xid = swa_xid
    BY <1>1 DEF Login
  <2> HIDE DEF new, login
  <2>3. session' = [session EXCEPT ![b] = new] /\ logins' = Append(before, login)
    BY <1>5 DEF n, new, login
  <2>4. session'[b] = new /\ \A c \in Browsers : c # b => session'[c] = session[c]
    BY <2>3 DEF SessionType
  <2> QED
    BY <2>1, <2>2, <2>3, <2>4 DEF n, Began
<1> QED
  BY <1>3, <1>4, <1>5 DEF Begins, asked, agency, swa_xid

(* Who is logged in in a session was so before the step, in one session or *)
(* another, or has just been let in.                                       *)
LEMMA WhoamiFrom ==
  ASSUME TypeOK, [Next]_vars, NEW b \in Browsers, session'[b] # None, session'[b].whoami # None
  PROVE  \/ \E c \in Browsers : session[c] # None /\ session[c].whoami = session'[b].whoami
         \/ \E w \in Workers : At(w, "leave") /\ session'[b].whoami = whoami(w)
<1> USE TypeParts
<1>1. ASSUME NEW c \in Browsers, NEW keys \in Session, NEW before \in Seq(Login),
             NEW ial \in 0 .. 2, NEW swa \in Agencies \cup {None},
             NEW param \in Xids \cup {None}, NEW skip,
             Begins(c, keys, before, ial, swa, param, skip)
      PROVE  \/ session[b] # None /\ session'[b].whoami = session[b].whoami
             \/ b = c /\ session'[b].whoami = keys.whoami
  <2>1. CASE b = c
    <3>1. session'[b] \in {session[b], keys} \/ session'[b].whoami = keys.whoami
      BY <1>1, <2>1, BeginsFacts DEF Began
    <3> QED
      BY <2>1, <3>1
  <2>2. CASE b # c
    <3>1. session'[b] = session[b]
      BY <1>1, <2>2, BeginsFacts DEF Began
    <3> QED
      BY <3>1
  <2> QED
    BY <2>1, <2>2
<1>2. ASSUME NEW c \in Browsers
      PROVE  /\ Keys(c) \in Session
             /\ Keys(c).whoami # None => session[c] # None /\ Keys(c) = session[c]
  BY KeysType DEF Keys, NoKeys
<1>3. CASE UNCHANGED session
  BY <1>3
<1>4. ASSUME NEW c \in Browsers, NEW link \in Links, index(c, link)
      PROVE  \E d \in Browsers : session[d] # None /\ session[d].whoami = session'[b].whoami
  <2>1. /\ link.ial \in 0 .. 2
        /\ link.swa \in Agencies \cup {None} /\ link.swa_xid \in Xids \cup {None}
        /\ logins \in Seq(Login)
        /\ Begins(c, Keys(c), logins, link.ial, link.swa, link.swa_xid, link.skip)
    BY <1>4, LoginsAssumption DEF index, SessionType
  <2>2. Keys(c) \in Session
    BY <1>2
  <2>3. \/ session[b] # None /\ session'[b].whoami = session[b].whoami
        \/ b = c /\ session'[b].whoami = Keys(c).whoami
    BY <1>1, <2>1, <2>2
  <2> QED
    BY <1>2, <2>3
<1>5. ASSUME NEW c \in Browsers, SessionEnds(c)
      PROVE  session[b] # None /\ session[b].whoami = session'[b].whoami
  BY <1>5 DEF SessionEnds, SessionType
<1>6. ASSUME NEW w \in Workers, NEW c \in Browsers, NEW s \in DOMAIN logins,
             NEW who \in Claimants, result(w, c, s, who)
      PROVE  \E d \in Browsers : session[d] # None /\ session[d].whoami = session'[b].whoami
  <2>1. CASE Restarts(c, s)
    <3>1. PICK ial \in 0 .. 2, swa \in Agencies \cup {None}, param \in Xids \cup {None} :
            Begins(c, Keys(c), Answered(s), ial, swa, param, FALSE)
      BY <2>1, RestartsBegins
    <3> QED
      BY <1>1, <1>2, <3>1, AnsweredFacts, ZenonT(30)
  <2>2. CASE Mismatched(c, s)
    <3>1. session' = [session EXCEPT ![c] = Resumed(c, s)] /\ Resumed(c, s) # None
      BY <2>2 DEF Mismatched
    <3>2. PICK d \in Browsers : session[d] # None /\ Resumed(c, s) = session[d]
      BY <3>1, ResumedFacts
    <3> QED
      BY <3>1, <3>2 DEF SessionType
  <2>3. CASE Accepted(w, c, s, who)
    BY <2>3 DEF Accepted
  <2> QED
    BY <1>6, <2>1, <2>2, <2>3 DEF result
<1>7. ASSUME NEW w \in Workers, Leave(w)
      PROVE  \/ session[b] # None /\ session[b].whoami = session'[b].whoami
             \/ At(w, "leave") /\ session'[b].whoami = whoami(w)
  <2> DEFINE c == work[w].browser
             named == [work[w].keys EXCEPT !.whoami = whoami(w)]
  <2>1. At(w, "leave") /\ work[w] \in Work /\ work[w].keys \in Session /\ c \in Browsers
    BY <1>7, WorkFacts DEF Leave, At
  <2>2. whoami(w) \in Whoami
    BY <2>1, WorkFacts DEF whoami, Whoami, Work, At
  <2>3. named \in Session /\ named.whoami = whoami(w)
        /\ [named EXCEPT !.authenticated = TRUE].whoami = whoami(w)
    BY <2>1, <2>2 DEF Session
  <2> HIDE DEF named, c
  <2>4. CASE Begins(c, named, logins, 2, None, None, FALSE)
    <3>1. 2 \in 0 .. 2 /\ None \in Agencies \cup {None} /\ None \in Xids \cup {None}
          /\ FALSE \in BOOLEAN /\ logins \in Seq(Login)
      BY DEF SessionType
    <3> QED
      BY <1>1, <2>1, <2>3, <2>4, <3>1
  <2>5. CASE \E new \in {named, [named EXCEPT !.authenticated = TRUE]} :
               session' = [session EXCEPT ![c] = new]
    BY <2>1, <2>3, <2>5 DEF SessionType
  <2> QED
    BY <1>3, <1>7, <2>4, <2>5 DEF Leave, loginVars, named, c
<1>8. CASE UNCHANGED session \/ \E c \in Browsers : start(c)
  BY <1>8 DEF start
<1>9. ASSUME NEW w \in Workers, Initiate(w) \/ Create(w) \/ WriteIdentity(w) \/ FailIdentity(w)
      PROVE  UNCHANGED session
  BY <1>9 DEF Initiate, Create, WriteIdentity, FailIdentity, loginVars
<1>10. ASSUME \/ Job
              \/ \E x \in Xids : Expire(x) \/ Agency(x)
              \/ \E s \in DOMAIN logins : StashEnds(s)
              \/ UNCHANGED vars
       PROVE  UNCHANGED session
  BY <1>10 DEF Job, complete_all, complete_next, complete_write, complete_fail, complete_erase,
         Expire, Agency, PATCH_resolved, DELETE_claim, DELETE_fail, StashEnds, vars, loginVars
<1> QED
  BY <1>4, <1>5, <1>6, <1>7, <1>8, <1>9, <1>10 DEF Next, Serve

(* The row of a claim is never changed and none of its events is lost.     *)
LEMMA ClaimsStay ==
  ASSUME TypeOK, [Next]_vars, NEW x \in Xids
  PROVE  /\ row[x] # None => row'[x] = row[x]
         /\ events[x] \subseteq events'[x]
<1> USE TypeParts
<1>1. ASSUME NEW w \in Workers, Create(w)
      PROVE  /\ row[x] # None => row'[x] = row[x]
             /\ events[x] \subseteq events'[x]
  <2>1. \/ UNCHANGED row
        \/ \E y \in Xids : row[y] = None /\ row' = [row EXCEPT ![y] = Mine(w)]
    BY <1>1, WorkFacts DEF Create, At, Work, WorkType, Ready
  <2> QED
    BY <1>1, <2>1 DEF Create, ClaimType
<1>2. ASSUME NEW w \in Workers, WriteIdentity(w) \/ FailIdentity(w)
      PROVE  UNCHANGED row /\ events[x] \subseteq events'[x]
  BY <1>2 DEF WriteIdentity, FailIdentity, ClaimType
<1>3. CASE complete_write
  BY <1>3 DEF complete_write, ClaimType
<1>4. ASSUME NEW w \in Workers, NEW b \in Browsers, NEW s \in DOMAIN logins,
             NEW who \in Claimants, result(w, b, s, who)
      PROVE  UNCHANGED <<row, events>>
  BY <1>4 DEF result, Restarts, Mismatched, Accepted, claimVars
<1>5. ASSUME NEW w \in Workers, Initiate(w) \/ Leave(w)
      PROVE  UNCHANGED <<row, events>>
  BY <1>5 DEF Initiate, Leave, claimVars
<1>6. ASSUME NEW b \in Browsers, (\E link \in Links : index(b, link)) \/ start(b) \/ SessionEnds(b)
      PROVE  UNCHANGED <<row, events>>
  BY <1>6 DEF index, start, SessionEnds, claimVars
<1>7. ASSUME \/ \E s \in DOMAIN logins : StashEnds(s)
             \/ \E y \in Xids : Expire(y)
             \/ complete_all \/ complete_next \/ complete_fail \/ complete_erase
             \/ UNCHANGED vars
      PROVE  UNCHANGED <<row, events>>
  BY <1>7 DEF StashEnds, Expire, complete_all, complete_next, complete_fail, complete_erase,
         vars, claimVars
<1>8. ASSUME NEW y \in Xids, Agency(y)
      PROVE  UNCHANGED row /\ events[x] \subseteq events'[x]
  BY <1>8 DEF Agency, PATCH_resolved, DELETE_claim, DELETE_fail, ClaimType
<1> QED
  BY <1>1, <1>2, <1>3, <1>4, <1>5, <1>6, <1>7, <1>8 DEF Next, Serve, Job

\* One request, before and after a step.
Same(r, q) ==
  /\ r.keys = q.keys /\ r.who = q.who /\ r.IAL = q.IAL
  /\ r.swa_xid = q.swa_xid /\ r.asked = q.asked

\* No claim that waits for an identity.
Settled(x) == "COMPLETED" \in events[x] \/ "RESOLVED" \in events[x]

\* It has found its claim, and either a pending one to write to or, if it is
\* with an agency of identities, that its own has been completed or resolved.
Found(w) ==
  /\ work[w].pc \in {"initiate", "create"} /\ work'[w].pc \in {"write", "leave"}
  /\ work'[w].claim = work[w].swa_xid
  /\ work'[w].claim # None => row'[work'[w].claim] = Mine(w)
  /\ work'[w].pc = "leave" =>
       \/ work'[w].outcome = "invalid" \/ work[w].keys.swa \notin IdentityOnly
       \/ work'[w].claim = None \/ Settled(work'[w].claim)

\* It has written the identity, or failed to.
Wrote(w) ==
  /\ work[w].pc = "write" /\ work'[w].pc = "leave"
  /\ work'[w].claim = work[w].claim
  /\ work'[w].outcome \notin {"other", "failed"} /\ work[w].IAL = 2 =>
       "COMPLETED" \in events'[work'[w].claim]

LEMMA ChooseFacts ==
  ASSUME TypeOK, NEW w \in Workers, work[w] # None, NEW claim \in Xids \cup {None},
         NEW pending, Choose(w, claim, pending)
  PROVE  /\ Same(work'[w], work[w]) /\ work'[w].claim = claim
         /\ work'[w].pc \in {"write", "leave"}
         /\ work'[w].pc = "leave" =>
              work'[w].outcome = "invalid" \/ work[w].keys.swa \notin IdentityOnly \/ pending = {}
<1> DEFINE r == work[w]
<1>1. r \in Work
  BY WorkFacts
<1>2. CASE r.keys.swa \notin IdentityOnly \/ pending = {}
  <2>1. work'[w] = [r EXCEPT !.pc = "leave", !.claim = claim]
    BY <1>2, TypeParts DEF Choose, Goes, WorkType
  <2> HIDE DEF r
  <2> QED
    BY <1>1, <1>2, <2>1 DEF Same, Work, r
<1>3. CASE r.keys.swa \in IdentityOnly /\ pending # {}
  <2> DEFINE to == IF r.IAL = 2 /\ ~ r.full THEN "leave" ELSE "write"
             out == IF r.IAL = 2 /\ ~ r.full THEN "invalid" ELSE "none"
  <2>1. PICK target \in pending :
          work'[w] = [r EXCEPT !.pc = to, !.claim = claim, !.target = target, !.outcome = out]
    BY <1>3, TypeParts DEF Choose, Goes, WorkType
  <2>2. to \in {"write", "leave"} /\ (to = "leave" => out = "invalid")
    OBVIOUS
  <2> HIDE DEF to, out
  <2>3. /\ work'[w].pc = to /\ work'[w].claim = claim /\ work'[w].outcome = out
        /\ Same(work'[w], r)
    BY <1>1, <2>1 DEF Work, Same
  <2> QED
    BY <2>2, <2>3
<1> QED
  BY <1>2, <1>3

(* A request has just been let in, with a session that is there, or goes   *)
(* on: its claim is looked up, made, chosen, written, and stays.           *)
LEMMA RequestFrom ==
  ASSUME TypeOK, [Next]_vars, NEW w \in Workers, work'[w] # None
  PROVE  \/ /\ \E b \in Browsers, s \in DOMAIN logins, who \in Claimants :
                 logins[s] # Spent /\ Accepted(w, b, s, who)
            /\ work'[w].pc = "initiate"
            /\ \E c \in Browsers : session[c] # None /\ work'[w].keys = session[c]
         \/ /\ work[w] # None /\ Same(work'[w], work[w])
            /\ work'[w] = work[w] \/ work'[w].pc = "create" \/ Found(w) \/ Wrote(w)
<1> USE TypeParts
<1> DEFINE Goal == \/ /\ \E b \in Browsers, s \in DOMAIN logins, who \in Claimants :
                           logins[s] # Spent /\ Accepted(w, b, s, who)
                      /\ work'[w].pc = "initiate"
                      /\ \E c \in Browsers : session[c] # None /\ work'[w].keys = session[c]
                   \/ /\ work[w] # None /\ Same(work'[w], work[w])
                      /\ work'[w] = work[w] \/ work'[w].pc = "create" \/ Found(w) \/ Wrote(w)
<1>1. CASE work'[w] = work[w]
  BY <1>1 DEF Same
<1>2. ASSUME NEW b \in Browsers, NEW s \in DOMAIN logins, NEW who \in Claimants,
             logins[s] # Spent, Accepted(w, b, s, who)
      PROVE  Goal
  <2> DEFINE keys == Resumed(b, s)
  <2>1. keys # None
    BY <1>2 DEF Accepted
  <2>2. work'[w].pc = "initiate" /\ work'[w].keys = keys
    BY <1>2 DEF Accepted, WorkType
  <2>3. \E c \in Browsers : session[c] # None /\ keys = session[c]
    BY <2>1, ResumedFacts
  <2> QED
    BY <1>2, <2>2, <2>3
<1>3. CASE Initiate(w)
  <2> DEFINE x == work[w].swa_xid
  <2>1. work[w] # None /\ work[w].pc = "initiate" /\ work[w] \in Work
        /\ x \in Xids \cup {None} /\ UNCHANGED <<row, events>>
    BY <1>3, WorkFacts DEF Initiate, At, Work, claimVars
  <2>2. CASE x = None /\ Choose(w, None, Pending(work[w].who))
    BY <2>1, <2>2, ChooseFacts DEF Found
  <2>3. CASE x # None /\ MayUse(w, x) /\ Choose(w, x, Pending(work[w].who))
    <3>1. row[x] = Mine(w) /\ Mine(w) # None
          /\ Mine(w).swa = work[w].keys.swa /\ Mine(w).claimant = work[w].who
      BY <2>1, <2>3, WorkFacts DEF MayUse, Mine
    <3>2. Pending(work[w].who) = {} /\ work[w].keys.swa \in IdentityOnly =>
            Settled(x)
      BY <2>1, <2>3, <3>1 DEF Pending, Settled
    <3> QED
      BY <2>1, <2>3, <3>1, <3>2, ChooseFacts DEF Found
  <2>4. CASE Goes(w, [work[w] EXCEPT !.pc = "create"])
    <3>1. work'[w] = [work[w] EXCEPT !.pc = "create"]
      BY <2>4 DEF Goes, WorkType
    <3> QED
      BY <2>1, <3>1 DEF Same, Work
  <2>5. CASE Goes(w, None)
    BY <2>5 DEF Goes, WorkType
  <2> QED
    BY <1>3, <2>2, <2>3, <2>4, <2>5 DEF Initiate
<1>4. CASE Create(w)
  <2> DEFINE x == work[w].swa_xid
             mine == IF Mine(w).swa \in IdentityOnly THEN {x} ELSE {}
  <2>1. /\ work[w] # None /\ work[w].pc = "create" /\ x \in Xids
        /\ Mine(w).swa = work[w].keys.swa
    BY <1>4, WorkFacts DEF Create, At, Work, WorkType, Ready, Mine
  <2>2. CASE Goes(w, None)
    BY <2>2 DEF Goes, WorkType
  <2>3. CASE row' = [row EXCEPT ![x] = Mine(w)] /\ Choose(w, x, Pending(work[w].who) \cup mine)
    <3>1. row'[x] = Mine(w)
      BY <2>1, <2>3 DEF ClaimType
    <3>2. Pending(work[w].who) \cup mine = {} => work[w].keys.swa \notin IdentityOnly
      BY <2>1
    <3> QED
      BY <2>1, <2>3, <3>1, <3>2, ChooseFacts DEF Found
  <2> QED
    BY <1>4, <2>2, <2>3 DEF Create
<1>5. CASE WriteIdentity(w) \/ FailIdentity(w)
  <2> DEFINE r == work[w]
  <2>1. /\ r # None /\ r \in Work /\ r.pc = "write" /\ r.target \in Xids
    BY <1>5, WorkFacts DEF WriteIdentity, FailIdentity, At, Work, WorkType, Ready
  <2>2. PICK out \in Outcomes :
          /\ Goes(w, [r EXCEPT !.pc = "leave", !.outcome = out])
          /\ out \notin {"other", "failed"} /\ r.IAL = 2 =>
               r.target = r.claim /\ events' = [events EXCEPT ![r.target] = @ \cup {"STORED", "COMPLETED"}]
    <3>1. CASE WriteIdentity(w)
      <4> DEFINE o == IF r.target = r.claim THEN "written" ELSE "other"
      <4>1. o \in Outcomes /\ Goes(w, [r EXCEPT !.pc = "leave", !.outcome = o])
        BY <3>1 DEF WriteIdentity, Outcomes
      <4>2. r.IAL # 1 => events' = [events EXCEPT ![r.target] = @ \cup {"STORED", "COMPLETED"}]
        BY <3>1 DEF WriteIdentity
      <4>3. o # "other" => r.target = r.claim
        OBVIOUS
      <4>4. o \notin {"other", "failed"} /\ r.IAL = 2 =>
              r.target = r.claim /\ events' = [events EXCEPT ![r.target] = @ \cup {"STORED", "COMPLETED"}]
        BY <4>2, <4>3
      <4> HIDE DEF o
      <4> QED
        BY <4>1, <4>4, Zenon
    <3>2. CASE FailIdentity(w)
      BY <3>2 DEF FailIdentity, Outcomes
    <3> QED
      BY <1>5, <3>1, <3>2
  <2>3. work'[w] = [r EXCEPT !.pc = "leave", !.outcome = out]
    BY <2>2 DEF Goes, WorkType
  <2>4. /\ work'[w].pc = "leave" /\ work'[w].outcome = out /\ work'[w].claim = r.claim
        /\ Same(work'[w], r)
    BY <2>1, <2>3 DEF Work, Same
  <2> QED
    BY <2>1, <2>2, <2>4 DEF Wrote, ClaimType
<1>6. CASE Leave(w)
  BY <1>6 DEF Leave, Goes, WorkType
<1>7. ASSUME NEW v \in Workers, v # w, Serve(v)
      PROVE  work'[w] = work[w]
  BY <1>7 DEF Serve, Initiate, Create, WriteIdentity, FailIdentity, Leave, Choose, Goes, WorkType
<1>8. ASSUME NEW v \in Workers, NEW b \in Browsers, NEW s \in DOMAIN logins,
             NEW who \in Claimants, result(v, b, s, who)
      PROVE  work'[w] = work[w] \/ (v = w /\ logins[s] # Spent /\ Accepted(w, b, s, who))
  <2>1. CASE Accepted(v, b, s, who)
    <3>1. v # w => work'[w] = work[w]
      BY <2>1 DEF Accepted, WorkType
    <3>2. logins[s] # Spent
      BY <1>8 DEF result
    <3> QED
      BY <2>1, <3>1, <3>2
  <2> QED
    BY <1>8, <2>1 DEF result, Restarts, Mismatched
<1>9. ASSUME \/ \E b \in Browsers :
                  (\E link \in Links : index(b, link)) \/ start(b) \/ SessionEnds(b)
             \/ \E s \in DOMAIN logins : StashEnds(s)
             \/ \E x \in Xids : Expire(x) \/ Agency(x)
             \/ Job \/ UNCHANGED vars
      PROVE  UNCHANGED work
  BY <1>9 DEF index, start, SessionEnds, StashEnds, Expire, Agency, PATCH_resolved,
         DELETE_claim, DELETE_fail, Job, complete_all, complete_next,
         complete_write, complete_fail, complete_erase, vars
<1> QED
  BY <1>1, <1>2, <1>3, <1>4, <1>5, <1>6, <1>7, <1>8, <1>9 DEF Next, Serve
-----------------------------------------------------------------------------
(* A claim is hers. *)

\* The claim that is remembered of a login is its claimant's.
Hers(me) == me.claim # None => row[me.claim] = [swa |-> me.swa, claimant |-> me.who]

\* So it is in the sessions, in those the requests hold, and for the requests.
ClaimInv ==
  /\ \A b \in Browsers : session[b] # None /\ session[b].whoami # None => Hers(session[b].whoami)
  /\ \A w \in Workers : work[w] # None =>
       /\ work[w].keys.whoami # None => Hers(work[w].keys.whoami)
       /\ work[w].pc \in {"write", "leave"} /\ work[w].claim # None =>
            row[work[w].claim] = Mine(w)

LEMMA HersStays ==
  ASSUME TypeOK, [Next]_vars, NEW me \in Whoami, Hers(me), me.claim # None
  PROVE  row'[me.claim] = [swa |-> me.swa, claimant |-> me.who]
<1>1. me.claim \in Xids /\ [swa |-> me.swa, claimant |-> me.who] \in Row
  BY DEF Whoami, Row
<1>2. [swa |-> me.swa, claimant |-> me.who] # None
  BY <1>1, LoginsAssumption DEF Row
<1> QED
  BY <1>1, <1>2, ClaimsStay DEF Hers

LEMMA WhoamiType ==
  ASSUME TypeOK
  PROVE  /\ \A b \in Browsers : session[b] # None /\ session[b].whoami # None =>
              session[b].whoami \in Whoami
         /\ \A w \in Workers : work[w] # None /\ work[w].keys.whoami # None =>
              work[w].keys.whoami \in Whoami
         /\ \A w \in Workers : At(w, "leave") => whoami(w) \in Whoami
<1>1. ASSUME NEW b \in Browsers, session[b] # None, session[b].whoami # None
      PROVE  session[b].whoami \in Whoami
  <2>1. session[b] \in Session
    BY <1>1, TypeParts DEF SessionType
  <2> QED
    BY <1>1, <2>1 DEF Session
<1>2. ASSUME NEW w \in Workers, work[w] # None, work[w].keys.whoami # None
      PROVE  work[w].keys.whoami \in Whoami
  <2>1. work[w].keys \in Session
    BY <1>2, WorkFacts
  <2> QED
    BY <1>2, <2>1 DEF Session
<1>3. ASSUME NEW w \in Workers, At(w, "leave")
      PROVE  whoami(w) \in Whoami
  BY <1>3, WorkFacts DEF whoami, Whoami, Work, At
<1> QED
  BY <1>1, <1>2, <1>3

LEMMA ClaimStep == TypeOK /\ ClaimInv /\ [Next]_vars => ClaimInv'
<1> SUFFICES ASSUME TypeOK, ClaimInv, [Next]_vars PROVE ClaimInv'
  OBVIOUS
<1>1. ASSUME NEW b \in Browsers, session'[b] # None, session'[b].whoami # None
      PROVE  Hers(session[b].whoami)'
  <2> DEFINE me == session'[b].whoami
  <2>1. me \in Whoami /\ Hers(me)
    <3>1. CASE \E c \in Browsers : session[c] # None /\ session[c].whoami = me
      BY <1>1, <3>1, WhoamiType DEF ClaimInv
    <3>2. CASE \E w \in Workers : At(w, "leave") /\ me = whoami(w)
      <4>1. PICK w \in Workers : At(w, "leave") /\ me = whoami(w)
        BY <3>2
      <4>2. me.claim = work[w].claim /\ [swa |-> me.swa, claimant |-> me.who] = Mine(w)
        BY <4>1 DEF whoami, Mine
      <4> HIDE DEF me
      <4> QED
        BY <4>1, <4>2, WhoamiType DEF ClaimInv, Hers, At
    <3> QED
      BY <1>1, <3>1, <3>2, WhoamiFrom
  <2> QED
    BY <2>1, HersStays DEF Hers
<1>2. ASSUME NEW w \in Workers, work'[w] # None, work'[w].keys.whoami # None
      PROVE  Hers(work[w].keys.whoami)'
  <2> DEFINE me == work'[w].keys.whoami
  <2>1. me \in Whoami /\ Hers(me)
    BY <1>2, RequestFrom, WhoamiType DEF ClaimInv, Same
  <2> QED
    BY <2>1, HersStays DEF Hers
<1>3. ASSUME NEW w \in Workers, work'[w] # None, work'[w].pc \in {"write", "leave"},
             work'[w].claim # None
      PROVE  row'[work'[w].claim] = Mine(w)'
  <2>1. work[w] # None /\ Same(work'[w], work[w])
        /\ (work'[w] = work[w] \/ Found(w) \/ Wrote(w))
    BY <1>3, RequestFrom
  <2>2. Mine(w)' = Mine(w)
    BY <2>1 DEF Mine, Same
  <2>3. CASE Found(w)
    BY <1>3, <2>2, <2>3 DEF Found
  <2>4. CASE work'[w] = work[w] \/ Wrote(w)
    <3>1. work'[w].claim = work[w].claim /\ row[work[w].claim] = Mine(w)
      BY <1>3, <2>1, <2>4 DEF Wrote, ClaimInv
    <3>2. work[w].claim \in Xids /\ Mine(w) # None
      BY <1>3, <2>1, <3>1, WorkFacts DEF Work
    <3> QED
      BY <2>2, <3>1, <3>2, ClaimsStay
  <2> QED
    BY <2>1, <2>3, <2>4
<1> QED
  BY <1>1, <1>2, <1>3 DEF ClaimInv

LEMMA ClaimInvariant == Spec => [](TypeOK /\ ClaimInv)
<1>1. Init => TypeOK /\ ClaimInv
  BY InitType DEF Init, ClaimInv
<1>2. TypeOK /\ ClaimInv /\ [Next]_vars => (TypeOK /\ ClaimInv)'
  BY NextType, ClaimStep
<1> QED
  BY <1>1, <1>2, PTL DEF Spec

(* However many people come with one swa_xid, in however many browsers and *)
(* requests at once: a session only names a claim of the claimant who is   *)
(* logged in in it, with the agency she logged in to.                      *)
THEOREM ClaimIsAlwaysHers == Spec => []ClaimIsHers
<1>1. ClaimInv => ClaimIsHers
  BY DEF ClaimInv, ClaimIsHers, LoggedIn, Sessions, Hers
<1> QED
  BY <1>1, ClaimInvariant, PTL
-----------------------------------------------------------------------------
(* What is verified is shared. *)

\* A verification that is remembered, and that nothing stood in the way of,
\* has completed the claim it is remembered with, or came too late for it.
Shared(me) ==
  me.IAL = 2 /\ me.swa \in IdentityOnly /\ me.claim # None
  /\ me.outcome \notin {"failed", "invalid", "other"} => Settled(me.claim)

\* So it is in the sessions, in those the requests hold, and for the requests
\* that are done with their claim.
SharedInv ==
  /\ \A b \in Browsers :
       session[b] # None /\ session[b].whoami # None => Shared(session[b].whoami)
  /\ \A w \in Workers : work[w] # None =>
       /\ work[w].keys.whoami # None => Shared(work[w].keys.whoami)
       /\ work[w].pc = "leave" => Shared(whoami(w))

LEMMA SharedStays ==
  ASSUME TypeOK, [Next]_vars, NEW me \in Whoami, Shared(me)
  PROVE  me.IAL = 2 /\ me.swa \in IdentityOnly /\ me.claim # None
         /\ me.outcome \notin {"failed", "invalid", "other"} => Settled(me.claim)'
<1>1. me.claim \in Xids \cup {None}
  BY DEF Whoami
<1> QED
  BY <1>1, ClaimsStay DEF Shared, Settled

LEMMA SharedStep == TypeOK /\ SharedInv /\ [Next]_vars => SharedInv'
<1> SUFFICES ASSUME TypeOK, SharedInv, [Next]_vars PROVE SharedInv'
  OBVIOUS
<1>1. ASSUME NEW b \in Browsers, session'[b] # None, session'[b].whoami # None
      PROVE  Shared(session[b].whoami)'
  <2> DEFINE me == session'[b].whoami
  <2>1. me \in Whoami /\ Shared(me)
    BY <1>1, WhoamiFrom, WhoamiType DEF SharedInv, At
  <2> QED
    BY <2>1, SharedStays DEF Shared, Settled
<1>2. ASSUME NEW w \in Workers, work'[w] # None, work'[w].keys.whoami # None
      PROVE  Shared(work[w].keys.whoami)'
  <2> DEFINE me == work'[w].keys.whoami
  <2>1. me \in Whoami /\ Shared(me)
    BY <1>2, RequestFrom, WhoamiType DEF SharedInv, Same
  <2> QED
    BY <2>1, SharedStays DEF Shared, Settled
<1>3. ASSUME NEW w \in Workers, work'[w] # None, work'[w].pc = "leave"
      PROVE  Shared(whoami(w))'
  <2> DEFINE r == work'[w]
  <2>0. TypeOK'
    BY NextType
  <2>1. work[w] # None /\ Same(r, work[w]) /\ (r = work[w] \/ Found(w) \/ Wrote(w))
    BY <1>3, RequestFrom
  <2>2. r.claim \in Xids \cup {None}
    BY <1>3, <2>0 DEF TypeOK, Work
  <2>3. r.IAL = 2 /\ r.keys.swa \in IdentityOnly /\ r.claim # None
        /\ r.outcome \notin {"failed", "invalid", "other"} =>
          "COMPLETED" \in events'[r.claim] \/ "RESOLVED" \in events'[r.claim]
    <3>1. CASE r = work[w]
      <4>1. Shared(whoami(w))
        BY <1>3, <3>1 DEF SharedInv
      <4>2. r.IAL = 2 /\ r.keys.swa \in IdentityOnly /\ r.claim # None
            /\ r.outcome \notin {"failed", "invalid", "other"} => Settled(r.claim)
        BY <3>1, <4>1 DEF Shared, whoami
      <4> QED
        BY <2>2, <4>2, ClaimsStay, <3>1 DEF Settled
    <3>2. CASE Found(w)
      BY <1>3, <2>1, <2>2, <3>2, ClaimsStay DEF Found, Same, Settled
    <3>3. CASE Wrote(w)
      BY <2>1, <3>3 DEF Wrote, Same, Settled
    <3> QED
      BY <2>1, <3>1, <3>2, <3>3
  <2> QED
    BY <2>3 DEF Shared, whoami, Settled
<1> QED
  BY <1>1, <1>2, <1>3 DEF SharedInv

(* A claimant who is logged in as verified with an agency of identities    *)
(* has her claim filed, in every session, unless S3 failed, the payload    *)
(* was refused, another claim of hers was completed instead, or the agency *)
(* has resolved the claim.                                                 *)
THEOREM VerifiedIsAlwaysShared == Spec => []VerifiedIsShared
<1>1. Init => TypeOK /\ SharedInv
  BY InitType DEF Init, SharedInv
<1>2. TypeOK /\ SharedInv /\ [Next]_vars => (TypeOK /\ SharedInv)'
  BY NextType, SharedStep
<1>3. SharedInv => VerifiedIsShared
  BY DEF SharedInv, VerifiedIsShared, LoggedIn, Sessions, Shared, Settled
<1> QED
  BY <1>1, <1>2, <1>3, PTL DEF Spec

-----------------------------------------------------------------------------
(* The job leaves the verified alone. *)

\* The job works at claims that were not complete when it began.
JobInv ==
  /\ job.todo \cap job.before = {}
  /\ job.claim \notin job.before

LEMMA JobStep == TypeOK /\ JobInv /\ [Next]_vars => JobInv'
<1> SUFFICES ASSUME TypeOK, JobInv, [Next]_vars PROVE JobInv'
  OBVIOUS
<1> USE TypeParts
<1>1. CASE UNCHANGED job
  BY <1>1 DEF JobInv
<1>2. CASE complete_all
  BY <1>2, LoginsAssumption DEF complete_all, ExpiredIdentityClaims, Completed, JobInv
<1>3. ASSUME NEW todo \in SUBSET job.todo, job' = Done(todo)
      PROVE  JobInv'
  <2>1. None \notin job.before
    BY LoginsAssumption DEF JobType
  <2> QED
    BY <1>3, <2>1 DEF Done, NoJob, JobInv, JobType
<1>4. CASE complete_next
  <2>1. PICK x \in job.todo :
          job' = IF x \in expired /\ partial[x]
                 THEN [job EXCEPT !.pc = "write", !.todo = @ \ {x}, !.claim = x]
                 ELSE Done(job.todo \ {x})
    BY <1>4 DEF complete_next
  <2>2. CASE job' = [job EXCEPT !.pc = "write", !.todo = @ \ {x}, !.claim = x]
    BY <2>2 DEF JobInv, JobType
  <2>3. CASE job' = Done(job.todo \ {x})
    BY <1>3, <2>3
  <2> QED
    BY <2>1, <2>2, <2>3
<1>5. CASE complete_write
  BY <1>5 DEF complete_write, JobInv, JobType
<1>6. CASE complete_fail
  BY <1>6 DEF complete_fail, NoJob, JobInv
<1>7. CASE complete_erase
  BY <1>3, <1>7 DEF complete_erase
<1>8. ASSUME NEW w \in Workers, Serve(w)
      PROVE  UNCHANGED job
  BY <1>8 DEF Serve, Initiate, Create, WriteIdentity, FailIdentity, Leave
<1>9. ASSUME NEW w \in Workers, NEW b \in Browsers, NEW s \in DOMAIN logins,
             NEW who \in Claimants, result(w, b, s, who)
      PROVE  UNCHANGED job
  BY <1>9 DEF result, Restarts, Mismatched, Accepted
<1>10. ASSUME \/ \E b \in Browsers :
                   (\E link \in Links : index(b, link)) \/ start(b) \/ SessionEnds(b)
              \/ \E s \in DOMAIN logins : StashEnds(s)
              \/ \E x \in Xids : Expire(x) \/ Agency(x)
              \/ UNCHANGED vars
       PROVE  UNCHANGED job
  BY <1>10 DEF index, start, SessionEnds, StashEnds, Expire, Agency, PATCH_resolved,
         DELETE_claim, DELETE_fail, vars
<1> QED
  BY <1>1, <1>2, <1>4, <1>5, <1>6, <1>7, <1>8, <1>9, <1>10 DEF Next, Job

(* Only the job replaces a completed document, and then one of a claim     *)
(* that was not complete when it listed its claims; the agency deletes it. *)
LEMMA CompletedStays ==
  ASSUME TypeOK, JobInv, [Next]_vars, NEW x \in Completed, completed[x] = 2, completed'[x] = 1
  PROVE  x \notin job.before
<1> USE TypeParts
<1>1. x \in Xids /\ completed \in [Xids -> 0 .. 2]
  BY DEF Completed, ClaimType
<1>2. CASE complete_write \/ complete_fail
  <2>1. completed' \in {completed, [completed EXCEPT ![job.claim] = 1]}
    BY <1>2 DEF complete_write, complete_fail
  <2>2. x = job.claim
    BY <1>1, <2>1
  <2> QED
    BY <2>2 DEF JobInv
<1>3. CASE UNCHANGED completed
  BY <1>3
<1>4. ASSUME NEW w \in Workers, WriteIdentity(w) \/ FailIdentity(w)
      PROVE  FALSE
  <2>1. completed' \in {completed, [completed EXCEPT ![work[w].target] = 2]}
    BY <1>4 DEF WriteIdentity, FailIdentity
  <2> QED
    BY <1>1, <2>1
<1>5. ASSUME NEW w \in Workers, Initiate(w) \/ Create(w) \/ Leave(w)
      PROVE  UNCHANGED completed
  BY <1>5 DEF Initiate, Create, Leave, claimVars
<1>6. ASSUME NEW w \in Workers, NEW b \in Browsers, NEW s \in DOMAIN logins,
             NEW who \in Claimants, result(w, b, s, who)
      PROVE  UNCHANGED completed
  BY <1>6 DEF result, Restarts, Mismatched, Accepted, claimVars
<1>7. ASSUME \/ \E b \in Browsers :
                  (\E link \in Links : index(b, link)) \/ start(b) \/ SessionEnds(b)
             \/ \E s \in DOMAIN logins : StashEnds(s)
             \/ \E y \in Xids : Expire(y)
             \/ complete_all \/ complete_next \/ complete_erase
             \/ UNCHANGED vars
      PROVE  UNCHANGED completed
  BY <1>7 DEF index, start, SessionEnds, StashEnds, Expire, complete_all, complete_next,
         complete_erase, vars, claimVars
<1>8. ASSUME NEW y \in Xids, Agency(y)
      PROVE  FALSE
  <2>1. completed' \in {completed, [completed EXCEPT ![y] = 0]}
    BY <1>8 DEF Agency, PATCH_resolved, DELETE_claim, DELETE_fail
  <2> QED
    BY <1>1, <2>1
<1> QED
  BY <1>2, <1>3, <1>4, <1>5, <1>6, <1>7, <1>8 DEF Next, Serve, Job

(* No step replaces a verified identity that the agency has, unless it     *)
(* came after the job had listed the claims it completes.                  *)
THEOREM VerifiedAlwaysStays == Spec => VerifiedStays
<1>1. Init => TypeOK /\ JobInv
  BY InitType, LoginsAssumption DEF Init, JobInv, NoJob
<1>2. TypeOK /\ JobInv /\ [Next]_vars => (TypeOK /\ JobInv)'
  BY NextType, JobStep
<1>3. TypeOK /\ JobInv /\ [Next]_vars =>
        [\A x \in Completed : completed[x] = 2 /\ completed'[x] = 1 => x \notin job.before]_vars
  BY CompletedStays
<1> QED
  BY <1>1, <1>2, <1>3, PTL DEF Spec, VerifiedStays
-----------------------------------------------------------------------------
(* A session is of its login. *)

\* A session fits its login as long as that is not answered.
Fits(keys) ==
  /\ keys.authenticated => keys.state # 0
  /\ keys.state # 0 =>
       /\ keys.IAL # 0
       /\ logins[keys.state] # Spent =>
            /\ ~ keys.refused => /\ keys.swa = logins[keys.state].swa
                                 /\ keys.IAL = logins[keys.state].IAL
                                 /\ keys.swa_xid = logins[keys.state].swa_xid
            /\ keys.authenticated => keys.IAL = 2

\* Who is logged in, as SessionIsOfItsLogin has it.
OfItsLogin(keys) ==
  LET me == keys.whoami IN
  me # None /\ me.asked # None =>
    /\ me.swa = me.asked.swa
    /\ ~ me.jar => me.claim = me.asked.swa_xid
    /\ keys.authenticated /\ me.IAL = 2 => me.asked.IAL = 2

\* A request has the session of the login it answers, which is spent.
Answers(r) ==
  /\ logins[r.keys.state] = Spent
  /\ r.keys.IAL # 0
  /\ r.keys.authenticated => r.keys.IAL = 2
  /\ ~ r.keys.refused => r.asked = [swa |-> r.keys.swa, IAL |-> r.keys.IAL,
                                    swa_xid |-> r.keys.swa_xid]
  /\ r.pc \in {"write", "leave"} => r.claim = r.swa_xid

LoginInv ==
  /\ \A s \in DOMAIN logins : logins[s].stashed => logins[s].IAL # 0
  /\ \A b \in Browsers : session[b] # None => Fits(session[b]) /\ OfItsLogin(session[b])
  /\ \A w \in Workers : work[w] # None => Answers(work[w])

\* A login keeps its parameters until it is spent, and stays spent.
Kept(s) ==
  /\ logins[s] = Spent => logins'[s] = Spent
  /\ logins'[s] # Spent =>
       /\ logins'[s].swa = logins[s].swa /\ logins'[s].IAL = logins[s].IAL
       /\ logins'[s].swa_xid = logins[s].swa_xid
  /\ logins'[s].stashed => logins[s].stashed /\ logins'[s].IAL = logins[s].IAL

LEMMA LoginsBegin ==
  ASSUME SessionType, NEW b \in Browsers, NEW keys \in Session, NEW before \in Seq(Login),
         Len(before) = Len(logins), NEW ial \in 0 .. 2, ial # 0,
         NEW swa \in Agencies \cup {None},
         NEW param \in Xids \cup {None}, NEW skip,
         Begins(b, keys, before, ial, swa, param, skip)
  PROVE  /\ DOMAIN logins \subseteq DOMAIN logins'
         /\ \A s \in DOMAIN logins : logins'[s] = before[s]
         /\ \A s \in DOMAIN logins' : s \notin DOMAIN logins => logins'[s].IAL # 0
<1>1. \/ logins' = before
      \/ \E login \in Login : logins' = Append(before, login) /\ login.IAL = ial
  BY BeginsFacts DEF Began
<1>2. DOMAIN logins = 1 .. Len(before) /\ Len(before) \in Nat /\ DOMAIN before = DOMAIN logins
  BY LoginFacts
<1>3. CASE logins' = before
  BY <1>2, <1>3
<1>4. ASSUME NEW login \in Login, logins' = Append(before, login), login.IAL = ial
      PROVE  /\ DOMAIN logins' = 1 .. Len(before) + 1 /\ logins'[Len(before) + 1].IAL # 0
             /\ \A s \in 1 .. Len(before) : logins'[s] = before[s]
  BY <1>2, <1>4
<1> QED
  BY <1>1, <1>2, <1>3, <1>4

LEMMA LoginsStay ==
  ASSUME TypeOK, LoginInv, [Next]_vars
  PROVE  /\ \A s \in DOMAIN logins : s \in DOMAIN logins' /\ Kept(s)
         /\ \A s \in DOMAIN logins' : s \notin DOMAIN logins => logins'[s].IAL # 0
<1> USE TypeParts
<1> DEFINE Goal == /\ \A s \in DOMAIN logins : s \in DOMAIN logins' /\ Kept(s)
                   /\ \A s \in DOMAIN logins' : s \notin DOMAIN logins => logins'[s].IAL # 0
<1>1. CASE UNCHANGED logins
  BY <1>1 DEF Kept
<1>2. ASSUME NEW s \in DOMAIN logins
      PROVE  /\ Answered(s) \in Seq(Login) /\ Len(Answered(s)) = Len(logins)
             /\ DOMAIN Answered(s) = DOMAIN logins
             /\ \A t \in DOMAIN logins : logins'[t] = Answered(s)[t] => Kept(t)
  <2>1. \A t \in DOMAIN logins : Answered(s)[t] = Spent \/ Answered(s)[t] = logins[t]
    BY AnsweredFacts
  <2>2. Spent.stashed = FALSE
    BY DEF Spent
  <2> QED
    BY <2>1, <2>2, AnsweredFacts DEF Kept, Answered
<1>3. ASSUME NEW b \in Browsers, NEW link \in Links, index(b, link)
      PROVE  Goal
  <2>1. /\ link.ial \in 0 .. 2 /\ link.ial # 0
        /\ link.swa \in Agencies \cup {None} /\ link.swa_xid \in Xids \cup {None}
        /\ logins \in Seq(Login) /\ Keys(b) \in Session
        /\ Begins(b, Keys(b), logins, link.ial, link.swa, link.swa_xid, link.skip)
    BY <1>3, LoginsAssumption, KeysType DEF index, SessionType
  <2>2. /\ DOMAIN logins \subseteq DOMAIN logins'
        /\ \A s \in DOMAIN logins : logins'[s] = logins[s]
        /\ \A s \in DOMAIN logins' : s \notin DOMAIN logins => logins'[s].IAL # 0
    BY <2>1, LoginsBegin
  <2> QED
    BY <2>2 DEF Kept
<1>4. ASSUME NEW w \in Workers, NEW b \in Browsers, NEW s \in DOMAIN logins,
             NEW who \in Claimants, result(w, b, s, who)
      PROVE  Goal
  <2>1. CASE Restarts(b, s)
    <3>1. PICK ial \in 0 .. 2, swa \in Agencies \cup {None}, param \in Xids \cup {None} :
            /\ Begins(b, Keys(b), Answered(s), ial, swa, param, FALSE)
            /\ ial = 1 \/ (logins[s].stashed /\ ial = logins[s].IAL)
      BY <2>1, RestartsBegins
    <3>2. ial # 0 /\ Keys(b) \in Session
      BY <3>1, KeysType DEF LoginInv
    <3>3. /\ DOMAIN logins \subseteq DOMAIN logins'
          /\ \A t \in DOMAIN logins : logins'[t] = Answered(s)[t]
          /\ \A t \in DOMAIN logins' : t \notin DOMAIN logins => logins'[t].IAL # 0
      BY <1>2, <3>1, <3>2, LoginsBegin
    <3> QED
      BY <1>2, <3>3
  <2>2. CASE Mismatched(b, s) \/ Accepted(w, b, s, who)
    <3>1. logins' = Answered(s)
      BY <2>2 DEF Mismatched, Accepted
    <3> QED
      BY <1>2, <3>1
  <2> QED
    BY <1>4, <2>1, <2>2 DEF result
<1>5. ASSUME NEW b \in Browsers, SessionEnds(b)
      PROVE  Goal
  <2>1. ASSUME NEW s \in DOMAIN logins
        PROVE  logins'[s] \in {logins[s], [logins[s] EXCEPT !.session = None]}
               /\ (logins'[s] # logins[s] => logins[s].session = b)
    BY <1>5 DEF SessionEnds
  <2>2. DOMAIN logins' = DOMAIN logins
    BY <1>5 DEF SessionEnds
  <2>3. ASSUME NEW s \in DOMAIN logins
        PROVE  Kept(s)
    <3>1. logins[s] \in Login
      BY LoginFacts
    <3>2. CASE logins'[s] = logins[s]
      BY <3>2 DEF Kept
    <3>3. CASE logins[s].session = b /\ logins'[s] = [logins[s] EXCEPT !.session = None]
      <4>1. logins[s] # Spent
        BY <3>3, LoginsAssumption DEF Spent
      <4> QED
        BY <3>1, <3>3, <4>1 DEF Kept, Login
    <3> QED
      BY <2>1, <3>2, <3>3
  <2> QED
    BY <2>2, <2>3
<1>6. ASSUME NEW s \in DOMAIN logins, StashEnds(s)
      PROVE  Goal
  <2>1. /\ logins' = [logins EXCEPT ![s] = [logins[s] EXCEPT !.stashed = FALSE]]
        /\ logins[s] \in Login /\ logins[s] # Spent
    BY <1>6, LoginFacts DEF StashEnds, Spent
  <2>2. DOMAIN logins' = DOMAIN logins
    BY <2>1
  <2>3. ASSUME NEW t \in DOMAIN logins
        PROVE  Kept(t)
    BY <2>1 DEF Kept, Login
  <2> QED
    BY <2>2, <2>3
<1>7. ASSUME NEW w \in Workers, Leave(w)
      PROVE  Goal
  <2> DEFINE c == work[w].browser
             named == [work[w].keys EXCEPT !.whoami = whoami(w)]
  <2>1. At(w, "leave") /\ work[w].keys \in Session /\ c \in Browsers
    BY <1>7, WorkFacts DEF Leave, At
  <2>2. named \in Session
    BY <2>1, WhoamiType DEF Session
  <2> HIDE DEF named, c
  <2>3. CASE Begins(c, named, logins, 2, None, None, FALSE)
    <3>1. 2 \in 0 .. 2 /\ 2 # 0 /\ None \in Agencies \cup {None} /\ None \in Xids \cup {None}
          /\ logins \in Seq(Login) /\ Len(logins) = Len(logins)
      BY DEF SessionType
    <3>2. /\ DOMAIN logins \subseteq DOMAIN logins'
          /\ \A s \in DOMAIN logins : logins'[s] = logins[s]
          /\ \A s \in DOMAIN logins' : s \notin DOMAIN logins => logins'[s].IAL # 0
      BY <2>1, <2>2, <2>3, <3>1, LoginsBegin
    <3> QED
      BY <3>2 DEF Kept
  <2> QED
    BY <1>1, <1>7, <2>3 DEF Leave, loginVars, named, c
<1>8. ASSUME NEW w \in Workers, Initiate(w) \/ Create(w) \/ WriteIdentity(w) \/ FailIdentity(w)
      PROVE  UNCHANGED logins
  BY <1>8 DEF Initiate, Create, WriteIdentity, FailIdentity, loginVars
<1>9. ASSUME \/ Job
             \/ \E x \in Xids : Expire(x) \/ Agency(x)
             \/ \E b \in Browsers : start(b)
             \/ UNCHANGED vars
       PROVE  UNCHANGED logins
  BY <1>9 DEF Job, complete_all, complete_next, complete_write, complete_fail, complete_erase,
         Expire, Agency, PATCH_resolved, DELETE_claim, DELETE_fail, start, vars, loginVars
<1> QED
  BY <1>1, <1>3, <1>4, <1>5, <1>6, <1>7, <1>8, <1>9 DEF Next, Serve

LEMMA FitsStays ==
  ASSUME TypeOK, LoginInv, [Next]_vars, NEW keys \in Session, Fits(keys),
         keys.state # 0 => keys.state <= Len(logins)
  PROVE  Fits(keys)'
<1>1. CASE keys.state = 0
  BY <1>1 DEF Fits
<1>2. CASE keys.state # 0
  <2>1. keys.state \in DOMAIN logins
    BY <1>2, TypeParts, LoginFacts DEF Session
  <2>2. Kept(keys.state)
    BY <2>1, LoginsStay
  <2> QED
    BY <1>2, <2>2 DEF Fits, Kept
<1> QED
  BY <1>1, <1>2

(* A login that begins leaves a session that fits it, if the one it began  *)
(* with did; one who is logged in only begins a login at IAL 2.            *)
LEMMA BeginsFits ==
  ASSUME TypeOK, LoginInv, [Next]_vars,
         NEW b \in Browsers, NEW keys \in Session, Fits(keys), OfItsLogin(keys),
         keys.state # 0 => keys.state <= Len(logins),
         NEW before \in Seq(Login), Len(before) = Len(logins),
         NEW ial \in 0 .. 2, ial # 0, keys.authenticated => ial = 2,
         NEW swa \in Agencies \cup {None}, NEW param \in Xids \cup {None}, NEW skip,
         Begins(b, keys, before, ial, swa, param, skip)
  PROVE  \A c \in Browsers : session'[c] # None =>
           Fits(session[c])' /\ OfItsLogin(session[c])'
<1>1. SessionType /\ Len(before) \in Nat
  BY TypeParts, LoginFacts
<1>2. ASSUME NEW c \in Browsers, session[c] # None
      PROVE  Fits(session[c]) /\ OfItsLogin(session[c]) /\ session[c] \in Session
             /\ (session[c].state # 0 => session[c].state <= Len(logins))
  BY <1>1, <1>2 DEF LoginInv, SessionType
<1>3. ASSUME NEW c \in Browsers, session'[c] # None, session'[c] \in {session[c], keys}
      PROVE  Fits(session[c])' /\ OfItsLogin(session[c])'
  <2>1. /\ session'[c] \in Session /\ Fits(session'[c]) /\ OfItsLogin(session'[c])
        /\ session'[c].state # 0 => session'[c].state <= Len(logins)
    BY <1>2, <1>3
  <2>2. ASSUME NEW k \in Session, k = session'[c]
        PROVE  Fits(k)' /\ OfItsLogin(k)'
    BY <2>1, <2>2, FitsStays DEF OfItsLogin
  <2> QED
    BY <2>1, <2>2 DEF Fits, OfItsLogin
<1>4. ASSUME NEW c \in Browsers, session'[c] # None, c # b
      PROVE  Fits(session[c])' /\ OfItsLogin(session[c])'
  <2>1. session'[c] = session[c]
    BY <1>1, <1>4, BeginsFacts DEF Began
  <2> QED
    BY <1>3, <1>4, <2>1
<1>5. ASSUME session'[b].whoami = keys.whoami, session'[b].authenticated = keys.authenticated
      PROVE  OfItsLogin(session[b])'
  BY <1>5 DEF OfItsLogin
<1>6. ASSUME session'[b].whoami = keys.whoami,
             session'[b].authenticated = keys.authenticated,
             session'[b].state = keys.state, session'[b].refused,
             session'[b].IAL = ial, ial = 1
      PROVE  Fits(session[b])' /\ OfItsLogin(session[b])'
  <2>1. ~ keys.authenticated
    BY <1>6
  <2> QED
    BY <1>5, <1>6, <2>1 DEF Fits
<1>7. ASSUME session'[b].whoami = keys.whoami,
             session'[b].authenticated = keys.authenticated,
             session'[b].state = Len(before) + 1, session'[b].IAL = ial,
             NEW login \in Login, logins' = Append(before, login), login.IAL = ial,
             login.swa = session'[b].swa, login.swa_xid = session'[b].swa_xid
      PROVE  Fits(session[b])' /\ OfItsLogin(session[b])'
  <2> DEFINE n == Len(before) + 1
  <2>1. logins'[n] = login /\ n # 0
    BY <1>1, <1>7
  <2> HIDE DEF n
  <2>2. session'[b].state = n
    BY <1>7 DEF n
  <2>3. Fits(session[b])'
    BY <1>7, <2>1, <2>2 DEF Fits
  <2> QED
    BY <1>5, <1>7, <2>3
<1>8. \/ session'[b] \in {session[b], keys}
      \/ /\ session'[b].whoami = keys.whoami
         /\ session'[b].authenticated = keys.authenticated
         /\ session'[b].state = keys.state /\ session'[b].refused
         /\ session'[b].IAL = ial /\ ial = 1
      \/ /\ session'[b].whoami = keys.whoami
         /\ session'[b].authenticated = keys.authenticated
         /\ session'[b].state = Len(before) + 1 /\ session'[b].IAL = ial
         /\ \E login \in Login :
              /\ logins' = Append(before, login) /\ login.IAL = ial
              /\ login.swa = session'[b].swa /\ login.swa_xid = session'[b].swa_xid
  <2>1. Began(b, keys, before, ial)
    BY <1>1, BeginsFacts
  <2> QED
    BY <2>1 DEF Began
<1>9. session'[b] # None => Fits(session[b])' /\ OfItsLogin(session[b])'
  BY <1>3, <1>6, <1>7, <1>8
<1> QED
  BY <1>4, <1>9

LEMMA SessionStep ==
  ASSUME TypeOK, LoginInv, [Next]_vars
  PROVE  \A c \in Browsers : session'[c] # None =>
           Fits(session[c])' /\ OfItsLogin(session[c])'
<1> USE TypeParts
<1> DEFINE Goal == \A c \in Browsers : session'[c] # None =>
                     Fits(session[c])' /\ OfItsLogin(session[c])'
<1>1. ASSUME NEW c \in Browsers, NEW k \in Session, k = session'[c],
             Fits(k), OfItsLogin(k), k.state # 0 => k.state <= Len(logins)
      PROVE  Fits(session[c])' /\ OfItsLogin(session[c])'
  <2>1. Fits(k)' /\ OfItsLogin(k)'
    BY <1>1, FitsStays DEF OfItsLogin
  <2> QED
    BY <1>1, <2>1 DEF Fits, OfItsLogin
<1>2. ASSUME NEW c \in Browsers, session[c] # None
      PROVE  Fits(session[c]) /\ OfItsLogin(session[c]) /\ session[c] \in Session
             /\ (session[c].state # 0 => session[c].state <= Len(logins))
  BY <1>2 DEF LoginInv, SessionType
<1>3. ASSUME NEW c \in Browsers
      PROVE  Fits(Keys(c)) /\ OfItsLogin(Keys(c)) /\ Keys(c) \in Session
             /\ (Keys(c).state # 0 => Keys(c).state <= Len(logins))
  <2>1. CASE session[c] = None
    BY <2>1, KeysType DEF Keys, NoKeys, Fits, OfItsLogin
  <2>2. CASE session[c] # None
    BY <1>2, <2>2 DEF Keys
  <2> QED
    BY <2>1, <2>2
<1>4. CASE UNCHANGED session
  BY <1>1, <1>2, <1>4
<1>5. ASSUME NEW b \in Browsers, NEW link \in Links, index(b, link)
      PROVE  Goal
  <2>1. /\ link.ial \in 0 .. 2 /\ link.ial # 0 /\ (Keys(b).authenticated => link.ial = 2)
        /\ link.swa \in Agencies \cup {None} /\ link.swa_xid \in Xids \cup {None}
        /\ logins \in Seq(Login)
        /\ Begins(b, Keys(b), logins, link.ial, link.swa, link.swa_xid, link.skip)
    BY <1>5, LoginsAssumption DEF index, MayBegin, SessionType
  <2> QED
    BY <1>3, <2>1, BeginsFits
<1>6. ASSUME NEW b \in Browsers, SessionEnds(b)
      PROVE  Goal
  <2>1. \A c \in Browsers : session'[c] # None => session'[c] = session[c]
    BY <1>6 DEF SessionEnds, SessionType
  <2> QED
    BY <1>1, <1>2, <2>1
<1>7. ASSUME NEW w \in Workers, NEW b \in Browsers, NEW s \in DOMAIN logins,
             NEW who \in Claimants, result(w, b, s, who)
      PROVE  Goal
  <2>1. CASE Restarts(b, s)
    <3>1. PICK ial \in 0 .. 2, swa \in Agencies \cup {None}, param \in Xids \cup {None} :
            /\ Begins(b, Keys(b), Answered(s), ial, swa, param, FALSE)
            /\ ial = 1 \/ (logins[s].stashed /\ ial = logins[s].IAL)
      BY <2>1, RestartsBegins
    <3>2. ial # 0
      BY <3>1 DEF LoginInv
    <3>3. ~ Keys(b).authenticated
      <4>1. Keys(b).state = 0
        <5>1. Keys(b).state # 0 => Resumed(b, s) = session[b] /\ session[b] # None
          BY DEF Resumed, Keys, NoKeys
        <5> QED
          BY <2>1, <5>1 DEF Restarts
      <4> QED
        BY <1>3, <4>1 DEF Fits
    <3> QED
      BY <1>3, <3>1, <3>2, <3>3, AnsweredFacts, BeginsFits
  <2>2. CASE Mismatched(b, s)
    <3>1. session' = [session EXCEPT ![b] = Resumed(b, s)] /\ Resumed(b, s) # None
      BY <2>2 DEF Mismatched
    <3>2. PICK d \in Browsers : session[d] # None /\ Resumed(b, s) = session[d]
      BY <3>1, ResumedFacts
    <3>3. \A c \in Browsers : session'[c] \in {session[c], session[d]}
      BY <3>1, <3>2 DEF SessionType
    <3> QED
      BY <1>1, <1>2, <3>2, <3>3
  <2>3. CASE Accepted(w, b, s, who)
    BY <1>4, <2>3 DEF Accepted
  <2> QED
    BY <1>7, <2>1, <2>2, <2>3 DEF result
<1>8. ASSUME NEW w \in Workers, Leave(w)
      PROVE  Goal
  <2> DEFINE r == work[w]
             b == work[w].browser
             me == whoami(w)
             named == [work[w].keys EXCEPT !.whoami = whoami(w)]
             opened == [named EXCEPT !.authenticated = TRUE]
  <2>1. /\ At(w, "leave") /\ r.keys \in Session /\ b \in Browsers /\ Answers(r)
        /\ r.keys.state \in 1 .. Len(logins) /\ me \in Whoami /\ r \in Work
    BY <1>8, WorkFacts, WhoamiType DEF Leave, At, LoginInv
  <2>2. /\ named \in Session /\ named.whoami = me /\ named.state = r.keys.state
        /\ named.IAL = r.keys.IAL /\ named.authenticated = r.keys.authenticated
        /\ opened \in Session /\ opened.whoami = me /\ opened.state = r.keys.state
        /\ opened.IAL = r.keys.IAL
    BY <2>1 DEF Session
  <2>3. r.keys.state # 0 /\ r.keys.state <= Len(logins) /\ logins[r.keys.state] = Spent
        /\ r.keys.IAL # 0
    BY <2>1, LoginFacts DEF Answers
  <2>4. me.asked # None =>
          /\ me.swa = me.asked.swa
          /\ ~ me.jar => me.claim = me.asked.swa_xid
          /\ me.asked.IAL = r.keys.IAL
    <3>1. ASSUME me.asked # None
          PROVE  /\ ~ r.keys.refused /\ me.asked = r.asked
                 /\ me.swa = r.keys.swa /\ me.claim = r.claim
                 /\ (~ me.jar => r.swa_xid = r.keys.swa_xid)
      BY <3>1 DEF whoami
    <3>2. r.claim = r.swa_xid
      BY <2>1 DEF At, Answers
    <3> QED
      BY <2>1, <3>1, <3>2 DEF Answers
  <2>5. Fits(named) /\ Fits(opened)
    BY <2>2, <2>3 DEF Fits
  <2>6. OfItsLogin(named)
    BY <2>1, <2>2, <2>4 DEF OfItsLogin, Answers
  <2>7. ~ StepsUp(w) => OfItsLogin(opened)
    <3>1. ASSUME ~ StepsUp(w), me.IAL = 2
          PROVE  r.keys.IAL = 2
      BY <2>1, <2>3, <3>1 DEF StepsUp, whoami, Session
    <3> QED
      BY <2>2, <2>4, <3>1 DEF OfItsLogin
  <2> HIDE DEF named, opened, b, r, me
  <2>8. CASE Begins(b, named, logins, 2, None, None, FALSE)
    <3>1. 2 \in 0 .. 2 /\ 2 # 0 /\ None \in Agencies \cup {None} /\ None \in Xids \cup {None}
          /\ logins \in Seq(Login) /\ Len(logins) = Len(logins)
      BY DEF SessionType
    <3> QED
      BY <2>1, <2>2, <2>3, <2>5, <2>6, <2>8, <3>1, BeginsFits
  <2>9. ASSUME NEW k \in Session, k \in {named, opened}, Fits(k), OfItsLogin(k),
               k.state = r.keys.state, session' = [session EXCEPT ![b] = k]
        PROVE  Goal
    <3>1. \A c \in Browsers : session'[c] \in {session[c], k}
      BY <2>1, <2>9 DEF SessionType
    <3> QED
      BY <1>1, <1>2, <2>3, <2>9, <3>1
  <2>10. CASE session' = [session EXCEPT ![b] = named]
    BY <2>2, <2>5, <2>6, <2>9, <2>10
  <2>11. CASE ~ StepsUp(w) /\ session' = [session EXCEPT ![b] = opened]
    BY <2>2, <2>5, <2>7, <2>9, <2>11
  <2> QED
    BY <1>4, <1>8, <2>8, <2>10, <2>11 DEF Leave, loginVars, named, opened, b
<1>9. ASSUME NEW w \in Workers, Initiate(w) \/ Create(w) \/ WriteIdentity(w) \/ FailIdentity(w)
      PROVE  UNCHANGED session
  BY <1>9 DEF Initiate, Create, WriteIdentity, FailIdentity, loginVars
<1>10. ASSUME \/ Job
              \/ \E x \in Xids : Expire(x) \/ Agency(x)
              \/ \E b \in Browsers : start(b)
              \/ \E s \in DOMAIN logins : StashEnds(s)
              \/ UNCHANGED vars
       PROVE  UNCHANGED session
  BY <1>10 DEF Job, complete_all, complete_next, complete_write, complete_fail, complete_erase,
         Expire, Agency, PATCH_resolved, DELETE_claim, DELETE_fail, start, StashEnds,
         vars, loginVars
<1> QED
  BY <1>4, <1>5, <1>6, <1>7, <1>8, <1>9, <1>10 DEF Next, Serve

LEMMA AnswersStep ==
  ASSUME TypeOK, LoginInv, [Next]_vars, NEW w \in Workers, work'[w] # None
  PROVE  Answers(work[w])'
<1> USE TypeParts
<1>1. ASSUME NEW b \in Browsers, NEW s \in DOMAIN logins, NEW who \in Claimants,
             logins[s] # Spent, Accepted(w, b, s, who)
      PROVE  Answers(work[w])'
  <2> DEFINE keys == Resumed(b, s)
  <2>1. /\ keys # None /\ keys.state = s /\ logins' = Answered(s)
        /\ work'[w].pc = "initiate" /\ work'[w].keys = keys
        /\ work'[w].asked = [swa |-> logins[s].swa, IAL |-> logins[s].IAL,
                             swa_xid |-> logins[s].swa_xid]
    BY <1>1 DEF Accepted, StateMatches, WorkType
  <2>2. Fits(keys) /\ s # 0
    BY <2>1, ResumedFacts, LoginFacts DEF LoginInv
  <2>3. Answered(s)[s] = Spent
    BY AnsweredFacts
  <2> HIDE DEF keys
  <2> QED
    BY <1>1, <2>1, <2>2, <2>3 DEF Answers, Fits
<1>2. ASSUME work[w] # None, Same(work'[w], work[w]),
             work'[w] = work[w] \/ work'[w].pc = "create" \/ Found(w) \/ Wrote(w)
      PROVE  Answers(work[w])'
  <2>1. Answers(work[w]) /\ work[w].keys.state \in DOMAIN logins
    BY <1>2, WorkFacts, LoginFacts DEF LoginInv
  <2>2. logins'[work[w].keys.state] = Spent
    BY <2>1, LoginsStay DEF Answers, Kept
  <2>3. work'[w].pc \in {"write", "leave"} => work'[w].claim = work'[w].swa_xid
    BY <1>2, <2>1 DEF Answers, Same, Found, Wrote
  <2> QED
    BY <1>2, <2>1, <2>2, <2>3 DEF Answers, Same
<1> QED
  BY <1>1, <1>2, RequestFrom

LEMMA LoginStep == TypeOK /\ LoginInv /\ [Next]_vars => LoginInv'
<1> SUFFICES ASSUME TypeOK, LoginInv, [Next]_vars PROVE LoginInv'
  OBVIOUS
<1>1. \A s \in DOMAIN logins' : logins'[s].stashed => logins'[s].IAL # 0
  BY LoginsStay DEF LoginInv, Kept
<1> QED
  BY <1>1, SessionStep, AnswersStep DEF LoginInv

(* A session belongs to the login whose answer opened it, for the agency   *)
(* and the swa_xid of that login, and one that claims IAL 2 has asked for  *)
(* the attributes of IAL 2: whichever browser the answer arrives in, and   *)
(* whatever other logins were begun, answered or turned down meanwhile.    *)
THEOREM SessionIsAlwaysOfItsLogin == Spec => []SessionIsOfItsLogin
<1>1. Init => TypeOK /\ LoginInv
  BY InitType DEF Init, LoginInv
<1>2. TypeOK /\ LoginInv /\ [Next]_vars => (TypeOK /\ LoginInv)'
  BY NextType, LoginStep
<1>3. LoginInv => SessionIsOfItsLogin
  BY DEF LoginInv, SessionIsOfItsLogin, LoggedIn, Sessions, OfItsLogin
<1> QED
  BY <1>1, <1>2, <1>3, PTL DEF Spec


=============================================================================
